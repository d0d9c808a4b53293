CONSTANTS
    p1 = p1
    p2 = p2
    p3 = p3
    small = small
    big = big
    NoPush = NoPush
    Pushes = {p1, p2}
    Headless = {}
    Blobs <- MCBlobs
    Presigned <- MCPresigned
    Manifests <- MCManifests
    Gaps = FALSE
    Disconnects = FALSE
SPECIFICATION Spec
INVARIANT TypeOK
INVARIANT HubSettled
INVARIANT OwnTimerOnly
INVARIANT TakeoverNotAborted
PROPERTY NeverWedged
PROPERTY SingleFlight
\* Every push is started once, so a run ends.
CHECK_DEADLOCK FALSE
