CONSTANTS
    p1 = p1
    p2 = p2
    p3 = p3
    small = small
    big = big
    NoPush = NoPush
    Pushes = {p1, p2, p3}
    Headless = {p3}
    Blobs <- MCBlobs
    Presigned <- MCPresigned
    Manifests <- MCManifests
    Gaps = TRUE
    Disconnects = TRUE
SPECIFICATION SafeSpec
SYMMETRY MCSymmetry
INVARIANT SlotHasTimer
INVARIANT CommitIsBacked
\* Every push is started once, so a run ends.
CHECK_DEADLOCK FALSE
