CONSTANTS
    p1 = p1
    p2 = p2
    b1 = b1
    NoFrame = NoFrame
    Publishers = {p1, p2}
    Browsers = {b1}
    Capacity <- MCCapacity
    StaleAfter <- MCStaleAfter
    MaxSilence <- MCMaxSilence
    MaxFrames = 4
    MaxTime = 2
SPECIFICATION Spec
INVARIANT ConvergesUnlessRaced
INVARIANT NoResurrection
\* Frames and time are bounded, so a run ends.
CHECK_DEADLOCK FALSE
