CONSTANTS
    p1 = p1
    p2 = p2
    f1 = f1
    Absent = Absent
    Pushers = {p1, p2}
    Files = {f1}
    MaxVersion = 2
    MaxPushes = 3
    Reverts = FALSE
    Crashes = TRUE
SPECIFICATION CacheSpec
INVARIANT CacheHoldsAccepted
INVARIANT NothingStaleInTurn
INVARIANT ChangedIsComplete
\* Edits and pushes are bounded, so a run ends.
CHECK_DEADLOCK FALSE
