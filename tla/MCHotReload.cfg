CONSTANTS
    index = index
    theme = theme
    b1 = b1
    b2 = b2
    loop = loop
    None = None
    Entry = index
    Imports = {}
    Browsers = {b1}
    Loop = loop
    QueueSize = 1
    MaxSaves = 2
    Reverts = FALSE
    Broken = {1}
SPECIFICATION Spec
INVARIANT VerdictUnlessRaced
PROPERTY BuildCatchesUp
PROPERTY BrowsersCatchUpUnlessMuted
\* Saves are bounded, so a run ends.
CHECK_DEADLOCK FALSE
