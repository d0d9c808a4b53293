SPECIFICATION RealtimeSpec
CONSTANTS
  Pages = {"c1", "c2"}
  Values = {"a", "b"}
  MaxOps = 2
  MaxCloses = 1
INVARIANT QuietPageShowsList
PROPERTY ReconnectHeals
CHECK_DEADLOCK FALSE
