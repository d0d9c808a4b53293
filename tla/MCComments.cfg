SPECIFICATION Spec
CONSTANTS
  None = None
  Pills = {"p1", "p2"}
  Agents = {"a1"}
  Wires = {"w1"}
  Files = {"f1", "f2"}
  Inline = {"i1", "i2", "i3"}
  FileOf <- MCFileOf
  Starts = {{"i1", "i2"}}
  Loose = {"l1"}
  MaxRequests = 2
  MaxSaves = 1
INVARIANTS RepliesKept HistoryLinked
PROPERTIES DestroysOnlySettled RequestsAnswered
CHECK_DEADLOCK FALSE
