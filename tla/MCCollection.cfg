SPECIFICATION Spec
CONSTANTS
  Empty = Empty
  Garbled = Garbled
  None = None
  Pages = {"a", "b"}
  Conns = {1, 2, 3}
  First <- MCFirst
  Ids = {1, 2, 3, 4}
  Vals = {"x", "raw", "clean"}
  Typed = {"raw"}
  Sanitized <- MCSanitized
  Start <- MCStart
  MaxOps = 2
  MaxTroubles <- MCMaxTroubles
INVARIANTS LonePageShowsFile PagesAgree
PROPERTIES OpsAnswered
CHECK_DEADLOCK FALSE
