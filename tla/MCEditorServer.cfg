SPECIFICATION Spec
CONSTANTS
  None = None
  Unparsed = Unparsed
  Docs = {"prelude", "page"}
  Prelude = "prelude"
  ShardOf <- MCShardOf
  Drafts <- MCDrafts
  Macros = {"card"}
  Forms = {"f1", "f2"}
  Workers = 2
  MaxMessages = 4
  MaxSaves = 1
INVARIANTS DiagnosticsCurrent IndexCurrentUnlessCrowded ServedAsDefined
PROPERTIES DiagnosticsCatchUp
CHECK_DEADLOCK FALSE
