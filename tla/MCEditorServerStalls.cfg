SPECIFICATION Spec
CONSTANTS
  None = None
  Unparsed = Unparsed
  Docs = {"prelude", "page"}
  Prelude = "prelude"
  ShardOf <- MCShardOf
  Drafts <- MCDrafts
  Macros = {"card"}
  Forms = {"f1", "f2"}
  Workers = 4
  MaxMessages = 4
  MaxSaves = 1
INVARIANT ReactorNeverStalled
CHECK_DEADLOCK FALSE
