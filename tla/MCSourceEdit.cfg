SPECIFICATION Spec
CONSTANTS
  None = None
  Clients = {"a", "b"}
  Keys = {"size", "tint"}
  Vals = {"x", "y"}
  Start <- MCStart
  RailSets <- MCRailSets
  Guards = {"hash", "text"}
  SavesInGaps = FALSE
  MaxEdits = 2
  MaxSaves = 1
INVARIANTS TypeOK ShownIsWhatIsEdited
PROPERTIES LockedRailsAreSerial UnracedWriteIsOneEdit EditsAnswered
