CONSTANTS
  MaxSessions = 2
  MaxOffset = 1
  MaxSeq = 0
  MaxEpoch = 5
  MinFiles = 1
  Clock = {0, 2}
  Events = {"crash", "reopen", "drop", "close", "gc", "openFails", "writeFails", "noudf"}
SPECIFICATION FairSpec
INVARIANTS
  OffsetsAreOwned
  ResumeIsAccepted
  SerialsAreFresh
PROPERTIES
  LoadedInOrder
  StagedIsLoaded
CHECK_DEADLOCK FALSE
