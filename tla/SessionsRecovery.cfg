CONSTANTS
  MaxSessions = 3
  MaxOffset = 2
  MaxSeq = 1
  MaxEpoch = 2
  MinFiles = 0
  Clock = {0}
  Events = {"crash", "reopen", "drop", "gc"}
SPECIFICATION Spec
INVARIANTS
  StreamTypeOK
  OffsetsAreOwned
  ResumeIsAccepted
  SerialsAreFresh
  ResumeCoversStaged
PROPERTY LoadedInOrder
CHECK_DEADLOCK FALSE
