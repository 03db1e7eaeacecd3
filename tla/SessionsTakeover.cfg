CONSTANTS
  MaxSessions = 2
  MaxOffset = 1
  MaxSeq = 0
  MaxEpoch = 4
  MinFiles = 0
  Clock = {0}
  Events = {"preempt", "drop"}
SPECIFICATION Spec
INVARIANTS
  OffsetsAreOwned
CHECK_DEADLOCK FALSE
