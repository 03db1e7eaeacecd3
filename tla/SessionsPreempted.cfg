CONSTANTS
  MaxSessions = 3
  MaxOffset = 1
  MaxSeq = 1
  MaxEpoch = 2
  MinFiles = 0
  Clock = {0}
  Events = {"preempt"}
SPECIFICATION Spec
INVARIANT OffsetsAreOwned
CHECK_DEADLOCK FALSE
