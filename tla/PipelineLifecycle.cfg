CONSTANTS
  Tasks = {t1}
  Appender = t1
  MaxOffset = 1
  Recovered = 0
  Batches <- OneOffsetBatches
  MaxSeq = 0
  MaxEpoch = 1
  Depth = 1
  StallAfter = 1
  Gzip = TRUE
  Events = {"age", "fence", "serial", "reject", "cancel", "close", "drop", "misuse"}
SPECIFICATION Spec
INVARIANTS
  TypeOK
  TripwireSilent
  StagedOffsetIsDurable
  HeldOnce
  StoppedStageIsReported
PROPERTY TerminalIsSticky
