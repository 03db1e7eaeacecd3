CONSTANTS
  Tasks = {t1, t2}
  Appender = t1
  MaxOffset = 1
  Recovered = 0
  Batches <- OneOffsetBatches
  MaxSeq = 1
  MaxEpoch = 0
  Depth = 1
  StallAfter = 1
  Gzip = FALSE
  Events = {"age", "close"}
SPECIFICATION FairSpec
INVARIANTS
  HeldOnce
  FlushOkIsDurable
  StalledAppendCanBeRetried
PROPERTY CallsReturn
