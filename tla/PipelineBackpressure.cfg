CONSTANTS
  Tasks = {t1}
  Appender = t1
  MaxOffset = 2
  Recovered = 0
  Batches <- OneOffsetBatches
  MaxSeq = 1
  MaxEpoch = 1
  Depth = 1
  StallAfter = 2
  Gzip = FALSE
  Events = {"fence", "reject"}
SPECIFICATION FairSpec
INVARIANT PipelineInOrder
PROPERTIES
  RotatesAsQueue
  CallsReturn
