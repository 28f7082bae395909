CONSTANTS
  SeqMod = 6
  Window = 2
  Ssrcs = {s1}
  SeqNums <- MCSeqNums
  BatchSize = 2
  RecordCapacity = 2
  BatchQueueCapacity = 1
  MaxRecords = 3
  OverflowChecks = TRUE
  CsvMayFail = FALSE
SPECIFICATION Spec
PROPERTIES
  NothingDroppedOnShutdown
