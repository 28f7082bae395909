CONSTANTS
  SeqMod = 6
  Window = 2
  Ssrcs = {s1}
  SeqNums = {0, 2, 5}
  BatchSize = 3
  RecordCapacity = 2
  BatchQueueCapacity = 1
  MaxRecords = 3
  OverflowChecks = TRUE
  CsvMayFail = FALSE
  BatchWindow = 2
SPECIFICATION TimedSpec
INVARIANTS
  BatchWindowHolds
