CONSTANTS
  SeqMod = 6
  Window = 2
  Ssrcs = {s1, s2}
  SeqNums <- MCSeqNums
  BatchSize = 2
  RecordCapacity = 2
  BatchQueueCapacity = 2
  MaxRecords = 4
  OverflowChecks = TRUE
  CsvMayFail = TRUE
SPECIFICATION FairSpec
INVARIANTS
  TypeOK
  InboundAccounting
  RowsBatchedOnce
  QueueKeepsBatches
  SentinelUnambiguous
  DedupMatchesRows
PROPERTIES
  PendingHandedOver
  BothThreadsStop
