CONSTANTS
  Cores = {c1, c2}
  MaxPackets = 3
  SeqMod = 4
  Window = 1
  Ssrcs = {s1}
  SeqNums = {0, 2}
  BatchSize = 2
  RecordCapacity = 1
  BatchQueueCapacity = 1
  OverflowChecks = TRUE
  CsvMayFail = TRUE
  PacketCapacity = 1
  PcapMayFail = TRUE
  WritesMayFail = TRUE
SPECIFICATION FairSpec
PROPERTY ShutdownCompletes
