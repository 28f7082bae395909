CONSTANTS
  Cores = {c1, c2}
  MaxPackets = 3
  SeqMod = 6
  Window = 1
  Ssrcs = {s1}
  SeqNums = {0, 1, 3}
  BatchSize = 2
  RecordCapacity = 1
  BatchQueueCapacity = 1
  OverflowChecks = TRUE
  CsvMayFail = TRUE
  PacketCapacity = 2
  PcapMayFail = TRUE
  WritesMayFail = TRUE
SPECIFICATION FairSpec
INVARIANTS
  TypeOK
  FinalReportAddsUp
  FramesAccounted
  NothingLeftBehind
  HandlePacketNeverWaits
PROPERTIES
  ShutdownUnlessNoPcap
