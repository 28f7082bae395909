CONSTANTS
  busy = busy
  quiet = quiet
  Clients <- MCClients
  Traffic <- MCTraffic
  BinSize = 2
  SessionTimeout = 3
  InfluxCapacity = 2
  PayloadLines = 2
  Delay = 1
  Skew = 1
  MaxBatch = 2
  MaxTime = 6
SPECIFICATION FairSpec
INVARIANTS
  TypeOK
  PacketsConserved
  PointsUnique
  BinsHoldTheirPackets
  SplitNeedsSilence
  ExportInOrder
  StopFlushesAll
PROPERTIES
  EngineShutdownCompletes
