CONSTANTS
  down = down
  up = up
  both = both
  SeqMod = 6
  Ssrcs <- MCSsrcs
  Servers <- MCServers
  Index <- MCIndex
  Reach = 2
  TsMod = 10
  MinGap = 2
  MaxGap = 4
  Sizes <- MCSizes
  PerFrame = 2
  FrameTicks = 3
SPECIFICATION Spec
CHECK_DEADLOCK FALSE
INVARIANTS
  TypeOK
  LossIsGapsOpened
  PacketsCountedOnce
  MediaOfBin
  StreamsAddUp
  
