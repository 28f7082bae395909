CONSTANTS
  FrameLens <- MCFrameLens
  ExtLens <- MCExtLens
  Ipv4Addresses <- MCIpv4Addresses
  Ipv6Addresses <- MCIpv6Addresses
  FirstBytes <- MCFirstBytes
  SecondBytes <- MCSecondBytes
  LenFields <- MCLenFields
  LenMod = 100
  OverflowChecks = TRUE
  MaxDispatched = 2
SPECIFICATION FairSpec
INVARIANTS
  TypeOK
  ReadsInsideFrame
  HeadersInOrder
  RtpAlwaysRecorded
  FirstByteDecides
  NoFrameCountedTwice
  ClientIsOtherEnd
PROPERTY
  CallReturns
