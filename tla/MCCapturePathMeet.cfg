CONSTANTS
  FrameLens <- MCFrameLens
  ExtLens <- MCExtLens
  Ipv4Addresses <- MCIpv4Addresses
  Ipv6Addresses <- MCIpv6Addresses
  FirstBytes <- MCFirstBytes
  SecondBytes <- MCSecondBytes
  LenFields <- MCLenFields
  LenMod = 100
  OverflowChecks = TRUE
  MaxDispatched = 2
SPECIFICATION Spec
INVARIANT MeetClaimsNothing
