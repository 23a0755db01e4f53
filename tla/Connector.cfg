SPECIFICATION FairSpec
CONSTANTS
  x1 = x1
  x2 = x2
  x3 = x3
  p1 = p1
  p2 = p2
  Channels <- ThreeChannels
  Dests <- TwoDests
  Cap = 3
INVARIANTS
  TypeOK
  SlotsExact
  ServedIsPermitted
  HandleReleases
PROPERTIES
  Implements
  TunnelsReleased
  HandleReturns
CHECK_DEADLOCK FALSE
