SPECIFICATION FairSpec
CONSTANTS
  f1 = f1
  f2 = f2
  f3 = f3
  Calls <- ThreeCalls
INVARIANTS
  TypeOK
  HoldersKeepStreams
  NoStreamLeak
  GaugeExact
PROPERTY CallsEnd
CHECK_DEADLOCK FALSE
