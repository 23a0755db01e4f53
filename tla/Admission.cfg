SPECIFICATION FairSpec
CONSTANTS
  c1 = c1
  c2 = c2
  c3 = c3
  c4 = c4
  Conns <- FourConns
  JobsCap = 1
  MaxWorkers = 1
INVARIANTS
  TypeOK
  TarpitExact
PROPERTIES
  Implements
  DeniedIsClosed
  ProcessExits
CHECK_DEADLOCK FALSE
