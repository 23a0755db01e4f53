SPECIFICATION FairSpec
CONSTANTS
  s1 = s1
  s2 = s2
  s3 = s3
  Sessions <- ThreeSessions
INVARIANTS
  StreamAfterRunning
PROPERTY SessionsSettle
CHECK_DEADLOCK FALSE
