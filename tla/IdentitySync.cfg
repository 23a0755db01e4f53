SPECIFICATION Spec
CONSTANTS
  u1 = u1
  u2 = u2
  k1 = k1
  k2 = k2
  NoUser = NoUser
  Users <- TwoUsers
  Keys <- TwoKeys
  Pairs <- SharedKey
  Interval = 2
  Slack = 2
  MaxPass = 1
  MaxChanges = 2
  Horizon = 9
INVARIANTS
  TypeOK
  RevocationBound
  NoGap
PROPERTIES
  NoRevival
CHECK_DEADLOCK FALSE
