SPECIFICATION Spec
CONSTANTS
  Interval = 3
  Burst = 2
  TTL = 7
  Delay = 2
  Horizon = 22
INVARIANTS
  TracksIdeal
  DenialIsBrief
PROPERTY Implements
CHECK_DEADLOCK FALSE
