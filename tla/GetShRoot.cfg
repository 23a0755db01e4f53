SPECIFICATION Spec
CONSTANTS
  MaxLine = 2
  MaxPasswd = 2
  heuristicCommonShellLookup <- WellKnown
INVARIANT RootIsHonoured
CHECK_DEADLOCK FALSE
