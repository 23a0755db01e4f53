SPECIFICATION Spec
CONSTANTS
  MaxLine = 7
  MaxPasswd = 2
  heuristicCommonShellLookup <- WellKnown
INVARIANTS
  SplitCorrect
  ShellCorrect
  KeysCorrect
CHECK_DEADLOCK FALSE
