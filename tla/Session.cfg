SPECIFICATION FairSpec
CONSTANTS
  ResizeCap = 2
  Budget <- OverBudget
INVARIANTS
  TypeOK
  ZeroStatusMeansSuccess
  StatusesAgree
  LoopNeverStuck
PROPERTY SessionEnds
CHECK_DEADLOCK FALSE
