SPECIFICATION FairSpec
CONSTANTS
  ResizeCap = 2
  Budget <- ResizeBudget
PROPERTY TimedOutSessionEnds
CHECK_DEADLOCK FALSE
