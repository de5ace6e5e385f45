SPECIFICATION FairStartSpec
CONSTANTS
  PhyTries = 3
  PhyFails = {FALSE, TRUE}
  CreateFails = {FALSE, TRUE}
INVARIANT ReadyWhenOk
PROPERTIES NextFrameRescues InitEnds
CHECK_DEADLOCK FALSE
