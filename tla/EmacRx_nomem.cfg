SPECIFICATION FairSpec
CONSTANTS
  EMAC_NUM_RX_FRAG = 3
  MaxLen = 1
  MaxFrames = 5
  RxErrors = {FALSE, TRUE}
  AllocFails = {FALSE, TRUE}
  NULL = NULL
INVARIANTS  BuffersAccounted
PROPERTIES NeverBackwards FrameTaken
CHECK_DEADLOCK FALSE
