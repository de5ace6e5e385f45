SPECIFICATION Spec
CONSTANTS
  EMAC_NUM_RX_FRAG = 3
  MaxLen = 2
  MaxFrames = 7
  RxErrors = {FALSE, TRUE}
  AllocFails = {FALSE}
  NULL = NULL
INVARIANT SlotsAgree
PROPERTY FifoSpec
CHECK_DEADLOCK FALSE
