SPECIFICATION FairSpec
CONSTANTS
  EMAC_NUM_TX_FRAG = 3
  Pbufs = {p1, p2}
  Clens = {2}
  TxErrors = {FALSE}
  NULL = NULL
PROPERTIES SenderNotStuck EventuallyFreed
CHECK_DEADLOCK FALSE
