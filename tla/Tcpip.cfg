SPECIFICATION FairSpec
CONSTANTS
  Pbufs = {p1, p2}
  TCPIP_MBOX_SIZE = 1
  DEFAULT_UDP_RECVMBOX_SIZE = 1
  EMAC_NUM_TX_FRAG = 2
  Clens = {1}
  TxErrors = {FALSE, TRUE}
  Apps = {server}
  Server = server
  AllocFails = {FALSE, TRUE}
  NULL = NULL
INVARIANT Owned
PROPERTY GetsThrough
CHECK_DEADLOCK FALSE
