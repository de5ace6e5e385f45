SPECIFICATION Spec
CONSTANTS
  EMAC_NUM_TX_FRAG = 3
  Pbufs = {p1, p2}
  Clens = {1, 2}
  TxErrors = {FALSE, TRUE}
  NULL = NULL
SYMMETRY PbufSymmetry
INVARIANTS TypeOK NoDoubleFree RingAccounting InFlightLive NoLeak
CHECK_DEADLOCK FALSE
