SPECIFICATION FairSpec
CONSTANTS
  TCPIP_MBOX_SIZE = 2
  MaxFlaps = 3
  MaxReadFails = 2
  NoMemory = {FALSE, TRUE}
INVARIANTS TypeOK InSync
PROPERTY LinkTracked
