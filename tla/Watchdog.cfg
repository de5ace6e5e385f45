SPECIFICATION FairSpec
CONSTANTS
  WDT_TIMEOUT = 8
  WDT_TICKS = 10
  PollDelay = 1
  MaxStart = 3
  MaxBlock = 2
  MaxStall = 1
  DEBUG = TRUE
INVARIANTS NotReset SilenceNoticed
PROPERTY StartsAgain
