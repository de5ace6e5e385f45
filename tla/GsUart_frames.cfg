SPECIFICATION FairSpec
CONSTANTS
  GS_DATA_LEN = 3
  FifoSize = 2
  MaxFrames = 2
  Calms = {FALSE, TRUE}
  CanFail = {FALSE, TRUE}
INVARIANTS TypeOK InStep FramesWhole
PROPERTIES BufferHeld Forwarded
