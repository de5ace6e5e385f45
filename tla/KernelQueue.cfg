SPECIFICATION Spec
CONSTANTS
  hi = hi
  mid = mid
  lo = lo
  idle = idle
  a = a
  b = b
  Tasks <- MCTasks
  Idle = idle
  Priority <- MCPriority
  MAX_DELAY = 3
  MaxOver = 2
  Events <- MCEvents
  uxLength = 2
  Items <- MCItems
  Calls <- MCCalls
  IsrCalls = {"send", "receive"}
  IsrItems = {a}
  MaxPended = 1
  MaxLocked = 2
INVARIANTS HighestRuns NoLostWakeup WokenInTime
PROPERTIES FifoSpec NotEarly
