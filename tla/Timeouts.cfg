SPECIFICATION FairTimersSpec
CONSTANTS
  Wrap = 20
  lwip_cyclic_timers <- MCTimers
  OneShots = {"oneshot"}
  Delays = {4}
  MaxShots = 1
  MboxSize = 1
  MaxBusy = 2
  MempFails = {FALSE, TRUE}
INVARIANTS ListSorted OnTime
PROPERTY NeitherStarves
