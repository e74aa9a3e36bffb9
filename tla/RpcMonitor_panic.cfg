SPECIFICATION MonitorSpec
CONSTANTS
  p1 = p1
  p2 = p2
  Producer = {p1, p2}
  Sub = {1, 2}
  Cap = 2
  ChanSize = 1
  Replays = {2}
  MaxCalls = 3
  OkCalls = {1, 3}
  BufferSize = 2
CHECK_DEADLOCK FALSE
INVARIANT NoPanic
