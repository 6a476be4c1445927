SPECIFICATION MCSpec
CONSTANTS
  i = i
  a = a
  b = b
  x = x
  LagMax = 3
  Thd <- MCThd
  Idle = i
  Sem = {x}
  Mail = {0}
  PrioNum = 3
  SliceMax = 4
  SemMax = 3
  W = 16
  IdleSlice = 3
  Slices = {2}
  Waits = {1, 3, 4}
  Ticks = {1}
  Posts = {1}
  LockMax = 1
VIEW MCView
INVARIANTS
  TimerCovers
  DelaySorted
  IdleSafe
PROPERTIES
  NotEarly
