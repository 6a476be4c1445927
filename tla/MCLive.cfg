SPECIFICATION MCSpec
CONSTANTS
  i = i
  c = c
  Low = {a}
  Thd <- MCThd
  Idle = i
  Sem = {x}
  Mail = {0}
  PrioNum = 3
  SliceMax = 3
  SemMax = 2
  W = 6
  IdleSlice = 1
  Slices = {1}
  Waits = {1, 2}
  Ticks = {1}
  Posts = {1}
  LockMax = 1
PROPERTIES
  TimedEnds
  AboveRuns
