SPECIFICATION MCSpec
CONSTANTS
  i = i
  c = c
  Low = {a, b}
  Thd <- MCThd
  Idle = i
  Sem = {}
  Mail = {0}
  PrioNum = 3
  SliceMax = 3
  SemMax = 2
  W = 6
  IdleSlice = 1
  Slices = {1}
  Waits = {1}
  Ticks = {1}
  Posts = {1}
  LockMax = 1
PROPERTIES
  RoundRobin
