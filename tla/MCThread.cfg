SPECIFICATION MCSpec
CONSTANTS
  i = i
  a = a
  b = b
  c = c
  Thd <- MCThd
  Idle = i
  Sem = {}
  Mail = {0}
  PrioNum = 2
  SliceMax = 3
  SemMax = 0
  W = 6
  IdleSlice = 2
  Slices = {1, 3}
  Waits = {1, 2}
  Ticks = {1, 2}
  Posts = {}
  LockMax = 2
SYMMETRY MCSym
VIEW MCView
INVARIANTS
  TypeOK
  RunQueuesExact
  DelayExact
  HighestRuns
  CurRuns
  TimersAlive
PROPERTIES
  TimeoutExact
