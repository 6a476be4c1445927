SPECIFICATION MCSpec
CONSTANTS
  i = i
  a = a
  b = b
  c = c
  x = x
  y = y
  Thd <- MCThd
  Idle = i
  Sem = {x, y}
  Mail = {0}
  PrioNum = 2
  SliceMax = 2
  SemMax = 4
  W = 8
  IdleSlice = 1
  Slices = {1}
  Waits = {0, 1, 2}
  Ticks = {1}
  Posts = {0, 1, 7}
  LockMax = 1
SYMMETRY MCSym
VIEW MCView
PROPERTIES
  PostConserves
