SPECIFICATION MCAnySpec
CONSTANTS
  i = i
  r = r
  a = a
  b = b
  Thd <- MCThd
  Idle = i
  Sem = {}
  Mail = {0, 1}
  PrioNum = 2
  SliceMax = 2
  SemMax = 0
  W = 4
  IdleSlice = 1
  Slices = {1}
  Waits = {1, 2}
  Ticks = {1}
  Posts = {}
  LockMax = 1
SYMMETRY MCSym
VIEW MCView
PROPERTIES
  MailImplements
