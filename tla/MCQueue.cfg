SPECIFICATION MCSpec
CONSTANTS
  i = i
  a = a
  b = b
  fifo = fifo
  mq = mq
  bq = bq
  n1 = n1
  n2 = n2
  n3 = n3
  Thd <- MCThd
  Idle = i
  Sem <- MCSem
  Mail = {0}
  PrioNum = 2
  SliceMax = 2
  SemMax = 3
  W = 8
  IdleSlice = 1
  Slices = {1}
  Waits = {1, 2}
  Ticks = {1}
  Posts = {1}
  LockMax = 1
  Msgq = {mq, bq}
  Bmq = {bq}
  Fifo = {fifo, mq, bq}
  Node = {n1, n2, n3}
  Limit = 2
SYMMETRY MCSym
VIEW MCView
INVARIANTS
  ListsExact
  GrantHasItem
  CountBelowMax
  NoPanic
PROPERTIES
  ItemsConserved
  SlotsConserved
  SlotMeansSend
  FifoImplements
