SPECIFICATION Spec
CONSTANTS
  a = a
  b = b
  x = x
  y = y
  z = z
  Thread <- MCThread
  Node <- MCNode
  Fifo = {pool, q}
  Pool = pool
  Msg = {1, 2}
  NULL = 0
CHECK_DEADLOCK FALSE
INVARIANTS
  Received
