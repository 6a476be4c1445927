SPECIFICATION MCSpec
CONSTANTS
  B = 2
  Bits = 16
  PoolSize = 2048
  Requests = {0, 690, 1400, 1792, 65530}
  LiveMax = 3
VIEW MCView
INVARIANTS
  ZeroForZero
CHECK_DEADLOCK FALSE
