SPECIFICATION Spec
CONSTANTS
  Start = start
  Others = {a, b}
  Ports = {"RL78"}
INVARIANTS
  Interruptible
