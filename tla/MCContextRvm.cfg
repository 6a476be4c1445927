SPECIFICATION Spec
CONSTANTS
  Start = start
  Others = {a, b}
  Ports = {"RV32P_RVM", "RV32P_RVM_RVD", "RV32P_RVM_FAST"}
INVARIANTS
  OwnContext
