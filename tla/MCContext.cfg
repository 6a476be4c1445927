SPECIFICATION Spec
CONSTANTS
  Start = start
  Others = {a, b}
  Ports = {"A6M", "A7M", "A7M_FPU", "A7R", "RV32P", "RV32P_RVF", "RV32P_RVD", "MP32P", "X86_LINUX", "MSP430", "MSP430_430X", "AVR", "AVR_RAMP", "AVR_EIND", "RL78", "UNSP_SPV1", "UNSP_SPV2", "C28X", "C28X_FPU32", "C28X_FPU64", "DSPIC_24F", "DSPIC_24E", "DSPIC_30F", "DSPIC_33E", "A6M_RVM", "A6M_RVM_FAST", "A7M_RVM", "A7M_RVM_FAST"}
INVARIANTS
  OwnContext
  Preemptible
PROPERTIES
  NoLostYield
