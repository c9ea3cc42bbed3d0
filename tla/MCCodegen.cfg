SPECIFICATION Spec
CONSTANTS
  BYTE = 2
  ILEN = 5
  MemSize = 112
  StackInit = 64
  Programs <- MCPrograms
  Inputs <- MCInputs
  Corner = "none"
CHECK_DEADLOCK FALSE
INVARIANTS
  RegistersAgree
  MemoryAgrees
  ImmediatesFit
  FrameSound
