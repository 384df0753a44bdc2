CONSTANTS
  WordSize = 8
  NumRegs = 3
  V0 = 2
  RA = 1
  ExitCode = 5
  StartPC = 1
  Alu <- MCAlu
  Mul <- MCMul
  btb_size = 1
  ras_size = 1
  CountMod = 4
  Programs <- DataPrograms
  InitMem <- MCInitMem
  FetchCap = 2
  NULL = NULL
SPECIFICATION Spec
INVARIANTS
  DataAnswerHasOwner
  NoLostRequest
  WbValueReady
PROPERTIES
  NoOverwrite
  ImplementsISA
