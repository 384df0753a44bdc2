CONSTANTS
  WordSize = 4
  NumRegs = 3
  V0 = 2
  RA = 1
  ExitCode = 3
  StartPC = 1
  Alu <- MCAlu
  Mul <- MCMul
  btb_size = 1
  ras_size = 1
  CountMod = 4
  Programs <- LivePrograms
  InitMem <- MCInitMem
  FetchCap = 2
  NULL = NULL
SPECIFICATION FairSpec
PROPERTIES
  KeepsExecuting
