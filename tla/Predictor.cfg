CONSTANTS
  btb_size = 2
  ras_size = 2
  CountMod = 5
  PCs = {1, 2, 3}
SPECIFICATION PSpec
INVARIANTS
  PTypeOK
  BTBUnique
  BTBFaithful
  RASNewest
PROPERTIES
  BTBRemembers
