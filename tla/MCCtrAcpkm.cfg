SPECIFICATION FairSpec
CONSTANTS
  BlockSize = 2
  KeySize = 4
  CtrMod = 4
  IV0 = 3
  MinBulk = 2
  MaxBulk = 3
  KeyLens = {3, 4}
  IvLens = {1, 2}
  Sections <- MCSections
  CallLens <- MCCallLens
  MaxStream = 26
INVARIANTS StreamIsOneShot NoReuse IInv
PROPERTIES RefinesKeyStream CallReturns
CHECK_DEADLOCK FALSE
