SPECIFICATION Spec
CONSTANTS
  BlockSize = 2
  Mesh = 6
  Word = 8
  C1 = 5
  C2 = 3
  Encrypt <- MCEncrypt
  SBoxes = {"cpA", "tc26z"}
  IVs <- MCIVs
  IvLens = {1, 2}
  CallLens <- MCCallLens
  MaxStream = 26
INVARIANT NoReuse
PROPERTY RefinesKeyStream
CHECK_DEADLOCK FALSE
