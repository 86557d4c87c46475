SPECIFICATION Spec
CONSTANTS
  BlockSize = 4
  BitsPerByte = 2
  ShiftAdj = 1
  WordBits = 6
  UintBits = 6
  Values = {0, 1}
  Nonces <- MCNonces
  Messages <- MCMessages
INVARIANTS SealIsRFC OpenInvertsSeal TagSeparates NothingReleased NoncesSeparate LimitIsRFC
