SPECIFICATION Spec
CONSTANTS
  OmacBlock = 2
  HashBlock = 2
  Base = 2
  BitsPerByte = 1
  Sizes = {256, 512}
  MaxMsg = 5
INVARIANT Separates
PROPERTY RefinesDigest
