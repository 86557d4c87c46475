SPECIFICATION Spec
CONSTANTS
  LimbBits = 2
  Limbs = 2
  Window = 2
  ByteBits = 2
  PointSize = 2
  Attempts = 2
  Curves <- MCCurves
  Keys <- MCKeys
  Digests <- MCDigests
  Pubs <- MCPubs
  Sigs <- MCSigs
  UKMs <- MCUKMs
INVARIANTS SignatureVerifies VerifyExact AgreementExact MultExact ArithmeticExact
CHECK_DEADLOCK FALSE
