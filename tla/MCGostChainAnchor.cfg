SPECIFICATION Spec
CONSTANTS
  Ids <- MCIds
  Cert <- MCCert
  Names <- MCNames
  MaxDepth = 3
  Requests <- LoneAnchor
INVARIANT AnchorIsOneElementChain
