SPECIFICATION FairSpec
CONSTANTS
  Ids <- MCIds
  Cert <- MCCert
  Names <- MCNames
  MaxDepth = 3
  Requests <- MCRequests
INVARIANTS ChainSound DepthBounded SearchComplete MixedChainExplained
PROPERTY Terminates
