SPECIFICATION Spec
CONSTANTS
  Ids <- MCIds
  Cert <- MCCert
  Names <- MCNames
  MaxDepth = 5
  Requests <- CrossSigned
INVARIANT NoCertificateTwice
