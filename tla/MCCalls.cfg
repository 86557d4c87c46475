SPECIFICATION Spec
CONSTANTS
  ByteBits = 4
  Lanes = 2
  Outer = 2
  Inner = 2
  SimdBatch = 2
  Reduction = 3
  Pi <- MCPi
  Lc <- MCLc
  Keys <- MCKeys
  Blocks <- MCBlocks
  Counters <- MCCounters
  Memory <- MCMemory
  Lengths <- MCLengths
  Sbox <- MCSbox
  Rotation = 3
  MeshPeriod = 12
  MeshingKey <- MCMeshingKey
  FeistelKeys <- MCFeistelKeys
  FeistelBlocks <- MCFeistelBlocks
  Messages <- MCMessages
  UKMs <- MCUKMs
  HashSize = 4
  IntBytes = 8
  KdfKeys <- MCKdfKeys
  KdfLabels <- MCKdfLabels
  KdfSeeds <- MCKdfSeeds
  CounterWidths = {0, 1, 2, 5}
  OutLens <- MCOutLens
  Suites <- MCSuites
  SeqNums = {0, 1, 2, 3, 4, 5, 6, 7, 8, 9, 15, 16, 17, 24, 30, 31, 32, 33, 63}
  Masters <- MCMasters
  UkmLen = 3
  SeedEnd = 4
  UkmSourceLen = 5
  UkmSources <- MCUkmSources
  Curves = {"A", "B"}
  WideCurve = "wide"
  NilCurve = "nil"
  DefaultCurve = "A"
  Parties = {"client", "server"}
  Variants <- MCVariants
  NoVariant = "none"
  SharedKeys <- MCSharedKeys
  ExportKeys <- MCExportKeys
  ExportIVs <- MCExportIVs
  Mailboxes <- MCMailboxes
  Requests <- MCNameChecks
  PointSize <- MCPointSize
  SigOIDs <- MCSigOIDs
  KeyOIDs <- MCKeyOIDs
  Certificates <- MCCertificates
INVARIANTS CipherExact BlocksExact FeistelExact ImitExact WrapExact
  KdfSeparates TreeWindows KegSeparates ExportOpens NamesExact MailboxExact ParsedExact
CHECK_DEADLOCK FALSE
