CONSTANTS
  NameLens = {1, 9, 16}
  MaxEntries = 4
  PageSize = 40
  BufLens = {24, 32, 40}
  MaxRewinds = 1
  MaxLen = 7
  IovLens = {0, 1, 2, 3}
  MaxIov = 3
  SizeMod = 5
  SrcVectors <- MCSrcVectors
  DstVectors <- MCDstVectors
  Bounce = 2
  MaxPieces = 2
  Minors = {3, 15, 31}
  Errnos = {"ok", "EACCES"}
SPECIFICATION Spec
CHECK_DEADLOCK FALSE
INVARIANTS
  TypeOK
  ListedInOrder
  ScatterExact
  ReadsWholeFile
  CopiedInOrder
  PositionsInStep
  ConsumedOnce
  FailureReported
PROPERTIES
  ListingCompletes
