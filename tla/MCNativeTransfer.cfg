CONSTANTS
  U64Max = 3
  c1 = c1
  c2 = c2
  c3 = c3
  t1 = t1
  t2 = t2
  Conn = {c1, c2, c3}
  Transfer = {t1, t2}
  Offer <- MCOffer
  Source <- MCSource
  ChunkSize = 1
  ResumeSizes = {2}
  MaxSuffix = 2
  Reliable = {}
  NoTransfer = NoTransfer
  NoTarget = NoTarget
  NoFile = NoFile
  NoHash = NoHash
SPECIFICATION Spec
SYMMETRY Symmetry
INVARIANTS
  TypeOK
  VerifiedBacked
  CompletedDelivered
  DeliveredIntact
PROPERTIES
  CompletedStable
  NoSilentReplace
  ImplementsService
CHECK_DEADLOCK FALSE
