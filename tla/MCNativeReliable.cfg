CONSTANTS
  U64Max = 3
  c1 = c1
  c2 = c2
  c3 = c3
  t1 = t1
  t2 = t2
  Conn = {c1, c2, c3}
  Transfer = {t1}
  Offer <- StableOffer
  Source <- StableSource
  ChunkSize = 1
  ResumeSizes = {1}
  MaxSuffix = 5
  Reliable = {c3}
  NoTransfer = NoTransfer
  NoTarget = NoTarget
  NoFile = NoFile
  NoHash = NoHash
SPECIFICATION FairSpec
PROPERTIES
  ReliableSendCompletes
CHECK_DEADLOCK FALSE
