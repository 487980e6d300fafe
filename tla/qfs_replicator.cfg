SPECIFICATION FairSpec
CONSTANTS
  Ops = {1, 2}
  Chunks = {1}
  CHUNKSIZE = 4
  CHECKSUM_BLOCKSIZE = 2
  kDefaultReplicationReadSize = 4
  ChunkSizes = {3, 5}
  ShortReads = {1}
  StripeSize = 1
  MaxReadSize = 2
  ClientQuota = 5
  IoBufferSize = 1
  MaxClientThreads = 2
  sMaxRecoveryThreads = 5
INVARIANTS
  DiesOnlyFor
  VersionMeansWhole
  OneWriter
PROPERTIES
  AnsweredAndDeleted
CHECK_DEADLOCK FALSE
