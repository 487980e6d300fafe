SPECIFICATION Spec
CONSTANTS
  None = None
  NameOrder <- MCNames
  Calls <- MCCalls
  OtherCalls <- MCOthers
  FdCalls <- MCFdCalls
  kMaxInodeCacheSize = 3
  kMaxUpdateSize = 2
  mFileAttributeRevalidateScan = 1
  kMaxInvalidate = 2
  MAX_FILES = 2
  kMaxReaddirEntries = 1
  kMaxReadDirRetries = 2
  MaxCalls = 3
  MaxDisturbed = 1
INVARIANTS
  CacheIndexesAgree
  OwnChangesSeen
  RemovedIsNotServed
CHECK_DEADLOCK FALSE
