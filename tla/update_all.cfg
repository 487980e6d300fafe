SPECIFICATION Spec
CONSTANTS
    ecK = 2
    ecM = 2
    blocksize = 3
    Policies = {"raid", "delta", "crd", "crd_flip"}
    UpdVecs <- AllVecs
    MaxStripes = 2
    OverreadFaults = TRUE
INVARIANTS
    TypeOK
    NoMixing
    NoFalseCompletion
    NothingFlushed
    AcksBalance
    CrdConsistent
PROPERTY ImplementsBarrier
