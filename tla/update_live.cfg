SPECIFICATION FairSpec
CONSTANTS
    ecK = 2
    ecM = 2
    blocksize = 1
    Policies = {"raid", "delta", "crd"}
    UpdVecs <- LiveVecs
    MaxStripes = 2
    OverreadFaults = FALSE
PROPERTIES
    StripesComplete
CHECK_DEADLOCK FALSE
