SPECIFICATION FairSpec
CONSTANTS
    ecK = 2
    blocksize = 2
    LogBlocks = 3
    ReqNum = 4
    NumStripes = 2
    Requests <- TraceRequests
    Files <- TraceFiles
    UPWays = {"trace", "random"}
    UPPolicies = {"all", "crd"}
    MaxCrashes = 1
    MaxRuns = 2
INVARIANTS
    VecOK
    MapsAgree
    LogBounded
    ResultsOnce
PROPERTIES
    ReplayEnds
