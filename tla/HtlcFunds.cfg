SPECIFICATION FairSpec
CONSTANTS
    Locks = {k1, k2}
    Timeout = 0
    MaxHeight = 1
    MaxCrashes = 2
    Indexer = FALSE
CHECK_DEADLOCK FALSE
INVARIANTS
    FilesWhatHappened
    HtlcInv
PROPERTIES
    FundsNeverStranded
    PreimageIsKept
