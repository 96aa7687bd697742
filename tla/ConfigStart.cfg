SPECIFICATION FairSpec
CONSTANTS
    MaxDisruptions = 2
    MaxAttended = 4
CHECK_DEADLOCK FALSE
INVARIANTS
    PinnedOrRefused
    OwnTransportKept
    FewAlarms
    ConfigInv
PROPERTIES
    StartsUp
