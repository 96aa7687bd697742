SPECIFICATION FairSpec
CONSTANTS
    Calls = {w}
    Watchers = {w}
    Keepers = {w}
    PoolSizes = {100}
    WaitSecs = {0, 20, 60, 601}
    DefaultTimeout = 30
    Margin = 15
    Clamp = 600
    Latency = 14
    Lossy = TRUE
INVARIANTS
    LongPollInv
PROPERTIES
    SeenIsReported
    ConfirmedIsReported
