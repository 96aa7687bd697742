SPECIFICATION Spec
CONSTANTS
    Calls = {w, s1, s2}
    Watchers = {w}
    Keepers = {}
    PoolSizes = {1, 2, 3}
    WaitSecs = {0, 5}
    DefaultTimeout = 4
    Margin = 2
    Clamp = 4
    Latency = 1
    Lossy = FALSE
INVARIANTS
    RoomForAll
    ShortCallsGetThrough
    NoSpuriousUnreachable
    QueueInv
