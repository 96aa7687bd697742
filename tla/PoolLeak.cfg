SPECIFICATION Spec
CONSTANTS
    Calls = {c1, c2}
    MaxConnections = 2
    Pinned = TRUE
    Asynchronous = FALSE
    Replies <- AllReplies
    ReachablePeers = {"pinned", "other"}
CHECK_DEADLOCK FALSE
INVARIANT PoolIsReusable
