SPECIFICATION Spec
CONSTANTS
    Calls = {c1}
    MaxConnections = 1
    Pinned = TRUE
    Asynchronous = FALSE
    Replies <- AllReplies
    ReachablePeers = {"pinned", "other", "notls"}
CHECK_DEADLOCK FALSE
INVARIANT HealthzNeverRaises
