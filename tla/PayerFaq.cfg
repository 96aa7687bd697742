SPECIFICATION PayerSpec
CONSTANTS
    Payments = {p}
    MaxAttempts = 2
    RetryPolicy = "unreachable"
    Calls <- Attempts
    MaxConnections = 1
    Pinned = TRUE
    Asynchronous = TRUE
    Replies <- FewReplies
    ReachablePeers = {"pinned", "other"}
CHECK_DEADLOCK FALSE
INVARIANT PaidAtMostOnce
