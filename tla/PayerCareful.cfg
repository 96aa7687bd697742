SPECIFICATION PayerSpec
CONSTANTS
    Payments = {p, q}
    MaxAttempts = 2
    RetryPolicy = "careful"
    Calls <- Attempts
    MaxConnections = 1
    Pinned = TRUE
    Asynchronous = TRUE
    Replies <- FewReplies
    ReachablePeers = {"pinned"}
SYMMETRY AlikePayments
CHECK_DEADLOCK FALSE
INVARIANT PaidAtMostOnce
INVARIANT EarlierAttemptsAreVoid
PROPERTY PaysAsPromised
