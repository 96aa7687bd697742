SPECIFICATION Spec
CONSTANTS
    Calls = {c1}
    MaxConnections = 1
    Pinned = FALSE
    Asynchronous = FALSE
    Replies <- AllReplies
    ReachablePeers = {"notls"}
CHECK_DEADLOCK FALSE
INVARIANT AnswersRaiseExferErrors
