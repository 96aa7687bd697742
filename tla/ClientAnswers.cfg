SPECIFICATION FairSpec
CONSTANTS
    Calls = {c1, c2}
    MaxConnections = 1
    Pinned = TRUE
    Asynchronous = TRUE
    Replies <- MostReplies
    ReachablePeers = {"pinned", "other"}
CHECK_DEADLOCK FALSE
INVARIANTS
    TypeOK
    AtMostOnce
    ReturnMeansRan
    RefusalsRunNothing
    CallInv
    OnlyPinnedPeerAnswers
    PoolAccounting
    DistinctIds
    AnswerIsOwn
    ConnInv
PROPERTIES
    SettledStaysSettled
    KeepsPromise
    EveryCallEnds
    ClosedForGood
