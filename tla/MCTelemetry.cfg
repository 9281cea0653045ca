SPECIFICATION FairSpec
CONSTANTS
    c1 = c1
    c2 = c2
    Client <- MCClient
    Follower <- MCFollower
    Capacity = 3
    Window = 3
    MaxCursor = 3
    MaxSequence = 5
    MaxDropped = 2
INVARIANTS NoticeExact
PROPERTIES LifecycleKept HostCloseReturns
CHECK_DEADLOCK FALSE
