CONSTANTS
    x1 = x1
    x2 = x2
    x3 = x3
    x4 = x4
    k1 = k1
    k2 = k2
    Work = {x1, x2, x3, x4}
    Key = {k1, k2}
    KeyOf <- MCKeyOf
    Worker = {w1, w2, w3}
    QueueCapacity = 2
    NoWork = NoWork
SPECIFICATION FairSpec
INVARIANTS KeyExclusion ClosedDrained
PROPERTIES ImplementsKeyedFifo AcceptedWorkEnds FinishReturns
