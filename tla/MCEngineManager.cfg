SPECIFICATION FairSpec
CONSTANTS
    c1 = c1  c2 = c2  c3 = c3  text = text  finite = finite  l1 = l1
    NoAlias = NoAlias
    Client <- MCClient3
    Alias <- MCAlias
    Finite <- MCFinite
    Lease <- MCLease1
    Capacity = 2
    MaxGeneration = 2
    MaxSessions = 1
INVARIANTS LeaseProtects CountsExact ModelLeasePins
PROPERTIES NoRevival UnloadReturns CloseReturns
