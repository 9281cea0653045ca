CONSTANTS
    c1 = c1
    c2 = c2
    c3 = c3
    c4 = c4
    h1 = h1
    h2 = h2
    h3 = h3
    Client = {c1, c2, c3}
    Handle = {h1, h2, h3}
    HandleOf <- MCHandleOf
    Capacity = 3
    Limit = 1
    NoClient = NoClient
SPECIFICATION FairSpec
PROPERTIES WaitEnds CloseReturns
