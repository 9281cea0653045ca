CONSTANTS
    Quanta = 3
    r1 = r1
    r2 = r2
    b1 = b1
    b2 = b2
    None = None
    Request <- MCRequest
    Binding <- MCBinding
SPECIFICATION ComponentSpec
SYMMETRY Swaps
INVARIANTS AllOrNothing BorrowedLive LeaseReturned ProgramOwned
PROPERTIES CancelHeeded ImplementsPublication
