SPECIFICATION Spec
CONSTANTS
    c1 = c1  c2 = c2  c3 = c3  k1 = k1  k2 = k2
    NoKey = NoKey
    Context <- MCContext
    Key <- MCKey
    Width = 2
    SequenceCapacity = 2
    QueueCapacity = 2
INVARIANTS TicketLifetime TicketOnce BatchAdmitted OwnersExact
PROPERTIES OldestFirst
SYMMETRY Symmetry
