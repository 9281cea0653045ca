SPECIFICATION FairSpec
CONSTANTS
    c1 = c1  c2 = c2  c3 = c3  k1 = k1  k2 = k2
    NoKey = NoKey
    Context <- MCContext2
    Key <- MCKey
    Width = 2
    SequenceCapacity = 2
    QueueCapacity = 2
PROPERTIES SubmitReturns DrainEnds
