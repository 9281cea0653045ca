CONSTANTS
    x1 = x1
    x2 = x2
    k1 = k1
    Work = {x1, x2}
    Key = {k1}
    KeyOf <- MCKeyOf
    Worker = {w1, w2}
    QueueCapacity = 1
    NoWork = NoWork
SPECIFICATION HostSpec
PROPERTIES OwnTurnOnly
