\* Four submissions: two of one owner, two of another, one after the other.
CONSTANTS
    a1 = a1  a2 = a2  b1 = b1  b2 = b2
    a = a  b = b
    w1 = w1
    Identity <- AllTasks
    Owner <- TwoOwners
    OwnerOf <- MCOwnerOf
    Leased = {}
    Series = {}
    Worker <- OneWorker
    NoWorker = NoWorker
    Priority <- OnePriority
    Request <- AnyRequest
    QueueCapacity = 3
    MaxAttempts = 1
    MaxSubmits = 4
    MaxTroubles = 0
SPECIFICATION TurnsSpec
PROPERTY RoundRobin
CHECK_DEADLOCK FALSE
