\* A cancellation between the return of a task and the release of its lease.
CONSTANTS
    a1 = a1  a2 = a2  b1 = b1
    a = a  b = b
    w1 = w1  w2 = w2
    Identity <- AllTasks
    Owner <- TwoOwners
    OwnerOf <- MCOwnerOf
    Leased <- MCLeased
    Series <- MCSeries
    Worker <- TwoWorkers
    NoWorker = NoWorker
    Priority <- TwoPriorities
    Request <- SomeRequests
    QueueCapacity = 1
    MaxAttempts = 2
    MaxSubmits = 3
    MaxTroubles = 1
SPECIFICATION Spec
CHECK_DEADLOCK FALSE
PROPERTY SettlementAgrees
