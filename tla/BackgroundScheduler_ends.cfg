\* Two owners, two submissions of three tasks, two workers, two troubles: one run per task, every task ends, Close returns.
CONSTANTS
    a1 = a1  a2 = a2  b1 = b1
    a = a  b = b
    w1 = w1  w2 = w2
    Identity <- AllTasks
    Owner <- TwoOwners
    OwnerOf <- MCOwnerOf
    Leased <- MCLeased
    Series <- MCSeries
    Worker <- TwoWorkers
    NoWorker = NoWorker
    Priority <- TwoPriorities
    Request <- SomeRequests
    QueueCapacity = 1
    MaxAttempts = 2
    MaxSubmits = 2
    MaxTroubles = 2
SPECIFICATION FairSpec
INVARIANTS OneRunPerIdentity LiveIsRegistered CancelStands CloseJoins TurnsMatchQueue IInv
PROPERTY EveryTaskEnds
CHECK_DEADLOCK FALSE
