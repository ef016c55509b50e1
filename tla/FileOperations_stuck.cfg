\* A cancel meets an operation that fails: it is being cancelled for ever.
CONSTANTS
    d = d  e = e  f = f  s = s
    a = a  b = b
    root = root  none = none
    w1 = w1  w2 = w2  u1 = u1  u2 = u2
    Node <- FullTree
    Dir <- TwoDirs
    Root = root
    NoNode = none
    Name <- Names2
    NoName = none
    Tree <- InsideTree
    Base <- Copyable
    Policy <- Policies
    MaxOps = 1
    MaxSubmits = 1
    Server <- OneServer
    User <- OneUser
    Request <- AllRequests
    MaxRequests = 0
    MaxCrashes = 0
    MaxLostAcks = 0
    MaxErrors = 0
    HistoryLimit = 2
SPECIFICATION FairSpec
PROPERTY OperationsEnd
CHECK_DEADLOCK FALSE
