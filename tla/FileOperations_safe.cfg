\* A directory with a file, room for a copy of both: a new operation, its undo and
\* redo, a request of the user, one stop of the server.
CONSTANTS
    d = d  e = e  f = f  s = s
    a = a  b = b
    root = root  none = none
    w1 = w1  w2 = w2  u1 = u1  u2 = u2
    Node <- FullTree
    Dir <- TwoDirs
    Root = root
    NoNode = none
    Name <- Names2
    NoName = none
    Tree <- InsideTree
    Base <- Copyable
    Policy <- Policies
    MaxOps = 3
    MaxSubmits = 1
    Server <- OneServer
    User <- OneUser
    Request <- AllRequests
    MaxRequests = 1
    MaxCrashes = 1
    MaxLostAcks = 1
    MaxErrors = 2
    HistoryLimit = 2
SPECIFICATION Spec
INVARIANTS IInv WorkersMatch OutcomeIsEffect ReservationsMatch
PROPERTY Reverts
CHECK_DEADLOCK FALSE
