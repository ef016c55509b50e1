\* Permanent deletes of nested trash roots overlap, creates may commit late.
SPECIFICATION Spec
CONSTANTS
    n1 = n1  n2 = n2  n3 = n3  p1 = p1  p2 = p2  c1 = c1  c2 = c2  rA = rA  rB = rB
    Content = {c1}
    Node = {n1, n2, n3}
    Version = {}
    Session = {}
    Handler = {p1, p2}
    Janitor = janitor
    TrashRoot = {rA, rB}
    Subtree <- NestedFolders
    LateCreate = TRUE
    ReapLimit = 1
    MaxFaults = 2
    NoContent = NoContent  NoNode = NoNode  NoRoot = NoRoot
SYMMETRY HandlerSymmetry
INVARIANTS TypeOK IInv
