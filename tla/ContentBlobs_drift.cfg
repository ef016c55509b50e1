\* Permanent deletes of nested trash roots against the CAS health report.
SPECIFICATION Spec
CONSTANTS
    n1 = n1  n2 = n2  n3 = n3  p1 = p1  p2 = p2  c1 = c1  c2 = c2  rA = rA  rB = rB
    Content = {c1}
    Node = {n1, n2, n3}
    Version = {}
    Session = {}
    Handler = {p1, p2}
    Janitor = janitor
    TrashRoot = {rA, rB}
    Subtree <- NestedFolders
    LateCreate = FALSE
    ReapLimit = 1
    MaxFaults = 0
    NoContent = NoContent  NoNode = NoNode  NoRoot = NoRoot
INVARIANT CASHealthOK
