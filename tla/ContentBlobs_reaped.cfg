\* Two contents, a janitor that takes one row at a time: every deleting row is finally deleted or revived.
SPECIFICATION FairSpec
CONSTANTS
    n1 = n1  n2 = n2  n3 = n3  p1 = p1  p2 = p2  c1 = c1  c2 = c2  rA = rA  rB = rB
    Content = {c1, c2}
    Node = {n1, n2}
    Version = {}
    Session = {s1}
    Handler = {p1}
    Janitor = janitor
    TrashRoot = {rA, rB}
    Subtree <- SideBySide
    LateCreate = FALSE
    ReapLimit = 1
    MaxFaults = 1
    NoContent = NoContent  NoNode = NoNode  NoRoot = NoRoot
PROPERTY DeletingBlobsReclaimed
