\* Two folders side by side, file versions, a session with a reused part: ref_count is exact, content is reclaimed.
SPECIFICATION Spec
CONSTANTS
    n1 = n1  n2 = n2  n3 = n3  p1 = p1  p2 = p2  c1 = c1  c2 = c2  rA = rA  rB = rB
    Content = {c1}
    Node = {n1, n2}
    Version = {v1}
    Session = {s1}
    Handler = {p1, p2}
    Janitor = janitor
    TrashRoot = {rA, rB}
    Subtree <- SideBySide
    LateCreate = FALSE
    ReapLimit = 1
    MaxFaults = 1
    NoContent = NoContent  NoNode = NoNode  NoRoot = NoRoot
INVARIANTS NoDanglingReference ReusedPartsReadable CASHealthOK NoOrphanObject ExactInv
