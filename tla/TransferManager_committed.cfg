\* A cancellation between the end of the I/O and its report.
CONSTANTS
    c1 = c1  c2 = c2
    RootKind = {"direct"}
    MaxTransfers = 1
    Limit = 1
    ClearCall = {c1}
    NoClear = NoClear
    MaxRetries = 0
SPECIFICATION Spec
INVARIANTS CommittedStands
CHECK_DEADLOCK FALSE
