\* An account switch between Start and BindCancel.
CONSTANTS
    c1 = c1  c2 = c2
    RootKind = {"direct"}
    MaxTransfers = 1
    Limit = 1
    ClearCall = {c1}
    NoClear = NoClear
    MaxRetries = 0
SPECIFICATION Spec
INVARIANTS OldIOStopped
CHECK_DEADLOCK FALSE
