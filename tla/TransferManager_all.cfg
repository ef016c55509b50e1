\* Three transfers of one sort, a retry and an account switch.
CONSTANTS
    c1 = c1  c2 = c2
    RootKind = {"direct","mount","folder","group"}
    MaxTransfers = 3
    Limit = 1
    ClearCall = {c1}
    NoClear = NoClear
    MaxRetries = 1
SPECIFICATION Spec
INVARIANTS IInv ClearJoins HistoryBounded
PROPERTY OutcomeStands
CHECK_DEADLOCK FALSE
CONSTRAINT OneSort
