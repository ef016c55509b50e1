\* Two account switches overlap and both return; transfers of every kind.
CONSTANTS
    c1 = c1  c2 = c2
    RootKind = {"direct","mount","folder","group"}
    MaxTransfers = 2
    Limit = 1
    ClearCall = {c1, c2}
    NoClear = NoClear
    MaxRetries = 1
SPECIFICATION FairSpec
INVARIANTS IInv ClearJoins HistoryBounded
PROPERTIES OutcomeStands ClearEnds
CHECK_DEADLOCK FALSE
