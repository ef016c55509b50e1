\* Two requests and the janitor, two chunks, a crash and a lost acknowledgement.
CONSTANTS
    s1 = s1  a = a  b = b  a1 = a1  a2 = a2  b1 = b1  r1 = r1  r2 = r2
    Session = {s1}
    ChunkCount = 2
    Data = {a, b}
    Key = {a1, b1}
    Written <- KeysOfOneEach
    Request = {r1, r2}
    Janitor = Janitor
    LateDigest = FALSE
    MaySkip = TRUE
    MaxCrashes = 1
    MaxLostAcks = 1
    NoKey = NoKey  NoFile = NoFile  NoSession = NoSession
SPECIFICATION Spec
INVARIANTS IInv PartsReadable
PROPERTY PromiseKept
SYMMETRY Requests
CHECK_DEADLOCK FALSE
