\* A finalize that skips a conflict, repeated.
CONSTANTS
    s1 = s1  a = a  b = b  a1 = a1  a2 = a2  b1 = b1  r1 = r1  r2 = r2
    Session = {s1}
    ChunkCount = 1
    Data = {a}
    Key = {a1, a2}
    Written <- KeysOfA
    Request = {r1}
    Janitor = Janitor
    LateDigest = FALSE
    MaySkip = TRUE
    MaxCrashes = 0
    MaxLostAcks = 0
    NoKey = NoKey  NoFile = NoFile  NoSession = NoSession
SPECIFICATION Spec
PROPERTY FinalizeIdempotent
CHECK_DEADLOCK FALSE
