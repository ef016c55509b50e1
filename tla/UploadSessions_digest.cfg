\* A digest declared while a finalize runs.
CONSTANTS
    s1 = s1  a = a  b = b  a1 = a1  a2 = a2  b1 = b1  r1 = r1  r2 = r2
    Session = {s1}
    ChunkCount = 1
    Data = {a, b}
    Key = {a1, b1}
    Written <- KeysOfOneEach
    Request = {r1, r2}
    Janitor = Janitor
    LateDigest = TRUE
    MaySkip = FALSE
    MaxCrashes = 0
    MaxLostAcks = 0
    NoKey = NoKey  NoFile = NoFile  NoSession = NoSession
SPECIFICATION Spec
PROPERTY DigestVerified
CHECK_DEADLOCK FALSE
