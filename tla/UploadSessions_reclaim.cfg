\* One chunk and a crash: staged objects are deleted in the end, the promise is kept.
CONSTANTS
    s1 = s1  a = a  b = b  a1 = a1  a2 = a2  b1 = b1  r1 = r1  r2 = r2
    Session = {s1}
    ChunkCount = 1
    Data = {a}
    Key = {a1, a2}
    Written <- KeysOfA
    Request = {r1, r2}
    Janitor = Janitor
    LateDigest = FALSE
    MaySkip = TRUE
    MaxCrashes = 1
    MaxLostAcks = 0
    NoKey = NoKey  NoFile = NoFile  NoSession = NoSession
SPECIFICATION FairSpec
PROPERTIES PromiseKept StagingReclaimed
CHECK_DEADLOCK FALSE
