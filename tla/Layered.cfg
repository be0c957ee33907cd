\* Two goroutines, one session, two placeholders in one file, three operations.
SPECIFICATION FairLayeredSpec
CONSTANTS
    Procs = {p1, p2}
    Sessions = {s1}
    Metas = {a1}
    Pairs = {q1, q2}
    f1 = f1
    FileOf <- MCFileOf
    MaxMessages = 1
    MaxOps = 3
    None = None
INVARIANTS
    LayeredTypeOK
    TiersAgree
    KeptIsStored
    DroppedIsGone
    HistoryIsBounded
    PairsAreKept
    ClearedIsGone
PROPERTIES
    CloseReturns
