\* Two goroutines on one session, one item each could save.
SPECIFICATION FairDiskSpec
CONSTANTS
    Procs = {g1, g2}
    Items = {i1}
    ExpireFiles = TRUE
    None = None
INVARIANTS
    DiskTypeOK
    LostOnlyByRaces
    CacheHasAcked
PROPERTIES
    OperationsEnd
