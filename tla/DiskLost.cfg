\* Two goroutines on one session, files do not expire.
SPECIFICATION DiskSpec
CONSTANTS
    Procs = {g1, g2}
    Items = {i1, i2}
    ExpireFiles = FALSE
    None = None
INVARIANTS
    Persists
