\* Two requests of one session, which may be dropped and created anew while one
\* of them holds the old struct; a cap of two of three placeholders; time enough
\* for a session to expire, be touched during the scan and expire again.
SPECIFICATION FairSessionSpec
CONSTANTS
    Requests = {r1, r2}
    SessionIDs = {s1}
    Objects = {o1, o2}
    Placeholders = {p1, p2, p3}
    Values = {v1}
    MaxPlaceholders = 2
    TTL = 1
    MaxTime = 3
    None = None
INVARIANTS
    SessionTypeOK
    OrderMatchesMap
    WithinCap
PROPERTIES
    EvictsOldestFirst
    DropsOnlyCondemned
    ExpiredIsDropped
