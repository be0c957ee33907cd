\* Two requests of one session with a cap of one placeholder, so that a message
\* with a credential and an e-mail address evicts one of them at once. The clock
\* moves once while no request is under way, so that the cleanup may drop the
\* session under the first request and the second one creates another struct.
SPECIFICATION ChatSpec
CONSTANTS
    cred = cred
    email = email
    name = name
    pCred = pCred
    pEmail = pEmail
    pName = pName
    Requests = {r1, r2}
    SessionIDs = {s1}
    Objects = {o1, o2}
    Placeholders = {pCred, pEmail}
    Values = {cred, email}
    CredValues = {cred}
    BuiltInValues = {email}
    NERValues = {}
    NERAvailable = FALSE
    Token <- MCToken
    Roles = {"text"}
    Literals = {}
    Unrecoverable = Unrecoverable
    MaxPlaceholders = 1
    TTL = 0
    MaxTime = 1
    None = None
SYMMETRY MCSymmetry
INVARIANTS
    RoundTrip
