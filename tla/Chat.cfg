\* One request at a time, with a credential, a name that only the NER service finds
\* and a placeholder of the client's own; the clock moves between two requests.
SPECIFICATION FairChatSpec
CONSTANTS
    cred = cred
    email = email
    name = name
    pCred = pCred
    pEmail = pEmail
    pName = pName
    Requests = {r1}
    SessionIDs = {s1}
    Objects = {o1, o2}
    Placeholders = {pCred, pName}
    Values = {cred, name}
    CredValues = {cred}
    BuiltInValues = {}
    NERValues = {name}
    NERAvailable = TRUE
    Token <- MCToken
    Roles = {"text", "tool", "args"}
    Literals = {pName}
    Unrecoverable = Unrecoverable
    MaxPlaceholders = 1
    TTL = 0
    MaxTime = 1
    None = None
INVARIANTS
    ChatTypeOK
    RoundTrip
    AddedIsKept
    Restorable
    PlaceholdersAreAnnounced
PROPERTIES
    UsesSessions
    RequestsEnd
