\* One request whose message may hold a credential and an e-mail address.
SPECIFICATION ChatSpec
CONSTANTS
    cred = cred
    email = email
    name = name
    pCred = pCred
    pEmail = pEmail
    pName = pName
    Requests = {r1}
    SessionIDs = {s1}
    Objects = {o1}
    Placeholders = {pCred, pEmail}
    Values = {cred, email}
    CredValues = {cred}
    BuiltInValues = {email}
    NERValues = {}
    NERAvailable = FALSE
    Token <- MCToken
    Roles = {"text", "tool", "args"}
    Literals = {}
    Unrecoverable = Unrecoverable
    MaxPlaceholders = 2
    TTL = 0
    MaxTime = 0
    None = None
INVARIANTS
    OnlyPlaceholdersAreSent
