\* Three callers of either client, three attempts a call.
SPECIFICATION FairNERSpec
CONSTANTS
    Callers = {c1, c2, c3}
    MaxRetry = 3
    Threshold = 2
    Text <- MCText
    Answers <- MCAnswers
    MaxBurst = 40
INVARIANTS
    NERTypeOK
    PauseIsQuiet
    MasksEveryEntity
PROPERTIES
    ImplementsBreaker
    Recovers
    CallsEnd
