\* Answers of up to three units, cut everywhere but between "$" and "{".
SPECIFICATION StreamSpec
CONSTANTS
    Answers <- MCAnswers
    MaxUnits = 3
    IsCred = FALSE
    Original = Original
    CutsAnywhere = FALSE
INVARIANTS
    StreamTypeOK
    StreamsLikeWhole
    ArgumentsLikeWhole
    HeldBackRightly
CHECK_DEADLOCK FALSE
