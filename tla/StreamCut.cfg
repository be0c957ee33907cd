\* Answers of one unit, cut anywhere.
SPECIFICATION StreamSpec
CONSTANTS
    Answers <- MCAnswers
    MaxUnits = 1
    IsCred = FALSE
    Original = Original
    CutsAnywhere = TRUE
INVARIANTS
    NoRawPlaceholder
CHECK_DEADLOCK FALSE
