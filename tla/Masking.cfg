\* All texts of up to four lexemes, and texts of six of few kinds.
SPECIFICATION MaskSpec
CONSTANTS
    MaxLength = 4
    Texts <- MCTexts
INVARIANTS
    MaskTypeOK
    NothingLeaks
    FlatIsRestored
    MaskedOnce
\* The masking ends.
CHECK_DEADLOCK FALSE
