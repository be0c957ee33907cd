\* All texts of up to two lexemes.
SPECIFICATION MaskSpec
CONSTANTS
    MaxLength = 2
    Texts <- MCTexts
INVARIANTS
    AllIsRestored
\* The masking ends.
CHECK_DEADLOCK FALSE
