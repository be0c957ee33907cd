--------------------------- MODULE MCTextMasking ---------------------------
(* The instance of TextMasking that TLC checks; its values are in the .cfg file. *)
EXTENDS TextMasking

CONSTANT MaxLength

\* Longer texts of few kinds: a key name in a value that is found or not, behind another.
MCTexts == {t \in UNION {[1 .. n -> Kinds] : n \in 1 .. MaxLength} : Apart(t)}
               \cup [1 .. 6 -> {"key", "word", "quote"}]
=============================================================================
