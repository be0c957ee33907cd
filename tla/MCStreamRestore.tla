-------------------------- MODULE MCStreamRestore --------------------------
(* The instances of StreamRestore that TLC checks. *)
EXTENDS StreamRestore

CONSTANT MaxUnits

\* What answers are made of: text, a price, a placeholder, a placeholder that the
\* model left open, and braces of a program's own, closed or not.
MCUnits == {<<"x">>, <<"$">>, Placeholder, <<"$", "{", "B", "H">>, <<"$", "{", "B">>,
            <<"$", "{", "x", "}">>}

MCAnswers == {FlattenSeq(u) : u \in UNION {[1..n -> MCUnits] : n \in 1..MaxUnits}}

=============================================================================
