---------------------------- MODULE MCNERClient ----------------------------
(* The instance of NERClient that TLC checks; its values are in the .cfg file. *)
EXTENDS NERClient

MCText == [i \in 1 .. 5 |-> [byte |-> i]]

Entity(type, from, to) == [type |-> type, from |-> from, to |-> to]

\* Nothing; entities that touch, that leave the ends of the text, of an unknown type;
\* a date behind a later name.
MCAnswers ==
    {<<>>,
     <<Entity("PER", 0, 2), Entity("LOC", 2, 5)>>,
     <<Entity("ORG", 1, 2), Entity("MISC", 2, 3), Entity("PER", 3, 4)>>,
     <<Entity("PER", 3, 5), Entity("DATE", 0, 2)>>}
=============================================================================
