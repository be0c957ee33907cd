-------------------------- MODULE MCLayeredStorage --------------------------
(* The instance of LayeredStorage that TLC checks; its values are in the .cfg file. *)
EXTENDS LayeredStorage

CONSTANTS f1

\* All placeholders in one file.
MCFileOf == [q \in Pairs |-> f1]
=============================================================================
