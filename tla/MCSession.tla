----------------------------- MODULE MCSession -----------------------------
(* The instance of Session that TLC checks; its values are in the .cfg file. *)
EXTENDS Session
=============================================================================
