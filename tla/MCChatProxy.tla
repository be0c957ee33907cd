---------------------------- MODULE MCChatProxy ----------------------------
(* The instances of ChatProxy that TLC checks. *)
EXTENDS ChatProxy, TLC

CONSTANTS cred, email, name, pCred, pEmail, pName

\* GeneratePlaceholder without a collision.
MCToken == [v \in Values |-> CASE v = cred -> pCred [] v = email -> pEmail [] OTHER -> pName]

\* Two requests differ in nothing but their identity.
MCSymmetry == Permutations(Requests)

=============================================================================
