---------------------------- MODULE MCMailboxes ----------------------------
(***************************************************************************)
(* Instances of Mailboxes for TLC: two creations of one address, one of    *)
(* another, and two deletions.                                             *)
(***************************************************************************)
EXTENDS Mailboxes, TLC

CONSTANTS c1, c2, c3, a1, a2

MCAddressOf == (c1 :> a1) @@ (c2 :> a1) @@ (c3 :> a2)

\* c1 and c2 differ in nothing, nor do the deletions.
Symmetry == Permutations({c1, c2}) \cup Permutations(Delete)
=============================================================================
