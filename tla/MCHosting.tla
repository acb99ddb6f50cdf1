----------------------------- MODULE MCHosting -----------------------------
(***************************************************************************)
(* Instances of Hosting for TLC: three creations of one name, one of a     *)
(* name of its own and one of a name that the node has.                    *)
(***************************************************************************)
EXTENDS Hosting, TLC

CONSTANTS c1, c2, c3, c4, c5, a1, a2, a3

MCUserOf == (c1 :> a1) @@ (c2 :> a1) @@ (c3 :> a1) @@ (c4 :> a2) @@ (c5 :> a3)

Symmetry == Permutations({c1, c2, c3})
=============================================================================
