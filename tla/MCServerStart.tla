--------------------------- MODULE MCServerStart ---------------------------
(***************************************************************************)
(* Instances of ServerStart for TLC: two control planes of one release and *)
(* one of a later release, which has filled a gap between the versions.    *)
(***************************************************************************)
EXTENDS ServerStart, TLC

CONSTANTS p1, p2, p3

MCRelease == (p1 :> {11, 13}) @@ (p2 :> {11, 13}) @@ (p3 :> {11, 12, 13})
=============================================================================
