----------------------------- MODULE MCDnsZone -----------------------------
(***************************************************************************)
(* Instances of DnsZone for TLC: the zone, and three records, two of them   *)
(* with one key.                                                           *)
(***************************************************************************)
EXTENDS DnsZone, TLC

CONSTANTS r1, r2, r3, k1, k2

MCKeyOf == (r1 :> k1) @@ (r2 :> k1) @@ (r3 :> k2)

\* r1 and r2 differ in nothing.
Symmetry == Permutations({r1, r2})
=============================================================================
