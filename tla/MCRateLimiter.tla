--------------------------- MODULE MCRateLimiter ---------------------------
(***************************************************************************)
(* Instances of RateLimiter for TLC: a bucket of two tokens that gains one *)
(* every two ticks, and a ttl half as long again as a full refill, the     *)
(* proportions of LoginRateLimiter (burst 10, one a minute, ttl 15 min).   *)
(***************************************************************************)
EXTENDS RateLimiter, TLC

Symmetry == Permutations(Key)
=============================================================================
