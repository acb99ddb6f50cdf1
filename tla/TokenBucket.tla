----------------------------- MODULE TokenBucket -----------------------------
(***************************************************************************)
(* What a rate limiter promises: every key has a bucket of its own, for    *)
(* ever, that starts full, gains one unit of credit a tick up to Full and  *)
(* pays Period units for each request it lets through.  A request is       *)
(* refused only when the bucket cannot pay.                                *)
(***************************************************************************)
EXTENDS Integers

CONSTANTS Key, Burst, Period

Full == Burst * Period

VARIABLES
  level,    \* [Key -> 0 .. Full]: credit
  verdict   \* the last decision: <<key, let through?>>

bucketVars == <<level, verdict>>

Init ==
  /\ level = [k \in Key |-> Full]
  /\ verdict = <<>>

Take(k) ==
  /\ level[k] >= Period
  /\ level' = [level EXCEPT ![k] = @ - Period]
  /\ verdict' = <<k, TRUE>>

Refuse(k) ==
  /\ level[k] < Period
  /\ verdict' = <<k, FALSE>>
  /\ UNCHANGED level

Fill ==
  /\ level' = [k \in Key |-> IF level[k] < Full THEN level[k] + 1 ELSE Full]
  /\ UNCHANGED verdict

Next == Fill \/ \E k \in Key : Take(k) \/ Refuse(k)

Spec == Init /\ [][Next]_bucketVars
=============================================================================
