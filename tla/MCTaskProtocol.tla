--------------------------- MODULE MCTaskProtocol ---------------------------
(***************************************************************************)
(* Instances of TaskProtocol for TLC.  Agent n1 runs two goroutines, n2    *)
(* one.  Task t1 is addressed to n1.  Task t2 is addressed to n2, but the  *)
(* database has n1's key for that node: n1 sees it with a valid signature  *)
(* and another node's name, n2 with its own name and a wrong signature.    *)
(* n1's clock is behind the control plane's by as much as Verify can       *)
(* tolerate (the tolerance and the fraction of a second that issued_at     *)
(* loses), which brings the expiry of a nonce entry closest to the expiry  *)
(* of its task.                                                            *)
(***************************************************************************)
EXTENDS TaskProtocol, TLC

CONSTANTS n1, n2, t1, t2, w1, w2, w3

MCAgentOf == [w \in Worker |-> IF w = w3 THEN n2 ELSE n1]
MCNodeOf == [t \in Task |-> IF t = t1 THEN n1 ELSE n2]
MCCPKey == [n \in Node |-> n1]
MCAgentKey == [n \in Node |-> n]
MCOffset == [n \in Node |-> 1 - Second - SkewTolerance]

\* Lifetimes in ticks: MaxAge, as most handlers ask for.
MCShort == [t \in Task |-> MaxAge]

MCOneRestart == [n \in Node |-> IF n = n1 THEN 1 ELSE 0]
MCNoRestart == [n \in Node |-> 0]

\* The goroutines of one agent are interchangeable.
Symmetry == Permutations({w1, w2})
=============================================================================
