----------------------------- MODULE TaskLedger -----------------------------
(***************************************************************************)
(* What the signed-task protocol promises to the rest of the control       *)
(* plane, with the network, the clocks and the expiring nonce entries      *)
(* abstracted away.  A running agent remembers for ever which tasks it has *)
(* accepted: copies of a request that it admitted before it remembered the *)
(* task, seldom more than one, begin once each, and later ones never.  The *)
(* control plane reports success only of a task that did complete.         *)
(***************************************************************************)
EXTENDS Naturals

CONSTANTS
  Task,
  Copy,       \* copies of a request that may be under way in an agent
  Kept        \* tasks short enough for the agent to remember

VARIABLES
  issued,     \* tasks the control plane has built and signed
  admitted,   \* [Task -> SUBSET Copy]: copies that may still begin
  closed,     \* tasks the running agents remember
  starts,     \* [Task -> Nat]: starts since the task's agent last started
  completed,  \* tasks that at some time ran to a success
  reported    \* tasks whose success the control plane was told of

ledgerVars == <<issued, admitted, closed, starts, completed, reported>>

Init ==
  /\ issued = {}
  /\ admitted = [t \in Task |-> {}]
  /\ closed = {}
  /\ starts = [t \in Task |-> 0]
  /\ completed = {}
  /\ reported = {}

Issue(t) ==
  /\ t \notin issued
  /\ issued' = issued \cup {t}
  /\ UNCHANGED <<admitted, closed, starts, completed, reported>>

Admit(c, t) ==
  /\ t \in issued
  /\ t \in Kept => t \notin closed
  /\ c \notin admitted[t]
  /\ admitted' = [admitted EXCEPT ![t] = @ \cup {c}]
  /\ UNCHANGED <<issued, closed, starts, completed, reported>>

Close(c, t) ==
  /\ c \in admitted[t]
  /\ closed' = closed \cup {t}
  /\ UNCHANGED <<issued, admitted, starts, completed, reported>>

Begin(c, t) ==
  /\ c \in admitted[t]
  /\ t \in closed
  /\ admitted' = [admitted EXCEPT ![t] = @ \ {c}]
  /\ starts' = [starts EXCEPT ![t] = @ + 1]
  /\ UNCHANGED <<issued, closed, completed, reported>>

Complete(t) ==
  /\ starts[t] > 0
  /\ completed' = completed \cup {t}
  /\ UNCHANGED <<issued, admitted, closed, starts, reported>>

Report(t) ==
  /\ t \in completed
  /\ reported' = reported \cup {t}
  /\ UNCHANGED <<issued, admitted, closed, starts, completed>>

\* An agent restarts and forgets what it knew of the tasks S.
Forget(S) ==
  /\ admitted' = [t \in Task |-> IF t \in S THEN {} ELSE admitted[t]]
  /\ closed' = closed \ S
  /\ starts' = [t \in Task |-> IF t \in S THEN 0 ELSE starts[t]]
  /\ UNCHANGED <<issued, completed, reported>>

Next ==
  \/ \E t \in Task : Issue(t) \/ Complete(t) \/ Report(t)
  \/ \E t \in Task, c \in Copy : Admit(c, t) \/ Close(c, t) \/ Begin(c, t)
  \/ \E S \in SUBSET Task : Forget(S)

Spec == Init /\ [][Next]_ledgerVars
=============================================================================
