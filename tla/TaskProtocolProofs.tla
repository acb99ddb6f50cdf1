------------------------- MODULE TaskProtocolProofs -------------------------
(***************************************************************************)
(* Theorems about TaskProtocol, for every value of its constants.          *)
(***************************************************************************)
EXTENDS TaskProtocol, TLAPS

\* Formatting a time as RFC3339 moves it back by less than a second
\* (signer.go Build).
LEMMA WholeSecondsBounds ==
  ASSUME NEW x \in Int
  PROVE  /\ WholeSeconds(x) \in Int
         /\ WholeSeconds(x) <= x
         /\ x < WholeSeconds(x) + Second
<1>1. x % Second \in 0 .. (Second - 1)
  BY ConstantsAssumption
<1>. QED
  BY <1>1, ConstantsAssumption DEF WholeSeconds

\* The two timestamps of an envelope are integers, at most Lifetime plus a
\* fraction of a second apart (signer.go Build).
LEMMA TimestampBounds ==
  ASSUME builtAt \in [Task -> Nat], NEW t \in Task
  PROVE  /\ IssuedAt(t) \in Int
         /\ ExpiresAt(t) \in Int
         /\ ExpiresAt(t) <= IssuedAt(t) + Lifetime[t] + Second - 1
<1>1. builtAt[t] \in Int /\ builtAt[t] + Lifetime[t] \in Int /\ Lifetime[t] \in Int
  BY ConstantsAssumption
<1>2. Second \in Int
  BY ConstantsAssumption
<1>3. /\ WholeSeconds(builtAt[t]) \in Int
      /\ builtAt[t] < WholeSeconds(builtAt[t]) + Second
  BY <1>1, WholeSecondsBounds
<1>4. /\ WholeSeconds(builtAt[t] + Lifetime[t]) \in Int
      /\ WholeSeconds(builtAt[t] + Lifetime[t]) <= builtAt[t] + Lifetime[t]
  BY <1>1, WholeSecondsBounds
<1>. QED
  BY <1>1, <1>2, <1>3, <1>4 DEF IssuedAt, ExpiresAt

LEMMA AgentTimeType ==
  ASSUME TypeOK, NEW n \in Node
  PROVE  AgentTime(n) \in Int
BY ConstantsAssumption DEF TypeOK, AgentTime
-----------------------------------------------------------------------------
\* What the steps of a handler goroutine do to its record, and that they touch
\* no other goroutine's (main.go handleTask).

LEMMA IdleType == Idle \in HandlerState
BY DEF Idle, HandlerState, HandlerPC

LEMMA GotoEffect ==
  ASSUME TypeOK, NEW w \in Worker, NEW pc \in HandlerPC, Goto(w, pc)
  PROVE  /\ handler' \in [Worker -> HandlerState]
         /\ handler'[w].pc = pc
         /\ handler'[w].task = handler[w].task
         /\ handler'[w].now = handler[w].now
         /\ handler'[w].own = handler[w].own
         /\ handler'[w].result = handler[w].result
         /\ \A v \in Worker : v # w => handler'[v] = handler[v]
<1>. DEFINE h == [handler[w] EXCEPT !.pc = pc]
<1>1. handler \in [Worker -> HandlerState]
  BY DEF TypeOK
<1>2. h \in HandlerState
  BY <1>1 DEF HandlerState
<1>3. handler' = [handler EXCEPT ![w] = h]
  BY DEF Goto
<1>4. /\ h.pc = pc /\ h.task = handler[w].task /\ h.now = handler[w].now
      /\ h.own = handler[w].own /\ h.result = handler[w].result
  BY <1>1 DEF HandlerState
<1>. HIDE DEF h
<1>. QED
  BY <1>1, <1>2, <1>3, <1>4

LEMMA AnswerEffect ==
  ASSUME TypeOK, NEW w \in Worker,
         NEW result \in {"succeeded", "failed", "refused"}, Answer(w, result)
  PROVE  /\ handler' \in [Worker -> HandlerState]
         /\ handler'[w].pc = "replying"
         /\ handler'[w].task = handler[w].task
         /\ handler'[w].own = handler[w].own
         /\ handler'[w].result = result
         /\ \A v \in Worker : v # w => handler'[v] = handler[v]
<1>. DEFINE h == [pc |-> "replying", task |-> handler[w].task, now |-> 0,
                  own |-> handler[w].own, result |-> result]
<1>1. handler \in [Worker -> HandlerState]
  BY DEF TypeOK
<1>2. h \in HandlerState
  BY <1>1 DEF HandlerState, HandlerPC
<1>3. handler' = [handler EXCEPT ![w] = h]
  BY DEF Answer
<1>4. /\ h.pc = "replying" /\ h.task = handler[w].task
      /\ h.own = handler[w].own /\ h.result = result
  BY <1>1 DEF HandlerState
<1>. HIDE DEF h
<1>. QED
  BY <1>1, <1>2, <1>3, <1>4

LEMMA ExecuteEffect ==
  ASSUME TypeOK, NEW w \in Worker, Execute(w)
  PROVE  /\ handler' \in [Worker -> HandlerState]
         /\ handler'[w].pc = "running"
         /\ handler'[w].task = handler[w].task
         /\ handler'[w].result = "none"
         /\ \A v \in Worker : v # w => handler'[v] = handler[v]
<1>. DEFINE h == [pc |-> "running", task |-> handler[w].task, now |-> 0,
                  own |-> handler[w].own, result |-> "none"]
<1>1. handler \in [Worker -> HandlerState]
  BY DEF TypeOK
<1>2. h \in HandlerState
  BY <1>1 DEF HandlerState, HandlerPC
<1>3. handler' = [handler EXCEPT ![w] = h]
  BY DEF Execute
<1>4. /\ h.pc = "running" /\ h.task = handler[w].task
      /\ h.result = "none"
  BY <1>1 DEF HandlerState
<1>. HIDE DEF h
<1>. QED
  BY <1>1, <1>2, <1>3, <1>4

\* HasSeen answers, or lets its goroutine through and notes a race.
LEMMA HasSeenEffect ==
  ASSUME TypeOK, NEW w \in Worker, HasSeen(w)
  PROVE  LET n == AgentOf[w]
             t == handler[w].task
         IN /\ \/ Seen(n, t) /\ Answer(w, "refused") /\ UNCHANGED raced
               \/ /\ ~Seen(n, t)
                  /\ Goto(w, "unseen")
                  /\ raced'[n] = IF Unseen(n, t) # {} THEN raced[n] \cup {t}
                                                      ELSE raced[n]
                  /\ \A m \in Node : m # n => raced'[m] = raced[m]
            /\ raced' \in [Node -> SUBSET Task]
            /\ t \in Task
<1>1. handler[w].task \in Task /\ AgentOf[w] \in Node
  BY ConstantsAssumption DEF HasSeen, TypeOK
<1>2. raced \in [Node -> SUBSET Task]
  BY DEF TypeOK
<1>. DEFINE n == AgentOf[w]
            t == handler[w].task
<1>3. \/ Seen(n, t) /\ Answer(w, "refused") /\ UNCHANGED raced
      \/ /\ ~Seen(n, t)
         /\ Goto(w, "unseen")
         /\ raced' = IF Unseen(n, t) # {} THEN [raced EXCEPT ![n] = @ \cup {t}]
                                          ELSE raced
  BY DEF HasSeen
<1>. HIDE DEF n, t
<1>4. CASE UNCHANGED raced
  BY <1>1, <1>2, <1>3, <1>4 DEF n, t
<1>5. CASE raced' = [raced EXCEPT ![n] = @ \cup {t}]
  BY <1>1, <1>2, <1>3, <1>5 DEF n, t
<1>. QED
  BY <1>3, <1>4, <1>5 DEF n, t

LEMMA CheckedEffect ==
  ASSUME TypeOK, NEW w \in Worker, NEW now \in Int,
         handler' = [handler EXCEPT ![w].pc = "checked", ![w].now = now]
  PROVE  /\ handler' \in [Worker -> HandlerState]
         /\ handler'[w].pc = "checked"
         /\ handler'[w].task = handler[w].task
         /\ handler'[w].now = now
         /\ handler'[w].result = handler[w].result
         /\ \A v \in Worker : v # w => handler'[v] = handler[v]
<1>. DEFINE h == [handler[w] EXCEPT !.pc = "checked", !.now = now]
<1>1. handler \in [Worker -> HandlerState]
  BY DEF TypeOK
<1>2. h \in HandlerState
  BY <1>1 DEF HandlerState, HandlerPC
<1>3. handler' = [handler EXCEPT ![w] = h]
  BY <1>1 DEF HandlerState
<1>4. /\ h.pc = "checked" /\ h.task = handler[w].task
      /\ h.now = now /\ h.result = handler[w].result
  BY <1>1 DEF HandlerState
<1>. HIDE DEF h
<1>. QED
  BY <1>1, <1>2, <1>3, <1>4

LEMMA ReceiveEffect ==
  ASSUME TypeOK, NEW w \in Worker, NEW t \in Task, Receive(w, t)
  PROVE  /\ handler[w].pc = "idle"
         /\ handler' \in [Worker -> HandlerState]
         /\ handler'[w].pc = "received"
         /\ handler'[w].task = t
         /\ handler'[w].result = "none"
         /\ \A v \in Worker : v # w => handler'[v] = handler[v]
         /\ call[t] # "none"
         /\ call' \in [Task -> CallState]
         /\ call'[t] # "none"
         /\ \A u \in Task : /\ u # t => call'[u] = call[u]
                            /\ call'[u] = "succeeded" <=> call[u] = "succeeded"
                            /\ call'[u] = "none" <=> call[u] = "none"
<1>1. PICK own \in BOOLEAN :
        /\ IF own THEN OwnRequest(t) ELSE AnotherCopy(t)
        /\ handler' = [handler EXCEPT ![w] =
                         [pc |-> "received", task |-> t, now |-> 0, own |-> own,
                          result |-> "none"]]
        /\ call' = IF own THEN [call EXCEPT ![t] = "arrived"] ELSE call
  BY DEF Receive
<1>. DEFINE h == [pc |-> "received", task |-> t, now |-> 0, own |-> own,
                  result |-> "none"]
<1>2. h \in HandlerState /\ h.pc = "received" /\ h.task = t /\ h.result = "none"
  BY DEF HandlerState, HandlerPC
<1>3. handler' = [handler EXCEPT ![w] = h]
  BY <1>1
<1>. HIDE DEF h
<1>4. /\ handler' \in [Worker -> HandlerState]
      /\ handler'[w].pc = "received"
      /\ handler'[w].task = t
      /\ handler'[w].result = "none"
      /\ \A v \in Worker : v # w => handler'[v] = handler[v]
  BY <1>2, <1>3 DEF TypeOK
<1>5. call[t] # "none"
  BY <1>1 DEF OwnRequest, AnotherCopy
<1>6. /\ call' \in [Task -> CallState]
      /\ call'[t] # "none"
      /\ \A u \in Task : /\ u # t => call'[u] = call[u]
                         /\ call'[u] = "succeeded" <=> call[u] = "succeeded"
                         /\ call'[u] = "none" <=> call[u] = "none"
  BY <1>1, <1>5 DEF TypeOK, CallState, OwnRequest
<1>7. handler[w].pc = "idle"
  BY DEF Receive, Busy
<1>. QED
  BY <1>4, <1>5, <1>6, <1>7

LEMMA ResetEffect ==
  ASSUME TypeOK, NEW w \in Worker, handler' = [handler EXCEPT ![w] = Idle]
  PROVE  /\ handler' \in [Worker -> HandlerState]
         /\ handler'[w] = Idle
         /\ \A v \in Worker : v # w => handler'[v] = handler[v]
BY IdleType DEF TypeOK

LEMMA RestartEffect ==
  ASSUME TypeOK, NEW n \in Node, Restart(n)
  PROVE  /\ handler' \in [Worker -> HandlerState]
         /\ \A w \in Worker : AgentOf[w] = n => handler'[w] = Idle
         /\ \A w \in Worker : AgentOf[w] # n => handler'[w] = handler[w]
BY IdleType DEF TypeOK, Restart

LEMMA IdleFields ==
  Idle.pc = "idle" /\ Idle.task = NoTask /\ Idle.result = "none"
BY DEF Idle
-----------------------------------------------------------------------------
\* Type correctness.

LEMMA InitTypeOK == Init => TypeOK
BY ConstantsAssumption, IdleType, IdleFields
DEF Init, TypeOK, CallState

LEMMA NextTypeOK == TypeOK /\ [Next]_vars => TypeOK'
<1>. SUFFICES ASSUME TypeOK, [Next]_vars
              PROVE  TypeOK'
  OBVIOUS
<1>. USE ConstantsAssumption
<1>1. ASSUME NEW t \in Task, Build(t) PROVE TypeOK'
  BY <1>1 DEF Build, CallState, TypeOK
<1>2. ASSUME NEW t \in Task, GiveUp(t) PROVE TypeOK'
  BY <1>2 DEF GiveUp, CallState, TypeOK
<1>3. ASSUME NEW w \in Worker, NEW t \in Task, Receive(w, t) PROVE TypeOK'
  <2>0. /\ handler'[w].task = t
        /\ \A v \in Worker : v # w => handler'[v] = handler[v]
    BY <1>3, ReceiveEffect
  <2>1. \A v \in Worker : handler'[v].pc # "idle" => handler'[v].task \in Task
    BY <2>0 DEF TypeOK
  <2>2. handler' \in [Worker -> HandlerState] /\ call' \in [Task -> CallState]
    BY <1>3, ReceiveEffect
  <2>3. UNCHANGED <<clock, builtAt, entries, runs, completed, raced, restarts>>
    BY <1>3 DEF Receive
  <2>. QED
    BY <2>1, <2>2, <2>3 DEF TypeOK
<1>4. ASSUME NEW w \in Worker, CheckEnvelope(w) PROVE TypeOK'
  <2>1. AgentTime(AgentOf[w]) \in Int
    BY AgentTimeType
  <2>2. handler[w].pc = "received" /\ handler[w].task \in Task
    BY <1>4 DEF CheckEnvelope, TypeOK
  <2>3. /\ handler' \in [Worker -> HandlerState]
        /\ \A v \in Worker : handler'[v].pc # "idle" => handler'[v].task \in Task
    BY <1>4, <2>1, <2>2, CheckedEffect, AnswerEffect DEF CheckEnvelope, TypeOK
  <2>. QED
    BY <1>4, <2>3 DEF CheckEnvelope, TypeOK
<1>5. ASSUME NEW w \in Worker, HasSeen(w) PROVE TypeOK'
  <2>1. handler[w].task \in Task
    BY <1>5 DEF HasSeen, TypeOK
  <2>2. Goto(w, "unseen") \/ Answer(w, "refused")
    BY <1>5 DEF HasSeen
  <2>3. /\ handler' \in [Worker -> HandlerState]
        /\ handler'[w].task = handler[w].task
        /\ \A v \in Worker : v # w => handler'[v] = handler[v]
    <3>1. CASE Goto(w, "unseen")
      BY <3>1, GotoEffect DEF HandlerPC
    <3>2. CASE Answer(w, "refused")
      BY <3>2, AnswerEffect
    <3>. QED
      BY <2>2, <3>1, <3>2
  <2>5. \A v \in Worker : handler'[v].pc # "idle" => handler'[v].task \in Task
    BY <2>1, <2>3 DEF TypeOK
  <2>4. raced' \in [Node -> SUBSET Task]
    BY <1>5, HasSeenEffect DEF HasSeen
  <2>. QED
    BY <1>5, <2>3, <2>4, <2>5 DEF HasSeen, TypeOK
<1>6. ASSUME NEW w \in Worker, MarkSeen(w) PROVE TypeOK'
  <2>1. AgentTime(AgentOf[w]) + NonceTTL \in Int
    BY AgentTimeType DEF NonceTTL
  <2>2. handler[w].task \in Task
    BY <1>6 DEF MarkSeen, TypeOK
  <2>3. /\ handler' \in [Worker -> HandlerState]
        /\ \A v \in Worker : handler'[v].pc # "idle" => handler'[v].task \in Task
    BY <1>6, <2>2, GotoEffect DEF MarkSeen, TypeOK, HandlerPC
  <2>4. /\ DOMAIN entries' = Node
        /\ \A n \in Node :
             /\ DOMAIN entries'[n] \subseteq Task
             /\ \A t \in DOMAIN entries'[n] : entries'[n][t] \in Int
    BY <1>6, <2>1, <2>2 DEF MarkSeen, TypeOK
  <2>. QED
    BY <1>6, <2>3, <2>4 DEF MarkSeen, TypeOK
<1>7. ASSUME NEW w \in Worker, Execute(w) PROVE TypeOK'
  <2>1. handler[w].task \in Task
    BY <1>7 DEF Execute, TypeOK
  <2>2. /\ handler' \in [Worker -> HandlerState]
        /\ \A v \in Worker : handler'[v].pc # "idle" => handler'[v].task \in Task
    BY <1>7, <2>1, ExecuteEffect DEF TypeOK
  <2>3. runs' \in [Node -> [Task -> Nat]]
    BY <1>7, <2>1 DEF Execute, TypeOK
  <2>. QED
    BY <1>7, <2>2, <2>3 DEF Execute, TypeOK
<1>8. ASSUME NEW w \in Worker, Finish(w) PROVE TypeOK'
  <2>1. handler[w].task \in Task
    BY <1>8 DEF Finish, TypeOK
  <2>2. /\ handler' \in [Worker -> HandlerState]
        /\ \A v \in Worker : handler'[v].pc # "idle" => handler'[v].task \in Task
    BY <1>8, <2>1, AnswerEffect DEF Finish, TypeOK
  <2>. QED
    BY <1>8, <2>1, <2>2 DEF Finish, TypeOK
<1>9. ASSUME NEW w \in Worker, Reply(w) PROVE TypeOK'
  <2>1. /\ handler[w].task \in Task
        /\ handler[w].result \in {"none", "succeeded", "failed", "refused"}
    BY <1>9 DEF Reply, TypeOK, HandlerState
  <2>2. /\ handler' \in [Worker -> HandlerState]
        /\ \A v \in Worker : handler'[v].pc # "idle" => handler'[v].task \in Task
    BY <1>9, ResetEffect, IdleFields DEF Reply, TypeOK
  <2>3. call' \in [Task -> CallState]
    BY <1>9, <2>1 DEF Reply, TypeOK, CallState
  <2>. QED
    BY <1>9, <2>2, <2>3 DEF Reply, TypeOK
<1>10. ASSUME NEW w \in Worker, ReplyLost(w) PROVE TypeOK'
  <2>1. /\ handler' \in [Worker -> HandlerState]
        /\ \A v \in Worker : handler'[v].pc # "idle" => handler'[v].task \in Task
    BY <1>10, ResetEffect, IdleFields DEF ReplyLost, TypeOK
  <2>. QED
    BY <1>10, <2>1 DEF ReplyLost, TypeOK
<1>11. ASSUME NEW n \in Node, Cleanup(n) PROVE TypeOK'
  BY <1>11 DEF Cleanup, TypeOK
<1>12. ASSUME NEW n \in Node, Restart(n) PROVE TypeOK'
  <2>1. \A v \in Worker : handler'[v].pc # "idle" => handler'[v].task \in Task
    BY <1>12, RestartEffect, IdleFields DEF TypeOK
  <2>2. handler' \in [Worker -> HandlerState]
    BY <1>12, RestartEffect
  <2>3. /\ runs' \in [Node -> [Task -> Nat]]
        /\ restarts' \in [Node -> Nat]
        /\ raced' \in [Node -> SUBSET Task]
        /\ UNCHANGED <<clock, builtAt, call, completed>>
    BY <1>12 DEF Restart, TypeOK
  <2>4. /\ DOMAIN entries' = Node
        /\ \A m \in Node :
             /\ DOMAIN entries'[m] \subseteq Task
             /\ \A t \in DOMAIN entries'[m] : entries'[m][t] \in Int
    BY <1>12 DEF Restart, TypeOK
  <2>. QED
    BY <2>1, <2>2, <2>3, <2>4 DEF TypeOK
<1>13. CASE Tick
  BY <1>13 DEF Tick, TypeOK
<1>14. CASE UNCHANGED vars
  BY <1>14 DEF vars, TypeOK
<1>. QED
  BY <1>1, <1>2, <1>3, <1>4, <1>5, <1>6, <1>7, <1>8, <1>9, <1>10, <1>11,
     <1>12, <1>13, <1>14 DEF Next

\* The state keeps its type (all of TaskProtocol's variables).
THEOREM TypeCorrect == Spec => []TypeOK
BY InitTypeOK, NextTypeOK, PTL DEF Spec
-----------------------------------------------------------------------------
\* A task once built stays built, with the timestamps Build gave it.

LEMMA BuiltForever ==
  ASSUME TypeOK, [Next]_vars, SuccessIsReal, NEW t \in Task, call[t] # "none"
  PROVE  call'[t] # "none" /\ builtAt'[t] = builtAt[t]
<1>1. ASSUME NEW u \in Task, Build(u) PROVE call'[t] # "none" /\ builtAt'[t] = builtAt[t]
  BY <1>1 DEF Build, TypeOK
<1>2. ASSUME NEW u \in Task, GiveUp(u) PROVE call'[t] # "none" /\ builtAt'[t] = builtAt[t]
  BY <1>2 DEF GiveUp, TypeOK
<1>3. ASSUME NEW w \in Worker, NEW u \in Task, Receive(w, u)
      PROVE  call'[t] # "none" /\ builtAt'[t] = builtAt[t]
  <2>1. builtAt' = builtAt
    BY <1>3 DEF Receive
  <2>. QED
    BY <1>3, <2>1, ReceiveEffect
<1>4. ASSUME NEW w \in Worker, Reply(w) PROVE call'[t] # "none" /\ builtAt'[t] = builtAt[t]
  <2>1. handler[w].result # "none"
    BY <1>4 DEF Reply, SuccessIsReal
  <2>. QED
    BY <1>4, <2>1 DEF Reply, TypeOK
<1>5. ASSUME UNCHANGED <<call, builtAt>> PROVE call'[t] # "none" /\ builtAt'[t] = builtAt[t]
  BY <1>5
<1>6. ASSUME NEW w \in Worker,
             CheckEnvelope(w) \/ HasSeen(w) \/ MarkSeen(w) \/ Execute(w)
               \/ Finish(w) \/ ReplyLost(w)
      PROVE  UNCHANGED <<call, builtAt>>
  BY <1>6 DEF CheckEnvelope, HasSeen, MarkSeen, Execute, Finish, ReplyLost
<1>7. ASSUME NEW n \in Node, Cleanup(n) \/ Restart(n) PROVE UNCHANGED <<call, builtAt>>
  BY <1>7 DEF Cleanup, Restart
<1>8. Tick \/ UNCHANGED vars => UNCHANGED <<call, builtAt>>
  BY DEF Tick, vars
<1>. QED
  BY <1>1, <1>2, <1>3, <1>4, <1>5, <1>6, <1>7, <1>8 DEF Next

\* Formatted timestamps of a task that was built do not change, so neither
\* does what Verify's envelope checks say of it at a given time.
LEMMA EnvelopeStable ==
  ASSUME NEW n \in Node, NEW t \in Task, NEW now, builtAt'[t] = builtAt[t]
  PROVE  /\ ExpiresAt(t)' = ExpiresAt(t)
         /\ IssuedAt(t)' = IssuedAt(t)
         /\ EnvelopeOk(n, t, now)' <=> EnvelopeOk(n, t, now)
BY DEF EnvelopeOk, NotExpired, NotFuture, SignatureValid, ExpiresAt, IssuedAt,
       WholeSeconds
-----------------------------------------------------------------------------
\* HandlersTimely.

\* A goroutine between Verify's clock reading and the operation was there
\* before the step, with the same task and reading, or has just taken it.
LEMMA HowTimelyChanges ==
  ASSUME TypeOK, [Next]_vars, NEW v \in Worker,
         handler'[v].pc \in {"checked", "unseen", "verified"}
  PROVE  \/ /\ handler[v].pc \in {"checked", "unseen", "verified"}
            /\ handler'[v].task = handler[v].task
            /\ handler'[v].now = handler[v].now
            /\ clock' = clock \/ Tick
         \/ CheckEnvelope(v) /\ handler'[v].pc = "checked"
<1>. DEFINE Goal ==
       \/ /\ handler[v].pc \in {"checked", "unseen", "verified"}
          /\ handler'[v].task = handler[v].task
          /\ handler'[v].now = handler[v].now
          /\ clock' = clock \/ Tick
       \/ CheckEnvelope(v) /\ handler'[v].pc = "checked"
<1>1. ASSUME NEW t \in Task, Build(t) \/ GiveUp(t) PROVE Goal
  BY <1>1 DEF Build, GiveUp
<1>2. ASSUME NEW w \in Worker, NEW t \in Task, Receive(w, t) PROVE Goal
  <2>1. clock' = clock
    BY <1>2 DEF Receive
  <2>2. /\ handler'[w].pc = "received"
        /\ v # w => handler'[v] = handler[v]
    BY <1>2, ReceiveEffect
  <2>. QED
    BY <2>1, <2>2
<1>3. ASSUME NEW w \in Worker, CheckEnvelope(w) PROVE Goal
  <2>1. clock' = clock
    BY <1>3 DEF CheckEnvelope
  <2>2. CASE w = v
    <3>1. AgentTime(AgentOf[w]) \in Int
      BY AgentTimeType, ConstantsAssumption
    <3>2. handler'[w].pc \in {"checked", "replying"}
      BY <1>3, <3>1, CheckedEffect, AnswerEffect DEF CheckEnvelope
    <3>. QED
      BY <1>3, <2>2, <3>2
  <2>3. CASE w # v
    <3>1. AgentTime(AgentOf[w]) \in Int
      BY AgentTimeType, ConstantsAssumption
    <3>2. handler'[v] = handler[v]
      BY <1>3, <2>3, <3>1, CheckedEffect, AnswerEffect DEF CheckEnvelope
    <3>. QED
      BY <2>1, <3>2
  <2>. QED
    BY <2>2, <2>3
<1>4. ASSUME NEW w \in Worker, HasSeen(w) PROVE Goal
  <2>1. clock' = clock /\ handler[w].pc = "checked"
    BY <1>4 DEF HasSeen
  <2>2. /\ v # w => handler'[v] = handler[v]
        /\ \/ handler'[w].pc = "replying"
           \/ /\ handler'[w].task = handler[w].task
              /\ handler'[w].now = handler[w].now
    <3>1. Goto(w, "unseen") \/ Answer(w, "refused")
      BY <1>4 DEF HasSeen
    <3>2. CASE Goto(w, "unseen")
      BY <3>2, GotoEffect DEF HandlerPC
    <3>3. CASE Answer(w, "refused")
      BY <3>3, AnswerEffect
    <3>. QED
      BY <3>1, <3>2, <3>3
  <2>. QED
    BY <2>1, <2>2
<1>5. ASSUME NEW w \in Worker, MarkSeen(w) PROVE Goal
  <2>1. clock' = clock /\ handler[w].pc = "unseen"
    BY <1>5 DEF MarkSeen
  <2>2. /\ v # w => handler'[v] = handler[v]
        /\ handler'[w].task = handler[w].task
        /\ handler'[w].now = handler[w].now
    BY <1>5, GotoEffect DEF MarkSeen, HandlerPC
  <2>. QED
    BY <2>1, <2>2
<1>6. ASSUME NEW w \in Worker, Execute(w) PROVE Goal
  <2>1. clock' = clock
    BY <1>6 DEF Execute
  <2>2. /\ v # w => handler'[v] = handler[v]
        /\ handler'[w].pc = "running"
    BY <1>6, ExecuteEffect
  <2>. QED
    BY <2>1, <2>2
<1>7. ASSUME NEW w \in Worker, Finish(w) PROVE Goal
  <2>1. clock' = clock
    BY <1>7 DEF Finish
  <2>2. /\ v # w => handler'[v] = handler[v]
        /\ handler'[w].pc = "replying"
    BY <1>7, AnswerEffect DEF Finish
  <2>. QED
    BY <2>1, <2>2
<1>8. ASSUME NEW w \in Worker, Reply(w) \/ ReplyLost(w) PROVE Goal
  <2>1. clock' = clock
    BY <1>8 DEF Reply, ReplyLost
  <2>2. /\ v # w => handler'[v] = handler[v]
        /\ handler'[w].pc = "idle"
    BY <1>8, ResetEffect, IdleFields DEF Reply, ReplyLost
  <2>. QED
    BY <2>1, <2>2
<1>9. ASSUME NEW n \in Node, Cleanup(n) PROVE Goal
  BY <1>9 DEF Cleanup
<1>10. ASSUME NEW n \in Node, Restart(n) PROVE Goal
  <2>1. clock' = clock
    BY <1>10 DEF Restart
  <2>2. handler'[v] = handler[v] \/ handler'[v].pc = "idle"
    BY <1>10, RestartEffect, IdleFields
  <2>. QED
    BY <2>1, <2>2
<1>11. CASE Tick
  BY <1>11 DEF Tick
<1>12. CASE UNCHANGED vars
  BY <1>12 DEF vars
<1>. QED
  BY <1>1, <1>2, <1>3, <1>4, <1>5, <1>6, <1>7, <1>8, <1>9, <1>10, <1>11, <1>12
  DEF Next

LEMMA NextHandlersTimely ==
  ASSUME TypeOK, TasksWereBuilt, SuccessIsReal, HandlersTimely, [Next]_vars
  PROVE  HandlersTimely'
<1>. SUFFICES ASSUME NEW v \in Worker,
                     handler'[v].pc \in {"checked", "unseen", "verified"}
              PROVE  Timely(v)'
  BY DEF HandlersTimely
<1>. DEFINE n == AgentOf[v]
            t == handler[v].task
<1>0. n \in Node
  BY ConstantsAssumption
<1>1. CASE /\ handler[v].pc \in {"checked", "unseen", "verified"}
           /\ handler'[v].task = handler[v].task
           /\ handler'[v].now = handler[v].now
           /\ clock' = clock \/ Tick
  <2>1. t \in Task /\ call[t] # "none"
    BY <1>1 DEF TypeOK, TasksWereBuilt
  <2>2. builtAt'[t] = builtAt[t]
    BY <2>1, BuiltForever
  <2>3. EnvelopeOk(n, t, handler[v].now)' <=> EnvelopeOk(n, t, handler[v].now)
    BY <1>1, <2>2 DEF EnvelopeOk, NotExpired, NotFuture, SignatureValid,
                      ExpiresAt, IssuedAt, WholeSeconds
  <2>4. Timely(v)
    BY <1>1 DEF HandlersTimely
  <2>5. handler[v].now \in Int /\ AgentTime(n) \in Int
    BY <1>0, AgentTimeType DEF TypeOK, HandlerState
  <2>6. CASE clock' = clock
    BY <1>1, <2>3, <2>4, <2>6 DEF Timely, AgentTime
  <2>7. CASE Tick
    <3>1. AgentTime(n)' = AgentTime(n) + 1
      BY <1>0, <2>7, ConstantsAssumption DEF Tick, AgentTime, TypeOK
    <3>2. ~(AgentTime(n) - handler[v].now >= MaxPause)
      BY <1>1, <2>7 DEF Tick, Paused
    <3>3. /\ handler[v].now <= AgentTime(n) + 1
          /\ AgentTime(n) + 1 <= handler[v].now + MaxPause
      BY <2>4, <2>5, <3>2, ConstantsAssumption DEF Timely
    <3>. QED
      BY <1>1, <2>3, <2>4, <3>1, <3>3 DEF Timely
  <2>. QED
    BY <1>1, <2>6, <2>7
<1>2. CASE CheckEnvelope(v) /\ handler'[v].pc = "checked"
  <2>1. AgentTime(n) \in Int
    BY <1>0, AgentTimeType
  <2>2. /\ EnvelopeOk(n, t, AgentTime(n))
        /\ handler' = [handler EXCEPT ![v].pc = "checked", ![v].now = AgentTime(n)]
    <3>1. ASSUME Answer(v, "refused") PROVE FALSE
      BY <1>2, <3>1, AnswerEffect
    <3>. QED
      BY <1>2, <3>1 DEF CheckEnvelope
  <2>3. handler'[v].task = t /\ handler'[v].now = AgentTime(n)
    BY <2>1, <2>2, CheckedEffect
  <2>4. clock' = clock /\ builtAt' = builtAt
    BY <1>2 DEF CheckEnvelope
  <2>5. EnvelopeOk(n, handler[v].task, handler[v].now)'
    BY <2>2, <2>3, <2>4 DEF EnvelopeOk, NotExpired, NotFuture, SignatureValid,
                            ExpiresAt, IssuedAt, WholeSeconds
  <2>6. AgentTime(n)' = AgentTime(n)
    BY <2>4 DEF AgentTime
  <2>. QED
    BY <2>1, <2>3, <2>5, <2>6, ConstantsAssumption DEF Timely
<1>. QED
  BY <1>1, <1>2, HowTimelyChanges
-----------------------------------------------------------------------------
\* What a step can do to one goroutine, to one counter of operations started
\* and to one nonce entry, whichever action it is.

LEMMA OwnStep ==
  ASSUME TypeOK, NEW w \in Worker
  PROVE  /\ CheckEnvelope(w) => /\ handler[w].pc = "received"
                                /\ handler'[w].pc \in {"checked", "replying"}
                                /\ handler'[w].task = handler[w].task
                                /\ handler'[w].result \in {handler[w].result, "refused"}
                                /\ handler'[w].pc = "replying" =>
                                     handler'[w].result = "refused"
         /\ HasSeen(w) => /\ handler[w].pc = "checked"
                          /\ handler'[w].pc \in {"unseen", "replying"}
                          /\ handler'[w].task = handler[w].task
                          /\ handler'[w].result \in {handler[w].result, "refused"}
                          /\ handler'[w].pc = "replying" =>
                               handler'[w].result = "refused"
         /\ MarkSeen(w) => /\ handler[w].pc = "unseen"
                           /\ handler'[w].pc = "verified"
                           /\ handler'[w].task = handler[w].task
                           /\ handler'[w].result = handler[w].result
         /\ Execute(w) => /\ handler[w].pc = "verified"
                          /\ handler'[w].pc = "running"
                          /\ handler'[w].task = handler[w].task
                          /\ handler'[w].result = "none"
         /\ Finish(w) => /\ handler[w].pc = "running"
                         /\ handler'[w].pc = "replying"
                         /\ handler'[w].task = handler[w].task
                         /\ handler'[w].result \in {"succeeded", "failed"}
                         /\ handler'[w].result = "succeeded" =>
                              handler[w].task \in completed'
<1>1. AgentTime(AgentOf[w]) \in Int
  BY AgentTimeType, ConstantsAssumption
<1>2. ASSUME CheckEnvelope(w)
      PROVE  /\ handler[w].pc = "received"
             /\ handler'[w].pc \in {"checked", "replying"}
             /\ handler'[w].task = handler[w].task
             /\ handler'[w].result \in {handler[w].result, "refused"}
             /\ handler'[w].pc = "replying" => handler'[w].result = "refused"
  BY <1>1, <1>2, CheckedEffect, AnswerEffect DEF CheckEnvelope
<1>3. ASSUME HasSeen(w)
      PROVE  /\ handler[w].pc = "checked"
             /\ handler'[w].pc \in {"unseen", "replying"}
             /\ handler'[w].task = handler[w].task
             /\ handler'[w].result \in {handler[w].result, "refused"}
             /\ handler'[w].pc = "replying" => handler'[w].result = "refused"
  BY <1>3, GotoEffect, AnswerEffect DEF HasSeen, HandlerPC
<1>4. ASSUME MarkSeen(w)
      PROVE  /\ handler[w].pc = "unseen"
             /\ handler'[w].pc = "verified"
             /\ handler'[w].task = handler[w].task
             /\ handler'[w].result = handler[w].result
  BY <1>4, GotoEffect DEF MarkSeen, HandlerPC
<1>5. ASSUME Execute(w)
      PROVE  /\ handler[w].pc = "verified"
             /\ handler'[w].pc = "running"
             /\ handler'[w].task = handler[w].task
             /\ handler'[w].result = "none"
  BY <1>5, ExecuteEffect DEF Execute
<1>6. ASSUME Finish(w)
      PROVE  /\ handler[w].pc = "running"
             /\ handler'[w].pc = "replying"
             /\ handler'[w].task = handler[w].task
             /\ handler'[w].result \in {"succeeded", "failed"}
             /\ handler'[w].result = "succeeded" => handler[w].task \in completed'
  BY <1>6, AnswerEffect DEF Finish
<1>. QED
  BY <1>2, <1>3, <1>4, <1>5, <1>6

LEMMA HandlerStep ==
  ASSUME TypeOK, [Next]_vars, NEW v \in Worker
  PROVE  \/ handler'[v] = handler[v]
         \/ handler'[v] = Idle
         \/ \E t \in Task : Receive(v, t)
         \/ CheckEnvelope(v) \/ HasSeen(v) \/ MarkSeen(v) \/ Execute(v) \/ Finish(v)
<1>. DEFINE Goal == \/ handler'[v] = handler[v]
                    \/ handler'[v] = Idle
                    \/ \E t \in Task : Receive(v, t)
                    \/ CheckEnvelope(v) \/ HasSeen(v) \/ MarkSeen(v)
                    \/ Execute(v) \/ Finish(v)
<1>1. ASSUME UNCHANGED handler PROVE Goal
  BY <1>1
<1>2. ASSUME NEW t \in Task, Build(t) \/ GiveUp(t) PROVE UNCHANGED handler
  BY <1>2 DEF Build, GiveUp
<1>3. ASSUME NEW w \in Worker, NEW t \in Task, Receive(w, t) PROVE Goal
  BY <1>3, ReceiveEffect
<1>4. ASSUME NEW w \in Worker, CheckEnvelope(w) PROVE Goal
  <2>1. AgentTime(AgentOf[w]) \in Int
    BY AgentTimeType, ConstantsAssumption
  <2>2. v # w => handler'[v] = handler[v]
    BY <1>4, <2>1, CheckedEffect, AnswerEffect DEF CheckEnvelope
  <2>. QED
    BY <1>4, <2>2
<1>5. ASSUME NEW w \in Worker, HasSeen(w) PROVE Goal
  <2>1. v # w => handler'[v] = handler[v]
    BY <1>5, GotoEffect, AnswerEffect DEF HasSeen, HandlerPC
  <2>. QED
    BY <1>5, <2>1
<1>6. ASSUME NEW w \in Worker, MarkSeen(w) PROVE Goal
  <2>1. v # w => handler'[v] = handler[v]
    BY <1>6, GotoEffect DEF MarkSeen, HandlerPC
  <2>. QED
    BY <1>6, <2>1
<1>7. ASSUME NEW w \in Worker, Execute(w) PROVE Goal
  <2>1. v # w => handler'[v] = handler[v]
    BY <1>7, ExecuteEffect
  <2>. QED
    BY <1>7, <2>1
<1>8. ASSUME NEW w \in Worker, Finish(w) PROVE Goal
  <2>1. v # w => handler'[v] = handler[v]
    BY <1>8, AnswerEffect DEF Finish
  <2>. QED
    BY <1>8, <2>1
<1>9. ASSUME NEW w \in Worker, Reply(w) \/ ReplyLost(w) PROVE Goal
  BY <1>9, ResetEffect DEF Reply, ReplyLost
<1>10. ASSUME NEW n \in Node, Cleanup(n) PROVE UNCHANGED handler
  BY <1>10 DEF Cleanup
<1>11. ASSUME NEW n \in Node, Restart(n) PROVE Goal
  BY <1>11, RestartEffect
<1>12. Tick \/ UNCHANGED vars => UNCHANGED handler
  BY DEF Tick, vars
<1>. QED
  BY <1>1, <1>2, <1>3, <1>4, <1>5, <1>6, <1>7, <1>8, <1>9, <1>10, <1>11, <1>12
  DEF Next

LEMMA RunsStep ==
  ASSUME TypeOK, [Next]_vars, NEW n \in Node, NEW t \in Task
  PROVE  \/ runs'[n][t] = runs[n][t] /\ ~Restart(n)
         \/ runs'[n][t] = 0 /\ Restart(n)
         \/ \E w \in Worker : /\ Execute(w)
                              /\ AgentOf[w] = n
                              /\ handler[w].task = t
                              /\ runs'[n][t] = runs[n][t] + 1
<1>1. CASE Restart(n)
  BY <1>1 DEF Restart, TypeOK
<1>2. CASE ~Restart(n)
  <2>1. ASSUME NEW w \in Worker, Execute(w)
        PROVE  \/ runs'[n][t] = runs[n][t]
               \/ /\ AgentOf[w] = n
                  /\ handler[w].task = t
                  /\ runs'[n][t] = runs[n][t] + 1
    BY <2>1, ConstantsAssumption DEF Execute, TypeOK
  <2>2. ASSUME NEW m \in Node, m # n, Restart(m) PROVE runs'[n] = runs[n]
    BY <2>2 DEF Restart, TypeOK
  <2>3. ASSUME UNCHANGED runs PROVE runs'[n][t] = runs[n][t]
    BY <2>3
  <2>4. ASSUME NEW u \in Task, Build(u) \/ GiveUp(u) PROVE UNCHANGED runs
    BY <2>4 DEF Build, GiveUp
  <2>5. ASSUME NEW w \in Worker, NEW u \in Task, Receive(w, u) PROVE UNCHANGED runs
    BY <2>5 DEF Receive
  <2>6. ASSUME NEW w \in Worker,
               CheckEnvelope(w) \/ HasSeen(w) \/ MarkSeen(w) \/ Finish(w)
                 \/ Reply(w) \/ ReplyLost(w)
        PROVE  UNCHANGED runs
    BY <2>6 DEF CheckEnvelope, HasSeen, MarkSeen, Finish, Reply, ReplyLost
  <2>7. ASSUME NEW m \in Node, Cleanup(m) PROVE UNCHANGED runs
    BY <2>7 DEF Cleanup
  <2>8. Tick \/ UNCHANGED vars => UNCHANGED runs
    BY DEF Tick, vars
  <2>. QED
    BY <1>2, <2>1, <2>2, <2>3, <2>4, <2>5, <2>6, <2>7, <2>8 DEF Next
<1>. QED
  BY <1>1, <1>2
LEMMA EntriesStep ==
  ASSUME TypeOK, [Next]_vars, NEW n \in Node, NEW t \in Task, ~Restart(n),
         \A w \in Worker : MarkSeen(w) => ~(AgentOf[w] = n /\ handler[w].task = t)
  PROVE  /\ t \in DOMAIN entries'[n] =>
              /\ t \in DOMAIN entries[n]
              /\ entries'[n][t] = entries[n][t]
         /\ t \in DOMAIN entries[n] /\ t \notin DOMAIN entries'[n] =>
              AgentTime(n) > entries[n][t]
<1>. DEFINE Goal ==
       /\ t \in DOMAIN entries'[n] =>
            /\ t \in DOMAIN entries[n]
            /\ entries'[n][t] = entries[n][t]
       /\ t \in DOMAIN entries[n] /\ t \notin DOMAIN entries'[n] =>
            AgentTime(n) > entries[n][t]
<1>1. ASSUME UNCHANGED entries PROVE Goal
  BY <1>1
<1>2. ASSUME NEW u \in Task, Build(u) \/ GiveUp(u) PROVE UNCHANGED entries
  BY <1>2 DEF Build, GiveUp
<1>3. ASSUME NEW w \in Worker, NEW u \in Task, Receive(w, u) PROVE UNCHANGED entries
  BY <1>3 DEF Receive
<1>4. ASSUME NEW w \in Worker,
             CheckEnvelope(w) \/ HasSeen(w) \/ Execute(w) \/ Finish(w)
               \/ Reply(w) \/ ReplyLost(w)
      PROVE  UNCHANGED entries
  BY <1>4 DEF CheckEnvelope, HasSeen, Execute, Finish, Reply, ReplyLost
<1>5. ASSUME NEW w \in Worker, MarkSeen(w) PROVE Goal
  <2>1. AgentOf[w] # n \/ handler[w].task # t
    BY <1>5
  <2>2. CASE AgentOf[w] # n
    BY <1>5, <2>2 DEF MarkSeen, TypeOK
  <2>3. CASE AgentOf[w] = n /\ handler[w].task # t
    BY <1>5, <2>3 DEF MarkSeen, TypeOK
  <2>. QED
    BY <2>1, <2>2, <2>3
<1>6. ASSUME NEW m \in Node, Cleanup(m) PROVE Goal
  <2>1. CASE m # n
    BY <1>6, <2>1 DEF Cleanup, TypeOK
  <2>2. CASE m = n
    BY <1>6, <2>2 DEF Cleanup, TypeOK
  <2>. QED
    BY <2>1, <2>2
<1>7. ASSUME NEW m \in Node, m # n, Restart(m) PROVE Goal
  BY <1>7 DEF Restart, TypeOK
<1>8. Tick \/ UNCHANGED vars => UNCHANGED entries
  BY DEF Tick, vars
<1>. QED
  BY <1>1, <1>2, <1>3, <1>4, <1>5, <1>6, <1>7, <1>8 DEF Next

\* Only MarkSeen makes a task Marked, and a restart of its agent makes it not.
LEMMA MarkedStep ==
  ASSUME TypeOK, [Next]_vars, NEW n \in Node, NEW t \in Task, Marked(n, t)'
  PROVE  /\ ~Restart(n)
         /\ \/ Marked(n, t)
            \/ \E w \in Worker : /\ MarkSeen(w)
                                 /\ AgentOf[w] = n
                                 /\ handler[w].task = t
<1>1. ~Restart(n)
  <2>. SUFFICES ASSUME Restart(n) PROVE FALSE
    OBVIOUS
  <2>1. runs'[n][t] = 0
    BY DEF Restart, TypeOK
  <2>2. \A w \in Worker : AgentOf[w] = n => handler'[w].pc = "idle"
    BY RestartEffect, IdleFields
  <2>. QED
    BY <2>1, <2>2 DEF Marked
<1>2. CASE runs'[n][t] > 0
  <2>1. ASSUME NEW w \in Worker, Execute(w), AgentOf[w] = n, handler[w].task = t
        PROVE  Marked(n, t)
    BY <2>1, OwnStep DEF Marked
  <2>2. runs'[n][t] = runs[n][t] => Marked(n, t)
    BY <1>2 DEF Marked
  <2>. QED
    BY <1>1, <2>1, <2>2, RunsStep
<1>3. ASSUME NEW w \in Worker, AgentOf[w] = n, handler'[w].task = t,
             handler'[w].pc = "verified"
      PROVE  Marked(n, t) \/ (MarkSeen(w) /\ handler[w].task = t)
  <2>1. handler'[w] # Idle
    BY <1>3, IdleFields
  <2>2. \A u \in Task : ~Receive(w, u)
    BY <1>3, ReceiveEffect
  <2>3. handler'[w] = handler[w] \/ MarkSeen(w)
    BY <1>3, <2>1, <2>2, HandlerStep, OwnStep
  <2>. QED
    BY <1>3, <2>3, OwnStep DEF Marked
<1>. QED
  BY <1>1, <1>2, <1>3 DEF Marked

LEMMA NextTasksWereBuilt ==
  ASSUME TypeOK, TasksWereBuilt, SuccessIsReal, [Next]_vars
  PROVE  TasksWereBuilt'
<1>1. ASSUME NEW w \in Worker
      PROVE  IF handler'[w].pc = "idle" THEN handler'[w].task = NoTask
                                        ELSE call'[handler'[w].task] # "none"
  <2>1. handler[w].pc # "idle" => /\ handler[w].task \in Task
                                  /\ call[handler[w].task] # "none"
    BY DEF TypeOK, TasksWereBuilt
  <2>2. CASE handler'[w] = handler[w]
    BY <2>1, <2>2, BuiltForever DEF TasksWereBuilt
  <2>3. CASE handler'[w] = Idle
    BY <2>3, IdleFields
  <2>4. ASSUME NEW t \in Task, Receive(w, t)
        PROVE  handler'[w].pc # "idle" /\ call'[handler'[w].task] # "none"
    BY <2>4, ReceiveEffect
  <2>5. CASE CheckEnvelope(w) \/ HasSeen(w) \/ MarkSeen(w) \/ Execute(w) \/ Finish(w)
    <3>1. /\ handler[w].pc # "idle"
          /\ handler'[w].pc # "idle"
          /\ handler'[w].task = handler[w].task
      BY <2>5, OwnStep
    <3>. QED
      BY <2>1, <3>1, BuiltForever
  <2>. QED
    BY <2>2, <2>3, <2>4, <2>5, HandlerStep
<1>2. ASSUME NEW n \in Node, NEW t \in Task, runs'[n][t] > 0
      PROVE  call'[t] # "none"
  <2>1. call[t] # "none"
    <3>1. ASSUME NEW w \in Worker, Execute(w), handler[w].task = t
          PROVE  call[t] # "none"
      BY <3>1, OwnStep DEF TasksWereBuilt
    <3>2. runs'[n][t] = runs[n][t] => call[t] # "none"
      BY <1>2 DEF TasksWereBuilt
    <3>. QED
      BY <1>2, <3>1, <3>2, RunsStep
  <2>. QED
    BY <2>1, BuiltForever
<1>. QED
  BY <1>1, <1>2 DEF TasksWereBuilt
LEMMA NextSuccessIsReal ==
  ASSUME TypeOK, HandlersTimely, SuccessIsReal, [Next]_vars
  PROVE  SuccessIsReal'
<1>0. completed \subseteq completed'
  BY DEF Next, vars, Build, GiveUp, Receive, CheckEnvelope, HasSeen, MarkSeen,
         Execute, Finish, Reply, ReplyLost, Cleanup, Restart, Tick
<1>1. ASSUME NEW w \in Worker
      PROVE  /\ handler'[w].result = "succeeded" => handler'[w].task \in completed'
             /\ handler'[w].pc = "replying" => handler'[w].result # "none"
             /\ handler'[w].pc = "running" => /\ runs'[AgentOf[w]][handler'[w].task] > 0
                                              /\ NodeOf[handler'[w].task] = AgentOf[w]
  <2>. DEFINE n == AgentOf[w]
  <2>0. n \in Node
    BY ConstantsAssumption
  <2>1. CASE handler'[w] = handler[w] /\ ~Restart(n)
    <3>1. handler[w].pc = "running" => handler[w].task \in Task
      BY DEF TypeOK
    <3>2. \A t \in Task : runs[n][t] > 0 => runs'[n][t] > 0
      <4>1. \A t \in Task : runs[n][t] \in Nat
        BY <2>0 DEF TypeOK
      <4>. QED
        BY <2>0, <2>1, <4>1, RunsStep
    <3>. QED
      BY <1>0, <2>1, <3>1, <3>2 DEF SuccessIsReal
  <2>2. CASE handler'[w] = Idle
    BY <2>2, IdleFields
  <2>3. CASE Restart(n)
    BY <2>0, <2>2, <2>3, RestartEffect
  <2>4. ASSUME NEW t \in Task, Receive(w, t)
        PROVE  handler'[w].pc = "received" /\ handler'[w].result = "none"
    BY <2>4, ReceiveEffect
  <2>5. CASE CheckEnvelope(w) \/ HasSeen(w)
    BY <1>0, <2>5, OwnStep DEF SuccessIsReal
  <2>6. CASE MarkSeen(w)
    BY <1>0, <2>6, OwnStep DEF SuccessIsReal
  <2>7. CASE Execute(w)
    <3>1. /\ handler'[w].pc = "running"
          /\ handler'[w].task = handler[w].task
          /\ handler'[w].result = "none"
          /\ handler[w].pc = "verified"
      BY <2>7, OwnStep
    <3>2. handler[w].task \in Task
      BY <3>1 DEF TypeOK
    <3>3. runs'[n][handler[w].task] > 0
      BY <2>0, <2>7, <3>2 DEF Execute, TypeOK
    <3>4. NodeOf[handler[w].task] = n
      BY <3>1 DEF HandlersTimely, Timely, EnvelopeOk
    <3>. QED
      BY <1>0, <3>1, <3>3, <3>4 DEF SuccessIsReal
  <2>8. CASE Finish(w)
    BY <2>8, OwnStep
  <2>. QED
    BY <2>1, <2>2, <2>3, <2>4, <2>5, <2>6, <2>7, <2>8, HandlerStep
<1>2. ASSUME NEW t \in Task, call'[t] = "succeeded"
      PROVE  t \in completed'
  <2>1. ASSUME NEW w \in Worker, NEW u \in Task, Receive(w, u)
        PROVE  call[t] = "succeeded"
    BY <1>2, <2>1, ReceiveEffect
  <2>2. ASSUME NEW w \in Worker, Reply(w), call'[t] # call[t]
        PROVE  t \in completed
    BY <1>2, <2>2 DEF Reply, TypeOK, SuccessIsReal
  <2>3. ASSUME NEW u \in Task, Build(u) \/ GiveUp(u) PROVE call[t] = "succeeded"
    BY <1>2, <2>3 DEF Build, GiveUp, TypeOK
  <2>4. ASSUME NEW w \in Worker,
               CheckEnvelope(w) \/ HasSeen(w) \/ MarkSeen(w) \/ Execute(w)
                 \/ Finish(w) \/ ReplyLost(w)
        PROVE  UNCHANGED call
    BY <2>4 DEF CheckEnvelope, HasSeen, MarkSeen, Execute, Finish, ReplyLost
  <2>5. ASSUME NEW n \in Node, Cleanup(n) \/ Restart(n) PROVE UNCHANGED call
    BY <2>5 DEF Cleanup, Restart
  <2>6. Tick \/ UNCHANGED vars => UNCHANGED call
    BY DEF Tick, vars
  <2>. QED
    BY <1>0, <1>2, <2>1, <2>2, <2>3, <2>4, <2>5, <2>6 DEF Next, SuccessIsReal
<1>. QED
  BY <1>1, <1>2 DEF SuccessIsReal
-----------------------------------------------------------------------------
\* NonceRemembered.

\* Time does not run backwards.
LEMMA AgentTimeStep ==
  ASSUME TypeOK, [Next]_vars, NEW n \in Node
  PROVE  AgentTime(n)' \in {AgentTime(n), AgentTime(n) + 1}
<1>1. clock' \in {clock, clock + 1}
  BY DEF Next, vars, Build, GiveUp, Receive, CheckEnvelope, HasSeen, MarkSeen,
         Execute, Finish, Reply, ReplyLost, Cleanup, Restart, Tick
<1>2. clock \in Int /\ Offset[n] \in Int
  BY ConstantsAssumption DEF TypeOK
<1>3. clock' + Offset[n] \in {clock + Offset[n], clock + Offset[n] + 1}
  BY <1>1, <1>2
<1>. QED
  BY <1>3 DEF AgentTime

\* The entry MarkSeen writes outlives every acceptable copy of its task: at
\* worst the task is verified the moment it stops being "in the future" by the
\* agent's clock.
LEMMA FreshEntrySuffices ==
  ASSUME TypeOK, HandlersTimely, NEW w \in Worker, handler[w].pc = "unseen",
         SufficientTTL(handler[w].task)
  PROVE  AgentTime(AgentOf[w]) + NonceTTL > ExpiresAt(handler[w].task) + MaxPause
<1>. DEFINE n == AgentOf[w]
            t == handler[w].task
            now == handler[w].now
<1>1. n \in Node /\ t \in Task /\ now \in Int
  BY ConstantsAssumption DEF TypeOK, HandlerState
<1>2. AgentTime(n) \in Int /\ NonceTTL \in Int
  BY <1>1, AgentTimeType, ConstantsAssumption DEF NonceTTL
<1>3. Lifetime[t] \in Int /\ SkewTolerance \in Int /\ MaxPause \in Int /\ Second \in Int
  BY <1>1, ConstantsAssumption
<1>4. /\ IssuedAt(t) \in Int
      /\ ExpiresAt(t) \in Int
      /\ ExpiresAt(t) <= IssuedAt(t) + Lifetime[t] + Second - 1
  BY <1>1, TimestampBounds DEF TypeOK
<1>5. Timely(w)
  BY DEF HandlersTimely
<1>6. ~(IssuedAt(t) > now + SkewTolerance) /\ now <= AgentTime(n)
  BY <1>5 DEF Timely, EnvelopeOk, NotFuture
<1>7. Lifetime[t] + SkewTolerance + MaxPause + Second - 1 < NonceTTL
  BY DEF SufficientTTL
<1>. QED
  BY <1>1, <1>2, <1>3, <1>4, <1>6, <1>7

LEMMA NextNonceRemembered ==
  ASSUME IndInv, [Next]_vars
  PROVE  NonceRemembered'
<1>. USE DEF IndInv
<1>. SUFFICES ASSUME NEW n \in Node, NEW t \in Task, SufficientTTL(t), Marked(n, t)'
              PROVE  IF t \in DOMAIN entries'[n]
                       THEN entries'[n][t] > ExpiresAt(t)' + MaxPause
                       ELSE AgentTime(n)' > ExpiresAt(t)' + MaxPause
  BY DEF NonceRemembered, SufficientTTL, NonceTTL
<1>1. ~Restart(n)
  BY MarkedStep
<1>2. call[t] # "none"
  <2>1. Marked(n, t) => call[t] # "none"
    BY DEF Marked, TasksWereBuilt
  <2>2. ASSUME NEW w \in Worker, MarkSeen(w), handler[w].task = t
        PROVE  call[t] # "none"
    BY <2>2, OwnStep DEF TasksWereBuilt
  <2>. QED
    BY <2>1, <2>2, MarkedStep
<1>3. ExpiresAt(t)' = ExpiresAt(t)
  <2>1. builtAt'[t] = builtAt[t]
    BY <1>2, BuiltForever
  <2>. QED
    BY <2>1 DEF ExpiresAt, WholeSeconds
<1>4. /\ ExpiresAt(t) \in Int
      /\ MaxPause \in Int
      /\ AgentTime(n) \in Int
      /\ t \in DOMAIN entries[n] => entries[n][t] \in Int
  BY TimestampBounds, AgentTimeType, ConstantsAssumption DEF TypeOK
<1>5. ASSUME NEW w \in Worker, MarkSeen(w), AgentOf[w] = n, handler[w].task = t
      PROVE  t \in DOMAIN entries'[n] /\ entries'[n][t] > ExpiresAt(t) + MaxPause
  <2>1. entries'[n] = [x \in DOMAIN entries[n] \cup {t} |->
                         IF x = t THEN AgentTime(n) + NonceTTL ELSE entries[n][x]]
    BY <1>5 DEF MarkSeen, TypeOK
  <2>2. handler[w].pc = "unseen"
    BY <1>5, OwnStep
  <2>3. AgentTime(n) + NonceTTL > ExpiresAt(t) + MaxPause
    BY <1>5, <2>2, FreshEntrySuffices
  <2>. QED
    BY <2>1, <2>3
<1>6. CASE \A w \in Worker : MarkSeen(w) => ~(AgentOf[w] = n /\ handler[w].task = t)
  <2>1. Marked(n, t)
    BY <1>6, MarkedStep
  <2>2. IF t \in DOMAIN entries[n] THEN entries[n][t] > ExpiresAt(t) + MaxPause
                                   ELSE AgentTime(n) > ExpiresAt(t) + MaxPause
    BY <2>1 DEF NonceRemembered
  <2>3. /\ t \in DOMAIN entries'[n] => /\ t \in DOMAIN entries[n]
                                       /\ entries'[n][t] = entries[n][t]
        /\ (t \in DOMAIN entries[n] /\ t \notin DOMAIN entries'[n]) =>
             AgentTime(n) > entries[n][t]
    BY <1>1, <1>6, EntriesStep
  <2>4. AgentTime(n)' \in {AgentTime(n), AgentTime(n) + 1}
    BY AgentTimeStep
  <2>5. CASE t \in DOMAIN entries'[n]
    BY <1>3, <2>2, <2>3, <2>5
  <2>6. CASE t \notin DOMAIN entries'[n]
    <3>1. AgentTime(n) > ExpiresAt(t) + MaxPause
      BY <1>4, <2>2, <2>3, <2>6
    <3>. QED
      BY <1>3, <1>4, <2>4, <2>6, <3>1
  <2>. QED
    BY <2>5, <2>6
<1>. QED
  BY <1>3, <1>5, <1>6
-----------------------------------------------------------------------------
\* IndInv is inductive.

LEMMA InitIndInv == Init => IndInv
<1>. SUFFICES ASSUME Init PROVE IndInv
  OBVIOUS
<1>1. TypeOK
  BY InitTypeOK
<1>2. /\ \A w \in Worker : handler[w] = Idle
      /\ \A n \in Node, t \in Task : runs[n][t] = 0
      /\ \A t \in Task : call[t] = "none"
  BY DEF Init
<1>3. TasksWereBuilt /\ HandlersTimely /\ SuccessIsReal
  BY <1>2, IdleFields DEF TasksWereBuilt, HandlersTimely, SuccessIsReal
<1>4. NonceRemembered
  <2>1. \A n \in Node, t \in Task : ~Marked(n, t)
    BY <1>2, IdleFields DEF Marked
  <2>. QED
    BY <2>1 DEF NonceRemembered
<1>. QED
  BY <1>1, <1>3, <1>4 DEF IndInv

LEMMA NextIndInv == IndInv /\ [Next]_vars => IndInv'
<1>. SUFFICES ASSUME IndInv, [Next]_vars PROVE IndInv'
  OBVIOUS
<1>1. TypeOK'
  BY NextTypeOK DEF IndInv
<1>2. TasksWereBuilt'
  BY NextTasksWereBuilt DEF IndInv
<1>3. HandlersTimely'
  BY NextHandlersTimely DEF IndInv
<1>4. NonceRemembered'
  BY NextNonceRemembered
<1>5. SuccessIsReal'
  BY NextSuccessIsReal DEF IndInv
<1>. QED
  BY <1>1, <1>2, <1>3, <1>4, <1>5 DEF IndInv

\* The inductive invariant holds in every behaviour, whatever the constants
\* (task.go Verify, nonce.go, main.go handleTask, client.go SendTask).
THEOREM Invariance == Spec => []IndInv
BY InitIndInv, NextIndInv, PTL DEF Spec

\* The nonce store remembers every accepted task for as long as a copy of it
\* might be accepted again, provided its lifetime, the skew tolerance and a
\* stall of the goroutine fit into the store's TTL (nonce.go, task.go Verify).
THEOREM RemembersNonces == Spec => []NonceRemembered
<1>1. IndInv => NonceRemembered
  BY DEF IndInv
<1>. QED
  BY <1>1, Invariance, PTL

\* An operation starts only on the node its task names, under that node's key
\* and while the task is valid (task.go Verify, main.go handleTask).
THEOREM StartsAreValid == Spec => StartsOnlyValidTasks
<1>. DEFINE ValidStarts ==
       \A w \in Worker :
         (handler[w].pc = "verified" /\ handler'[w].pc = "running") =>
           LET n == AgentOf[w]
               t == handler[w].task
           IN /\ call[t] # "none"
              /\ NodeOf[t] = n
              /\ SignatureValid(n, t)
              /\ AgentTime(n) <= ExpiresAt(t) + MaxPause
              /\ IssuedAt(t) <= AgentTime(n) + SkewTolerance
<1>1. ASSUME IndInv PROVE ValidStarts
  <2>. SUFFICES ASSUME NEW w \in Worker, handler[w].pc = "verified"
                PROVE  /\ call[handler[w].task] # "none"
                       /\ NodeOf[handler[w].task] = AgentOf[w]
                       /\ SignatureValid(AgentOf[w], handler[w].task)
                       /\ AgentTime(AgentOf[w]) <= ExpiresAt(handler[w].task) + MaxPause
                       /\ IssuedAt(handler[w].task) <= AgentTime(AgentOf[w]) + SkewTolerance
    OBVIOUS
  <2>. DEFINE n == AgentOf[w]
              t == handler[w].task
              now == handler[w].now
  <2>1. TypeOK /\ Timely(w) /\ call[t] # "none"
    BY <1>1 DEF IndInv, HandlersTimely, TasksWereBuilt
  <2>2. n \in Node /\ t \in Task /\ now \in Int
    BY <2>1, ConstantsAssumption DEF TypeOK, HandlerState
  <2>3. /\ IssuedAt(t) \in Int /\ ExpiresAt(t) \in Int /\ AgentTime(n) \in Int
        /\ SkewTolerance \in Int /\ MaxPause \in Int
    BY <2>1, <2>2, TimestampBounds, AgentTimeType, ConstantsAssumption DEF TypeOK
  <2>4. /\ ~(now > ExpiresAt(t))
        /\ ~(IssuedAt(t) > now + SkewTolerance)
        /\ now <= AgentTime(n)
        /\ AgentTime(n) <= now + MaxPause
        /\ NodeOf[t] = n
        /\ SignatureValid(n, t)
    BY <2>1 DEF Timely, EnvelopeOk, NotExpired, NotFuture
  <2>5. /\ AgentTime(n) <= ExpiresAt(t) + MaxPause
        /\ IssuedAt(t) <= AgentTime(n) + SkewTolerance
    BY <2>2, <2>3, <2>4
  <2>. QED
    BY <2>1, <2>4, <2>5
<1>2. IndInv => [ValidStarts]_vars
  BY <1>1
<1>. QED
  BY <1>2, Invariance, PTL DEF StartsOnlyValidTasks
-----------------------------------------------------------------------------
\* At most one execution, when copies of a request do not overlap and every
\* task fits the nonce TTL.

LEMMA SeenWhileAcceptable ==
  ASSUME IndInv, NEW w \in Worker, handler[w].pc = "checked",
         SufficientTTL(handler[w].task), Marked(AgentOf[w], handler[w].task)
  PROVE  Seen(AgentOf[w], handler[w].task)
<1>. DEFINE n == AgentOf[w]
            t == handler[w].task
            now == handler[w].now
<1>1. TypeOK /\ Timely(w) /\ NonceRemembered
  BY DEF IndInv, HandlersTimely
<1>2. n \in Node /\ t \in Task /\ now \in Int
  BY <1>1, ConstantsAssumption DEF TypeOK, HandlerState
<1>3. /\ ExpiresAt(t) \in Int /\ AgentTime(n) \in Int /\ MaxPause \in Int
      /\ t \in DOMAIN entries[n] => entries[n][t] \in Int
  BY <1>1, <1>2, TimestampBounds, AgentTimeType, ConstantsAssumption DEF TypeOK
<1>4. AgentTime(n) <= ExpiresAt(t) + MaxPause
  BY <1>1, <1>2, <1>3 DEF Timely, EnvelopeOk, NotExpired
<1>5. IF t \in DOMAIN entries[n] THEN entries[n][t] > ExpiresAt(t) + MaxPause
                                 ELSE AgentTime(n) > ExpiresAt(t) + MaxPause
  BY <1>1, <1>2 DEF NonceRemembered
<1>6. t \in DOMAIN entries[n]
  BY <1>3, <1>4, <1>5
<1>7. AgentTime(n) < entries[n][t]
  BY <1>3, <1>4, <1>5, <1>6
<1>. QED
  BY <1>6, <1>7 DEF Seen

\* A copy that comes to HasSeen when another has been marked by the same
\* process is refused, overlap or not (nonce.go HasSeen, MarkSeen).
THEOREM RefusesLateCopies == Spec => LateCopiesRefused
<1>. DEFINE LateRefused ==
       \A w \in Worker :
         LET t == handler[w].task
         IN (/\ handler[w].pc = "checked"
             /\ SufficientTTL(t)
             /\ Marked(AgentOf[w], t)) => handler'[w].pc # "unseen"
<1>1. ASSUME IndInv, [Next]_vars PROVE LateRefused
  <2>. SUFFICES ASSUME NEW w \in Worker, handler[w].pc = "checked",
                       SufficientTTL(handler[w].task),
                       Marked(AgentOf[w], handler[w].task)
                PROVE  handler'[w].pc # "unseen"
    OBVIOUS
  <2>1. TypeOK
    BY <1>1 DEF IndInv
  <2>2. CASE HasSeen(w)
    <3>1. Seen(AgentOf[w], handler[w].task)
      BY <1>1, SeenWhileAcceptable
    <3>2. Answer(w, "refused")
      BY <2>2, <3>1 DEF HasSeen
    <3>. QED
      BY <2>1, <3>2, AnswerEffect
  <2>3. CASE ~HasSeen(w)
    BY <1>1, <2>1, <2>3, HandlerStep, OwnStep, ReceiveEffect, IdleFields
  <2>. QED
    BY <2>2, <2>3
<1>2. IndInv /\ [Next]_vars => [LateRefused]_vars
  BY <1>1
<1>. QED
  BY <1>2, Invariance, PTL DEF Spec, LateCopiesRefused

-----------------------------------------------------------------------------
\* One start to a process, unless copies raced.

LEMMA RacedStep ==
  ASSUME TypeOK, [Next]_vars, NEW n \in Node, ~Restart(n)
  PROVE  raced[n] \subseteq raced'[n]
<1>1. ASSUME UNCHANGED raced PROVE raced[n] \subseteq raced'[n]
  BY <1>1
<1>2. ASSUME NEW u \in Task, Build(u) \/ GiveUp(u) PROVE UNCHANGED raced
  BY <1>2 DEF Build, GiveUp
<1>3. ASSUME NEW w \in Worker, NEW u \in Task, Receive(w, u) PROVE UNCHANGED raced
  BY <1>3 DEF Receive
<1>4. ASSUME NEW w \in Worker,
             CheckEnvelope(w) \/ MarkSeen(w) \/ Execute(w) \/ Finish(w)
               \/ Reply(w) \/ ReplyLost(w)
      PROVE  UNCHANGED raced
  BY <1>4 DEF CheckEnvelope, MarkSeen, Execute, Finish, Reply, ReplyLost
<1>5. ASSUME NEW w \in Worker, HasSeen(w) PROVE raced[n] \subseteq raced'[n]
  BY <1>5, HasSeenEffect
<1>6. ASSUME NEW m \in Node, Cleanup(m) PROVE UNCHANGED raced
  BY <1>6 DEF Cleanup
<1>7. ASSUME NEW m \in Node, m # n, Restart(m) PROVE raced'[n] = raced[n]
  BY <1>7 DEF Restart, TypeOK
<1>8. Tick \/ UNCHANGED vars => UNCHANGED raced
  BY DEF Tick, vars
<1>. QED
  BY <1>1, <1>2, <1>3, <1>4, <1>5, <1>6, <1>7, <1>8 DEF Next

\* A goroutine that HasSeen has let through was so before, or has just been;
\* then, if it raced with no other, the process did not know the task.
LEMMA AdmittedStep ==
  ASSUME IndInv, [Next]_vars, NEW n \in Node, NEW t \in Task, SufficientTTL(t),
         NEW v \in Worker, AgentOf[v] = n, handler'[v].task = t,
         handler'[v].pc \in {"unseen", "verified"}
  PROVE  /\ handler[v].task = t
         /\ \/ /\ v \in Admitted(n, t)
               /\ handler'[v].pc = handler[v].pc \/ MarkSeen(v)
            \/ /\ HasSeen(v)
               /\ handler'[v].pc = "unseen"
               /\ ~Marked(n, t)
               /\ t \notin raced'[n] => Admitted(n, t) = {}
<1>0. TypeOK
  BY DEF IndInv
<1>1. \/ handler'[v] = handler[v]
      \/ HasSeen(v)
      \/ MarkSeen(v)
  BY <1>0, HandlerStep, OwnStep, ReceiveEffect, IdleFields
<1>2. handler[v].task = t
  BY <1>0, <1>1, OwnStep
<1>3. CASE handler'[v] = handler[v]
  BY <1>2, <1>3 DEF Admitted
<1>4. CASE MarkSeen(v)
  BY <1>0, <1>2, <1>4, OwnStep DEF Admitted
<1>5. CASE HasSeen(v)
  <2>1. handler'[v].pc = "unseen" /\ handler[v].pc = "checked"
    BY <1>0, <1>5, OwnStep
  <2>2. ~Answer(v, "refused")
    BY <1>0, <2>1, AnswerEffect
  <2>3. /\ ~Seen(n, t)
        /\ raced'[n] = IF Unseen(n, t) # {} THEN raced[n] \cup {t} ELSE raced[n]
    BY <1>0, <1>2, <1>5, <2>2, HasSeenEffect
  <2>4. ~Marked(n, t)
    BY <1>2, <2>1, <2>3, SeenWhileAcceptable
  <2>5. ASSUME t \notin raced'[n], NEW u \in Admitted(n, t) PROVE FALSE
    <3>1. u \notin Unseen(n, t)
      BY <2>3, <2>5
    <3>2. handler[u].pc = "verified"
      BY <3>1 DEF Admitted, Unseen
    <3>. QED
      BY <2>4, <3>2 DEF Admitted, Marked
  <2>. QED
    BY <1>2, <1>5, <2>1, <2>4, <2>5
<1>. QED
  BY <1>1, <1>3, <1>4, <1>5

LEMMA NextOnceInv ==
  ASSUME IndInv, OnceInv, [Next]_vars
  PROVE  OnceInv'
<1>0. TypeOK
  BY DEF IndInv
<1>. SUFFICES ASSUME NEW n \in Node, NEW t \in Task, SufficientTTL(t),
                     t \notin raced'[n]
              PROVE  /\ \A v, w \in Admitted(n, t)' : v = w
                     /\ Unseen(n, t)' # {} => ~Marked(n, t)'
                     /\ Admitted(n, t)' # {} => runs'[n][t] = 0
                     /\ runs'[n][t] <= 1
  BY DEF OnceInv, UnracedIsFresh, OnceUnlessRaced, SufficientTTL, NonceTTL
<1>1. CASE Restart(n)
  <2>1. \A w \in Worker : AgentOf[w] = n => handler'[w].pc = "idle"
    BY <1>0, <1>1, RestartEffect, IdleFields
  <2>2. Admitted(n, t)' = {} /\ Unseen(n, t)' = {}
    BY <2>1 DEF Admitted, Unseen
  <2>3. runs'[n][t] = 0
    BY <1>0, <1>1 DEF Restart, TypeOK
  <2>. QED
    BY <2>2, <2>3
<1>2. CASE ~Restart(n)
  <2>1. t \notin raced[n]
    BY <1>0, <1>2, RacedStep
  <2>2. /\ \A v, w \in Admitted(n, t) : v = w
        /\ Unseen(n, t) # {} => ~Marked(n, t)
        /\ Admitted(n, t) # {} => runs[n][t] = 0
        /\ runs[n][t] <= 1
    BY <2>1 DEF OnceInv, UnracedIsFresh, OnceUnlessRaced
  <2>3. runs[n][t] \in Nat
    BY <1>0 DEF TypeOK
  <2>4. ASSUME NEW v \in Admitted(n, t)'
        PROVE  /\ v \in Worker /\ AgentOf[v] = n /\ handler[v].task = t
               /\ \/ /\ v \in Admitted(n, t)
                     /\ handler'[v].pc = handler[v].pc \/ MarkSeen(v)
                  \/ /\ HasSeen(v)
                     /\ ~Marked(n, t)
                     /\ Admitted(n, t) = {}
    BY <2>4, AdmittedStep DEF Admitted
  <2>5. ASSUME NEW v \in Worker, HasSeen(v), NEW u \in Worker, u # v
        PROVE  handler'[u] = handler[u]
    <3>1. Goto(v, "unseen") \/ Answer(v, "refused")
      BY <2>5 DEF HasSeen
    <3>. QED
      BY <1>0, <2>5, <3>1, GotoEffect, AnswerEffect DEF HandlerPC
  <2>6. ASSUME NEW v \in Admitted(n, t)', NEW w \in Admitted(n, t)', v # w
        PROVE  FALSE
    <3>1. v \notin Admitted(n, t) \/ w \notin Admitted(n, t)
      BY <2>2, <2>6
    <3>2. HasSeen(v) /\ HasSeen(w)
      BY <2>4, <3>1
    <3>3. handler[v].pc = "checked" /\ handler'[v] = handler[v]
      BY <1>0, <2>4, <2>5, <2>6, <3>2, OwnStep
    <3>. QED
      BY <3>3 DEF Admitted
  <2>7. ASSUME NEW v \in Unseen(n, t)', Marked(n, t)' PROVE FALSE
    <3>1. v \in Admitted(n, t)' /\ handler'[v].pc = "unseen"
      BY DEF Unseen, Admitted
    <3>2. ~MarkSeen(v)
      BY <1>0, <2>4, <3>1, OwnStep
    <3>3. ~Marked(n, t)
      <4>1. CASE v \in Admitted(n, t) /\ handler'[v].pc = handler[v].pc
        BY <2>2, <3>1, <4>1 DEF Admitted, Unseen
      <4>. QED
        BY <2>4, <3>1, <3>2, <4>1
    <3>4. PICK w \in Worker : MarkSeen(w) /\ AgentOf[w] = n /\ handler[w].task = t
      BY <1>0, <2>7, <3>3, MarkedStep
    <3>5. w \in Admitted(n, t)
      BY <1>0, <3>4, OwnStep DEF Admitted
    <3>6. v \in Admitted(n, t)
      BY <2>4, <3>1, <3>5
    <3>. QED
      BY <2>2, <3>2, <3>4, <3>5, <3>6
  <2>8. ASSUME NEW w \in Worker, Execute(w), AgentOf[w] = n, handler[w].task = t
        PROVE  w \in Admitted(n, t) /\ w \notin Admitted(n, t)' /\ runs[n][t] = 0
    <3>1. handler[w].pc = "verified" /\ handler'[w].pc = "running"
      BY <1>0, <2>8, OwnStep
    <3>2. w \in Admitted(n, t) /\ w \notin Admitted(n, t)'
      BY <2>8, <3>1 DEF Admitted
    <3>. QED
      BY <2>2, <3>2
  <2>9. ASSUME NEW v \in Admitted(n, t)' PROVE runs'[n][t] = 0
    <3>1. runs[n][t] = 0
      BY <2>2, <2>3, <2>4 DEF Marked
    <3>2. ASSUME NEW w \in Worker, Execute(w), AgentOf[w] = n, handler[w].task = t
          PROVE  FALSE
      BY <2>2, <2>4, <2>8, <3>2
    <3>. QED
      BY <1>0, <1>2, <3>1, <3>2, RunsStep
  <2>10. runs'[n][t] <= 1
    BY <1>0, <2>2, <2>3, <2>8, RunsStep
  <2>. QED
    BY <2>6, <2>7, <2>9, <2>10
<1>. QED
  BY <1>1, <1>2

LEMMA InitOnceInv == Init => OnceInv
<1>. SUFFICES ASSUME Init PROVE OnceInv
  OBVIOUS
<1>1. \A n \in Node, t \in Task : Admitted(n, t) = {} /\ Unseen(n, t) = {}
  BY IdleFields DEF Init, Admitted, Unseen
<1>2. \A n \in Node, t \in Task : runs[n][t] = 0
  BY DEF Init
<1>. QED
  BY <1>1, <1>2 DEF OnceInv, UnracedIsFresh, OnceUnlessRaced

\* OnceInv holds whatever overlaps, is delivered again or restarts (task.go
\* Verify, nonce.go).
LEMMA OnceInvariance == Spec => []OnceInv
BY InitOnceInv, NextOnceInv, Invariance, PTL DEF Spec

\* No agent process executes a task twice whose lifetime fits the nonce TTL,
\* unless two copies were between HasSeen and MarkSeen together (task.go, the
\* agent's third security invariant; nonce.go).
THEOREM ExecutesOnceUnlessRaced == Spec => []OnceUnlessRaced
<1>1. OnceInv => OnceUnlessRaced
  BY DEF OnceInv
<1>. QED
  BY <1>1, OnceInvariance, PTL
-----------------------------------------------------------------------------
\* The protocol implements the ledger.

LEMMA InitLedger == Init => Ledger!Init
<1>. SUFFICES ASSUME Init PROVE Ledger!Init
  OBVIOUS
<1>1. {t \in Task : call[t] # "none"} = {}
  BY DEF Init
<1>2. {t \in Task : call[t] = "succeeded"} = {}
  BY DEF Init
<1>3. [t \in Task |-> runs[NodeOf[t]][t]] = [t \in Task |-> 0]
  BY ConstantsAssumption DEF Init
<1>4. \A t \in Task : Admitted(NodeOf[t], t) = {}
  BY IdleFields DEF Init, Admitted
<1>5. \A t \in Task : ~Marked(NodeOf[t], t)
  BY ConstantsAssumption, IdleFields DEF Init, Marked
<1>. QED
  BY <1>1, <1>2, <1>3, <1>4, <1>5 DEF Init, Ledger!Init

\* A step that starts nothing, restarts nothing and lets no goroutine past
\* HasSeen or MarkSeen leaves the ledger's view of the agents alone.
LEMMA ViewUnchanged ==
  ASSUME TypeOK, [Next]_vars, NEW n \in Node, NEW t \in Task, ~Restart(n),
         \A w \in Worker : ~HasSeen(w) /\ ~MarkSeen(w) /\ ~Execute(w)
  PROVE  /\ Admitted(n, t)' = Admitted(n, t)
         /\ Marked(n, t)' <=> Marked(n, t)
         /\ runs'[n][t] = runs[n][t]
<1>1. runs'[n][t] = runs[n][t]
  BY RunsStep
<1>2. ASSUME NEW w \in Worker, AgentOf[w] = n
      PROVE  /\ handler'[w].pc \in {"unseen", "verified"} =>
                  handler'[w] = handler[w]
             /\ handler[w].pc \in {"unseen", "verified"} =>
                  handler'[w] = handler[w]
  <2>1. handler'[w] = handler[w] \/ handler'[w] = Idle
          \/ (\E u \in Task : Receive(w, u)) \/ CheckEnvelope(w) \/ Finish(w)
    BY HandlerStep
  <2>2. handler'[w] = handler[w] \/ handler'[w].pc \notin {"unseen", "verified"}
    BY <2>1, OwnStep, ReceiveEffect, IdleFields
  <2>3. ASSUME handler[w].pc \in {"unseen", "verified"}, handler'[w] # handler[w]
        PROVE  FALSE
    <3>1. ASSUME NEW v \in Worker, v # w, NEW u \in Task, Receive(v, u)
          PROVE  handler'[w] = handler[w]
      BY <3>1, ReceiveEffect
    <3>2. ASSUME NEW v \in Worker, Reply(v) \/ ReplyLost(v)
          PROVE  handler'[w] = handler[w]
      <4>1. handler[v].pc = "replying" /\ handler' = [handler EXCEPT ![v] = Idle]
        BY <3>2 DEF Reply, ReplyLost
      <4>2. v # w
        BY <2>3, <4>1
      <4>. QED
        BY <4>1, <4>2, ResetEffect
    <3>3. ASSUME NEW m \in Node, Restart(m) PROVE handler'[w] = handler[w]
      BY <1>2, <3>3, RestartEffect
    <3>4. ASSUME NEW v \in Worker, v # w, CheckEnvelope(v) \/ Finish(v)
          PROVE  handler'[w] = handler[w]
      <4>1. AgentTime(AgentOf[v]) \in Int
        BY AgentTimeType, ConstantsAssumption
      <4>. QED
        BY <3>4, <4>1, CheckedEffect, AnswerEffect DEF CheckEnvelope, Finish
    <3>5. ASSUME NEW u \in Task, Build(u) \/ GiveUp(u) PROVE UNCHANGED handler
      BY <3>5 DEF Build, GiveUp
    <3>6. ASSUME NEW m \in Node, Cleanup(m) PROVE UNCHANGED handler
      BY <3>6 DEF Cleanup
    <3>7. Tick \/ UNCHANGED vars => UNCHANGED handler
      BY DEF Tick, vars
    <3>8. /\ ~CheckEnvelope(w) /\ ~Finish(w)
          /\ \A u \in Task : ~Receive(w, u)
      BY <2>3, OwnStep, ReceiveEffect
    <3>. QED
      BY <2>3, <3>1, <3>2, <3>3, <3>4, <3>5, <3>6, <3>7, <3>8 DEF Next
  <2>. QED
    BY <2>2, <2>3
<1>3. Admitted(n, t)' = Admitted(n, t)
  BY <1>2 DEF Admitted
<1>4. Marked(n, t)' <=> Marked(n, t)
  BY <1>1, <1>2 DEF Marked
<1>. QED
  BY <1>1, <1>3, <1>4

\* The other goroutines stay where they are.
LEMMA OthersStay ==
  ASSUME TypeOK, NEW w \in Worker, HasSeen(w) \/ MarkSeen(w) \/ Execute(w),
         NEW v \in Worker, v # w
  PROVE  handler'[v] = handler[v]
<1>1. CASE HasSeen(w)
  <2>1. Goto(w, "unseen") \/ Answer(w, "refused")
    BY <1>1 DEF HasSeen
  <2>. QED
    BY <2>1, GotoEffect, AnswerEffect DEF HandlerPC
<1>2. CASE MarkSeen(w)
  BY <1>2, GotoEffect DEF MarkSeen, HandlerPC
<1>3. CASE Execute(w)
  BY <1>3, ExecuteEffect
<1>. QED
  BY <1>1, <1>2, <1>3

LEMMA NextLedger ==
  ASSUME IndInv, [Next]_vars
  PROVE  [Ledger!Next]_(Ledger!ledgerVars)
<1>. DEFINE issued == {t \in Task : call[t] # "none"}
            admitted == [t \in Task |-> Admitted(NodeOf[t], t)]
            closed == {t \in Task : Marked(NodeOf[t], t)}
            starts == [t \in Task |-> runs[NodeOf[t]][t]]
            reported == {t \in Task : call[t] = "succeeded"}
            SameCalls == UNCHANGED <<issued, reported>>
            SameAgents == UNCHANGED <<admitted, closed, starts>>
            Same == SameCalls /\ SameAgents /\ UNCHANGED completed
<1>0. TypeOK /\ TasksWereBuilt /\ HandlersTimely /\ SuccessIsReal
  BY DEF IndInv
<1>a. \A t \in Task : NodeOf[t] \in Node /\ runs[NodeOf[t]][t] \in Nat
  BY <1>0, ConstantsAssumption DEF TypeOK
<1>b. UNCHANGED call => SameCalls
  OBVIOUS
<1>c. ASSUME \A n \in Node : ~Restart(n),
             \A w \in Worker : ~HasSeen(w) /\ ~MarkSeen(w) /\ ~Execute(w)
      PROVE  SameAgents
  <2>1. \A t \in Task : /\ Admitted(NodeOf[t], t)' = Admitted(NodeOf[t], t)
                        /\ Marked(NodeOf[t], t)' <=> Marked(NodeOf[t], t)
                        /\ runs'[NodeOf[t]][t] = runs[NodeOf[t]][t]
    BY <1>0, <1>a, <1>c, ViewUnchanged
  <2>2. admitted' = admitted /\ closed' = closed /\ starts' = starts
    BY <2>1
  <2>. QED
    BY <2>2
\* What a step of w, addressed to t, can change is what the ledger has of t.
<1>d. ASSUME NEW w \in Worker, HasSeen(w) \/ MarkSeen(w) \/ Execute(w),
             NEW t \in Task, handler[w].task = t, NodeOf[t] = AgentOf[w]
      PROVE  \A u \in Task : u # t =>
               /\ Admitted(NodeOf[u], u)' = Admitted(NodeOf[u], u)
               /\ Marked(NodeOf[u], u)' <=> Marked(NodeOf[u], u)
               /\ runs'[NodeOf[u]][u] = runs[NodeOf[u]][u]
  <2>. SUFFICES ASSUME NEW u \in Task, u # t
                PROVE  /\ Admitted(NodeOf[u], u)' = Admitted(NodeOf[u], u)
                       /\ Marked(NodeOf[u], u)' <=> Marked(NodeOf[u], u)
                       /\ runs'[NodeOf[u]][u] = runs[NodeOf[u]][u]
    OBVIOUS
  <2>1. handler'[w].task = t
    BY <1>0, <1>d, OwnStep
  <2>2. \A v \in Worker : v # w => handler'[v] = handler[v]
    BY <1>0, <1>d, OthersStay
  <2>3. runs'[NodeOf[u]][u] = runs[NodeOf[u]][u]
    <3>1. HasSeen(w) \/ MarkSeen(w) => UNCHANGED runs
      BY DEF HasSeen, MarkSeen
    <3>2. Execute(w) => runs' = [runs EXCEPT ![AgentOf[w]][t] = @ + 1]
      BY <1>d DEF Execute
    <3>3. AgentOf[w] \in Node /\ runs \in [Node -> [Task -> Nat]]
      BY <1>0, ConstantsAssumption DEF TypeOK
    <3>. QED
      BY <1>a, <1>d, <3>1, <3>2, <3>3
  <2>4. Admitted(NodeOf[u], u)' = Admitted(NodeOf[u], u)
    BY <1>d, <2>1, <2>2 DEF Admitted
  <2>5. Marked(NodeOf[u], u)' <=> Marked(NodeOf[u], u)
    BY <1>d, <2>1, <2>2, <2>3 DEF Marked
  <2>. QED
    BY <2>3, <2>4, <2>5
<1>1. ASSUME NEW t \in Task, Build(t) PROVE Ledger!Issue(t)
  <2>1. t \notin issued /\ issued' = issued \cup {t}
    BY <1>0, <1>1 DEF Build, TypeOK
  <2>2. reported' = reported
    BY <1>0, <1>1 DEF Build, TypeOK
  <2>3. SameAgents
    BY <1>1 DEF Build, Admitted, Marked
  <2>4. UNCHANGED completed
    BY <1>1 DEF Build
  <2>. QED
    BY <2>1, <2>2, <2>3, <2>4 DEF Ledger!Issue
<1>2. ASSUME NEW t \in Task, GiveUp(t) PROVE Same
  <2>1. SameCalls
    BY <1>0, <1>2 DEF GiveUp, TypeOK
  <2>2. SameAgents /\ UNCHANGED completed
    BY <1>2 DEF GiveUp, Admitted, Marked
  <2>. QED
    BY <2>1, <2>2
<1>3. ASSUME NEW w \in Worker, HasSeen(w)
      PROVE  (\E t \in Task, c \in Worker : Ledger!Admit(c, t)) \/ Same
  <2>. PICK t \in Task : t = handler[w].task
    BY <1>0, <1>3, HasSeenEffect
  <2>. DEFINE n == AgentOf[w]
  <2>1. handler[w].pc = "checked" /\ n \in Node
    BY <1>3, ConstantsAssumption DEF HasSeen
  <2>2. NodeOf[t] = n /\ call[t] # "none"
    BY <1>0, <2>1 DEF HandlersTimely, Timely, EnvelopeOk, TasksWereBuilt
  <2>3. SameCalls /\ UNCHANGED <<completed, runs>>
    BY <1>3 DEF HasSeen
  <2>4. \A v \in Worker : v # w => handler'[v] = handler[v]
    BY <1>0, <1>3, OthersStay
  <2>5. handler'[w].pc \in {"unseen", "replying"} /\ handler'[w].task = t
    BY <1>0, <1>3, OwnStep
  <2>6. Marked(n, t)' <=> Marked(n, t)
    BY <2>1, <2>3, <2>4, <2>5 DEF Marked
  <2>7. UNCHANGED <<closed, starts>>
    <3>1. \A u \in Task : Marked(NodeOf[u], u)' <=> Marked(NodeOf[u], u)
      BY <1>3, <1>d, <2>2, <2>6
    <3>. QED
      BY <2>3, <3>1
  <2>8. CASE handler'[w].pc = "unseen"
    <3>1. Admitted(n, t)' = Admitted(n, t) \cup {w} /\ w \notin Admitted(n, t)
      BY <2>1, <2>4, <2>5, <2>8 DEF Admitted
    <3>2. admitted' = [admitted EXCEPT ![t] = @ \cup {w}]
      <4>1. \A u \in Task : Admitted(NodeOf[u], u)' =
                              IF u = t THEN admitted[t] \cup {w} ELSE admitted[u]
        BY <1>3, <1>d, <2>2, <3>1
      <4>2. admitted' = [u \in Task |-> IF u = t THEN admitted[t] \cup {w}
                                                 ELSE admitted[u]]
        BY <4>1
      <4>. QED
        BY <4>2
    <3>3. SufficientTTL(t) => t \notin closed
      <4>1. SufficientTTL(t) /\ Marked(n, t) => Seen(n, t)
        BY <2>1, SeenWhileAcceptable
      <4>2. ~Seen(n, t)
        <5>1. ~Answer(w, "refused")
          BY <1>0, <2>8, AnswerEffect
        <5>. QED
          BY <1>3, <5>1 DEF HasSeen
      <4>. QED
        BY <2>2, <4>1, <4>2
    <3>4. t \in issued /\ w \notin admitted[t]
      BY <2>2, <3>1
    <3>. QED
      BY <2>3, <2>7, <3>2, <3>3, <3>4 DEF Ledger!Admit
  <2>9. CASE handler'[w].pc = "replying"
    <3>1. Admitted(n, t)' = Admitted(n, t)
      BY <2>1, <2>4, <2>9 DEF Admitted
    <3>2. \A u \in Task : Admitted(NodeOf[u], u)' = Admitted(NodeOf[u], u)
      BY <1>3, <1>d, <2>2, <3>1
    <3>. QED
      BY <2>3, <2>7, <3>2
  <2>. QED
    BY <2>5, <2>8, <2>9
<1>4. ASSUME NEW w \in Worker, MarkSeen(w)
      PROVE  \E t \in Task : Ledger!Close(w, t)
  <2>. DEFINE n == AgentOf[w]
  <2>. PICK t \in Task : t = handler[w].task
    BY <1>0, <1>4 DEF MarkSeen, TypeOK
  <2>1. handler[w].pc = "unseen" /\ n \in Node
    BY <1>4, ConstantsAssumption DEF MarkSeen
  <2>2. NodeOf[t] = n
    BY <1>0, <2>1 DEF HandlersTimely, Timely, EnvelopeOk
  <2>3. SameCalls /\ UNCHANGED <<completed, runs>>
    BY <1>4 DEF MarkSeen
  <2>4. \A v \in Worker : v # w => handler'[v] = handler[v]
    BY <1>0, <1>4, OthersStay
  <2>5. handler'[w].pc = "verified" /\ handler'[w].task = t
    BY <1>0, <1>4, OwnStep
  <2>6. Admitted(n, t)' = Admitted(n, t) /\ w \in Admitted(n, t)
    BY <2>1, <2>4, <2>5 DEF Admitted
  <2>7. Marked(n, t)'
    BY <2>5 DEF Marked
  <2>8. UNCHANGED <<admitted, starts>>
    <3>1. \A u \in Task : Admitted(NodeOf[u], u)' = Admitted(NodeOf[u], u)
      BY <1>4, <1>d, <2>2, <2>6
    <3>. QED
      BY <2>3, <3>1
  <2>9. closed' = closed \cup {t}
    <3>1. \A u \in Task : Marked(NodeOf[u], u)' <=> (Marked(NodeOf[u], u) \/ u = t)
      BY <1>4, <1>d, <2>2, <2>7
    <3>. QED
      BY <3>1
  <2>10. w \in admitted[t]
    BY <2>2, <2>6
  <2>. QED
    BY <2>3, <2>8, <2>9, <2>10 DEF Ledger!Close
<1>5. ASSUME NEW w \in Worker, Execute(w)
      PROVE  \E t \in Task : Ledger!Begin(w, t)
  <2>. DEFINE n == AgentOf[w]
  <2>. PICK t \in Task : t = handler[w].task
    BY <1>0, <1>5 DEF Execute, TypeOK
  <2>1. handler[w].pc = "verified" /\ n \in Node
    BY <1>5, ConstantsAssumption DEF Execute
  <2>2. NodeOf[t] = n
    BY <1>0, <2>1 DEF HandlersTimely, Timely, EnvelopeOk
  <2>3. SameCalls /\ UNCHANGED completed
    BY <1>5 DEF Execute
  <2>4. \A v \in Worker : v # w => handler'[v] = handler[v]
    BY <1>0, <1>5, OthersStay
  <2>5. handler'[w].pc = "running" /\ handler'[w].task = t
    BY <1>0, <1>5, OwnStep
  <2>6. Admitted(n, t)' = Admitted(n, t) \ {w} /\ w \in Admitted(n, t)
    BY <2>1, <2>4, <2>5 DEF Admitted
  <2>7. runs'[n][t] = runs[n][t] + 1 /\ runs[n][t] \in Nat
    BY <1>0, <1>5, <2>1 DEF Execute, TypeOK
  <2>8. Marked(n, t) /\ Marked(n, t)'
    BY <2>1, <2>7 DEF Marked
  <2>9. admitted' = [admitted EXCEPT ![t] = @ \ {w}]
    <3>1. \A u \in Task : Admitted(NodeOf[u], u)' =
                            IF u = t THEN admitted[t] \ {w} ELSE admitted[u]
      BY <1>5, <1>d, <2>2, <2>6
    <3>2. admitted' = [u \in Task |-> IF u = t THEN admitted[t] \ {w} ELSE admitted[u]]
      BY <3>1
    <3>. QED
      BY <3>2
  <2>10. starts' = [starts EXCEPT ![t] = @ + 1]
    <3>1. \A u \in Task : runs'[NodeOf[u]][u] =
                            IF u = t THEN starts[t] + 1 ELSE starts[u]
      BY <1>5, <1>d, <2>2, <2>7
    <3>2. starts' = [u \in Task |-> IF u = t THEN starts[t] + 1 ELSE starts[u]]
      BY <3>1
    <3>. QED
      BY <3>2
  <2>11. closed' = closed
    <3>1. \A u \in Task : Marked(NodeOf[u], u)' <=> Marked(NodeOf[u], u)
      BY <1>5, <1>d, <2>2, <2>8
    <3>. QED
      BY <3>1
  <2>12. w \in admitted[t] /\ t \in closed
    BY <2>2, <2>6, <2>8
  <2>. QED
    BY <2>3, <2>9, <2>10, <2>11, <2>12 DEF Ledger!Begin
<1>6. ASSUME NEW w \in Worker, Finish(w),
             \A n \in Node : ~Restart(n),
             \A v \in Worker : ~HasSeen(v) /\ ~MarkSeen(v) /\ ~Execute(v)
      PROVE  (\E t \in Task : Ledger!Complete(t)) \/ Same
  <2>. PICK t \in Task : t = handler[w].task
    BY <1>0, <1>6 DEF Finish, TypeOK
  <2>1. handler[w].pc = "running"
    BY <1>6 DEF Finish
  <2>2. NodeOf[t] = AgentOf[w] /\ runs[AgentOf[w]][t] > 0
    BY <1>0, <2>1 DEF SuccessIsReal
  <2>3. starts[t] > 0
    BY <2>2
  <2>4. SameCalls /\ SameAgents
    BY <1>6, <1>c DEF Finish
  <2>5. completed' = completed \cup {t} \/ UNCHANGED completed
    BY <1>6 DEF Finish
  <2>. QED
    BY <2>3, <2>4, <2>5 DEF Ledger!Complete
<1>7. ASSUME NEW w \in Worker, Reply(w),
             \A n \in Node : ~Restart(n),
             \A v \in Worker : ~HasSeen(v) /\ ~MarkSeen(v) /\ ~Execute(v)
      PROVE  (\E t \in Task : Ledger!Report(t)) \/ Same
  <2>. PICK t \in Task : t = handler[w].task
    BY <1>0, <1>7 DEF Reply, TypeOK
  <2>. DEFINE r == handler[w].result
  <2>1. handler[w].pc = "replying" /\ r # "none"
    BY <1>0, <1>7 DEF Reply, SuccessIsReal
  <2>2. SameAgents /\ UNCHANGED completed
    BY <1>7, <1>c DEF Reply
  <2>3. CASE UNCHANGED call
    BY <1>b, <2>2, <2>3
  <2>4. CASE call[t] = "arrived" /\ call' = [call EXCEPT ![t] = r]
    <3>1. issued' = issued
      BY <1>0, <2>1, <2>4 DEF TypeOK
    <3>2. CASE r = "succeeded"
      <4>1. reported' = reported \cup {t}
        BY <1>0, <2>1, <2>4, <3>2 DEF TypeOK
      <4>2. t \in completed
        BY <1>0, <3>2 DEF SuccessIsReal
      <4>. QED
        BY <2>2, <3>1, <4>1, <4>2 DEF Ledger!Report
    <3>3. CASE r # "succeeded"
      <4>1. reported' = reported
        BY <1>0, <2>1, <2>4, <3>3 DEF TypeOK
      <4>. QED
        BY <2>2, <3>1, <4>1
    <3>. QED
      BY <3>2, <3>3
  <2>. QED
    BY <1>7, <2>3, <2>4 DEF Reply
<1>8. ASSUME NEW n \in Node, Restart(n)
      PROVE  Ledger!Forget({t \in Task : NodeOf[t] = n})
  <2>. DEFINE S == {t \in Task : NodeOf[t] = n}
  <2>1. /\ runs' = [runs EXCEPT ![n] = [t \in Task |-> 0]]
        /\ UNCHANGED <<call, completed>>
    BY <1>8 DEF Restart
  <2>2. \A t \in Task : runs'[NodeOf[t]][t] = IF t \in S THEN 0 ELSE runs[NodeOf[t]][t]
    BY <1>0, <1>a, <2>1 DEF TypeOK
  <2>3. /\ \A w \in Worker : AgentOf[w] = n => handler'[w].pc = "idle"
        /\ \A w \in Worker : AgentOf[w] # n => handler'[w] = handler[w]
    BY <1>0, <1>8, RestartEffect, IdleFields
  <2>4. \A t \in Task : Admitted(NodeOf[t], t)' =
                          IF t \in S THEN {} ELSE Admitted(NodeOf[t], t)
    BY <2>3 DEF Admitted
  <2>5. \A t \in Task : Marked(NodeOf[t], t)' <=> (Marked(NodeOf[t], t) /\ t \notin S)
    BY <2>2, <2>3 DEF Marked
  <2>6. /\ starts' = [t \in Task |-> IF t \in S THEN 0 ELSE starts[t]]
        /\ admitted' = [t \in Task |-> IF t \in S THEN {} ELSE admitted[t]]
        /\ closed' = closed \ S
    BY <2>2, <2>4, <2>5
  <2>7. SameCalls /\ UNCHANGED completed
    BY <2>1
  <2>. QED
    BY <2>6, <2>7 DEF Ledger!Forget
<1>9. ASSUME \A n \in Node : ~Restart(n),
             \A v \in Worker : ~HasSeen(v) /\ ~MarkSeen(v) /\ ~Execute(v),
             \/ \E w \in Worker : \/ \E t \in Task : Receive(w, t)
                                  \/ CheckEnvelope(w) \/ ReplyLost(w)
             \/ \E n \in Node : Cleanup(n)
             \/ Tick
             \/ UNCHANGED vars
      PROVE  Same
  <2>1. ASSUME NEW w \in Worker, NEW t \in Task, Receive(w, t) PROVE Same
    <3>1. \A u \in Task : /\ call'[u] = "succeeded" <=> call[u] = "succeeded"
                          /\ call'[u] = "none" <=> call[u] = "none"
      BY <1>0, <2>1, ReceiveEffect
    <3>2. SameCalls
      BY <3>1
    <3>3. UNCHANGED completed
      BY <2>1 DEF Receive
    <3>. QED
      BY <1>9, <1>c, <3>2, <3>3
  <2>2. CASE UNCHANGED <<call, completed>>
    BY <1>9, <1>b, <1>c, <2>2
  <2>3. ASSUME NEW w \in Worker, CheckEnvelope(w) \/ ReplyLost(w)
        PROVE  UNCHANGED <<call, completed>>
    BY <2>3 DEF CheckEnvelope, ReplyLost
  <2>4. ASSUME NEW n \in Node, Cleanup(n) PROVE UNCHANGED <<call, completed>>
    BY <2>4 DEF Cleanup
  <2>5. Tick \/ UNCHANGED vars => UNCHANGED <<call, completed>>
    BY DEF Tick, vars
  <2>. QED
    BY <1>9, <2>1, <2>2, <2>3, <2>4, <2>5
<1>10. Same => UNCHANGED Ledger!ledgerVars
  BY DEF Ledger!ledgerVars
<1>. HIDE DEF Same
<1>11. Ledger!Next \/ Same
  <2>1. ASSUME NEW n \in Node, Restart(n) PROVE Ledger!Next
    <3>1. {t \in Task : NodeOf[t] = n} \in SUBSET Task
      OBVIOUS
    <3>. QED
      BY <1>8, <2>1, <3>1 DEF Ledger!Next
  <2>2. ASSUME NEW w \in Worker, HasSeen(w) \/ MarkSeen(w) \/ Execute(w)
        PROVE  Ledger!Next \/ Same
    <3>1. HasSeen(w) => Ledger!Next \/ Same
      BY <1>3 DEF Ledger!Next
    <3>2. MarkSeen(w) => Ledger!Next
      BY <1>4 DEF Ledger!Next
    <3>3. Execute(w) => Ledger!Next
      BY <1>5 DEF Ledger!Next
    <3>. QED
      BY <2>2, <3>1, <3>2, <3>3
  <2>3. ASSUME NEW t \in Task, Build(t) \/ GiveUp(t) PROVE Ledger!Next \/ Same
    BY <1>1, <1>2, <2>3 DEF Ledger!Next
  <2>4. CASE /\ \A n \in Node : ~Restart(n)
             /\ \A v \in Worker : ~HasSeen(v) /\ ~MarkSeen(v) /\ ~Execute(v)
             /\ \A t \in Task : ~Build(t) /\ ~GiveUp(t)
    <3>1. ASSUME NEW w \in Worker, Finish(w) PROVE Ledger!Next \/ Same
      BY <1>6, <2>4, <3>1 DEF Ledger!Next
    <3>2. ASSUME NEW w \in Worker, Reply(w) PROVE Ledger!Next \/ Same
      BY <1>7, <2>4, <3>2 DEF Ledger!Next
    <3>. QED
      BY <1>9, <2>4, <3>1, <3>2 DEF Next
  <2>. QED
    BY <2>1, <2>2, <2>3, <2>4
<1>. QED
  BY <1>10, <1>11

\* Every behaviour of the protocol is a behaviour of TaskLedger: what the nonce
\* store forgets, cleans up or has not yet been told never lets a copy start
\* that was not admitted before its task was closed (task.go Verify, nonce.go,
\* client.go SendTask).
THEOREM Implementation == Spec => ImplementsLedger
<1>1. IndInv /\ [Next]_vars => [Ledger!Next]_(Ledger!ledgerVars)
  BY NextLedger
<1>. QED
  BY <1>1, InitLedger, Invariance, PTL DEF Spec, ImplementsLedger, Ledger!Spec
=============================================================================
