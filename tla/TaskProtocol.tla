---------------------------- MODULE TaskProtocol ----------------------------
(***************************************************************************)
(* The signed-task protocol between the control plane and the agents:      *)
(* TaskBuilder.Build and Client.SendTask on one side; the agent's          *)
(* handleTask goroutines, Verifier.Verify and the in-memory nonce store on *)
(* the other; and between them a network that loses a request, delivers it *)
(* late, or delivers it again.                                             *)
(*                                                                         *)
(* Time is counted in ticks, Second of them to a second, because the       *)
(* envelope's RFC3339 timestamps are cut to whole seconds and the clocks   *)
(* that read them are not.  A task stands for its envelope: Build gives    *)
(* each a fresh random nonce, so the nonce of task t is t.                 *)
(***************************************************************************)
EXTENDS Integers, FiniteSets

CONSTANTS
  Node,               \* agents
  Task,               \* tasks the control plane may build
  Worker,             \* handler goroutines of all agents
  NoTask,             \* the task of an idle goroutine
  AgentOf,            \* [Worker -> Node]: the agent a goroutine belongs to
  NodeOf,             \* [Task -> Node]: the node_id Build puts in the envelope
  Lifetime,           \* [Task -> Nat]: the ttl given to NewTaskBuilder
  CPKey,              \* [Node -> key]: the node's key as the database holds it
  AgentKey,           \* [Node -> key]: AGENT_SIGNING_KEY of the agent
  Offset,             \* [Node -> Int]: agent's clock minus control plane's
  Second,             \* ticks to a second
  MaxAge,             \* AGENT_TASK_MAX_AGE_SECS
  SkewTolerance,      \* clockSkewTolerance
  MaxPause,           \* longest a goroutine stalls from Verify's clock reading
                      \* to the start of the operation
  StartTime,          \* the clock when the behaviour begins
  LastBuild,          \* bound: the last clock value at which a task is built
  MaxBuilt,           \* bound: how many tasks are built
  MaxRestarts,        \* [Node -> Nat], bound: restarts of an agent
  MaxTime             \* bound: the last value of the control plane's clock

ASSUME ConstantsAssumption ==
  /\ NoTask \notin Task
  /\ AgentOf \in [Worker -> Node]
  /\ NodeOf \in [Task -> Node]
  /\ Lifetime \in [Task -> Nat]
  /\ Offset \in [Node -> Int]
  /\ Second \in Nat \ {0}
  /\ MaxAge \in Nat
  /\ SkewTolerance \in Nat
  /\ MaxPause \in Nat
  /\ StartTime \in Nat

VARIABLES
  clock,     \* the control plane's clock
  builtAt,   \* [Task -> Int]: the clock when Build ran
  call,      \* [Task -> CallState]: what SendTask's caller knows
  handler,   \* [Worker -> record]: where each handleTask goroutine is
  entries,   \* [Node -> map of nonces to expiry times]: nonce.Store
  runs,      \* [Node -> [Task -> Nat]]: calls of registry.Execute by this process
  completed, \* tasks whose operation ended with status "succeeded" at some time
  raced,     \* [Node -> SUBSET Task]: history, the tasks of which this process
             \* let a copy past HasSeen while another was before its MarkSeen
  restarts   \* [Node -> Nat]

vars ==
  <<clock, builtAt, call, handler, entries, runs, completed, raced, restarts>>

-----------------------------------------------------------------------------
\* States of a SendTask call.  "arrived": its own request is in an agent's
\* handler.  "error" is every failure of httpClient.Do, "refused" is HTTP 403.
CallState ==
  {"none", "sent", "arrived", "succeeded", "failed", "refused", "error"}
Returned == {"succeeded", "failed", "refused", "error"}

\* "checked": checks 1-8 of Verify are passed.  "unseen": HasSeen returned
\* false.  "verified": MarkSeen is done and Verify has returned nil.
HandlerPC ==
  {"idle", "received", "checked", "unseen", "verified", "running", "replying"}

Idle == [pc |-> "idle", task |-> NoTask, now |-> 0, own |-> FALSE,
         result |-> "none"]

HandlerState ==
  [pc : HandlerPC, task : Task \cup {NoTask}, now : Int, own : BOOLEAN,
   result : {"none", "succeeded", "failed", "refused"}]

TypeOK ==
  /\ clock \in Nat
  /\ builtAt \in [Task -> Nat]
  /\ call \in [Task -> CallState]
  /\ handler \in [Worker -> HandlerState]
  /\ \A w \in Worker : handler[w].pc # "idle" => handler[w].task \in Task
  /\ DOMAIN entries = Node
  /\ \A n \in Node : /\ DOMAIN entries[n] \subseteq Task
                     /\ \A t \in DOMAIN entries[n] : entries[n][t] \in Int
  /\ runs \in [Node -> [Task -> Nat]]
  /\ completed \subseteq Task
  /\ raced \in [Node -> SUBSET Task]
  /\ restarts \in [Node -> Nat]

-----------------------------------------------------------------------------
\* time.RFC3339 has no fraction of a second: formatting drops it.
WholeSeconds(x) == x - (x % Second)

IssuedAt(t) == WholeSeconds(builtAt[t])
ExpiresAt(t) == WholeSeconds(builtAt[t] + Lifetime[t])

AgentTime(n) == clock + Offset[n]

NonceTTL == MaxAge * 2

Busy(w) == handler[w].pc # "idle"

Goto(w, pc) == handler' = [handler EXCEPT ![w].pc = pc]
Answer(w, result) ==
  handler' = [handler EXCEPT ![w] =
                [pc |-> "replying", task |-> @.task, now |-> 0, own |-> @.own,
                 result |-> result]]

-----------------------------------------------------------------------------
\* Control plane.

Build(t) ==
  /\ clock <= LastBuild
  /\ call[t] = "none"
  /\ Cardinality({u \in Task : call[u] # "none"}) < MaxBuilt
  /\ call' = [call EXCEPT ![t] = "sent"]
  /\ builtAt' = [builtAt EXCEPT ![t] = clock]
  /\ UNCHANGED <<clock, handler, entries, runs, completed, raced, restarts>>

\* SendTask fails: the client's Timeout, the caller's context, a lost request
\* or a lost response.  The agent is not told.
GiveUp(t) ==
  /\ call[t] \in {"sent", "arrived"}
  /\ call' = [call EXCEPT ![t] = "error"]
  /\ UNCHANGED <<clock, builtAt, handler, entries, runs, completed, raced, restarts>>

-----------------------------------------------------------------------------
\* Network: the caller's own request arrives, at most once ...
OwnRequest(t) == call[t] = "sent"
\* ... or another copy of a request that was sent, at any later time.
AnotherCopy(t) == call[t] # "none"

\* handleTask reads and parses a request.
Receive(w, t) ==
  /\ ~Busy(w)
  /\ \E own \in BOOLEAN :
       /\ IF own THEN OwnRequest(t) ELSE AnotherCopy(t)
       /\ handler' = [handler EXCEPT ![w] =
                        [pc |-> "received", task |-> t, now |-> 0, own |-> own,
                         result |-> "none"]]
       /\ call' = IF own THEN [call EXCEPT ![t] = "arrived"] ELSE call
  /\ UNCHANGED <<clock, builtAt, entries, runs, completed, raced, restarts>>

-----------------------------------------------------------------------------
\* Agent: Verifier.Verify.

NotExpiredBySkew(t, now) == ~(now > ExpiresAt(t) + SkewTolerance)
NotExpired(t, now) == ~(now > ExpiresAt(t))
NotFuture(t, now) == ~(IssuedAt(t) > now + SkewTolerance)
SignatureValid(n, t) == CPKey[NodeOf[t]] = AgentKey[n]

EnvelopeOkOnAnyNode(n, t, now) ==
  /\ NotExpired(t, now)
  /\ NotFuture(t, now)
  /\ SignatureValid(n, t)

EnvelopeOkUnsigned(n, t, now) ==
  /\ NodeOf[t] = n
  /\ NotExpired(t, now)
  /\ NotFuture(t, now)

\* Checks 1-8, all against the one clock reading `now'.
EnvelopeOk(n, t, now) ==
  /\ NodeOf[t] = n
  /\ NotExpired(t, now)
  /\ NotFuture(t, now)
  /\ SignatureValid(n, t)

CheckEnvelope(w) ==
  LET t == handler[w].task
      now == AgentTime(AgentOf[w])
  IN /\ handler[w].pc = "received"
     /\ \/ /\ EnvelopeOk(AgentOf[w], t, now)
           /\ handler' = [handler EXCEPT ![w].pc = "checked", ![w].now = now]
        \/ /\ ~EnvelopeOk(AgentOf[w], t, now)
           /\ Answer(w, "refused")
     /\ UNCHANGED <<clock, builtAt, call, entries, runs, completed, raced, restarts>>

SeenIfStale(n, t) == t \in DOMAIN entries[n] /\ entries[n][t] < AgentTime(n)

\* The goroutines between HasSeen and MarkSeen of t.
Unseen(n, t) ==
  {w \in Worker : /\ AgentOf[w] = n
                  /\ handler[w].task = t
                  /\ handler[w].pc = "unseen"}

\* Store.HasSeen, under the read lock and with a clock reading of its own.
Seen(n, t) == t \in DOMAIN entries[n] /\ AgentTime(n) < entries[n][t]

HasSeen(w) ==
  LET n == AgentOf[w]
      t == handler[w].task
  IN /\ handler[w].pc = "checked"
     /\ \/ /\ Seen(n, t)
           /\ Answer(w, "refused")
           /\ UNCHANGED raced
        \/ /\ ~Seen(n, t)
           /\ Goto(w, "unseen")
           /\ raced' = IF Unseen(n, t) # {}
                         THEN [raced EXCEPT ![n] = @ \cup {t}]
                         ELSE raced
     /\ UNCHANGED <<clock, builtAt, call, entries, runs, completed, restarts>>

MarkSeenForOneAge(w) ==
  LET n == AgentOf[w]
      t == handler[w].task
  IN /\ handler[w].pc = "unseen"
     /\ entries' = [entries EXCEPT ![n] =
                      [x \in DOMAIN entries[n] \cup {t} |->
                         IF x = t THEN AgentTime(n) + MaxAge
                                  ELSE entries[n][x]]]
     /\ Goto(w, "verified")
     /\ UNCHANGED <<clock, builtAt, call, runs, completed, raced, restarts>>

\* Store.MarkSeen, under the write lock.
MarkSeen(w) ==
  LET n == AgentOf[w]
      t == handler[w].task
  IN /\ handler[w].pc = "unseen"
     /\ entries' = [entries EXCEPT ![n] =
                      [x \in DOMAIN entries[n] \cup {t} |->
                         IF x = t THEN AgentTime(n) + NonceTTL
                                  ELSE entries[n][x]]]
     /\ Goto(w, "verified")
     /\ UNCHANGED <<clock, builtAt, call, runs, completed, raced, restarts>>

\* handleTask calls registry.Execute.
Execute(w) ==
  /\ handler[w].pc = "verified"
  /\ runs' = [runs EXCEPT ![AgentOf[w]][handler[w].task] = @ + 1]
  /\ handler' = [handler EXCEPT ![w] =
                    [pc |-> "running", task |-> @.task, now |-> 0,
                     own |-> @.own, result |-> "none"]]
  /\ UNCHANGED <<clock, builtAt, call, entries, completed, raced, restarts>>

FinishAlwaysRecorded(w) ==
  /\ handler[w].pc = "running"
  /\ \E result \in {"succeeded", "failed", "rolled_back"} : Answer(w, result)
  /\ completed' = completed \cup {handler[w].task}
  /\ UNCHANGED <<clock, builtAt, call, entries, runs, raced, restarts>>

\* The operation returns a result or an error.
Finish(w) ==
  /\ handler[w].pc = "running"
  /\ \/ /\ Answer(w, "succeeded")
        /\ completed' = completed \cup {handler[w].task}
     \/ /\ Answer(w, "failed")
        /\ UNCHANGED completed
  /\ UNCHANGED <<clock, builtAt, call, entries, runs, raced, restarts>>

ReplyUnread(w) ==
  /\ handler[w].pc = "replying"
  /\ handler' = [handler EXCEPT ![w] = Idle]
  /\ IF handler[w].own /\ call[handler[w].task] = "arrived"
       THEN call' = [call EXCEPT ![handler[w].task] = "succeeded"]
       ELSE UNCHANGED call
  /\ UNCHANGED <<clock, builtAt, entries, runs, completed, raced, restarts>>

\* The response reaches the caller if it is still waiting for this request.
Reply(w) ==
  /\ handler[w].pc = "replying"
  /\ handler' = [handler EXCEPT ![w] = Idle]
  /\ IF handler[w].own /\ call[handler[w].task] = "arrived"
       THEN call' = [call EXCEPT ![handler[w].task] = handler[w].result]
       ELSE UNCHANGED call
  /\ UNCHANGED <<clock, builtAt, entries, runs, completed, raced, restarts>>

\* The server's WriteTimeout has passed or the connection is gone.
ReplyLost(w) ==
  /\ handler[w].pc = "replying"
  /\ handler' = [handler EXCEPT ![w] = Idle]
  /\ UNCHANGED <<clock, builtAt, call, entries, runs, completed, raced, restarts>>

-----------------------------------------------------------------------------
\* Agent: background and process.

CleanupLive(n) ==
  /\ \E t \in DOMAIN entries[n] : AgentTime(n) < entries[n][t]
  /\ entries' = [entries EXCEPT ![n] =
                   [t \in {x \in DOMAIN entries[n] : ~(AgentTime(n) < entries[n][x])}
                      |-> entries[n][t]]]
  /\ UNCHANGED <<clock, builtAt, call, handler, runs, completed, raced, restarts>>

\* One pass of Store.cleanup; the ticker's period is left open.
Cleanup(n) ==
  /\ \E t \in DOMAIN entries[n] : AgentTime(n) > entries[n][t]
  /\ entries' = [entries EXCEPT ![n] =
                   [t \in {x \in DOMAIN entries[n] : ~(AgentTime(n) > entries[n][x])}
                      |-> entries[n][t]]]
  /\ UNCHANGED <<clock, builtAt, call, handler, runs, completed, raced, restarts>>

\* The agent process dies and comes back with an empty store.
Restart(n) ==
  /\ restarts[n] < MaxRestarts[n]
  /\ restarts' = [restarts EXCEPT ![n] = @ + 1]
  /\ handler' = [w \in Worker |-> IF AgentOf[w] = n THEN Idle ELSE handler[w]]
  /\ entries' = [entries EXCEPT ![n] = [t \in {} |-> 0]]
  /\ runs' = [runs EXCEPT ![n] = [t \in Task |-> 0]]
  /\ raced' = [raced EXCEPT ![n] = {}]
  /\ UNCHANGED <<clock, builtAt, call, completed>>

\* Time passes, but no goroutine stalls for more than MaxPause between
\* Verify's reading of the clock and the start of the operation.
Paused(w) ==
  /\ handler[w].pc \in {"checked", "unseen", "verified"}
  /\ AgentTime(AgentOf[w]) - handler[w].now >= MaxPause

Tick ==
  /\ clock < MaxTime
  /\ \A w \in Worker : ~Paused(w)
  /\ clock' = clock + 1
  /\ UNCHANGED <<builtAt, call, handler, entries, runs, completed, raced, restarts>>

-----------------------------------------------------------------------------
Init ==
  /\ clock = StartTime
  /\ builtAt = [t \in Task |-> 0]
  /\ call = [t \in Task |-> "none"]
  /\ handler = [w \in Worker |-> Idle]
  /\ entries = [n \in Node |-> [t \in {} |-> 0]]
  /\ runs = [n \in Node |-> [t \in Task |-> 0]]
  /\ completed = {}
  /\ raced = [n \in Node |-> {}]
  /\ restarts = [n \in Node |-> 0]

Next ==
  \/ \E t \in Task : Build(t) \/ GiveUp(t)
  \/ \E w \in Worker, t \in Task : Receive(w, t)
  \/ \E w \in Worker : \/ CheckEnvelope(w) \/ HasSeen(w) \/ MarkSeen(w)
                       \/ Execute(w) \/ Finish(w) \/ Reply(w) \/ ReplyLost(w)
  \/ \E n \in Node : Cleanup(n) \/ Restart(n)
  \/ Tick

Spec == Init /\ [][Next]_vars

-----------------------------------------------------------------------------
\* What makes the nonce store a replay defence.  SufficientTTL is the relation
\* between the constants under which an entry outlives every acceptable copy
\* of its task; the default configuration satisfies it for tasks of at most
\* five minutes, not for the longer ones.
SufficientTTL(t) ==
  Lifetime[t] + SkewTolerance + MaxPause + Second - 1 < NonceTTL

\* The nonce of t has been recorded by the agent process that now runs at n.
Marked(n, t) ==
  \/ runs[n][t] > 0
  \/ \E w \in Worker : /\ AgentOf[w] = n
                       /\ handler[w].task = t
                       /\ handler[w].pc = "verified"

\* The goroutines that HasSeen has let through and that have not started.
Admitted(n, t) ==
  {w \in Worker : /\ AgentOf[w] = n
                  /\ handler[w].task = t
                  /\ handler[w].pc \in {"unseen", "verified"}}

\* Once an agent process has accepted a task, as long as a handler might still
\* find the task unexpired HasSeen answers true of its nonce: neither the
\* entry's own expiry nor the cleanup pass comes too early (nonce.go HasSeen,
\* cleanup; task.go Verify).
NonceRemembered ==
  \A n \in Node, t \in Task :
    (SufficientTTL(t) /\ Marked(n, t)) =>
      IF t \in DOMAIN entries[n]
        THEN entries[n][t] > ExpiresAt(t) + MaxPause
        ELSE AgentTime(n) > ExpiresAt(t) + MaxPause

\* Where a lifetime fits, one agent process executes a task once and no more,
\* however often and however late its request is delivered again, unless two
\* copies were between HasSeen and MarkSeen at the same time (task.go Verify,
\* nonce.go).
OnceUnlessRaced ==
  \A n \in Node, t \in Task :
    SufficientTTL(t) /\ t \notin raced[n] => runs[n][t] <= 1

\* "A nonce that appears twice is ALWAYS rejected" (nonce.go:8): no agent
\* process executes a task twice.
AtMostOnce == \A n \in Node, t \in Task : runs[n][t] <= 1

\* "On agent restart, nonce history is lost ... so replay is still prevented"
\* (nonce.go:10-11), "no duplicate execution" (docs/03_AGENT_PROTOCOL.md:108):
\* no operation starts for a task that was completed before.
NoDuplicateExecution ==
  \A w \in Worker : handler[w].pc = "running" => handler[w].task \notin completed

\* An operation starts only on the node its task names, signed with the key
\* that node holds, and within the task's validity as the node's clock shows
\* it, give or take the stall of the goroutine (security invariants 1, 2, 4).
StartsOnlyValidTasks ==
  [][\A w \in Worker :
       (handler[w].pc = "verified" /\ handler'[w].pc = "running") =>
         LET n == AgentOf[w]
             t == handler[w].task
         IN /\ call[t] # "none"
            /\ NodeOf[t] = n
            /\ SignatureValid(n, t)
            /\ AgentTime(n) <= ExpiresAt(t) + MaxPause
            /\ IssuedAt(t) <= AgentTime(n) + SkewTolerance]_vars

\* A copy whose HasSeen comes after some copy's MarkSeen in the same agent
\* process is refused, however many copies are in the handlers and whether or
\* not others raced (nonce.go HasSeen, cleanup).
LateCopiesRefused ==
  [][\A w \in Worker :
       LET t == handler[w].task
       IN (/\ handler[w].pc = "checked"
           /\ SufficientTTL(t)
           /\ Marked(AgentOf[w], t)) => handler'[w].pc # "unseen"]_vars

\* The promise to the control plane (TaskLedger), seen through this state: a
\* copy is admitted by HasSeen, and MarkSeen closes the task to others.
Ledger == INSTANCE TaskLedger WITH
  Copy      <- Worker,
  Kept      <- {t \in Task : SufficientTTL(t)},
  issued    <- {t \in Task : call[t] # "none"},
  admitted  <- [t \in Task |-> Admitted(NodeOf[t], t)],
  closed    <- {t \in Task : Marked(NodeOf[t], t)},
  starts    <- [t \in Task |-> runs[NodeOf[t]][t]],
  completed <- completed,
  reported  <- {t \in Task : call[t] = "succeeded"}

\* Every behaviour of the protocol is one of the ledger's, which has neither
\* clocks nor entries that expire: only copies admitted before the task was
\* closed start it, each once, and success is reported only of what succeeded
\* (task.go Verify; nonce.go; client.go SendTask).
ImplementsLedger == Ledger!Spec

-----------------------------------------------------------------------------
\* The inductive invariant behind these properties.

\* Between Verify's clock reading and the start of the operation the task is
\* one that Verify's envelope checks accept, and the reading is recent.
Timely(w) ==
  LET n == AgentOf[w]
      t == handler[w].task
  IN /\ EnvelopeOk(n, t, handler[w].now)
     /\ handler[w].now <= AgentTime(n)
     /\ AgentTime(n) <= handler[w].now + MaxPause

HandlersTimely ==
  \A w \in Worker :
    handler[w].pc \in {"checked", "unseen", "verified"} => Timely(w)

TasksWereBuilt ==
  /\ \A w \in Worker : IF handler[w].pc = "idle"
                         THEN handler[w].task = NoTask
                         ELSE call[handler[w].task] # "none"
  /\ \A n \in Node, t \in Task : runs[n][t] > 0 => call[t] # "none"

\* Unless copies raced, one of them at most is between HasSeen and the
\* operation, and no start of the same process precedes its own.
UnracedIsFresh ==
  \A n \in Node, t \in Task :
    SufficientTTL(t) /\ t \notin raced[n] =>
      /\ \A v, w \in Admitted(n, t) : v = w
      /\ Unseen(n, t) # {} => ~Marked(n, t)
      /\ Admitted(n, t) # {} => runs[n][t] = 0

\* What a reply reports as a success was completed; a running operation was
\* counted, on the node its task names.
SuccessIsReal ==
  /\ \A w \in Worker : /\ handler[w].result = "succeeded" =>
                            handler[w].task \in completed
                       /\ handler[w].pc = "replying" =>
                            handler[w].result # "none"
                       /\ handler[w].pc = "running" =>
                            /\ runs[AgentOf[w]][handler[w].task] > 0
                            /\ NodeOf[handler[w].task] = AgentOf[w]
  /\ \A t \in Task : call[t] = "succeeded" => t \in completed

IndInv ==
  /\ TypeOK
  /\ TasksWereBuilt
  /\ HandlersTimely
  /\ NonceRemembered
  /\ SuccessIsReal

\* Inductive together with IndInv.
OnceInv == UnracedIsFresh /\ OnceUnlessRaced
=============================================================================
