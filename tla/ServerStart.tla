---------------------------- MODULE ServerStart ----------------------------
(***************************************************************************)
(* The start of control planes that share one database (which one is       *)
(* configuration), each of its own release: Migrator.Run, the seeding of   *)
(* the first administrator, and then the server.  systemd starts again     *)
(* whatever ended in failure.                                              *)
(*                                                                         *)
(* A transaction is what PostgreSQL makes of it (external): a statement    *)
(* waits for another transaction that is creating the same tables, and a   *)
(* process that ends takes its open transaction back.                      *)
(***************************************************************************)
EXTENDS Naturals, FiniteSetsExt

CONSTANTS
  Process,
  Release,   \* [Process -> the versions of its AllMigrations]
  MaxFaults  \* bound: how often something outside fails

ASSUME StartAssumption ==
  /\ Release \in [Process -> SUBSET Nat]
  /\ MaxFaults \in Nat

Version == UNION {Release[p] : p \in Process}

VARIABLES
  pc,        \* [Process -> the statement that is next]
  pending,   \* [Process -> migrations it has still to apply]
  created,   \* there is a table schema_migrations,
  recorded,  \* and these versions are in it
  ran,       \* history: [Version -> how often its SQL was committed]
  admin,     \* there is a row in users
  unseeded,  \* history: processes that a fault kept from looking or seeding
  faults

startVars == <<pc, pending, created, recorded, ran, admin, unseeded, faults>>

database == <<created, recorded, ran, admin>>

-----------------------------------------------------------------------------
PC == {"down", "ensure", "read", "apply", "record", "commit", "count", "seed", "serving"}

StartTypeOK ==
  /\ pc \in [Process -> PC]
  /\ pending \in [Process -> SUBSET Version]
  /\ created \in BOOLEAN
  /\ recorded \in SUBSET Version
  /\ ran \in [Version -> Nat]
  /\ admin \in BOOLEAN
  /\ unseeded \in SUBSET Process
  /\ faults \in 0 .. MaxFaults

StartInit ==
  /\ pc = [p \in Process |-> "down"]
  /\ pending = [p \in Process |-> {}]
  /\ created = FALSE
  /\ recorded = {}
  /\ ran = [v \in Version |-> 0]
  /\ admin = FALSE
  /\ unseeded = {}
  /\ faults = 0

Becomes(p, c) == pc' = [pc EXCEPT ![p] = c]

\* A list in descending order.
CurrentLatest(p) == Max(pending[p])

\* The migration that p is at.
Current(p) == Min(pending[p])

\* Its transaction has run the migration and is still open.
Holds(p, v) == pc[p] \in {"record", "commit"} /\ Current(p) = v

-----------------------------------------------------------------------------
\* Restart=on-failure.  The pause is long enough for systemd never to give up.
Start(p) ==
  /\ pc[p] = "down"
  /\ Becomes(p, "ensure")
  /\ unseeded' = unseeded \ {p}
  /\ UNCHANGED <<pending, database, faults>>

\* CREATE TABLE IF NOT EXISTS.  Of several that create it together some may end in
\* an error.
ensureSchema(p) ==
  /\ pc[p] = "ensure"
  /\ created' = TRUE
  /\ \E losers \in SUBSET {q \in Process \ {p} : ~created /\ pc[q] = "ensure"} :
       pc' = [q \in Process |-> IF q = p THEN "read"
                                ELSE IF q \in losers THEN "down" ELSE pc[q]]
  /\ UNCHANGED <<pending, recorded, ran, admin, unseeded, faults>>

ReadHighest(p) ==
  /\ pc[p] = "read"
  /\ pending' = [pending EXCEPT ![p] = {v \in Release[p] : \A w \in recorded : w < v}]
  /\ Becomes(p, "apply")
  /\ UNCHANGED <<database, unseeded, faults>>

ReadNothing(p) ==
  /\ pc[p] = "read"
  /\ pending' = [pending EXCEPT ![p] = Release[p]]
  /\ Becomes(p, "apply")
  /\ UNCHANGED <<database, unseeded, faults>>

\* What others record from now on, p does not see.
appliedVersions(p) ==
  /\ pc[p] = "read"
  /\ pending' = [pending EXCEPT ![p] = Release[p] \ recorded]
  /\ Becomes(p, "apply")
  /\ UNCHANGED <<database, unseeded, faults>>

\* Migrator.apply, up to the end of mg.SQL.
Exec(p) ==
  /\ pc[p] = "apply" /\ pending[p] # {}
  /\ \A q \in Process \ {p} : ~Holds(q, Current(p))
  /\ Becomes(p, "record")
  /\ UNCHANGED <<pending, database, unseeded, faults>>

RecordAnyway(p) ==
  /\ pc[p] = "record"
  /\ Becomes(p, "commit")
  /\ UNCHANGED <<pending, database, unseeded, faults>>

\* INSERT INTO schema_migrations; its version is the PRIMARY KEY.  The error ends
\* the process and, with it, the transaction.
Record(p) ==
  /\ pc[p] = "record"
  /\ Becomes(p, IF Current(p) \in recorded THEN "down" ELSE "commit")
  /\ UNCHANGED <<pending, database, unseeded, faults>>

Committed(p) ==
  /\ recorded' = recorded \cup {Current(p)}
  /\ ran' = [ran EXCEPT ![Current(p)] = @ + 1]
  /\ UNCHANGED <<created, admin>>

Commit(p) ==
  /\ pc[p] = "commit"
  /\ Committed(p)
  /\ pending' = [pending EXCEPT ![p] = @ \ {Current(p)}]
  /\ Becomes(p, "apply")
  /\ UNCHANGED <<unseeded, faults>>

Migrated(p) ==
  /\ pc[p] = "apply" /\ pending[p] = {}
  /\ Becomes(p, "count")
  /\ UNCHANGED <<pending, database, unseeded, faults>>

\* SELECT COUNT(*) FROM users.
Count(p) ==
  /\ pc[p] = "count"
  /\ Becomes(p, IF admin THEN "serving" ELSE "seed")
  /\ UNCHANGED <<pending, database, unseeded, faults>>

\* The INSERT of the administrator.  Where another process was faster its error is
\* logged, and the server starts all the same.
Seed(p) ==
  /\ pc[p] = "seed"
  /\ admin' = TRUE
  /\ Becomes(p, "serving")
  /\ UNCHANGED <<pending, created, recorded, ran, unseeded, faults>>

-----------------------------------------------------------------------------
\* Faults, each of them one of MaxFaults.
Fault == faults < MaxFaults /\ faults' = faults + 1

\* The process is killed or a statement before the seeding fails.
Crash(p) ==
  /\ Fault
  /\ pc[p] # "down"
  /\ Becomes(p, "down")
  /\ UNCHANGED <<pending, database, unseeded>>

\* The COMMIT is done and its answer is lost, or the process right after it.
CommitLost(p) ==
  /\ Fault
  /\ pc[p] = "commit"
  /\ Committed(p)
  /\ Becomes(p, "down")
  /\ UNCHANGED <<pending, unseeded>>

\* The error of the COUNT is dropped, that of the INSERT logged.
SeedFails(p) ==
  /\ Fault
  /\ pc[p] \in {"count", "seed"}
  /\ Becomes(p, "serving")
  /\ unseeded' = unseeded \cup {p}
  /\ UNCHANGED <<pending, database>>

-----------------------------------------------------------------------------
Step(p) ==
  \/ Start(p) \/ ensureSchema(p) \/ appliedVersions(p)
  \/ Exec(p) \/ Record(p) \/ Commit(p)
  \/ Migrated(p) \/ Count(p) \/ Seed(p)

StartNext == \E p \in Process : Step(p) \/ Crash(p) \/ CommitLost(p) \/ SeedFails(p)

StartSpec ==
  StartInit /\ [][StartNext]_startVars /\ \A p \in Process : WF_startVars(Step(p))

-----------------------------------------------------------------------------
\* A migration has been committed exactly once if its version is recorded and
\* never otherwise, whoever else applies it, was killed at it or has not heard of
\* its COMMIT (Migrator.apply: "all-or-nothing").
AppliedOnce == \A v \in Version : ran[v] = IF v \in recorded THEN 1 ELSE 0

\* Every migration that is recorded came after all the earlier ones of a release
\* that has it, whichever processes applied those (Migrator.Run: "applies all
\* pending migrations in version order").
AppliedInOrder ==
  \A v \in recorded : \E p \in Process :
    v \in Release[p] /\ {w \in Release[p] : w < v} \subseteq recorded

\* A control plane that serves has every table its own release needs, also where
\* another release had applied later versions before, and somebody can log in
\* unless a fault hit the two statements of its seeding (main.go).
ServingIsReady ==
  \A p \in Process : pc[p] = "serving" =>
    /\ Release[p] \subseteq recorded
    /\ admin \/ p \in unseeded

\* Once faults end every control plane comes to serve and goes on: one that lost a
\* race against another fails, and its next start finds what the other has done.
EventuallyServes == <>[](\A p \in Process : pc[p] = "serving")
=============================================================================
