------------------------------ MODULE Backups ------------------------------
(***************************************************************************)
(* Backups and restores of one hosting user: the control plane's RunBackup *)
(* and RunRestore handlers, the backups table, and on the agent the        *)
(* operations HandleRunBackup and HandleRunRestore with the files they     *)
(* write and read.  These tasks live longer than the agent remembers their *)
(* nonces (TaskProtocol), so a late copy of one may be executed again.     *)
(*                                                                         *)
(* The path of a backup is made of the user, the type and the second of    *)
(* the request; the database it is to dump is not in it, and nothing keeps *)
(* two requests of one second apart.                                       *)
(***************************************************************************)
EXTENDS Naturals, FiniteSets

CONSTANTS
  Request,    \* RunBackup requests
  Restore,    \* RunRestore requests
  Path,       \* values of filePath
  Copies,     \* bound: copies of one task that reach the agent
  None

ASSUME BackupAssumption ==
  /\ None \notin Request \cup Path
  /\ Copies \in Nat \ {0}

\* Executions of HandleRunBackup: e[1] is the request, e[2] counts the copies
\* of its task.  The client waits for the response to the first.
Execution == Request \X (1 .. Copies)
First(r) == <<r, 1>>

VARIABLES
  status,     \* [Request -> status of its row in backups, or "none"]
  path,       \* [Request -> filePath]
  handler,    \* [Request -> where the RunBackup handler is]
  op,         \* [Execution -> where HandleRunBackup is]
  file,       \* [Path -> record]: the file on the node
  restore,    \* [Restore -> record]: where a RunRestore is
  abandoned,  \* history: requests whose handler ended without an update
  overwritten \* history: requests whose file another execution wrote to
              \* while, or after, their own did

vars == <<status, path, handler, op, file, restore, abandoned, overwritten>>

-----------------------------------------------------------------------------
Status == {"none", "running", "completed", "failed"}

HandlerPC == {"none", "send", "waiting", "succeeded", "failed", "done"}

\* "first" and "second" are the attempts with /usr/bin and /bin.
OpPC == {"none", "sent", "first", "second", "succeeded", "failed", "over"}

\* A whole file is the complete dump of the one execution it is `by'.
Absent == [state |-> "absent", by |-> None]
Partial(e) == [state |-> "partial", by |-> e]
Whole(e) == [state |-> "whole", by |-> e]
Mixed == [state |-> "mixed", by |-> None]

RestorePC == {"none", "sent", "extracting", "restored", "failed"}

TypeOK ==
  /\ status \in [Request -> Status]
  /\ path \in [Request -> Path \cup {None}]
  /\ handler \in [Request -> HandlerPC]
  /\ op \in [Execution -> OpPC]
  /\ file \in [Path -> [state : {"absent", "partial", "whole", "mixed"},
                        by : Execution \cup {None}]]
  /\ restore \in [Restore -> [pc : RestorePC, of : Request \cup {None}]]
  /\ abandoned \subseteq Request
  /\ overwritten \subseteq Request
  /\ \A r \in Request : (status[r] # "none" \/ handler[r] # "none") => path[r] \in Path
  /\ \A e \in Execution : op[e] # "none" => path[e[1]] \in Path

-----------------------------------------------------------------------------
\* Control plane, RunBackup: the path is formed and the row is inserted.
InsertRow(r, pc) ==
  /\ status[r] = "none"
  /\ \E p \in Path : path' = [path EXCEPT ![r] = p]
  /\ status' = [status EXCEPT ![r] = "running"]
  /\ handler' = [handler EXCEPT ![r] = pc]
  /\ UNCHANGED <<op, file, restore, overwritten>>

CreateBackup(r) == InsertRow(r, "send") /\ UNCHANGED abandoned

\* The row is inserted but the handler sees an error and answers 500.
CreateUnacknowledged(r) == InsertRow(r, "done") /\ abandoned' = abandoned \cup {r}

SendTask(r) ==
  /\ handler[r] = "send"
  /\ handler' = [handler EXCEPT ![r] = "waiting"]
  /\ op' = [e \in Execution |-> IF e[1] = r THEN "sent" ELSE op[e]]
  /\ UNCHANGED <<status, path, file, restore, abandoned, overwritten>>

\* The agent's response arrives ...
Answer(r) ==
  /\ handler[r] = "waiting"
  /\ op[First(r)] \in {"succeeded", "failed"}
  /\ handler' = [handler EXCEPT ![r] = op[First(r)]]
  /\ op' = [op EXCEPT ![First(r)] = "over"]
  /\ UNCHANGED <<status, path, file, restore, abandoned, overwritten>>

Fail(r, points) ==
  /\ handler[r] \in points
  /\ handler' = [handler EXCEPT ![r] = "failed"]
  /\ UNCHANGED <<status, path, op, file, restore, abandoned, overwritten>>

WithoutTimeout(r) == Fail(r, {"send"})

\* ... or SendTask fails, at the latest after the client's Timeout.
CallFails(r) == Fail(r, {"send", "waiting"})

Outcome(r) == IF handler[r] = "succeeded" THEN "completed" ELSE "failed"

UpdateBackupStatus(r, outcomes, new) ==
  /\ handler[r] \in outcomes
  /\ status' = [status EXCEPT ![r] = new]
  /\ handler' = [handler EXCEPT ![r] = "done"]
  /\ UNCHANGED <<path, op, file, restore, abandoned, overwritten>>

RecordAgentStatus(r) == UpdateBackupStatus(r, {"succeeded", "failed"}, handler[r])

\* The handler records what SendTask came to, and is through.
Record(r) == UpdateBackupStatus(r, {"succeeded", "failed"}, Outcome(r))

Abandon(r, points) ==
  /\ handler[r] \in points
  /\ handler' = [handler EXCEPT ![r] = "done"]
  /\ abandoned' = abandoned \cup {r}
  /\ UNCHANGED <<status, path, op, file, restore, overwritten>>

\* The errors of GetByID and Decrypt are ignored, and node or agentClient is
\* nil: the handler panics, and net/http recovers.
Panic(r) == Abandon(r, {"send"})

\* The UPDATE fails; its error is ignored.
UpdateFails(r) == Abandon(r, {"succeeded", "failed"})

\* The browser goes away or the control plane stops: SendTask ends, and
\* UpdateBackupStatus, which has the same context, fails.
Desert(r) == Abandon(r, {"send", "waiting", "succeeded", "failed"})

-----------------------------------------------------------------------------
\* Agent, HandleRunBackup.
PathOf(e) == path[e[1]]
Writing(e) == op[e] \in {"first", "second"}
Began(e) == op[e] \notin {"none", "sent"}
OpStep(e, pc) == op' = [op EXCEPT ![e] = pc]
WriteFile(e, f) == file' = [file EXCEPT ![PathOf(e)] = f]
AgentFrame == UNCHANGED <<status, path, handler, restore, abandoned>>

\* The response to a late copy goes to nobody.
Ends(e, pc) == OpStep(e, IF e = First(e[1]) THEN pc ELSE "over")

\* Requests whose own dump shares the file with the one that e now begins.
Clashing(e) ==
  LET others == {x \in Execution : x # e /\ PathOf(x) = PathOf(e)}
  IN  {r \in Request : First(r) \in others /\ Began(First(r))}
        \cup {r \in Request : e = First(r) /\ \E x \in others : Writing(x)}

\* The first attempt creates the file, or empties it.
Begin(e) ==
  /\ op[e] = "sent"
  /\ OpStep(e, "first")
  /\ WriteFile(e, Partial(e))
  /\ overwritten' = overwritten \cup Clashing(e)
  /\ AgentFrame

\* The parameters are invalid, the file cannot be created, or the task never
\* reaches the operation.
Reject(e) ==
  /\ op[e] = "sent"
  /\ \E pc \in {"failed", "over"} : Ends(e, pc)
  /\ UNCHANGED <<file, overwritten>>
  /\ AgentFrame

\* The dump is complete; if another execution wrote to the same file in the
\* meantime, the file has pieces of both.
DumpSucceeds(e) ==
  /\ Writing(e)
  /\ Ends(e, "succeeded")
  /\ WriteFile(e, IF file[PathOf(e)] = Partial(e) THEN Whole(e) ELSE Mixed)
  /\ UNCHANGED overwritten
  /\ AgentFrame

Fails(e, result) ==
  /\ \/ op[e] = "first" /\ OpStep(e, "second") /\ WriteFile(e, Partial(e))
     \/ Writing(e) /\ Ends(e, result) /\ UNCHANGED file
  /\ UNCHANGED overwritten
  /\ AgentFrame

DumpFailureIgnored(e) == Fails(e, "succeeded")

\* The command fails, or is killed after DefaultTimeout or when the connection
\* of the request closes.  The second attempt begins the file anew, or cannot
\* create it.  What a failed one has written stays.
DumpFails(e) == Fails(e, "failed")

\* The agent dies, and the response of what it was executing will not come.
AgentDies ==
  /\ \E e \in Execution : op[e] \in {"first", "second", "succeeded", "failed"}
  /\ op' = [e \in Execution |-> IF Began(e) THEN "over" ELSE op[e]]
  /\ restore' = [q \in Restore |-> IF restore[q].pc = "extracting"
                                     THEN [restore[q] EXCEPT !.pc = "failed"]
                                     ELSE restore[q]]
  /\ UNCHANGED <<status, path, handler, file, abandoned, overwritten>>

-----------------------------------------------------------------------------
\* Restores.
RestoreOf(q, r, statuses) ==
  /\ restore[q].pc = "none"
  /\ status[r] \in statuses
  /\ restore' = [restore EXCEPT ![q] = [pc |-> "sent", of |-> r]]
  /\ UNCHANGED <<status, path, handler, op, file, abandoned, overwritten>>

RestoreAnything(q, r) == RestoreOf(q, r, {"running", "completed", "failed"})

\* Control plane, RunRestore: only a completed backup is sent to the agent.
RunRestore(q, r) == RestoreOf(q, r, {"completed"})

RestoreStep(q, from, to) ==
  /\ restore[q].pc = from
  /\ restore' = [restore EXCEPT ![q].pc = to]
  /\ UNCHANGED <<status, path, handler, op, file, abandoned, overwritten>>

Exists(r) == file[path[r]] # Absent

\* Agent, HandleRunRestore: the file is read if it is there; a late copy of
\* the task reads it again.
Extract(q) ==
  \E pc \in {"sent", "restored", "failed"} :
    RestoreStep(q, pc, "extracting") /\ Exists(restore[q].of)

Extracted(q) == RestoreStep(q, "extracting", "restored")

\* There is no file, the command fails or is killed, or the call fails.
RestoreFails(q) == \E pc \in {"sent", "extracting"} : RestoreStep(q, pc, "failed")

-----------------------------------------------------------------------------
Init ==
  /\ status = [r \in Request |-> "none"]
  /\ path = [r \in Request |-> None]
  /\ handler = [r \in Request |-> "none"]
  /\ op = [e \in Execution |-> "none"]
  /\ file = [p \in Path |-> Absent]
  /\ restore = [q \in Restore |-> [pc |-> "none", of |-> None]]
  /\ abandoned = {}
  /\ overwritten = {}

Next ==
  \/ \E r \in Request :
       \/ CreateBackup(r) \/ CreateUnacknowledged(r)
       \/ SendTask(r) \/ Answer(r) \/ CallFails(r)
       \/ Record(r) \/ Panic(r) \/ UpdateFails(r) \/ Desert(r)
  \/ \E e \in Execution : Begin(e) \/ Reject(e) \/ DumpSucceeds(e) \/ DumpFails(e)
  \/ AgentDies
  \/ \E q \in Restore : \/ \E r \in Request : RunRestore(q, r)
                        \/ Extract(q) \/ Extracted(q) \/ RestoreFails(q)

\* A handler whose client stays runs to its end, since the HTTP client gives
\* up on a silent agent after its Timeout and the database answers or its
\* connection breaks.  Nothing is assumed of the agent.
Fairness ==
  \A r \in Request : WF_vars(SendTask(r)) /\ WF_vars(CallFails(r)) /\ WF_vars(Record(r))

Spec == Init /\ [][Next]_vars
FairSpec == Spec /\ Fairness

-----------------------------------------------------------------------------
\* The backup that a completed row promises is there: the file under its path
\* is the whole dump made for that very request, whatever other backups,
\* failures, restarts, lost responses and late copies there have been, unless
\* another execution wrote to the same path while or after its own did
\* (backup_handler.go RunBackup, backup.go HandleRunBackup).
CompletedIsWhole ==
  \A r \in Request \ overwritten : status[r] = "completed" => file[path[r]] = Whole(First(r))

\* A restore that passed RunRestore's check of the status reads, later and on
\* the node, a file that is whole and is the backup it was asked for, with the
\* same exception (backup_handler.go RunRestore, backup.go HandleRunRestore).
RestoresWhole ==
  \A q \in Restore :
    (restore[q].pc \in {"extracting", "restored"} /\ restore[q].of \notin overwritten) =>
      file[path[restore[q].of]] = Whole(First(restore[q].of))

\* Whatever the agent does, a backup does not stay "running" for ever unless
\* its handler panicked, was deserted or could not reach the database
\* (backup_handler.go RunBackup).
Settles ==
  \A r \in Request :
    status[r] = "running" ~> status[r] \in {"completed", "failed"} \/ r \in abandoned
=============================================================================
