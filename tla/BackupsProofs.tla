---------------------------- MODULE BackupsProofs ----------------------------
(***************************************************************************)
(* Theorems about Backups, for any number of backups, restores, paths and  *)
(* copies.                                                                 *)
(***************************************************************************)
EXTENDS Backups, TLAPS

USE DEF Status, HandlerPC, OpPC, RestorePC, Absent, Partial, Whole, Mixed

\* An execution belongs to a request, and every request has a first one.
LEMMA Executions ==
  /\ \A e \in Execution : e[1] \in Request
  /\ \A r \in Request : First(r) \in Execution /\ First(r)[1] = r
  /\ \A r, x \in Request : First(r) = First(x) => r = x
BY BackupAssumption DEF Execution, First

LEMMA InitTypeOK == Init => TypeOK
BY Executions DEF Init, TypeOK

LEMMA NextTypeOK == TypeOK /\ [Next]_vars => TypeOK'
<1>. SUFFICES ASSUME TypeOK, [Next]_vars PROVE TypeOK'
  OBVIOUS
<1>. USE Executions DEF TypeOK
<1>1. ASSUME NEW r \in Request, NEW pc \in {"send", "done"}, InsertRow(r, pc),
             abandoned' \subseteq Request
      PROVE  TypeOK'
  BY <1>1 DEF InsertRow
<1>2. ASSUME NEW r \in Request, SendTask(r) PROVE TypeOK'
  BY <1>2 DEF SendTask
<1>3. ASSUME NEW r \in Request, Answer(r) PROVE TypeOK'
  <2>1. PICK new \in {"succeeded", "failed"} : handler' = [handler EXCEPT ![r] = new]
    BY <1>3 DEF Answer
  <2>2. op' = [op EXCEPT ![First(r)] = "over"]
    BY <1>3 DEF Answer
  <2>3. UNCHANGED <<status, path, file, restore, abandoned, overwritten>>
    BY <1>3 DEF Answer
  <2>4. handler[r] # "none" /\ op[First(r)] # "none"
    BY <1>3 DEF Answer
  <2>. QED
    BY <2>1, <2>2, <2>3, <2>4
<1>4. ASSUME NEW r \in Request, CallFails(r) PROVE TypeOK'
  BY <1>4 DEF CallFails, Fail
<1>5. ASSUME NEW r \in Request, Record(r) PROVE TypeOK'
  BY <1>5 DEF Record, UpdateBackupStatus, Outcome
<1>6. ASSUME NEW r \in Request, NEW points, "none" \notin points, Abandon(r, points)
      PROVE  TypeOK'
  BY <1>6 DEF Abandon
<1>7. ASSUME NEW e \in Execution, Begin(e) PROVE TypeOK'
  <2>1. Clashing(e) \subseteq Request
    BY DEF Clashing
  <2>2. PathOf(e) \in Path
    BY <1>7 DEF Begin, PathOf
  <2>. QED
    BY <1>7, <2>1, <2>2 DEF Begin, OpStep, WriteFile, AgentFrame
<1>8. ASSUME NEW e \in Execution, NEW pc \in OpPC, op[e] # "none", OpStep(e, pc),
             UNCHANGED <<file, overwritten>>, AgentFrame
      PROVE  TypeOK'
  BY <1>8 DEF OpStep, AgentFrame
<1>9. ASSUME NEW e \in Execution, NEW pc \in OpPC,
             NEW f \in {Partial(e), Whole(e), Mixed},
             op[e] # "none", OpStep(e, pc), WriteFile(e, f), UNCHANGED overwritten, AgentFrame
      PROVE  TypeOK'
  <2>1. PathOf(e) \in Path
    BY <1>9 DEF PathOf
  <2>2. op' \in [Execution -> OpPC] /\ \A x \in Execution : op'[x] # "none" => op[x] # "none"
    BY <1>9 DEF OpStep
  <2>3. file' \in [Path -> [state : {"absent", "partial", "whole", "mixed"},
                            by : Execution \cup {None}]]
    BY <1>9, <2>1 DEF WriteFile
  <2>. QED
    BY <1>9, <2>2, <2>3 DEF AgentFrame
<1>10. ASSUME NEW e \in Execution, Reject(e) PROVE TypeOK'
  BY <1>8, <1>10 DEF Reject, Ends
<1>11. ASSUME NEW e \in Execution, DumpSucceeds(e) PROVE TypeOK'
  BY <1>9, <1>11 DEF DumpSucceeds, Ends, Writing
<1>12. ASSUME NEW e \in Execution, DumpFails(e) PROVE TypeOK'
  <2>1. CASE op[e] = "first" /\ OpStep(e, "second") /\ WriteFile(e, Partial(e))
    BY <1>9, <1>12, <2>1 DEF DumpFails, Fails
  <2>2. CASE Writing(e) /\ Ends(e, "failed") /\ UNCHANGED file
    BY <1>8, <1>12, <2>2 DEF DumpFails, Fails, Ends, Writing
  <2>. QED
    BY <1>12, <2>1, <2>2 DEF DumpFails, Fails
<1>13. CASE AgentDies
  BY <1>13 DEF AgentDies, Began
<1>14. ASSUME NEW q \in Restore, NEW r \in Request, RunRestore(q, r) PROVE TypeOK'
  BY <1>14 DEF RunRestore, RestoreOf
<1>15. ASSUME NEW q \in Restore, Extract(q) \/ Extracted(q) \/ RestoreFails(q)
       PROVE  TypeOK'
  <2>1. PICK from \in RestorePC, to \in RestorePC : RestoreStep(q, from, to)
    BY <1>15 DEF Extract, Extracted, RestoreFails
  <2>2. UNCHANGED <<status, path, handler, op, file, abandoned, overwritten>>
    BY <2>1 DEF RestoreStep
  <2>3. restore' \in [Restore -> [pc : RestorePC, of : Request \cup {None}]]
    BY <2>1 DEF RestoreStep
  <2>. QED
    BY <2>2, <2>3
<1>16. CASE UNCHANGED vars
  BY <1>16 DEF vars
<1>17. ASSUME NEW r \in Request, CreateBackup(r) \/ CreateUnacknowledged(r) PROVE TypeOK'
  BY <1>1, <1>17 DEF CreateBackup, CreateUnacknowledged, InsertRow
<1>18. ASSUME NEW r \in Request, Panic(r) \/ UpdateFails(r) \/ Desert(r) PROVE TypeOK'
  BY <1>6, <1>18 DEF Panic, UpdateFails, Desert
<1>. QED
  BY <1>2, <1>3, <1>4, <1>5, <1>7, <1>10, <1>11, <1>12, <1>13, <1>14, <1>15, <1>16, <1>17,
     <1>18 DEF Next

\* Every row, handler, execution, file and restore is in one of its states
\* (backup_handler.go, backup.go).
THEOREM TypeCorrect == Spec => []TypeOK
BY InitTypeOK, NextTypeOK, PTL DEF Spec
-----------------------------------------------------------------------------
\* The inductive invariant.

\* How far the row, the handler and the first execution of a request are.
Steps(r) ==
  /\ status[r] = "completed" => handler[r] = "done"
  /\ (handler[r] = "succeeded" \/ status[r] = "completed") => op[First(r)] = "over"
  /\ handler[r] \in {"none", "send"} => \A e \in Execution : e[1] = r => op[e] = "none"
  /\ status[r] = "none" <=> handler[r] = "none"

\* The first execution is said to have succeeded.
Promised(r) ==
  op[First(r)] = "succeeded" \/ handler[r] = "succeeded" \/ status[r] = "completed"

\* What that says of the file, as long as no other execution wrote to it: it
\* is the first execution's alone.
Undisturbed(r) ==
  /\ Writing(First(r)) => file[path[r]] = Partial(First(r))
  /\ Promised(r) => file[path[r]] = Whole(First(r))
  /\ (Writing(First(r)) \/ Promised(r)) =>
       \A e \in Execution : (e # First(r) /\ PathOf(e) = path[r]) => ~Writing(e)

FileFollows(r) == Steps(r) /\ (r \notin overwritten => Undisturbed(r))

RestoresCompleted ==
  \A q \in Restore :
    restore[q].pc # "none" => /\ restore[q].of \in Request
                              /\ status[restore[q].of] = "completed"

IndInv ==
  /\ TypeOK
  /\ \A r \in Request : FileFollows(r)
  /\ RestoresCompleted

LEMMA InitInd == Init => IndInv
<1>. SUFFICES ASSUME Init PROVE IndInv
  OBVIOUS
<1>1. ASSUME NEW r \in Request PROVE Steps(r) /\ Undisturbed(r)
  BY Executions DEF Init, Steps, Undisturbed, Promised, Writing
<1>2. RestoresCompleted
  BY DEF Init, RestoresCompleted
<1>. QED
  BY <1>1, <1>2, InitTypeOK DEF IndInv, FileFollows

\* An action that changes only what is said of another request and moves no
\* execution into or out of writing keeps what is said of this one.
LEMMA OthersFollow ==
  ASSUME NEW r \in Request, FileFollows(r), UNCHANGED <<file, overwritten>>,
         status'[r] = status[r], handler'[r] = handler[r], path'[r] = path[r],
         op'[First(r)] = op[First(r)],
         \A e \in Execution : e[1] = r /\ op[e] = "none" /\ handler[r] \in {"none", "send"}
                                => op'[e] = "none",
         \A e \in Execution : Writing(e)' => Writing(e) /\ PathOf(e)' = PathOf(e)
  PROVE  FileFollows(r)'
<1>1. Steps(r)'
  BY DEF FileFollows, Steps
<1>2. ASSUME r \notin overwritten PROVE Undisturbed(r)'
  BY <1>2 DEF FileFollows, Undisturbed, Promised, Writing
<1>. QED
  BY <1>1, <1>2 DEF FileFollows

\* Completed rows stay so, and what is restored stays the same.
LEMMA RestoresStay ==
  ASSUME RestoresCompleted,
         \A r \in Request : status[r] = "completed" => status'[r] = "completed",
         \A q \in Restore : /\ restore'[q].of = restore[q].of
                            /\ restore[q].pc = "none" => restore'[q].pc = "none"
  PROVE  RestoresCompleted'
BY DEF RestoresCompleted

\* The control plane's actions.
LEMMA HandlerFollows ==
  ASSUME IndInv, NEW r \in Request,
         \/ CreateBackup(r) \/ CreateUnacknowledged(r) \/ SendTask(r) \/ Answer(r)
         \/ CallFails(r) \/ Record(r) \/ Panic(r) \/ UpdateFails(r) \/ Desert(r)
  PROVE  (\A x \in Request : FileFollows(x)') /\ RestoresCompleted'
<1>. DEFINE Goal == (\A x \in Request : FileFollows(x)') /\ RestoresCompleted'
<1>0. TypeOK /\ RestoresCompleted /\ \A x \in Request : FileFollows(x)
  BY DEF IndInv
<1>. USE Executions
<1>1. ASSUME NEW pc \in {"send", "done"}, InsertRow(r, pc) PROVE Goal
  <2>1. /\ status[r] = "none" /\ status'[r] = "running" /\ handler'[r] = pc
        /\ \A x \in Request : x # r => /\ status'[x] = status[x] /\ handler'[x] = handler[x]
                                       /\ path'[x] = path[x]
        /\ UNCHANGED <<op, file, restore, overwritten>>
    BY <1>0, <1>1 DEF InsertRow, TypeOK
  <2>2. handler[r] = "none" /\ \A e \in Execution : e[1] = r => op[e] = "none"
    BY <1>0, <2>1 DEF FileFollows, Steps
  <2>3. \A e \in Execution : Writing(e)' => Writing(e) /\ PathOf(e)' = PathOf(e)
    BY <2>1, <2>2 DEF Writing, PathOf
  <2>4. ASSUME NEW x \in Request, x # r PROVE FileFollows(x)'
    BY <1>0, <2>1, <2>3, <2>4, OthersFollow
  <2>5. op'[First(r)] = "none"
    BY <2>1, <2>2
  <2>6. Steps(r)'
    BY <2>1, <2>2 DEF Steps
  <2>7. Undisturbed(r)'
    BY <2>1, <2>5 DEF Undisturbed, Promised, Writing
  <2>8. RestoresCompleted'
    BY <1>0, <2>1, RestoresStay
  <2>. QED
    BY <2>4, <2>6, <2>7, <2>8 DEF FileFollows
<1>2. ASSUME SendTask(r) PROVE Goal
  <2>1. /\ handler[r] = "send" /\ handler'[r] = "waiting"
        /\ \A x \in Request : x # r => handler'[x] = handler[x]
        /\ \A e \in Execution : op'[e] = IF e[1] = r THEN "sent" ELSE op[e]
        /\ UNCHANGED <<status, path, file, restore, overwritten>>
    BY <1>0, <1>2 DEF SendTask, TypeOK
  <2>2. status[r] # "completed" /\ status[r] # "none"
    BY <1>0, <2>1 DEF FileFollows, Steps
  <2>3. \A e \in Execution : Writing(e)' => Writing(e) /\ PathOf(e)' = PathOf(e)
    BY <2>1 DEF Writing, PathOf
  <2>4. ASSUME NEW x \in Request, x # r PROVE FileFollows(x)'
    BY <1>0, <2>1, <2>3, <2>4, OthersFollow
  <2>5. op'[First(r)] = "sent"
    BY <2>1
  <2>6. Steps(r)'
    BY <2>1, <2>2 DEF Steps
  <2>7. Undisturbed(r)'
    BY <2>1, <2>2, <2>5 DEF Undisturbed, Promised, Writing
  <2>8. RestoresCompleted'
    BY <1>0, <2>1, RestoresStay
  <2>. QED
    BY <2>4, <2>6, <2>7, <2>8 DEF FileFollows
<1>3. ASSUME Answer(r) PROVE Goal
  <2>1. /\ handler[r] = "waiting" /\ handler'[r] = op[First(r)]
        /\ op[First(r)] \in {"succeeded", "failed"}
        /\ \A x \in Request : x # r => handler'[x] = handler[x]
        /\ \A e \in Execution : op'[e] = IF e = First(r) THEN "over" ELSE op[e]
        /\ UNCHANGED <<status, path, file, restore, overwritten>>
    BY <1>0, <1>3 DEF Answer, TypeOK
  <2>2. status[r] # "completed" /\ status[r] # "none"
    BY <1>0, <2>1 DEF FileFollows, Steps
  <2>3. \A e \in Execution : Writing(e)' => Writing(e) /\ PathOf(e)' = PathOf(e)
    BY <2>1 DEF Writing, PathOf
  <2>4. ASSUME NEW x \in Request, x # r PROVE FileFollows(x)'
    <3>1. First(x) # First(r) /\ op'[First(x)] = op[First(x)] /\ handler'[x] = handler[x]
      BY <2>1, <2>4
    <3>2. \A e \in Execution : op[e] = "none" => op'[e] = "none"
      BY <2>1
    <3>. QED
      BY <1>0, <2>1, <2>3, <3>1, <3>2, OthersFollow
  <2>5. op'[First(r)] = "over" /\ (Promised(r)' => Promised(r))
    BY <2>1, <2>2 DEF Promised
  <2>6. Steps(r)'
    BY <2>1, <2>2, <2>5 DEF Steps
  <2>7. ASSUME r \notin overwritten PROVE Undisturbed(r)'
    <3>1. Undisturbed(r)
      BY <1>0, <2>7 DEF FileFollows
    <3>. QED
      BY <2>1, <2>3, <2>5, <3>1 DEF Undisturbed, Writing, PathOf
  <2>8. RestoresCompleted'
    BY <1>0, <2>1, RestoresStay
  <2>. QED
    BY <2>1, <2>4, <2>6, <2>7, <2>8 DEF FileFollows
<1>4. ASSUME NEW new \in {"failed", "done"}, handler[r] \notin {"none", "done"},
             handler' = [handler EXCEPT ![r] = new],
             \/ UNCHANGED status
             \/ new = "done" /\ status' = [status EXCEPT ![r] = Outcome(r)],
             UNCHANGED <<path, op, file, restore, overwritten>>
      PROVE  Goal
  <2>1. /\ handler'[r] = new
        /\ \A x \in Request : x # r => handler'[x] = handler[x] /\ status'[x] = status[x]
        /\ status'[r] \in {status[r], Outcome(r)}
        /\ Outcome(r) = "completed" => handler[r] = "succeeded"
        /\ Outcome(r) # "none"
    BY <1>0, <1>4 DEF TypeOK, Outcome
  <2>2. status[r] # "completed" /\ status[r] # "none"
    BY <1>0, <1>4 DEF FileFollows, Steps
  <2>3. \A e \in Execution : Writing(e)' => Writing(e) /\ PathOf(e)' = PathOf(e)
    BY <1>4 DEF Writing, PathOf
  <2>4. ASSUME NEW x \in Request, x # r PROVE FileFollows(x)'
    BY <1>0, <1>4, <2>1, <2>3, <2>4, OthersFollow
  <2>5. status'[r] = "completed" => handler[r] = "succeeded" /\ new = "done"
    BY <1>4, <2>1, <2>2, <1>0 DEF TypeOK
  <2>6. Steps(r)'
    BY <1>0, <1>4, <2>1, <2>2, <2>5 DEF FileFollows, Steps
  <2>7. ASSUME r \notin overwritten PROVE Undisturbed(r)'
    <3>1. Undisturbed(r)
      BY <1>0, <2>7 DEF FileFollows
    <3>2. Promised(r)' => Promised(r)
      BY <1>4, <2>1, <2>5 DEF Promised
    <3>. QED
      BY <1>4, <3>1, <3>2 DEF Undisturbed, Writing, PathOf
  <2>8. RestoresCompleted'
    BY <1>0, <1>4, <2>1, <2>2, RestoresStay
  <2>. QED
    BY <1>4, <2>4, <2>6, <2>7, <2>8 DEF FileFollows
<1>5. ASSUME CallFails(r) PROVE Goal
  BY <1>4, <1>5 DEF CallFails, Fail
<1>6. ASSUME Record(r) PROVE Goal
  <2>. HIDE DEF Goal
  <2>. QED
    BY <1>4, <1>6 DEF Record, UpdateBackupStatus
<1>7. ASSUME Panic(r) \/ UpdateFails(r) \/ Desert(r) PROVE Goal
  BY <1>4, <1>7 DEF Panic, UpdateFails, Desert, Abandon
<1>. QED
  BY <1>1, <1>2, <1>3, <1>5, <1>6, <1>7 DEF CreateBackup, CreateUnacknowledged

\* The agent's actions.

\* A step of an execution leaves a request alone whose own it is not, unless
\* it writes to the file that this one is writing or has promised.
LEMMA OtherStepFollows ==
  ASSUME IndInv, NEW e \in Execution, NEW pc \in OpPC, NEW x \in Request, e # First(x),
         op[e] # "none", OpStep(e, pc), AgentFrame,
         UNCHANGED file \/ \E f : WriteFile(e, f),
         x \notin overwritten' =>
           /\ x \notin overwritten
           /\ PathOf(e) = path[x] =>
                \/ ~(Writing(First(x)) \/ Promised(x))
                \/ UNCHANGED file /\ pc \notin {"first", "second"}
  PROVE  FileFollows(x)'
<1>. USE Executions
<1>0. TypeOK /\ FileFollows(x)
  BY DEF IndInv
<1>1. /\ \A y \in Execution : op'[y] = IF y = e THEN pc ELSE op[y]
      /\ UNCHANGED <<status, path, handler>>
      /\ \A p \in Path : p # PathOf(e) => file'[p] = file[p]
  BY <1>0 DEF OpStep, AgentFrame, WriteFile, TypeOK
<1>2. op'[First(x)] = op[First(x)]
  BY <1>1
<1>3. Steps(x)'
  <2>1. handler[x] \in {"none", "send"} => e[1] # x
    BY <1>0 DEF FileFollows, Steps
  <2>. QED
    BY <1>0, <1>1, <1>2, <2>1 DEF FileFollows, Steps
<1>4. ASSUME x \notin overwritten' PROVE Undisturbed(x)'
  <2>1. Undisturbed(x)
    BY <1>0, <1>4 DEF FileFollows
  <2>2. Writing(First(x))' = Writing(First(x)) /\ Promised(x)' = Promised(x)
    BY <1>1, <1>2 DEF Writing, Promised
  <2>3. CASE ~(Writing(First(x)) \/ Promised(x))
    BY <2>2, <2>3 DEF Undisturbed
  <2>4. CASE Writing(First(x)) \/ Promised(x)
    <3>1. path[x] \in Path /\ path'[x] = path[x]
      BY <1>0, <1>1, <2>4 DEF Writing, Promised, TypeOK
    <3>2. file'[path[x]] = file[path[x]]
      BY <1>1, <1>4, <2>4, <3>1
    <3>3. ASSUME NEW y \in Execution, y # First(x), PathOf(y)' = path[x] PROVE ~Writing(y)'
      <4>1. PathOf(y) = path[x]
        BY <1>1, <3>3 DEF PathOf
      <4>2. ~Writing(y)
        BY <2>1, <2>4, <3>3, <4>1 DEF Undisturbed
      <4>3. CASE y # e
        BY <1>1, <4>2, <4>3 DEF Writing
      <4>4. CASE y = e
        BY <1>1, <1>4, <2>4, <4>1, <4>4 DEF Writing
      <4>. QED
        BY <4>3, <4>4
    <3>. QED
      BY <2>1, <2>2, <3>1, <3>2, <3>3 DEF Undisturbed
  <2>. QED
    BY <2>3, <2>4
<1>. QED
  BY <1>3, <1>4 DEF FileFollows

\* The first execution of a request whose handler waits, or gave up waiting,
\* takes a step.
LEMMA OwnSteps ==
  ASSUME IndInv, NEW x \in Request, NEW pc \in OpPC,
         op[First(x)] \notin {"none", "over"}, OpStep(First(x), pc), AgentFrame
  PROVE  /\ Steps(x)'
         /\ op'[First(x)] = pc
         /\ Promised(x)' <=> pc = "succeeded"
         /\ path[x] \in Path
<1>. USE Executions
<1>0. TypeOK /\ FileFollows(x)
  BY DEF IndInv
<1>1. /\ \A y \in Execution : op'[y] = IF y = First(x) THEN pc ELSE op[y]
      /\ UNCHANGED <<status, path, handler>>
  BY <1>0 DEF OpStep, AgentFrame, TypeOK
<1>2. handler[x] \notin {"none", "send", "succeeded"} /\ status[x] # "completed"
  BY <1>0 DEF FileFollows, Steps
<1>3. Steps(x)'
  BY <1>0, <1>1, <1>2 DEF FileFollows, Steps
<1>4. Promised(x)' <=> pc = "succeeded"
  BY <1>1, <1>2 DEF Promised
<1>5. path[x] \in Path
  BY <1>0, <1>2 DEF TypeOK
<1>. QED
  BY <1>1, <1>3, <1>4, <1>5

LEMMA BeginFollows ==
  ASSUME IndInv, NEW e \in Execution, Begin(e), NEW x \in Request
  PROVE  FileFollows(x)'
<1>. USE Executions
<1>0. TypeOK /\ FileFollows(x)
  BY DEF IndInv
<1>1. /\ op[e] = "sent" /\ OpStep(e, "first") /\ WriteFile(e, Partial(e)) /\ AgentFrame
      /\ overwritten' = overwritten \cup Clashing(e)
  BY DEF Begin
<1>2. CASE e # First(x)
  <2>1. Writing(First(x)) \/ Promised(x) => Began(First(x))
    BY <1>0 DEF Writing, Promised, Began, FileFollows, Steps
  <2>2. (PathOf(e) = path[x] /\ Began(First(x))) => x \in Clashing(e)
    BY <1>2 DEF Clashing, PathOf
  <2>. QED
    BY <1>1, <1>2, <2>1, <2>2, OtherStepFollows
<1>3. CASE e = First(x)
  <2>1. /\ Steps(x)' /\ op'[First(x)] = "first" /\ ~Promised(x)' /\ path[x] \in Path
    BY <1>1, <1>3, OwnSteps
  <2>2. PathOf(e) = path[x] /\ path'[x] = path[x]
    BY <1>1, <1>3 DEF PathOf, AgentFrame
  <2>3. file'[path[x]] = Partial(First(x))
    BY <1>0, <1>1, <1>3, <2>1, <2>2 DEF WriteFile, TypeOK
  <2>4. ASSUME x \notin overwritten', NEW y \in Execution, y # First(x), PathOf(y)' = path[x]
        PROVE  ~Writing(y)'
    <3>1. x \notin Clashing(e) /\ PathOf(y) = PathOf(e)
      BY <1>1, <2>2, <2>4 DEF PathOf, AgentFrame
    <3>2. ~Writing(y)
      BY <1>3, <2>4, <3>1 DEF Clashing
    <3>. QED
      BY <1>0, <1>1, <1>3, <2>4, <3>2 DEF OpStep, Writing, TypeOK
  <2>. QED
    BY <2>1, <2>2, <2>3, <2>4 DEF FileFollows, Undisturbed
<1>. QED
  BY <1>2, <1>3

\* A step that writes nothing and promises nothing.
LEMMA QuietStepFollows ==
  ASSUME IndInv, NEW e \in Execution, NEW pc \in {"failed", "over"},
         op[e] \notin {"none", "over"}, OpStep(e, pc), UNCHANGED <<file, overwritten>>,
         AgentFrame, NEW x \in Request
  PROVE  FileFollows(x)'
<1>1. CASE e # First(x)
  BY <1>1, OtherStepFollows
<1>2. CASE e = First(x)
  <2>1. Steps(x)' /\ op'[First(x)] = pc /\ ~Promised(x)'
    BY <1>2, OwnSteps
  <2>. QED
    BY <2>1 DEF FileFollows, Undisturbed, Writing
<1>. QED
  BY <1>1, <1>2

LEMMA DumpSucceedsFollows ==
  ASSUME IndInv, NEW e \in Execution, DumpSucceeds(e), NEW x \in Request
  PROVE  FileFollows(x)'
<1>. USE Executions
<1>0. TypeOK /\ FileFollows(x)
  BY DEF IndInv
<1>. DEFINE f == IF file[PathOf(e)] = Partial(e) THEN Whole(e) ELSE Mixed
<1>1. /\ Writing(e) /\ Ends(e, "succeeded") /\ WriteFile(e, f) /\ AgentFrame
      /\ UNCHANGED overwritten
  BY DEF DumpSucceeds
<1>2. CASE e # First(x)
  <2>1. PICK pc \in OpPC : OpStep(e, pc)
    BY <1>1 DEF Ends
  <2>2. op[e] # "none"
    BY <1>1 DEF Writing
  <2>3. (x \notin overwritten /\ PathOf(e) = path[x]) => ~(Writing(First(x)) \/ Promised(x))
    BY <1>0, <1>1, <1>2 DEF FileFollows, Undisturbed
  <2>. QED
    BY <1>1, <1>2, <2>1, <2>2, <2>3, OtherStepFollows
<1>3. CASE e = First(x)
  <2>1. OpStep(First(x), "succeeded") /\ op[First(x)] \notin {"none", "over"}
    BY <1>1, <1>3 DEF Ends, Writing
  <2>2. Steps(x)' /\ op'[First(x)] = "succeeded" /\ path[x] \in Path
    BY <1>1, <2>1, OwnSteps
  <2>3. ASSUME x \notin overwritten PROVE Undisturbed(x)'
    <3>1. Undisturbed(x)
      BY <1>0, <2>3 DEF FileFollows
    <3>2. PathOf(e) = path[x] /\ path' = path
      BY <1>1, <1>3 DEF PathOf, AgentFrame
    <3>3. f = Whole(First(x))
      BY <1>1, <1>3, <3>1, <3>2 DEF Undisturbed
    <3>4. file'[path[x]] = Whole(First(x))
      BY <1>0, <1>1, <2>2, <3>2, <3>3 DEF WriteFile, TypeOK
    <3>5. ASSUME NEW y \in Execution, y # First(x), PathOf(y) = path[x] PROVE ~Writing(y)'
      <4>1. ~Writing(y)
        BY <1>1, <1>3, <3>1, <3>5 DEF Undisturbed
      <4>. QED
        BY <1>0, <2>1, <3>5, <4>1 DEF OpStep, Writing, TypeOK
    <3>. QED
      BY <2>2, <3>2, <3>4, <3>5 DEF Undisturbed, Writing, PathOf
  <2>. QED
    BY <1>1, <2>2, <2>3 DEF FileFollows
<1>. QED
  BY <1>2, <1>3

LEMMA DumpFailsFollows ==
  ASSUME IndInv, NEW e \in Execution, DumpFails(e), NEW x \in Request
  PROVE  FileFollows(x)'
<1>. USE Executions
<1>0. TypeOK /\ FileFollows(x)
  BY DEF IndInv
<1>1. CASE op[e] = "first" /\ OpStep(e, "second") /\ WriteFile(e, Partial(e))
  <2>1. UNCHANGED overwritten /\ AgentFrame /\ Writing(e)
    BY <1>1 DEF DumpFails, Fails, Writing
  <2>2. CASE e # First(x)
    <3>1. (x \notin overwritten /\ PathOf(e) = path[x]) => ~(Writing(First(x)) \/ Promised(x))
      BY <1>0, <2>1, <2>2 DEF FileFollows, Undisturbed
    <3>. QED
      BY <1>1, <2>1, <2>2, <3>1, OtherStepFollows
  <2>3. CASE e = First(x)
    <3>1. Steps(x)' /\ op'[First(x)] = "second" /\ ~Promised(x)' /\ path[x] \in Path
      BY <1>1, <2>1, <2>3, OwnSteps
    <3>2. ASSUME x \notin overwritten PROVE Undisturbed(x)'
      <4>1. Undisturbed(x)
        BY <1>0, <3>2 DEF FileFollows
      <4>2. PathOf(e) = path[x] /\ path' = path
        BY <2>1, <2>3 DEF PathOf, AgentFrame
      <4>3. file'[path[x]] = Partial(First(x))
        BY <1>0, <1>1, <2>3, <3>1, <4>2 DEF WriteFile, TypeOK
      <4>4. ASSUME NEW y \in Execution, y # First(x), PathOf(y) = path[x] PROVE ~Writing(y)'
        <5>1. ~Writing(y)
          BY <2>1, <2>3, <4>1, <4>4 DEF Undisturbed
        <5>. QED
          BY <1>0, <1>1, <2>3, <4>4, <5>1 DEF OpStep, Writing, TypeOK
      <4>. QED
        BY <3>1, <4>2, <4>3, <4>4 DEF Undisturbed, PathOf
    <3>. QED
      BY <2>1, <3>1, <3>2 DEF FileFollows
  <2>. QED
    BY <2>2, <2>3
<1>2. CASE Writing(e) /\ Ends(e, "failed") /\ UNCHANGED file
  <2>1. PICK pc \in {"failed", "over"} : OpStep(e, pc)
    BY <1>2 DEF Ends
  <2>2. op[e] \notin {"none", "over"} /\ UNCHANGED overwritten /\ AgentFrame
    BY <1>2 DEF DumpFails, Fails, Writing
  <2>. QED
    BY <1>2, <2>1, <2>2, QuietStepFollows
<1>. QED
  BY <1>1, <1>2 DEF DumpFails, Fails

LEMMA AgentDiesFollows ==
  ASSUME IndInv, AgentDies, NEW x \in Request
  PROVE  FileFollows(x)'
<1>. USE Executions
<1>0. TypeOK /\ FileFollows(x)
  BY DEF IndInv
<1>1. /\ \A y \in Execution : op'[y] = IF Began(y) THEN "over" ELSE op[y]
      /\ UNCHANGED <<status, path, handler, file, overwritten>>
  BY DEF AgentDies
<1>2. \A y \in Execution : ~Writing(y)'
  BY <1>1 DEF Writing, Began
<1>3. Steps(x)'
  BY <1>0, <1>1 DEF FileFollows, Steps, Began
<1>4. Promised(x)' => Promised(x)
  BY <1>1 DEF Promised, Began
<1>. QED
  BY <1>0, <1>1, <1>2, <1>3, <1>4 DEF FileFollows, Undisturbed
-----------------------------------------------------------------------------
LEMMA NextInd == IndInv /\ [Next]_vars => IndInv'
<1>. SUFFICES ASSUME IndInv, [Next]_vars PROVE IndInv'
  OBVIOUS
<1>. DEFINE Rest == (\A x \in Request : FileFollows(x)) /\ RestoresCompleted
<1>0. TypeOK /\ Rest
  BY DEF IndInv
<1>1. ASSUME NEW r \in Request,
             \/ CreateBackup(r) \/ CreateUnacknowledged(r) \/ SendTask(r) \/ Answer(r)
             \/ CallFails(r) \/ Record(r) \/ Panic(r) \/ UpdateFails(r) \/ Desert(r)
      PROVE  Rest'
  BY <1>1, HandlerFollows
<1>2. ASSUME AgentFrame PROVE RestoresCompleted'
  BY <1>0, <1>2 DEF AgentFrame, RestoresCompleted
<1>3. ASSUME NEW e \in Execution, Begin(e) \/ DumpSucceeds(e) \/ DumpFails(e) PROVE Rest'
  <2>1. \A x \in Request : FileFollows(x)'
    BY <1>3, BeginFollows, DumpSucceedsFollows, DumpFailsFollows
  <2>2. AgentFrame
    BY <1>3 DEF Begin, DumpSucceeds, DumpFails, Fails
  <2>. QED
    BY <1>2, <2>1, <2>2
<1>4. ASSUME NEW e \in Execution, Reject(e) PROVE Rest'
  <2>1. PICK pc \in {"failed", "over"} : OpStep(e, pc)
    BY <1>4 DEF Reject, Ends
  <2>2. op[e] \notin {"none", "over"} /\ UNCHANGED <<file, overwritten>> /\ AgentFrame
    BY <1>4 DEF Reject
  <2>. QED
    BY <1>2, <2>1, <2>2, QuietStepFollows
<1>5. ASSUME AgentDies PROVE Rest'
  <2>1. \A x \in Request : FileFollows(x)'
    BY <1>5, AgentDiesFollows
  <2>2. UNCHANGED status /\ \A q \in Restore : /\ restore'[q].of = restore[q].of
                                               /\ restore[q].pc = "none" => restore'[q].pc = "none"
    BY <1>0, <1>5 DEF AgentDies, TypeOK
  <2>3. RestoresCompleted'
    BY <1>0, <2>2, RestoresStay
  <2>. QED
    BY <2>1, <2>3
<1>6. ASSUME UNCHANGED <<status, path, handler, op, file, overwritten>>
      PROVE  \A x \in Request : FileFollows(x)'
  <2>. SUFFICES ASSUME NEW x \in Request PROVE FileFollows(x)'
    OBVIOUS
  <2>1. Steps(x)' = Steps(x)
    BY <1>6 DEF Steps
  <2>2. Undisturbed(x)' = Undisturbed(x)
    BY <1>6 DEF Undisturbed, Promised, Writing, PathOf
  <2>. QED
    BY <1>0, <1>6, <2>1, <2>2 DEF FileFollows
<1>7. ASSUME NEW q \in Restore, NEW r \in Request, RunRestore(q, r) PROVE Rest'
  <2>1. RestoresCompleted'
    BY <1>0, <1>7 DEF RunRestore, RestoreOf, RestoresCompleted, TypeOK
  <2>. QED
    BY <1>6, <1>7, <2>1 DEF RunRestore, RestoreOf
<1>8. ASSUME NEW q \in Restore, Extract(q) \/ Extracted(q) \/ RestoreFails(q)
      PROVE  Rest'
  <2>1. PICK from \in RestorePC \ {"none"}, to \in RestorePC : RestoreStep(q, from, to)
    BY <1>8 DEF Extract, Extracted, RestoreFails
  <2>2. RestoresCompleted'
    BY <1>0, <2>1 DEF RestoreStep, RestoresCompleted, TypeOK
  <2>. QED
    BY <1>6, <2>1, <2>2 DEF RestoreStep
<1>9. ASSUME UNCHANGED vars PROVE Rest'
  <2>1. RestoresCompleted'
    BY <1>0, <1>9 DEF vars, RestoresCompleted
  <2>2. UNCHANGED <<status, path, handler, op, file, overwritten>>
    BY <1>9 DEF vars
  <2>. QED
    BY <1>6, <2>1, <2>2
<1>10. Rest'
  BY <1>1, <1>3, <1>4, <1>5, <1>7, <1>8, <1>9 DEF Next
<1>11. TypeOK'
  BY <1>0, NextTypeOK
<1>. QED
  BY <1>10, <1>11 DEF IndInv

\* The file a completed row names is the whole dump made for it, unless another
\* execution wrote to its path while or after its own did (backup_handler.go
\* RunBackup, backup.go HandleRunBackup).
THEOREM CompletedBackups == Spec => []CompletedIsWhole
<1>1. IndInv => CompletedIsWhole
  BY DEF IndInv, FileFollows, Undisturbed, Promised, CompletedIsWhole
<1>. QED
  BY <1>1, InitInd, NextInd, PTL DEF Spec

\* With the same exception a restore, or a late copy of one, reads the whole
\* backup that it was asked for (backup_handler.go RunRestore).
THEOREM WholeRestores == Spec => []RestoresWhole
<1>1. IndInv => RestoresWhole
  BY DEF IndInv, FileFollows, Undisturbed, Promised, RestoresCompleted, RestoresWhole
<1>. QED
  BY <1>1, InitInd, NextInd, PTL DEF Spec
=============================================================================
