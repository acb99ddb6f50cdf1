----------------------------- MODULE Mailboxes -----------------------------
(***************************************************************************)
(* Mailboxes of one node: the control plane's CreateMailbox and            *)
(* DeleteMailbox handlers with the mailboxes table, and on the agent the   *)
(* operations of the same names with the files of Dovecot and Postfix.     *)
(* Requests and operations overlap at will: the agent serves every task in *)
(* a goroutine of its own and takes no lock.  What TaskProtocol allows     *)
(* besides, a copy that overlaps with the task or follows a restart, is    *)
(* left out: a task reaches the agent at most once here.                   *)
(*                                                                         *)
(* A line of a file, like a row, is named by the request that creates the  *)
(* mailbox: its password hash tells it from other lines of the address.    *)
(***************************************************************************)
EXTENDS Naturals, FiniteSets

CONSTANTS
  Create,     \* CreateMailbox requests
  Delete,     \* DeleteMailbox requests
  Address,
  AddressOf,  \* [Create -> Address]
  None,
  MaxTasks,   \* bound: tasks sent in all
  MaxUnderWay,\* bound: requests under way at a time
  MaxFaults   \* bound: operations that fail, and requests that come while
              \* another for their address is under way, together

Request == Create \cup Delete

ASSUME MailAssumption ==
  /\ Create \cap Delete = {}
  /\ AddressOf \in [Create -> Address]
  /\ None \notin Create
  /\ MaxTasks \in Nat
  /\ MaxUnderWay \in Nat
  /\ MaxFaults \in Nat

VARIABLES
  mailboxes,  \* creations whose row is in the table
  target,     \* [Delete -> the creation whose row it deletes, or None]
  handler,    \* [Request -> where its handler is]
  op,         \* [Request -> where its operation is]
  seen,       \* [Delete -> what removeLinePrefix has read and not yet
              \* written back]
  dovecot,    \* lines of /etc/dovecot/users
  vmailbox,   \* lines of /etc/postfix/vmailbox
  index,      \* addresses in vmailbox.db
  calm,       \* history: requests that came when no other request for their
              \* address was under way
  ragged,     \* the files whose last line has no end
  spoilt,     \* history: addresses a line of which was lost, or came back,
              \* through a rewriting or a torn line that was not meant for it
  blind       \* history: was the index last compiled while vmailbox was empty
              \* between its truncation and its writing?

vars == <<mailboxes, target, handler, op, seen, dovecot, vmailbox, index,
          calm, ragged, spoilt, blind>>

-----------------------------------------------------------------------------
\* "answered" is the answer 200, "failed" any other.
HandlerPC == {"none", "waiting", "unrow", "answered", "failed"}

\* The file or command that is next; a deletion reads a file, empties it and
\* then writes it.
OpPC == {"none", "dovecot", "dovecotWrite", "dovecotEmptied",
         "vmailbox", "vmailboxWrite", "vmailboxEmptied",
         "postmap", "succeeded", "failed"}

TypeOK ==
  /\ mailboxes \in SUBSET Create
  /\ target \in [Delete -> Create \cup {None}]
  /\ handler \in [Request -> HandlerPC]
  /\ op \in [Request -> OpPC]
  /\ seen \in [Delete -> SUBSET Create]
  /\ dovecot \in SUBSET Create
  /\ vmailbox \in SUBSET Create
  /\ index \in SUBSET Address
  /\ calm \in SUBSET Request
  /\ ragged \in SUBSET {"dovecot", "vmailbox"}
  /\ spoilt \in SUBSET Address
  /\ blind \in BOOLEAN

Init ==
  /\ mailboxes = {}
  /\ target = [d \in Delete |-> None]
  /\ handler = [r \in Request |-> "none"]
  /\ op = [r \in Request |-> "none"]
  /\ seen = [d \in Delete |-> {}]
  /\ dovecot = {} /\ vmailbox = {} /\ index = {}
  /\ calm = {} /\ ragged = {} /\ spoilt = {} /\ blind = FALSE

Addresses(lines) == {AddressOf[c] : c \in lines}
LinesOf(a) == {c \in Create : AddressOf[c] = a}

\* A deletion has an address once it has read its row.
Concerns(r, a) ==
  \/ r \in LinesOf(a)
  \/ r \in Delete /\ target[r] \in LinesOf(a)

UnderWay(r) ==
  \/ handler[r] \in {"waiting", "unrow"}
  \/ op[r] \notin {"none", "succeeded", "failed"}

MayFault ==
  Cardinality({r \in Request : op[r] = "failed"})
    + Cardinality({r \in Request : op[r] # "none"} \ calm) < MaxFaults

\* The request is calm if it is alone with its address.
Arrive(r, a) ==
  /\ Cardinality({x \in Request : op[x] # "none"}) < MaxTasks
  /\ Cardinality({x \in Request : UnderWay(x)}) < MaxUnderWay
  /\ IF \E x \in Request : Concerns(x, a) /\ UnderWay(x)
       THEN MayFault /\ calm' = calm
       ELSE calm' = calm \cup {r}

files == <<seen, dovecot, vmailbox, index, ragged, spoilt, blind>>

-----------------------------------------------------------------------------
\* Control plane.

\* MailStore.CreateMailbox; address is UNIQUE.  Client.SendTask: the task may be
\* long on its way, or lost (OpFails).
CreateMailbox(c) ==
  /\ handler[c] = "none"
  /\ IF AddressOf[c] \notin Addresses(mailboxes)
       THEN /\ mailboxes' = mailboxes \cup {c}
            /\ handler' = [handler EXCEPT ![c] = "waiting"]
            /\ op' = [op EXCEPT ![c] = "dovecot"]
            /\ Arrive(c, AddressOf[c])
       ELSE /\ handler' = [handler EXCEPT ![c] = "failed"]
            /\ UNCHANGED <<mailboxes, op, calm>>
  /\ UNCHANGED <<target, files>>

\* MailStore.GetMailbox, Client.SendTask.
DeleteMailbox(d, c) ==
  /\ handler[d] = "none"
  /\ c \in mailboxes
  /\ target' = [target EXCEPT ![d] = c]
  /\ handler' = [handler EXCEPT ![d] = "waiting"]
  /\ op' = [op EXCEPT ![d] = "dovecot"]
  /\ Arrive(d, AddressOf[c])
  /\ UNCHANGED <<mailboxes, files>>

AnswerAgentStatus(r) ==
  /\ handler[r] = "waiting"
  /\ op[r] \in {"succeeded", "failed"}
  /\ handler' = [handler EXCEPT ![r] = op[r]]
  /\ UNCHANGED <<mailboxes, target, op, calm, files>>

AnswerAnyway(r) ==
  /\ handler[r] = "waiting"
  /\ op[r] \in {"succeeded", "failed"}
  /\ handler' = [handler EXCEPT ![r] = IF r \in Delete THEN "unrow" ELSE "answered"]
  /\ UNCHANGED <<mailboxes, target, op, calm, files>>

\* The handler learns how the operation ended.
Answer(r) ==
  /\ handler[r] = "waiting"
  /\ op[r] \in {"succeeded", "failed"}
  /\ handler' = [handler EXCEPT ![r] =
                   IF op[r] = "failed" THEN "failed"
                   ELSE IF r \in Delete THEN "unrow" ELSE "answered"]
  /\ UNCHANGED <<mailboxes, target, op, calm, files>>

\* MailStore.DeleteMailbox; nobody looks at its error.
DeleteRow(d) ==
  /\ handler[d] = "unrow"
  /\ mailboxes' \in {mailboxes \ {target[d]}, mailboxes}
  /\ handler' = [handler EXCEPT ![d] = "answered"]
  /\ UNCHANGED <<target, op, calm, files>>

\* The client leaves, the call times out or its response is lost, or the control
\* plane stops, before it has sent the task perhaps.  Rows and operations stay as they are.
GiveUp(r) ==
  /\ handler[r] \in {"waiting", "unrow"}
  /\ handler' = [handler EXCEPT ![r] = "failed"]
  /\ UNCHANGED <<mailboxes, target, op, calm, files>>

-----------------------------------------------------------------------------
\* Agent.
controlPlane == <<mailboxes, target, handler, calm>>

Becomes(r, pc) == op' = [op EXCEPT ![r] = pc]

\* HandleCreateMailbox, appendToFile: O_APPEND adds to whatever is there, to a
\* line without an end too, and is then nobody's line.
AppendDovecot(c) ==
  /\ op[c] = "dovecot"
  /\ IF "dovecot" \in ragged
       THEN dovecot' = dovecot /\ spoilt' = spoilt \cup {AddressOf[c]}
       ELSE dovecot' = dovecot \cup {c} /\ spoilt' = spoilt
  /\ ragged' = ragged \ {"dovecot"}
  /\ Becomes(c, "vmailbox")
  /\ UNCHANGED <<controlPlane, seen, vmailbox, index, blind>>

AppendVmailbox(c) ==
  /\ op[c] = "vmailbox"
  /\ IF "vmailbox" \in ragged
       THEN vmailbox' = vmailbox /\ spoilt' = spoilt \cup {AddressOf[c]}
       ELSE vmailbox' = vmailbox \cup {c} /\ spoilt' = spoilt
  /\ ragged' = ragged \ {"vmailbox"}
  /\ Becomes(c, "postmap")
  /\ UNCHANGED <<controlPlane, seen, dovecot, index, blind>>

\* WriteString stops short: a part of the line stays, with the address or not.
AppendFails(c) ==
  /\ MayFault
  /\ \/ /\ op[c] = "dovecot"
        /\ dovecot' \in {dovecot, dovecot \cup {c}} /\ vmailbox' = vmailbox
        /\ ragged' = ragged \cup {"dovecot"}
     \/ /\ op[c] = "vmailbox"
        /\ vmailbox' \in {vmailbox, vmailbox \cup {c}} /\ dovecot' = dovecot
        /\ ragged' = ragged \cup {"vmailbox"}
  /\ Becomes(c, "failed")
  /\ UNCHANGED <<controlPlane, seen, index, spoilt, blind>>

\* HandleDeleteMailbox, removeLinePrefix: os.ReadFile.  A file that is not
\* there yet reads as an empty one.
Read(d) ==
  /\ \/ op[d] = "dovecot" /\ Becomes(d, "dovecotWrite")
     \/ op[d] = "vmailbox" /\ Becomes(d, "vmailboxWrite")
  /\ seen' = [seen EXCEPT ![d] = IF op[d] = "dovecot" THEN dovecot ELSE vmailbox]
  /\ UNCHANGED <<controlPlane, dovecot, vmailbox, index, ragged, spoilt, blind>>

\* The lines whose prefix is not the deletion's address with its separator.
Kept(d) == seen[d] \ LinesOf(AddressOf[target[d]])

Emptied(pc) == {d \in Delete : op[d] = pc}

\* The addresses for which it is wrong to replace the file by what d has read:
\* those whose lines have changed since, and d's own if another deletion has
\* emptied the file and will write them back.
Spoils(d, file, pc) ==
  Addresses((seen[d] \ file) \cup (file \ seen[d]))
    \cup {AddressOf[target[d]] : x \in Emptied(pc)}

\* os.WriteFile: it opens the file with O_TRUNC, ...
TruncateDovecot(d) ==
  /\ op[d] = "dovecotWrite"
  /\ dovecot' = {}
  /\ ragged' = ragged \ {"dovecot"}
  /\ spoilt' = spoilt \cup Spoils(d, dovecot, "dovecotEmptied")
  /\ Becomes(d, "dovecotEmptied")
  /\ UNCHANGED <<controlPlane, seen, vmailbox, index, blind>>

TruncateVmailbox(d) ==
  /\ op[d] = "vmailboxWrite"
  /\ vmailbox' = {}
  /\ ragged' = ragged \ {"vmailbox"}
  /\ spoilt' = spoilt \cup Spoils(d, vmailbox, "vmailboxEmptied")
  /\ Becomes(d, "vmailboxEmptied")
  /\ UNCHANGED <<controlPlane, seen, dovecot, index, blind>>

\* ... and writes from its beginning over what others have put there by then;
\* of that the part beyond the written lines stays.
Overwritten(d, file) ==
  IF Kept(d) = {} THEN {file} ELSE {Kept(d) \cup rest : rest \in SUBSET file}

WriteDovecot(d) ==
  /\ op[d] = "dovecotEmptied"
  /\ dovecot' \in Overwritten(d, dovecot)
  /\ ragged' \in {ragged, ragged \ {"dovecot"}}
  /\ spoilt' = spoilt \cup Addresses(dovecot \ dovecot')
  /\ seen' = [seen EXCEPT ![d] = {}]
  /\ Becomes(d, "vmailbox")
  /\ UNCHANGED <<controlPlane, vmailbox, index, blind>>

WriteUncompiled(d) ==
  /\ op[d] = "vmailboxEmptied"
  /\ vmailbox' \in Overwritten(d, vmailbox)
  /\ ragged' \in {ragged, ragged \ {"vmailbox"}}
  /\ spoilt' = spoilt \cup Addresses(vmailbox \ vmailbox')
  /\ seen' = [seen EXCEPT ![d] = {}]
  /\ Becomes(d, "succeeded")
  /\ UNCHANGED <<controlPlane, dovecot, index, blind>>

WriteVmailbox(d) ==
  /\ op[d] = "vmailboxEmptied"
  /\ vmailbox' \in Overwritten(d, vmailbox)
  /\ ragged' \in {ragged, ragged \ {"vmailbox"}}
  /\ spoilt' = spoilt \cup Addresses(vmailbox \ vmailbox')
  /\ seen' = [seen EXCEPT ![d] = {}]
  /\ Becomes(d, "postmap")
  /\ UNCHANGED <<controlPlane, dovecot, index, blind>>

\* The disk is full or the agent dies: of the lines that were to be written and
\* those that others have put there any may be missing.
WriteFails(d) ==
  /\ MayFault
  /\ \/ /\ op[d] = "dovecotEmptied"
        /\ dovecot' \in SUBSET (dovecot \cup Kept(d)) /\ vmailbox' = vmailbox
        /\ ragged' \in {ragged, ragged \cup {"dovecot"}}
        /\ spoilt' = spoilt \cup Addresses((dovecot \cup Kept(d)) \ dovecot')
     \/ /\ op[d] = "vmailboxEmptied"
        /\ vmailbox' \in SUBSET (vmailbox \cup Kept(d)) /\ dovecot' = dovecot
        /\ ragged' \in {ragged, ragged \cup {"vmailbox"}}
        /\ spoilt' = spoilt \cup Addresses((vmailbox \cup Kept(d)) \ vmailbox')
  /\ seen' = [seen EXCEPT ![d] = {}]
  /\ Becomes(d, "failed")
  /\ UNCHANGED <<controlPlane, index, blind>>

\* postmap compiles the index, under a lock of its own, from what is in the file.
Postmap(r) ==
  /\ op[r] = "postmap"
  /\ index' = Addresses(vmailbox)
  /\ blind' = (Emptied("vmailboxEmptied") # {})
  /\ Becomes(r, "succeeded")
  /\ UNCHANGED <<controlPlane, seen, dovecot, vmailbox, ragged, spoilt>>

\* The task does not arrive, a call fails before it has changed anything, or the
\* agent dies: what is done stays.
OpFails(r) ==
  /\ MayFault
  /\ op[r] \in {"dovecot", "dovecotWrite", "vmailbox", "vmailboxWrite", "postmap"}
  /\ Becomes(r, "failed")
  /\ seen' = [d \in Delete |-> IF d = r THEN {} ELSE seen[d]]
  /\ UNCHANGED <<controlPlane, dovecot, vmailbox, index, ragged, spoilt, blind>>

-----------------------------------------------------------------------------
Next ==
  \/ \E c \in Create : CreateMailbox(c) \/ AppendDovecot(c) \/ AppendVmailbox(c) \/ AppendFails(c)
  \/ \E d \in Delete : \/ \E c \in Create : DeleteMailbox(d, c)
                       \/ DeleteRow(d) \/ Read(d)
                       \/ TruncateDovecot(d) \/ WriteDovecot(d)
                       \/ TruncateVmailbox(d) \/ WriteVmailbox(d) \/ WriteFails(d)
  \/ \E r \in Request : Answer(r) \/ GiveUp(r) \/ Postmap(r) \/ OpFails(r)

Spec == Init /\ [][Next]_vars

-----------------------------------------------------------------------------
\* No two requests for the address were ever under way together.
Undisturbed(a) ==
  \A r \in Request :
    (Concerns(r, a) /\ op[r] # "none") => r \in calm

\* The mailbox has its lines and its index entry, except that a file under
\* rewriting lacks its lines for a moment, and the index may have been compiled
\* at such a moment.
Usable(c) ==
  /\ Emptied("dovecotEmptied") = {} => dovecot \cap LinesOf(AddressOf[c]) = {c}
  /\ Emptied("vmailboxEmptied") = {} => c \in vmailbox
  /\ ~blind => AddressOf[c] \in index

\* A mailbox whose creation was answered with success, and that nobody has
\* begun to delete, can be logged in to with its password and receives mail,
\* whatever failed creations and deletions of the address came before it and
\* however requests for other addresses overlap with it, as long as no
\* rewriting or torn line hit its own lines (mail.go, mail_handler.go).
CreatedIsUsable ==
  \A c \in mailboxes :
    (/\ handler[c] = "answered"
     /\ AddressOf[c] \notin spoilt
     /\ Undisturbed(AddressOf[c])
     /\ \A d \in Delete : target[d] # c) => Usable(c)

\* An address without a row has no line in either file and does not receive
\* mail, unless a rewriting brought a line of it back: what fails half-way keeps
\* its row, and with it a way to be deleted (mail_handler.go, mail.go).
GoneWithRow ==
  \A a \in Address \ (Addresses(mailboxes) \cup spoilt) :
    Undisturbed(a) => a \notin Addresses(dovecot) \cup Addresses(vmailbox) \cup index

\* When no operation is under way and none has failed, Postfix sees exactly the
\* addresses of its file, also after operations that overlapped: whoever
\* changes the file last compiles it last (docs/13_MAIL_ARCHITECTURE.md, 2).
IndexFollows ==
  (\A r \in Request : op[r] \in {"none", "succeeded"}) => index = Addresses(vmailbox)
=============================================================================
