-------------------------- MODULE MailboxesProofs --------------------------
(***************************************************************************)
(* Theorems about Mailboxes, for any number of requests and addresses.     *)
(***************************************************************************)
EXTENDS Mailboxes, TLAPS

USE DEF HandlerPC, OpPC

\* Where a request and its operation can be, and what a deletion has read.
HandlersOK ==
  /\ \A r \in Request :
       /\ handler[r] = "none" => op[r] = "none" /\ r \notin calm
       /\ handler[r] \in {"unrow", "answered"} => op[r] = "succeeded"
  /\ \A d \in Delete : target[d] = None <=> handler[d] = "none"

\* What a deletion writes back are lines, and what it spoils are addresses.
LEMMA RewriteTypes ==
  ASSUME TypeOK, HandlersOK, NEW d \in Delete, op[d] # "none"
  PROVE  /\ target[d] \in Create
         /\ Kept(d) \in SUBSET Create
         /\ \A file \in SUBSET Create : \A pc :
              Spoils(d, file, pc) \in SUBSET Address
<1>1. target[d] \in Create
  BY DEF TypeOK, HandlersOK, Request
<1>2. Kept(d) \in SUBSET Create
  BY DEF TypeOK, Kept
<1>3. ASSUME NEW file \in SUBSET Create, NEW pc
      PROVE  Spoils(d, file, pc) \in SUBSET Address
  BY <1>1, MailAssumption DEF Spoils, Addresses, TypeOK
<1>. QED
  BY <1>1, <1>2, <1>3

LEMMA AddressesType ==
  ASSUME NEW lines \in SUBSET Create
  PROVE  Addresses(lines) \in SUBSET Address
BY MailAssumption DEF Addresses

LEMMA InitTypeOK == Init => TypeOK /\ HandlersOK
BY DEF Init, TypeOK, HandlersOK, Request

LEMMA NextTypeOK == TypeOK /\ HandlersOK /\ [Next]_vars => TypeOK'
<1>. SUFFICES ASSUME TypeOK, HandlersOK, [Next]_vars PROVE TypeOK'
  OBVIOUS
<1>. USE MailAssumption DEF TypeOK, Request
<1>1. ASSUME NEW c \in Create, CreateMailbox(c) PROVE TypeOK'
  BY <1>1 DEF CreateMailbox, Arrive, files
<1>2. ASSUME NEW d \in Delete, NEW c \in Create, DeleteMailbox(d, c) PROVE TypeOK'
  BY <1>2 DEF DeleteMailbox, Arrive, files
<1>3. ASSUME NEW r \in Request, Answer(r) \/ GiveUp(r) PROVE TypeOK'
  BY <1>3 DEF Answer, GiveUp, files
<1>4. ASSUME NEW d \in Delete, DeleteRow(d) PROVE TypeOK'
  BY <1>4 DEF DeleteRow, files
<1>5. ASSUME NEW c \in Create, AppendDovecot(c) \/ AppendVmailbox(c) \/ AppendFails(c)
      PROVE  TypeOK'
  <2>1. CASE AppendDovecot(c)
    BY <2>1 DEF AppendDovecot, Becomes, controlPlane
  <2>2. CASE AppendVmailbox(c)
    BY <2>2 DEF AppendVmailbox, Becomes, controlPlane
  <2>3. CASE AppendFails(c)
    <3>1. dovecot' \in SUBSET Create /\ vmailbox' \in SUBSET Create
      BY <2>3 DEF AppendFails
    <3>2. ragged' \in SUBSET {"dovecot", "vmailbox"}
      BY <2>3 DEF AppendFails
    <3>. QED
      BY <2>3, <3>1, <3>2 DEF AppendFails, Becomes, controlPlane
  <2>. QED
    BY <1>5, <2>1, <2>2, <2>3
<1>6. ASSUME NEW d \in Delete, Read(d) PROVE TypeOK'
  BY <1>6 DEF Read, Becomes, controlPlane
<1>7. ASSUME NEW d \in Delete, TruncateDovecot(d) \/ TruncateVmailbox(d) PROVE TypeOK'
  <2>1. op[d] # "none"
    BY <1>7 DEF TruncateDovecot, TruncateVmailbox
  <2>2. spoilt' \in SUBSET Address
    BY <1>7, <2>1, RewriteTypes DEF TruncateDovecot, TruncateVmailbox
  <2>. QED
    BY <1>7, <2>2 DEF TruncateDovecot, TruncateVmailbox, Becomes, controlPlane
<1>8. ASSUME NEW d \in Delete, WriteDovecot(d) \/ WriteVmailbox(d) \/ WriteFails(d)
      PROVE  TypeOK'
  <2>1. Kept(d) \in SUBSET Create
    BY <1>8, RewriteTypes DEF WriteDovecot, WriteVmailbox, WriteFails
  <2>2. dovecot' \in SUBSET Create /\ vmailbox' \in SUBSET Create
    BY <1>8, <2>1 DEF WriteDovecot, WriteVmailbox, WriteFails, Overwritten
  <2>3. spoilt' \in SUBSET Address
    BY <1>8, <2>1, AddressesType DEF WriteDovecot, WriteVmailbox, WriteFails
  <2>4. ragged' \in SUBSET {"dovecot", "vmailbox"}
    BY <1>8 DEF WriteDovecot, WriteVmailbox, WriteFails
  <2>. QED
    BY <1>8, <2>2, <2>3, <2>4
       DEF WriteDovecot, WriteVmailbox, WriteFails, Becomes, controlPlane
<1>9. ASSUME NEW r \in Request, Postmap(r) PROVE TypeOK'
  BY <1>9, AddressesType DEF Postmap, Becomes, controlPlane
<1>10. ASSUME NEW r \in Request, OpFails(r) PROVE TypeOK'
  BY <1>10 DEF OpFails, Becomes, controlPlane
<1>11. CASE UNCHANGED vars
  BY <1>11 DEF vars
<1>. QED
  BY <1>1, <1>2, <1>3, <1>4, <1>5, <1>6, <1>7, <1>8, <1>9, <1>10, <1>11 DEF Next

LEMMA NextHandlersOK == TypeOK /\ HandlersOK /\ [Next]_vars => HandlersOK'
<1>. SUFFICES ASSUME TypeOK, HandlersOK, [Next]_vars PROVE HandlersOK'
  OBVIOUS
<1>. USE MailAssumption DEF TypeOK, HandlersOK, Request
<1>1. ASSUME NEW c \in Create, CreateMailbox(c) PROVE HandlersOK'
  BY <1>1 DEF CreateMailbox, Arrive
<1>2. ASSUME NEW d \in Delete, NEW c \in Create, DeleteMailbox(d, c) PROVE HandlersOK'
  BY <1>2 DEF DeleteMailbox, Arrive
<1>3. ASSUME NEW r \in Request, Answer(r) PROVE HandlersOK'
  BY <1>3 DEF Answer
<1>4. ASSUME NEW r \in Request, GiveUp(r) PROVE HandlersOK'
  BY <1>4 DEF GiveUp
<1>5. ASSUME NEW d \in Delete, DeleteRow(d) PROVE HandlersOK'
  BY <1>5 DEF DeleteRow
<1>6. ASSUME UNCHANGED <<handler, target, calm>>, NEW r \in Request, NEW pc \in OpPC,
             op' = [op EXCEPT ![r] = pc], op[r] \notin {"none", "succeeded"}
      PROVE  HandlersOK'
  BY <1>6
<1>7. ASSUME NEW c \in Create, AppendDovecot(c) \/ AppendVmailbox(c) \/ AppendFails(c)
      PROVE  HandlersOK'
  BY <1>6, <1>7 DEF AppendDovecot, AppendVmailbox, AppendFails, Becomes, controlPlane
<1>8. ASSUME NEW d \in Delete, Read(d) PROVE HandlersOK'
  BY <1>6, <1>8 DEF Read, Becomes, controlPlane
<1>9. ASSUME NEW d \in Delete, TruncateDovecot(d) \/ TruncateVmailbox(d) PROVE HandlersOK'
  BY <1>6, <1>9 DEF TruncateDovecot, TruncateVmailbox, Becomes, controlPlane
<1>10. ASSUME NEW d \in Delete, WriteDovecot(d) \/ WriteVmailbox(d) \/ WriteFails(d)
       PROVE  HandlersOK'
  BY <1>6, <1>10 DEF WriteDovecot, WriteVmailbox, WriteFails, Becomes, controlPlane
<1>11. ASSUME NEW r \in Request, Postmap(r) \/ OpFails(r) PROVE HandlersOK'
  BY <1>6, <1>11 DEF Postmap, OpFails, Becomes, controlPlane
<1>12. CASE UNCHANGED vars
  BY <1>12 DEF vars
<1>. QED
  BY <1>1, <1>2, <1>3, <1>4, <1>5, <1>7, <1>8, <1>9, <1>10, <1>11, <1>12 DEF Next

\* The table, the handlers, the operations and the files keep their types
\* (mail_handler.go, mail.go).
THEOREM TypeCorrect == Spec => []TypeOK
BY InitTypeOK, NextTypeOK, NextHandlersOK, PTL DEF Spec

-----------------------------------------------------------------------------
\* The inductive form of IndexFollows: an index that is behind the file has an
\* operation yet to compile it, unless some operation has failed.
Pending == {r \in Request : op[r] \in {"vmailboxEmptied", "postmap", "failed"}}

IndexPending == index = Addresses(vmailbox) \/ Pending # {}

IndexInv == TypeOK /\ HandlersOK /\ IndexPending

LEMMA InitIndexInv == Init => IndexInv
BY InitTypeOK DEF Init, IndexInv, IndexPending, Addresses

\* An operation that has emptied the file, is about to compile it or has failed
\* stays so or compiles.
LEMMA StaysPending ==
  ASSUME TypeOK, HandlersOK, [Next]_vars, NEW r \in Pending
  PROVE  r \in Pending' \/ \E q \in Request : Postmap(q)
<1>. SUFFICES ASSUME ~\E q \in Request : Postmap(q)
              PROVE  op'[r] \in {"vmailboxEmptied", "postmap", "failed"}
  BY DEF Pending, Request
<1>. USE DEF Pending, TypeOK, Request
<1>1. ASSUME NEW c \in Create, CreateMailbox(c)
      PROVE  op'[r] \in {"vmailboxEmptied", "postmap", "failed"}
  BY <1>1 DEF CreateMailbox, HandlersOK
<1>2. ASSUME NEW d \in Delete, NEW c \in Create, DeleteMailbox(d, c)
      PROVE  op'[r] \in {"vmailboxEmptied", "postmap", "failed"}
  BY <1>2 DEF DeleteMailbox, HandlersOK
<1>3. ASSUME NEW q \in Request, Answer(q) \/ GiveUp(q)
      PROVE  op'[r] \in {"vmailboxEmptied", "postmap", "failed"}
  BY <1>3 DEF Answer, GiveUp
<1>4. ASSUME NEW d \in Delete, DeleteRow(d)
      PROVE  op'[r] \in {"vmailboxEmptied", "postmap", "failed"}
  BY <1>4 DEF DeleteRow
<1>5. ASSUME NEW c \in Create, AppendDovecot(c) \/ AppendVmailbox(c) \/ AppendFails(c)
      PROVE  op'[r] \in {"vmailboxEmptied", "postmap", "failed"}
  BY <1>5 DEF AppendDovecot, AppendVmailbox, AppendFails, Becomes
<1>6. ASSUME NEW d \in Delete, Read(d) \/ TruncateDovecot(d) \/ TruncateVmailbox(d)
      PROVE  op'[r] \in {"vmailboxEmptied", "postmap", "failed"}
  BY <1>6 DEF Read, TruncateDovecot, TruncateVmailbox, Becomes
<1>7. ASSUME NEW d \in Delete, WriteDovecot(d) \/ WriteVmailbox(d) \/ WriteFails(d)
      PROVE  op'[r] \in {"vmailboxEmptied", "postmap", "failed"}
  BY <1>7 DEF WriteDovecot, WriteVmailbox, WriteFails, Becomes
<1>8. ASSUME NEW q \in Request, OpFails(q)
      PROVE  op'[r] \in {"vmailboxEmptied", "postmap", "failed"}
  BY <1>8 DEF OpFails, Becomes
<1>9. CASE UNCHANGED vars
  BY <1>9 DEF vars
<1>. QED
  BY <1>1, <1>2, <1>3, <1>4, <1>5, <1>6, <1>7, <1>8, <1>9 DEF Next

LEMMA NextIndexInv == IndexInv /\ [Next]_vars => IndexInv'
<1>. SUFFICES ASSUME IndexInv, [Next]_vars PROVE IndexInv'
  OBVIOUS
<1>0. TypeOK /\ HandlersOK /\ TypeOK' /\ HandlersOK'
  BY NextTypeOK, NextHandlersOK DEF IndexInv
<1>1. ASSUME NEW q \in Request, Postmap(q) PROVE IndexPending'
  BY <1>1 DEF Postmap, IndexPending, Addresses
<1>2. ASSUME Pending # {} PROVE IndexPending'
  <2>1. PICK r \in Pending : TRUE
    BY <1>2
  <2>2. r \in Pending' \/ \E q \in Request : Postmap(q)
    BY <1>0, StaysPending
  <2>. QED
    BY <1>1, <2>2 DEF IndexPending
<1>3. ASSUME vmailbox' = vmailbox, index' = index, Pending = {} PROVE IndexPending'
  BY <1>3 DEF IndexInv, IndexPending, Addresses
<1>4. ASSUME NEW c \in Create, AppendVmailbox(c) \/ AppendFails(c) PROVE IndexPending'
  <2>1. c \in Pending'
    BY <1>0, <1>4 DEF AppendVmailbox, AppendFails, Becomes, TypeOK, Pending, Request
  <2>. QED
    BY <2>1 DEF IndexPending
<1>5. ASSUME NEW d \in Delete, TruncateVmailbox(d) \/ WriteVmailbox(d) \/ WriteFails(d)
      PROVE  IndexPending'
  <2>1. d \in Pending'
    BY <1>0, <1>5
       DEF TruncateVmailbox, WriteVmailbox, WriteFails, Becomes, TypeOK, Pending, Request
  <2>. QED
    BY <2>1 DEF IndexPending
<1>6. \/ vmailbox' = vmailbox /\ index' = index
      \/ \E q \in Request : Postmap(q)
      \/ \E c \in Create : AppendVmailbox(c) \/ AppendFails(c)
      \/ \E d \in Delete : TruncateVmailbox(d) \/ WriteVmailbox(d) \/ WriteFails(d)
  BY DEF Next, vars, files, controlPlane, CreateMailbox, AppendDovecot, DeleteMailbox,
     DeleteRow, Read, TruncateDovecot, WriteDovecot, Answer, GiveUp, OpFails
<1>7. IndexPending'
  BY <1>1, <1>2, <1>3, <1>4, <1>5, <1>6
<1>. QED
  BY <1>0, <1>7 DEF IndexInv

\* When no operation is under way and none has failed, Postfix sees exactly the
\* addresses of its file (mail.go; docs/13_MAIL_ARCHITECTURE.md, 2).
THEOREM IndexIsCurrent == Spec => []IndexFollows
<1>1. IndexInv => IndexFollows
  BY DEF IndexInv, IndexFollows, IndexPending, Pending
<1>. QED
  BY <1>1, InitIndexInv, NextIndexInv, PTL DEF Spec

-----------------------------------------------------------------------------
RowsUnique ==
  \A c, e \in mailboxes : AddressOf[c] = AddressOf[e] => c = e

\* Of the calm requests of an address at most one is under way.
CalmAlone ==
  \A a \in Address : \A x, y \in calm :
    x # y /\ Concerns(x, a) /\ Concerns(y, a) => ~UnderWay(x) \/ ~UnderWay(y)

\* A calm request that is under way has its row.
RowsHeld(a) ==
  /\ \A c \in LinesOf(a) \cap calm : UnderWay(c) => c \in mailboxes
  /\ \A d \in Delete \cap calm :
       target[d] \in LinesOf(a) /\ UnderWay(d) => target[d] \in mailboxes

\* The line is in the file, or will be when a deletion has written it back.
Rewriting(pc, c) == \E d \in Delete : op[d] = pc /\ c \in Kept(d)
InDovecot(c) == c \in dovecot \/ Rewriting("dovecotEmptied", c)
InVmailbox(c) == c \in vmailbox \/ Rewriting("vmailboxEmptied", c)

\* Lines and index entries have their row.
LinesHaveRows(a) ==
  /\ \A c \in LinesOf(a) : InDovecot(c) \/ InVmailbox(c) => c \in mailboxes
  /\ a \in index => \E c \in mailboxes : c \in LinesOf(a)

\* Where a deletion has cleared a file, and a creation has written its line.
AfterDovecot == {"dovecotEmptied", "vmailbox", "vmailboxWrite", "vmailboxEmptied",
                 "postmap", "succeeded"}
AfterVmailbox == {"vmailboxEmptied", "postmap", "succeeded"}

\* What a deletion under way has done so far.
DeletionDone(a) ==
  \A d \in Delete : target[d] \in LinesOf(a) /\ UnderWay(d) =>
    /\ op[d] \in AfterDovecot => \A c \in LinesOf(a) : ~InDovecot(c)
    /\ op[d] \in AfterVmailbox => \A c \in LinesOf(a) : ~InVmailbox(c)
    /\ op[d] = "succeeded" => a \notin index

\* What a creation has done so far stays until a deletion of its row comes.
CreationDone(a) ==
  \A c \in mailboxes \cap LinesOf(a) :
    (\A d \in Delete : target[d] # c) =>
      /\ op[c] \in {"vmailbox", "postmap", "succeeded"} => InDovecot(c)
      /\ op[c] \in {"postmap", "succeeded"} => InVmailbox(c)
      /\ op[c] = "succeeded" => a \in index \/ blind

AddressInv(a) ==
  Undisturbed(a) /\ a \notin spoilt =>
    RowsHeld(a) /\ LinesHaveRows(a) /\ DeletionDone(a) /\ CreationDone(a)

MailInv ==
  /\ TypeOK
  /\ HandlersOK
  /\ RowsUnique
  /\ CalmAlone
  /\ \A a \in Address : AddressInv(a)

LEMMA InitMailInv == Init => MailInv
<1>. SUFFICES ASSUME Init PROVE MailInv
  OBVIOUS
<1>1. RowsUnique /\ CalmAlone
  BY DEF Init, RowsUnique, CalmAlone
<1>2. ASSUME NEW a \in Address PROVE AddressInv(a)
  <2>1. \A d \in Delete : op[d] = "none"
    BY DEF Init, Request
  <2>2. RowsHeld(a) /\ CreationDone(a) /\ DeletionDone(a)
    BY <2>1 DEF Init, RowsHeld, CreationDone, DeletionDone, AfterDovecot, AfterVmailbox
  <2>3. LinesHaveRows(a)
    BY <2>1 DEF Init, LinesHaveRows, InDovecot, InVmailbox, Rewriting
  <2>. QED
    BY <2>2, <2>3 DEF AddressInv
<1>. QED
  BY <1>1, <1>2, InitTypeOK DEF MailInv

\* The arrival of a request, and every other step.
Arrival ==
  \/ \E c \in Create : CreateMailbox(c)
  \/ \E d \in Delete, c \in Create : DeleteMailbox(d, c)

\* No step but an arrival gives a request its address or sets it under way.
Lasting ==
  /\ calm' = calm /\ target' = target
  /\ spoilt \subseteq spoilt'
  /\ \A r \in Request : /\ UnderWay(r)' => UnderWay(r)
                        /\ op[r] # "none" => op'[r] # "none"

LEMMA StepLasts ==
  ASSUME TypeOK, HandlersOK, [Next]_vars, ~Arrival
  PROVE  Lasting
<1>. USE MailAssumption DEF TypeOK, HandlersOK, Request, Lasting, UnderWay
<1>1. ASSUME NEW r \in Request, Answer(r) PROVE Lasting
  BY <1>1 DEF Answer, files
<1>2. ASSUME NEW r \in Request, GiveUp(r) PROVE Lasting
  BY <1>2 DEF GiveUp, files
<1>3. ASSUME NEW d \in Delete, DeleteRow(d) PROVE Lasting
  BY <1>3 DEF DeleteRow, files
<1>4. ASSUME UNCHANGED <<handler, target, calm>>, spoilt \subseteq spoilt',
             NEW r \in Request, NEW pc \in OpPC \ {"none"}, op' = [op EXCEPT ![r] = pc],
             op[r] \notin {"none", "succeeded", "failed"}
      PROVE  Lasting
  BY <1>4
<1>5. ASSUME NEW c \in Create, AppendDovecot(c) \/ AppendVmailbox(c) \/ AppendFails(c)
      PROVE  Lasting
  <2>1. spoilt \subseteq spoilt'
    BY <1>5 DEF AppendDovecot, AppendVmailbox, AppendFails
  <2>. QED
    BY <1>4, <1>5, <2>1 DEF AppendDovecot, AppendVmailbox, AppendFails, Becomes, controlPlane
<1>6. ASSUME NEW d \in Delete, Read(d) PROVE Lasting
  BY <1>4, <1>6 DEF Read, Becomes, controlPlane
<1>7. ASSUME NEW d \in Delete, TruncateDovecot(d) \/ TruncateVmailbox(d) PROVE Lasting
  BY <1>4, <1>7 DEF TruncateDovecot, TruncateVmailbox, Becomes, controlPlane
<1>8. ASSUME NEW d \in Delete, WriteDovecot(d) \/ WriteVmailbox(d) \/ WriteFails(d)
      PROVE  Lasting
  BY <1>4, <1>8 DEF WriteDovecot, WriteVmailbox, WriteFails, Becomes, controlPlane
<1>9. ASSUME NEW r \in Request, Postmap(r) \/ OpFails(r) PROVE Lasting
  BY <1>4, <1>9 DEF Postmap, OpFails, Becomes, controlPlane
<1>10. CASE UNCHANGED vars
  BY <1>10 DEF vars
<1>. QED
  BY <1>1, <1>2, <1>3, <1>5, <1>6, <1>7, <1>8, <1>9, <1>10 DEF Next, Arrival

LEMMA LastingUndisturbed ==
  ASSUME TypeOK, Lasting, NEW a \in Address, Undisturbed(a)'
  PROVE  Undisturbed(a)
BY DEF Lasting, Undisturbed, Concerns

LEMMA LastingCalmAlone ==
  ASSUME TypeOK, Lasting, CalmAlone
  PROVE  CalmAlone'
BY DEF TypeOK, Lasting, CalmAlone, Concerns

LEMMA LastingRowsHeld ==
  ASSUME Lasting, mailboxes \subseteq mailboxes', NEW a \in Address, RowsHeld(a)
  PROVE  RowsHeld(a)'
BY DEF Lasting, RowsHeld, LinesOf, Request

\* Two requests of an address whose operations have begun are not both under way.
LEMMA WorksAlone ==
  ASSUME MailInv, NEW a \in Address, Undisturbed(a), NEW x \in Request, NEW y \in Request,
         x # y, Concerns(x, a), Concerns(y, a), op[x] # "none", UnderWay(x), UnderWay(y),
         op[y] # "none"
  PROVE  FALSE
BY DEF MailInv, CalmAlone, Undisturbed

\* What the invariant says of an address, where it says anything.
Told(a) ==
  /\ Undisturbed(a) /\ a \notin spoilt
  /\ RowsHeld(a) /\ LinesHaveRows(a) /\ DeletionDone(a) /\ CreationDone(a)

LEMMA LastingTold ==
  ASSUME MailInv, Lasting, NEW a \in Address, Undisturbed(a)', a \notin spoilt'
  PROVE  Told(a)
<1>1. Undisturbed(a) /\ a \notin spoilt
  BY LastingUndisturbed DEF MailInv, Lasting
<1>. QED
  BY <1>1 DEF MailInv, AddressInv, Told

-----------------------------------------------------------------------------
\* The lines of an address are, after the step, those of before.
SameDovecot(a) == \A c \in LinesOf(a) : InDovecot(c)' <=> InDovecot(c)
SameVmailbox(a) == \A c \in LinesOf(a) : InVmailbox(c)' <=> InVmailbox(c)

\* Steps that leave an address its lines.
LEMMA KeepingStep ==
  ASSUME MailInv, Lasting, NEW a \in Address,
         UNCHANGED <<mailboxes, index, blind>>,
         a \notin spoilt' => SameDovecot(a) /\ SameVmailbox(a),
         \A r \in Request :
           \/ op'[r] \in {op[r], "dovecotWrite", "failed"}
           \/ op'[r] = "vmailboxWrite" /\ op[r] = "vmailbox"
           \/ r \in Delete /\ op'[r] = "vmailbox" /\ op[r] = "dovecotEmptied"
           \/ r \in Delete /\ op'[r] = "postmap" /\ op[r] = "vmailboxEmptied"
           \/ r \in Delete /\ target[r] \notin LinesOf(a)
  PROVE  AddressInv(a)'
<1>. SUFFICES ASSUME Undisturbed(a)', a \notin spoilt'
              PROVE  /\ RowsHeld(a)' /\ LinesHaveRows(a)'
                     /\ DeletionDone(a)' /\ CreationDone(a)'
  BY DEF AddressInv
<1>0. Told(a) /\ SameDovecot(a) /\ SameVmailbox(a)
  BY LastingTold
<1>1. RowsHeld(a)'
  BY <1>0, LastingRowsHeld DEF Told
<1>2. LinesHaveRows(a)'
  BY <1>0 DEF Told, LinesHaveRows, LinesOf, SameDovecot, SameVmailbox
<1>3. DeletionDone(a)'
  <2>. SUFFICES ASSUME NEW d \in Delete, target[d] \in LinesOf(a), UnderWay(d)
                PROVE  /\ op'[d] \in AfterDovecot => \A c \in LinesOf(a) : ~InDovecot(c)'
                       /\ op'[d] \in AfterVmailbox => \A c \in LinesOf(a) : ~InVmailbox(c)'
                       /\ op'[d] = "succeeded" => a \notin index
    BY DEF DeletionDone, LinesOf, Lasting, Request, AfterDovecot, AfterVmailbox
  <2>1. /\ op'[d] \in AfterDovecot => op[d] \in AfterDovecot
        /\ op'[d] \in AfterVmailbox => op[d] \in AfterVmailbox
        /\ op'[d] = "succeeded" => op[d] = "succeeded"
    BY DEF Request, AfterDovecot, AfterVmailbox
  <2>. QED
    BY <1>0, <2>1 DEF Told, DeletionDone, SameDovecot, SameVmailbox
<1>4. CreationDone(a)'
  <2>. SUFFICES ASSUME NEW c \in mailboxes, c \in LinesOf(a), \A d \in Delete : target[d] # c
                PROVE  /\ op'[c] \in {"vmailbox", "postmap", "succeeded"} => InDovecot(c)'
                       /\ op'[c] \in {"postmap", "succeeded"} => InVmailbox(c)'
                       /\ op'[c] = "succeeded" => a \in index \/ blind
    BY DEF CreationDone, LinesOf, Lasting
  <2>1. c \in Request /\ c \notin Delete
    BY MailAssumption DEF MailInv, TypeOK, Request
  <2>2. op'[c] \in {op[c], "dovecotWrite", "failed", "vmailboxWrite"}
    BY <2>1
  <2>. QED
    BY <1>0, <2>2 DEF Told, CreationDone, SameDovecot, SameVmailbox
<1>. QED
  BY <1>1, <1>2, <1>3, <1>4

\* A deletion empties a file of its own address, or a creation that fails leaves
\* a part of its line: no promise of a creation is at stake.
LEMMA ClearingStep ==
  ASSUME MailInv, Lasting, NEW a \in Address, NEW q \in Delete,
         target[q] \in LinesOf(a), op[q] \notin {"none", "succeeded", "failed"},
         UNCHANGED <<mailboxes, index, blind>>,
         \A r \in Request : r # q => op'[r] = op[r],
         \A c \in LinesOf(a) : /\ InDovecot(c)' => InDovecot(c)
                               /\ InVmailbox(c)' => InVmailbox(c),
         \/ /\ op[q] = "dovecotWrite" /\ op'[q] = "dovecotEmptied"
            /\ a \notin spoilt' => \A c \in LinesOf(a) : ~InDovecot(c)'
         \/ /\ op[q] = "vmailboxWrite" /\ op'[q] = "vmailboxEmptied"
            /\ a \notin spoilt' => \A c \in LinesOf(a) : ~InVmailbox(c)'
  PROVE  AddressInv(a)'
<1>. SUFFICES ASSUME Undisturbed(a)', a \notin spoilt'
              PROVE  /\ RowsHeld(a)' /\ LinesHaveRows(a)'
                     /\ DeletionDone(a)' /\ CreationDone(a)'
  BY DEF AddressInv
<1>0. Told(a) /\ q \in Request /\ UnderWay(q)
  BY LastingTold DEF Request, UnderWay
<1>1. RowsHeld(a)'
  BY <1>0, LastingRowsHeld DEF Told
<1>2. LinesHaveRows(a)'
  BY <1>0 DEF Told, LinesHaveRows, LinesOf
<1>3. DeletionDone(a)'
  <2>. SUFFICES ASSUME NEW d \in Delete, target[d] \in LinesOf(a), UnderWay(d)
                PROVE  /\ op'[d] \in AfterDovecot => \A c \in LinesOf(a) : ~InDovecot(c)'
                       /\ op'[d] \in AfterVmailbox => \A c \in LinesOf(a) : ~InVmailbox(c)'
                       /\ op'[d] = "succeeded" => a \notin index
    BY DEF DeletionDone, LinesOf, Lasting, Request, AfterDovecot, AfterVmailbox
  <2>1. CASE d = q
    BY <1>0, <2>1 DEF Told, DeletionDone, AfterDovecot, AfterVmailbox
  <2>2. CASE d # q
    <3>1. op'[d] = op[d]
      BY <2>2 DEF Request
    <3>. QED
      BY <1>0, <3>1 DEF Told, DeletionDone
  <2>. QED
    BY <2>1, <2>2
<1>4. CreationDone(a)'
  <2>. SUFFICES ASSUME NEW c \in mailboxes, c \in LinesOf(a), target[q] # c
                PROVE  FALSE
    BY DEF CreationDone, LinesOf, Lasting
  <2>1. q \in calm
    BY <1>0 DEF Told, Undisturbed, Concerns
  <2>2. target[q] \in mailboxes
    BY <1>0, <2>1 DEF Told, RowsHeld
  <2>. QED
    BY <2>2 DEF MailInv, RowsUnique, LinesOf
<1>. QED
  BY <1>1, <1>2, <1>3, <1>4

\* Emptying Dovecot's file for another address leaves an address its lines.
LEMMA TruncateDovecotStep ==
  ASSUME MailInv, Lasting, NEW a \in Address, NEW q \in Delete, TruncateDovecot(q)
  PROVE  AddressInv(a)'
<1>. DEFINE b == AddressOf[target[q]]
<1>0. /\ op[q] = "dovecotWrite" /\ op'[q] = "dovecotEmptied" /\ dovecot' = {}
      /\ \A r \in Request : r # q => op'[r] = op[r]
      /\ UNCHANGED <<mailboxes, target, seen, vmailbox, index, blind>>
  BY DEF TruncateDovecot, Becomes, controlPlane, MailInv, TypeOK, Request
<1>1. target[q] \in Create /\ b \in Address
  BY <1>0, RewriteTypes, MailAssumption DEF MailInv
<1>2. \A d \in Delete : Kept(d)' = Kept(d)
  BY <1>0 DEF Kept, LinesOf
<1>3. \A c \in Create : InVmailbox(c)' <=> InVmailbox(c)
  BY <1>0, <1>2 DEF InVmailbox, Rewriting, Request
<1>4. \A c \in Create :
        InDovecot(c)' <=> \/ c \in Kept(q)
                          \/ \E d \in Delete : op[d] = "dovecotEmptied" /\ c \in Kept(d)
  BY <1>0, <1>2 DEF InDovecot, Rewriting, Request
<1>5. LinesOf(a) \subseteq Create
  BY DEF LinesOf
<1>6. CASE target[q] \notin LinesOf(a)
  <2>1. ASSUME a \notin spoilt', NEW c \in LinesOf(a) PROVE InDovecot(c)' <=> InDovecot(c)
    <3>1. c \in seen[q] <=> c \in dovecot
      <4>. SUFFICES ASSUME ~(c \in seen[q] <=> c \in dovecot) PROVE FALSE
        OBVIOUS
      <4>1. AddressOf[c] \in Spoils(q, dovecot, "dovecotEmptied") /\ AddressOf[c] = a
        BY DEF Spoils, Addresses, LinesOf
      <4>. QED
        BY <2>1, <4>1 DEF TruncateDovecot
    <3>2. c \in Kept(q) <=> c \in seen[q]
      BY <1>1, <1>6 DEF Kept, LinesOf
    <3>. QED
      BY <1>4, <1>5, <3>1, <3>2 DEF InDovecot, Rewriting
  <2>2. a \notin spoilt' => SameDovecot(a) /\ SameVmailbox(a)
    BY <1>3, <1>5, <2>1 DEF SameDovecot, SameVmailbox
  <2>3. \A r \in Request :
           \/ op'[r] \in {op[r], "dovecotWrite", "failed"}
           \/ op'[r] = "vmailboxWrite" /\ op[r] = "vmailbox"
           \/ r \in Delete /\ op'[r] = "vmailbox" /\ op[r] = "dovecotEmptied"
           \/ r \in Delete /\ op'[r] = "postmap" /\ op[r] = "vmailboxEmptied"
           \/ r \in Delete /\ target[r] \notin LinesOf(a)
    BY <1>0, <1>6
  <2>. QED
    BY <1>0, <2>2, <2>3, KeepingStep
<1>7. CASE target[q] \in LinesOf(a)
  <2>1. b = a
    BY <1>7 DEF LinesOf
  <2>2. \A c \in LinesOf(a) : c \notin Kept(q)
    BY <2>1 DEF Kept
  <2>3. a \notin spoilt' => \A c \in LinesOf(a) : ~InDovecot(c)'
    <3>1. ASSUME NEW d \in Delete, op[d] = "dovecotEmptied" PROVE a \in spoilt'
      BY <2>1, <3>1 DEF TruncateDovecot, Spoils, Emptied
    <3>. QED
      BY <1>4, <1>5, <2>2, <3>1
  <2>4. \A c \in LinesOf(a) : /\ InDovecot(c)' => InDovecot(c)
                              /\ InVmailbox(c)' => InVmailbox(c)
    BY <1>3, <1>4, <1>5, <2>2 DEF InDovecot, Rewriting
  <2>. QED
    BY <1>0, <1>7, <2>3, <2>4, ClearingStep
<1>. QED
  BY <1>6, <1>7

LEMMA TruncateVmailboxStep ==
  ASSUME MailInv, Lasting, NEW a \in Address, NEW q \in Delete, TruncateVmailbox(q)
  PROVE  AddressInv(a)'
<1>. DEFINE b == AddressOf[target[q]]
<1>0. /\ op[q] = "vmailboxWrite" /\ op'[q] = "vmailboxEmptied" /\ vmailbox' = {}
      /\ \A r \in Request : r # q => op'[r] = op[r]
      /\ UNCHANGED <<mailboxes, target, seen, dovecot, index, blind>>
  BY DEF TruncateVmailbox, Becomes, controlPlane, MailInv, TypeOK, Request
<1>1. target[q] \in Create /\ b \in Address
  BY <1>0, RewriteTypes, MailAssumption DEF MailInv
<1>2. \A d \in Delete : Kept(d)' = Kept(d)
  BY <1>0 DEF Kept, LinesOf
<1>3. \A c \in Create : InDovecot(c)' <=> InDovecot(c)
  BY <1>0, <1>2 DEF InDovecot, Rewriting, Request
<1>4. \A c \in Create :
        InVmailbox(c)' <=> \/ c \in Kept(q)
                           \/ \E d \in Delete : op[d] = "vmailboxEmptied" /\ c \in Kept(d)
  BY <1>0, <1>2 DEF InVmailbox, Rewriting, Request
<1>5. LinesOf(a) \subseteq Create
  BY DEF LinesOf
<1>6. CASE target[q] \notin LinesOf(a)
  <2>1. ASSUME a \notin spoilt', NEW c \in LinesOf(a) PROVE InVmailbox(c)' <=> InVmailbox(c)
    <3>1. c \in seen[q] <=> c \in vmailbox
      <4>. SUFFICES ASSUME ~(c \in seen[q] <=> c \in vmailbox) PROVE FALSE
        OBVIOUS
      <4>1. AddressOf[c] \in Spoils(q, vmailbox, "vmailboxEmptied") /\ AddressOf[c] = a
        BY DEF Spoils, Addresses, LinesOf
      <4>. QED
        BY <2>1, <4>1 DEF TruncateVmailbox
    <3>2. c \in Kept(q) <=> c \in seen[q]
      BY <1>1, <1>6 DEF Kept, LinesOf
    <3>. QED
      BY <1>4, <1>5, <3>1, <3>2 DEF InVmailbox, Rewriting
  <2>2. a \notin spoilt' => SameDovecot(a) /\ SameVmailbox(a)
    BY <1>3, <1>5, <2>1 DEF SameDovecot, SameVmailbox
  <2>3. \A r \in Request :
           \/ op'[r] \in {op[r], "dovecotWrite", "failed"}
           \/ op'[r] = "vmailboxWrite" /\ op[r] = "vmailbox"
           \/ r \in Delete /\ op'[r] = "vmailbox" /\ op[r] = "dovecotEmptied"
           \/ r \in Delete /\ op'[r] = "postmap" /\ op[r] = "vmailboxEmptied"
           \/ r \in Delete /\ target[r] \notin LinesOf(a)
    BY <1>0, <1>6
  <2>. QED
    BY <1>0, <2>2, <2>3, KeepingStep
<1>7. CASE target[q] \in LinesOf(a)
  <2>1. b = a
    BY <1>7 DEF LinesOf
  <2>2. \A c \in LinesOf(a) : c \notin Kept(q)
    BY <2>1 DEF Kept
  <2>3. a \notin spoilt' => \A c \in LinesOf(a) : ~InVmailbox(c)'
    <3>1. ASSUME NEW d \in Delete, op[d] = "vmailboxEmptied" PROVE a \in spoilt'
      BY <2>1, <3>1 DEF TruncateVmailbox, Spoils, Emptied
    <3>. QED
      BY <1>4, <1>5, <2>2, <3>1
  <2>4. \A c \in LinesOf(a) : /\ InDovecot(c)' => InDovecot(c)
                              /\ InVmailbox(c)' => InVmailbox(c)
    BY <1>3, <1>4, <1>5, <2>2 DEF InVmailbox, Rewriting
  <2>. QED
    BY <1>0, <1>7, <2>3, <2>4, ClearingStep
<1>. QED
  BY <1>6, <1>7

\* The end of a rewriting, good or bad: every line that was there or to be
\* written is there, or its address is spoilt.
LEMMA RewrittenStep ==
  ASSUME MailInv, Lasting, NEW a \in Address, NEW q \in Delete,
         WriteDovecot(q) \/ WriteVmailbox(q) \/ WriteFails(q)
  PROVE  AddressInv(a)'
<1>0. /\ UNCHANGED <<mailboxes, target, index, blind>>
      /\ \A r \in Request : r # q => op'[r] = op[r]
      /\ \A d \in Delete : d # q => seen'[d] = seen[d]
      /\ \/ /\ op[q] = "dovecotEmptied" /\ op'[q] \in {"vmailbox", "failed"}
            /\ vmailbox' = vmailbox
         \/ /\ op[q] = "vmailboxEmptied" /\ op'[q] \in {"postmap", "failed"}
            /\ dovecot' = dovecot
  BY DEF WriteDovecot, WriteVmailbox, WriteFails, Becomes, controlPlane, MailInv, TypeOK,
     Request
<1>1. \A d \in Delete : d # q => Kept(d)' = Kept(d)
  BY <1>0 DEF Kept, LinesOf
<1>2. LinesOf(a) \subseteq Create
  BY DEF LinesOf
<1>3. ASSUME op[q] = "dovecotEmptied", a \notin spoilt'
      PROVE  SameDovecot(a) /\ SameVmailbox(a)
  <2>1. \A c \in LinesOf(a) : c \in dovecot' <=> c \in dovecot \/ c \in Kept(q)
    <3>1. ASSUME NEW lines, spoilt' = spoilt \cup Addresses(lines)
          PROVE  \A c \in LinesOf(a) : c \notin lines
      BY <1>3, <3>1 DEF Addresses, LinesOf
    <3>2. CASE WriteDovecot(q)
      BY <3>1, <3>2 DEF WriteDovecot, Overwritten
    <3>3. CASE WriteFails(q)
      BY <1>3, <3>1, <3>3 DEF WriteFails
    <3>4. ~WriteVmailbox(q)
      BY <1>3 DEF WriteVmailbox
    <3>. QED
      BY <3>2, <3>3, <3>4
  <2>2. SameDovecot(a)
    BY <1>0, <1>1, <1>3, <2>1 DEF SameDovecot, InDovecot, Rewriting, Request
  <2>3. SameVmailbox(a)
    BY <1>0, <1>1, <1>3 DEF SameVmailbox, InVmailbox, Rewriting, Request
  <2>. QED
    BY <2>2, <2>3
<1>4. ASSUME op[q] = "vmailboxEmptied", a \notin spoilt'
      PROVE  SameDovecot(a) /\ SameVmailbox(a)
  <2>1. \A c \in LinesOf(a) : c \in vmailbox' <=> c \in vmailbox \/ c \in Kept(q)
    <3>1. ASSUME NEW lines, spoilt' = spoilt \cup Addresses(lines)
          PROVE  \A c \in LinesOf(a) : c \notin lines
      BY <1>4, <3>1 DEF Addresses, LinesOf
    <3>2. CASE WriteVmailbox(q)
      BY <3>1, <3>2 DEF WriteVmailbox, Overwritten
    <3>3. CASE WriteFails(q)
      BY <1>4, <3>1, <3>3 DEF WriteFails
    <3>4. ~WriteDovecot(q)
      BY <1>4 DEF WriteDovecot
    <3>. QED
      BY <3>2, <3>3, <3>4
  <2>2. SameVmailbox(a)
    BY <1>0, <1>1, <1>4, <2>1 DEF SameVmailbox, InVmailbox, Rewriting, Request
  <2>3. SameDovecot(a)
    BY <1>0, <1>1, <1>4 DEF SameDovecot, InDovecot, Rewriting, Request
  <2>. QED
    BY <2>2, <2>3
<1>5. a \notin spoilt' => SameDovecot(a) /\ SameVmailbox(a)
  BY <1>0, <1>3, <1>4
<1>6. \A r \in Request :
         \/ op'[r] \in {op[r], "dovecotWrite", "failed"}
         \/ op'[r] = "vmailboxWrite" /\ op[r] = "vmailbox"
         \/ r \in Delete /\ op'[r] = "vmailbox" /\ op[r] = "dovecotEmptied"
         \/ r \in Delete /\ op'[r] = "postmap" /\ op[r] = "vmailboxEmptied"
         \/ r \in Delete /\ target[r] \notin LinesOf(a)
  BY <1>0
<1>. QED
  BY <1>0, <1>5, <1>6, KeepingStep

\* A creation appends its line, or a part of it.
LEMMA AppendStep ==
  ASSUME MailInv, Lasting, NEW a \in Address, NEW c \in Create,
         AppendDovecot(c) \/ AppendVmailbox(c) \/ AppendFails(c)
  PROVE  AddressInv(a)'
<1>. SUFFICES ASSUME Undisturbed(a)', a \notin spoilt'
              PROVE  /\ RowsHeld(a)' /\ LinesHaveRows(a)'
                     /\ DeletionDone(a)' /\ CreationDone(a)'
  BY DEF AddressInv
<1>0. Told(a) /\ TypeOK /\ c \in Request /\ c \notin Delete
  BY LastingTold, MailAssumption DEF MailInv, Request
<1>1. /\ UNCHANGED <<mailboxes, target, handler, calm, index, blind, seen>>
      /\ op[c] \in {"dovecot", "vmailbox"}
      /\ \A r \in Request : r # c => op'[r] = op[r]
  BY <1>0 DEF AppendDovecot, AppendVmailbox, AppendFails, Becomes, controlPlane, TypeOK
<1>2. /\ dovecot \subseteq dovecot' /\ dovecot' \subseteq dovecot \cup {c}
      /\ vmailbox \subseteq vmailbox' /\ vmailbox' \subseteq vmailbox \cup {c}
  BY DEF AppendDovecot, AppendVmailbox, AppendFails
<1>3. \/ op'[c] = "failed"
      \/ op[c] = "dovecot" /\ op'[c] = "vmailbox" /\ (c \in LinesOf(a) => c \in dovecot')
      \/ op[c] = "vmailbox" /\ op'[c] = "postmap" /\ (c \in LinesOf(a) => c \in vmailbox')
  BY <1>0 DEF AppendDovecot, AppendVmailbox, AppendFails, Becomes, TypeOK, LinesOf
<1>4. \A d \in Delete : Kept(d)' = Kept(d) /\ op'[d] = op[d]
  BY <1>0, <1>1 DEF Kept, LinesOf, Request
<1>5. \A e \in Create : /\ InDovecot(e)' <=> InDovecot(e) \/ (e = c /\ c \in dovecot')
                        /\ InVmailbox(e)' <=> InVmailbox(e) \/ (e = c /\ c \in vmailbox')
  BY <1>2, <1>4 DEF InDovecot, InVmailbox, Rewriting
<1>6. UnderWay(c) /\ op[c] # "none" /\ LinesOf(a) \subseteq Create
  BY <1>1 DEF UnderWay, LinesOf
<1>7. RowsHeld(a)'
  BY <1>0, <1>1, LastingRowsHeld DEF Told
<1>8. LinesHaveRows(a)'
  <2>1. c \in LinesOf(a) => c \in mailboxes
    <3>1. c \in LinesOf(a) => c \in calm
      BY <1>0, <1>6 DEF Told, Undisturbed, Concerns
    <3>. QED
      BY <1>0, <1>6, <3>1 DEF Told, RowsHeld
  <2>2. \A e \in LinesOf(a) : InDovecot(e)' \/ InVmailbox(e)' => e \in mailboxes
    BY <1>0, <1>5, <1>6, <2>1 DEF Told, LinesHaveRows
  <2>. QED
    BY <1>0, <1>1, <2>2 DEF Told, LinesHaveRows, LinesOf
<1>9. DeletionDone(a)'
  <2>. SUFFICES ASSUME NEW d \in Delete, target[d] \in LinesOf(a), UnderWay(d)
                PROVE  /\ op[d] \in AfterDovecot => \A e \in LinesOf(a) : ~InDovecot(e)'
                       /\ op[d] \in AfterVmailbox => \A e \in LinesOf(a) : ~InVmailbox(e)'
                       /\ op[d] = "succeeded" => a \notin index
    BY <1>1, <1>4 DEF DeletionDone, LinesOf, Lasting, Request, AfterDovecot, AfterVmailbox
  <2>1. op[d] # "none" => c \notin LinesOf(a)
    <3>1. d \in Request /\ d # c
      BY <1>0 DEF Request
    <3>2. Concerns(d, a) /\ (c \in LinesOf(a) => Concerns(c, a))
      BY DEF Concerns
    <3>. QED
      BY <1>0, <1>6, <3>1, <3>2, WorksAlone DEF Told
  <2>2. op[d] \in AfterDovecot \cup AfterVmailbox =>
          \A e \in LinesOf(a) : /\ InDovecot(e)' <=> InDovecot(e)
                                /\ InVmailbox(e)' <=> InVmailbox(e)
    BY <1>5, <1>6, <2>1 DEF AfterDovecot, AfterVmailbox
  <2>. QED
    BY <1>0, <2>2 DEF Told, DeletionDone
<1>10. CreationDone(a)'
  <2>. SUFFICES ASSUME NEW e \in mailboxes, e \in LinesOf(a), \A d \in Delete : target[d] # e
                PROVE  /\ op'[e] \in {"vmailbox", "postmap", "succeeded"} => InDovecot(e)'
                       /\ op'[e] \in {"postmap", "succeeded"} => InVmailbox(e)'
                       /\ op'[e] = "succeeded" => a \in index \/ blind
    BY <1>1 DEF CreationDone, LinesOf
  <2>1. e \in Request /\ e \in Create
    BY <1>0 DEF TypeOK, Request
  <2>2. /\ op[e] \in {"vmailbox", "postmap", "succeeded"} => InDovecot(e)
        /\ op[e] \in {"postmap", "succeeded"} => InVmailbox(e)
        /\ op[e] = "succeeded" => a \in index \/ blind
    BY <1>0 DEF Told, CreationDone
  <2>. QED
    BY <1>1, <1>3, <1>5, <2>1, <2>2
<1>. QED
  BY <1>7, <1>8, <1>9, <1>10

\* An operation compiles the index.
LEMMA PostmapStep ==
  ASSUME MailInv, Lasting, NEW a \in Address, NEW q \in Request, Postmap(q)
  PROVE  AddressInv(a)'
<1>. SUFFICES ASSUME Undisturbed(a)', a \notin spoilt'
              PROVE  /\ RowsHeld(a)' /\ LinesHaveRows(a)'
                     /\ DeletionDone(a)' /\ CreationDone(a)'
  BY DEF AddressInv
<1>0. Told(a) /\ TypeOK
  BY LastingTold DEF MailInv
<1>1. /\ UNCHANGED <<mailboxes, target, handler, calm, dovecot, vmailbox, seen>>
      /\ op[q] = "postmap" /\ op'[q] = "succeeded"
      /\ \A r \in Request : r # q => op'[r] = op[r]
  BY <1>0 DEF Postmap, Becomes, controlPlane, TypeOK
<1>2. a \in index' <=> \E c \in vmailbox : c \in LinesOf(a)
  BY <1>0 DEF Postmap, Addresses, LinesOf, TypeOK
<1>3. \A c \in LinesOf(a) : /\ InDovecot(c)' <=> InDovecot(c)
                            /\ InVmailbox(c)' <=> InVmailbox(c)
  <2>1. \A d \in Delete : Kept(d)' = Kept(d)
    BY <1>1 DEF Kept, LinesOf
  <2>. QED
    BY <1>1, <2>1 DEF InDovecot, InVmailbox, Rewriting, Request
<1>4. \A c \in LinesOf(a) : InVmailbox(c) /\ ~blind' => a \in index'
  BY <1>2 DEF InVmailbox, Rewriting, Postmap, Emptied
<1>5. RowsHeld(a)'
  BY <1>0, <1>1, LastingRowsHeld DEF Told
<1>6. LinesHaveRows(a)'
  BY <1>0, <1>1, <1>2, <1>3 DEF Told, LinesHaveRows, LinesOf, InVmailbox
<1>7. DeletionDone(a)'
  <2>. SUFFICES ASSUME NEW d \in Delete, target[d] \in LinesOf(a), UnderWay(d)
                PROVE  /\ op'[d] \in AfterDovecot => \A c \in LinesOf(a) : ~InDovecot(c)'
                       /\ op'[d] \in AfterVmailbox => \A c \in LinesOf(a) : ~InVmailbox(c)'
                       /\ op'[d] = "succeeded" => a \notin index'
    BY <1>1 DEF DeletionDone, LinesOf, Lasting, Request, AfterDovecot, AfterVmailbox
  <2>1. /\ op'[d] \in AfterDovecot => op[d] \in AfterDovecot
        /\ op'[d] \in AfterVmailbox => op[d] \in AfterVmailbox
        /\ op'[d] = "succeeded" => op[d] \in AfterVmailbox
    BY <1>1 DEF Request, AfterDovecot, AfterVmailbox
  <2>2. op[d] \in AfterVmailbox => \A c \in LinesOf(a) : c \notin vmailbox
    BY <1>0 DEF Told, DeletionDone, InVmailbox
  <2>. QED
    BY <1>0, <1>2, <1>3, <2>1, <2>2 DEF Told, DeletionDone
<1>8. CreationDone(a)'
  <2>. SUFFICES ASSUME NEW e \in mailboxes, e \in LinesOf(a), \A d \in Delete : target[d] # e
                PROVE  /\ op'[e] \in {"vmailbox", "postmap", "succeeded"} => InDovecot(e)'
                       /\ op'[e] \in {"postmap", "succeeded"} => InVmailbox(e)'
                       /\ op'[e] = "succeeded" => a \in index' \/ blind'
    BY <1>1 DEF CreationDone, LinesOf
  <2>1. e \in Request
    BY <1>0 DEF TypeOK, Request
  <2>2. op'[e] = op[e] \/ (op[e] = "postmap" /\ op'[e] = "succeeded")
    BY <1>1, <2>1
  <2>3. /\ op[e] \in {"vmailbox", "postmap", "succeeded"} => InDovecot(e)
        /\ op[e] \in {"postmap", "succeeded"} => InVmailbox(e)
    BY <1>0 DEF Told, CreationDone
  <2>. QED
    BY <1>3, <1>4, <2>2, <2>3
<1>. QED
  BY <1>5, <1>6, <1>7, <1>8

\* The row goes once its deletion has left nothing on the node.
LEMMA DeleteRowStep ==
  ASSUME MailInv, Lasting, NEW a \in Address, NEW q \in Delete, DeleteRow(q)
  PROVE  AddressInv(a)'
<1>. SUFFICES ASSUME Undisturbed(a)', a \notin spoilt'
              PROVE  /\ RowsHeld(a)' /\ LinesHaveRows(a)'
                     /\ DeletionDone(a)' /\ CreationDone(a)'
  BY DEF AddressInv
<1>0. Told(a) /\ TypeOK /\ HandlersOK /\ q \in Request
  BY LastingTold DEF MailInv, Request
<1>1. /\ UNCHANGED <<target, op, calm, seen, dovecot, vmailbox, index, blind>>
      /\ handler[q] = "unrow" /\ op[q] = "succeeded" /\ handler'[q] = "answered"
      /\ mailboxes' \subseteq mailboxes /\ mailboxes \ {target[q]} \subseteq mailboxes'
  BY <1>0 DEF DeleteRow, files, HandlersOK, TypeOK
<1>2. UnderWay(q) /\ ~UnderWay(q)' /\ op[q] # "none"
  BY <1>1 DEF UnderWay
<1>3. \A c \in LinesOf(a) : /\ InDovecot(c)' <=> InDovecot(c)
                            /\ InVmailbox(c)' <=> InVmailbox(c)
  <2>1. \A d \in Delete : Kept(d)' = Kept(d)
    BY <1>1 DEF Kept, LinesOf
  <2>. QED
    BY <1>1, <2>1 DEF InDovecot, InVmailbox, Rewriting
<1>4. DeletionDone(a)'
  BY <1>0, <1>1, <1>3 DEF Told, DeletionDone, LinesOf, Lasting, Request
<1>5. CreationDone(a)'
  BY <1>0, <1>1, <1>3 DEF Told, CreationDone, LinesOf
<1>6. CASE target[q] \notin LinesOf(a)
  <2>1. RowsHeld(a)'
    BY <1>0, <1>1, <1>6 DEF Told, RowsHeld, Lasting, LinesOf, Request
  <2>2. LinesHaveRows(a)'
    BY <1>0, <1>1, <1>3, <1>6 DEF Told, LinesHaveRows, LinesOf
  <2>. QED
    BY <1>4, <1>5, <2>1, <2>2
<1>7. CASE target[q] \in LinesOf(a)
  <2>0. Concerns(q, a)
    BY <1>7 DEF Concerns
  <2>1. RowsHeld(a)'
    <3>1. ASSUME NEW x \in calm, x \in Request, Concerns(x, a), UnderWay(x)' PROVE FALSE
      <4>1. x # q /\ UnderWay(x)
        BY <1>2, <3>1 DEF Lasting
      <4>2. q \in calm
        BY <1>0, <1>2, <2>0 DEF Told, Undisturbed
      <4>. QED
        BY <1>2, <2>0, <3>1, <4>1, <4>2 DEF MailInv, CalmAlone
    <3>2. \A c \in LinesOf(a) : c \in Request /\ Concerns(c, a)
      BY DEF LinesOf, Concerns, Request
    <3>3. \A d \in Delete : target[d] \in LinesOf(a) => d \in Request /\ Concerns(d, a)
      BY DEF Concerns, Request
    <3>. QED
      BY <1>1, <3>1, <3>2, <3>3 DEF RowsHeld, LinesOf
  <2>2. /\ \A c \in LinesOf(a) : ~InDovecot(c) /\ ~InVmailbox(c)
        /\ a \notin index
    BY <1>0, <1>1, <1>2, <1>7 DEF Told, DeletionDone, AfterDovecot, AfterVmailbox
  <2>3. LinesHaveRows(a)'
    BY <1>1, <1>3, <2>2 DEF LinesHaveRows, LinesOf
  <2>. QED
    BY <1>4, <1>5, <2>1, <2>3
<1>. QED
  BY <1>6, <1>7

\* Request r arrives for address b.
Arrives(r, b) ==
  /\ handler[r] = "none" /\ r \notin calm
  /\ UNCHANGED <<seen, dovecot, vmailbox, index, spoilt, blind>>
  /\ mailboxes \subseteq mailboxes'
  /\ \A x \in Request : x # r => handler'[x] = handler[x] /\ op'[x] = op[x]
  /\ op'[r] \in {"none", "dovecot"}
  /\ \A d \in Delete : d # r => target'[d] = target[d]
  /\ \A c \in mailboxes' : c \in mailboxes \/ c = r
  /\ \A a \in Address : Concerns(r, a)' => a = b
  /\ \/ calm' = calm
     \/ calm' = calm \cup {r} /\ \A x \in Request : Concerns(x, b) => ~UnderWay(x)
  /\ r \in Create /\ UnderWay(r)' => r \in mailboxes'
  /\ r \in Delete /\ UnderWay(r)' => target'[r] \in mailboxes'
  /\ r \in mailboxes' \ mailboxes =>
       \A c \in mailboxes : AddressOf[c] # AddressOf[r]

LEMMA ArrivalArrives ==
  ASSUME TypeOK, HandlersOK, Arrival
  PROVE  \E r \in Request, b \in Address : Arrives(r, b)
<1>. USE MailAssumption
<1>1. ASSUME NEW c \in Create, CreateMailbox(c) PROVE Arrives(c, AddressOf[c])
  <2>1. /\ handler[c] = "none" /\ op[c] = "none" /\ c \notin calm
        /\ c \in Request /\ c \notin Delete
    BY <1>1 DEF CreateMailbox, HandlersOK, Request
  <2>2. \A a \in Address : Concerns(c, a)' => a = AddressOf[c]
    BY <2>1 DEF Concerns, LinesOf
  <2>3. CASE AddressOf[c] \notin Addresses(mailboxes)
    <3>1. mailboxes' = mailboxes \cup {c} /\ Arrive(c, AddressOf[c])
      BY <1>1, <2>3 DEF CreateMailbox
    <3>2. op' = [op EXCEPT ![c] = "dovecot"]
      BY <1>1, <2>3 DEF CreateMailbox
    <3>. QED
      BY <1>1, <2>1, <2>2, <2>3, <3>1, <3>2
         DEF Arrives, CreateMailbox, Arrive, files, TypeOK, Request, Addresses
  <2>4. CASE AddressOf[c] \in Addresses(mailboxes)
    <3>1. ~UnderWay(c)' /\ op' = op /\ calm' = calm /\ mailboxes' = mailboxes
      BY <1>1, <2>1, <2>4 DEF CreateMailbox, UnderWay, TypeOK
    <3>. QED
      BY <1>1, <2>1, <2>2, <3>1 DEF Arrives, CreateMailbox, files, TypeOK, Request
  <2>. QED
    BY <2>3, <2>4
<1>2. ASSUME NEW d \in Delete, NEW c \in Create, DeleteMailbox(d, c)
      PROVE  Arrives(d, AddressOf[c])
  <2>1. handler[d] = "none" /\ d \notin calm /\ d \in Request /\ d \notin Create
    BY <1>2 DEF DeleteMailbox, HandlersOK, Request
  <2>2. target'[d] = c /\ c \in mailboxes /\ mailboxes' = mailboxes
    BY <1>2 DEF DeleteMailbox, TypeOK
  <2>3. \A a \in Address : Concerns(d, a)' => a = AddressOf[c]
    BY <2>1, <2>2 DEF Concerns, LinesOf
  <2>. QED
    BY <1>2, <2>1, <2>2, <2>3 DEF Arrives, DeleteMailbox, Arrive, files, TypeOK, Request
<1>3. \A c \in Create : c \in Request /\ AddressOf[c] \in Address
  BY DEF Request
<1>. QED
  BY <1>1, <1>2, <1>3 DEF Arrival, Request

LEMMA ArrivalInv ==
  ASSUME MailInv, NEW r \in Request, NEW b \in Address, Arrives(r, b)
  PROVE  RowsUnique' /\ CalmAlone' /\ \A a \in Address : AddressInv(a)'
<1>. USE MailAssumption
<1>0. TypeOK /\ HandlersOK /\ RowsUnique /\ CalmAlone /\ op[r] = "none"
  BY DEF MailInv, HandlersOK, Arrives
<1>1. \A x \in Request : x # r => /\ UnderWay(x)' <=> UnderWay(x)
                                  /\ \A a \in Address : Concerns(x, a)' <=> Concerns(x, a)
  BY DEF Arrives, UnderWay, Concerns, LinesOf
<1>2. \A d \in Delete : d # r => Kept(d)' = Kept(d) /\ op'[d] = op[d]
  BY DEF Arrives, Kept, LinesOf, Request
<1>3. \A c \in Create : /\ InDovecot(c)' <=> InDovecot(c)
                        /\ InVmailbox(c)' <=> InVmailbox(c)
  BY <1>0, <1>2 DEF Arrives, InDovecot, InVmailbox, Rewriting
<1>4. RowsUnique'
  BY <1>0 DEF RowsUnique, Arrives
<1>5. CalmAlone'
  <2>. SUFFICES ASSUME NEW a \in Address, NEW x \in calm', NEW y \in calm', x # y,
                       Concerns(x, a)', Concerns(y, a)', UnderWay(x)', UnderWay(y)'
                PROVE  FALSE
    BY DEF CalmAlone
  <2>1. calm \subseteq Request
    BY <1>0 DEF TypeOK
  <2>2. CASE x # r /\ y # r
    BY <1>0, <1>1, <2>1, <2>2 DEF CalmAlone, Arrives
  <2>3. CASE x = r
    BY <1>1, <2>1, <2>3 DEF Arrives
  <2>4. CASE y = r
    BY <1>1, <2>1, <2>4 DEF Arrives
  <2>. QED
    BY <2>2, <2>3, <2>4
<1>6. ASSUME NEW a \in Address, Undisturbed(a)', a \notin spoilt'
      PROVE  RowsHeld(a)' /\ LinesHaveRows(a)' /\ DeletionDone(a)' /\ CreationDone(a)'
  <2>1. Undisturbed(a) /\ a \notin spoilt
    BY <1>0, <1>1, <1>6 DEF Undisturbed, Arrives
  <2>2. Told(a) /\ LinesOf(a) \subseteq Create
    BY <2>1 DEF MailInv, AddressInv, Told, LinesOf
  <2>3. RowsHeld(a)'
    <3>1. ASSUME NEW c \in LinesOf(a), c \in calm', UnderWay(c)' PROVE c \in mailboxes'
      <4>1. c \in Request
        BY DEF LinesOf, Request
      <4>2. CASE c = r
        BY <3>1, <4>2 DEF Arrives, LinesOf
      <4>3. CASE c # r
        BY <1>1, <2>2, <3>1, <4>1, <4>3 DEF Arrives, Told, RowsHeld
      <4>. QED
        BY <4>2, <4>3
    <3>2. ASSUME NEW d \in Delete, d \in calm', target'[d] \in LinesOf(a), UnderWay(d)'
          PROVE  target'[d] \in mailboxes'
      <4>1. d \in Request
        BY DEF Request
      <4>2. CASE d = r
        BY <3>2, <4>2 DEF Arrives
      <4>3. CASE d # r
        BY <1>1, <2>2, <3>2, <4>1, <4>3 DEF Arrives, Told, RowsHeld
      <4>. QED
        BY <4>2, <4>3
    <3>. QED
      BY <3>1, <3>2 DEF RowsHeld, LinesOf
  <2>4. LinesHaveRows(a)'
    BY <1>3, <2>2 DEF Told, LinesHaveRows, LinesOf, Arrives
  <2>5. DeletionDone(a)'
    <3>. SUFFICES ASSUME NEW d \in Delete, target'[d] \in LinesOf(a), UnderWay(d)'
                  PROVE  /\ op'[d] \in AfterDovecot => \A c \in LinesOf(a) : ~InDovecot(c)'
                         /\ op'[d] \in AfterVmailbox => \A c \in LinesOf(a) : ~InVmailbox(c)'
                         /\ op'[d] = "succeeded" => a \notin index
      BY DEF DeletionDone, LinesOf, Arrives, AfterDovecot, AfterVmailbox
    <3>1. d \in Request
      BY DEF Request
    <3>2. CASE d = r
      BY <3>2 DEF Arrives, AfterDovecot, AfterVmailbox
    <3>3. CASE d # r
      BY <1>1, <1>3, <2>2, <3>1, <3>3 DEF Arrives, Told, DeletionDone
    <3>. QED
      BY <3>2, <3>3
  <2>6. CreationDone(a)'
    <3>. SUFFICES ASSUME NEW e \in mailboxes', e \in LinesOf(a),
                         \A d \in Delete : target'[d] # e
                  PROVE  /\ op'[e] \in {"vmailbox", "postmap", "succeeded"} => InDovecot(e)'
                         /\ op'[e] \in {"postmap", "succeeded"} => InVmailbox(e)'
                         /\ op'[e] = "succeeded" => a \in index \/ blind
      BY DEF CreationDone, LinesOf, Arrives
    <3>1. e \in Create /\ e \in Request
      BY DEF LinesOf, Request
    <3>2. CASE e = r
      BY <3>2 DEF Arrives
    <3>3. CASE e # r
      <4>1. \A d \in Delete : target[d] # e
        BY <1>0, <3>1 DEF Arrives, HandlersOK
      <4>2. op'[e] = op[e] /\ e \in mailboxes
        BY <3>1, <3>3 DEF Arrives
      <4>. QED
        BY <1>3, <2>2, <3>1, <4>1, <4>2 DEF Told, CreationDone
    <3>. QED
      BY <3>2, <3>3
  <2>. QED
    BY <2>3, <2>4, <2>5, <2>6
<1>. QED
  BY <1>4, <1>5, <1>6 DEF AddressInv

LEMMA NextMailInv == MailInv /\ [Next]_vars => MailInv'
<1>. SUFFICES ASSUME MailInv, [Next]_vars PROVE MailInv'
  OBVIOUS
<1>0. TypeOK /\ HandlersOK /\ TypeOK' /\ HandlersOK'
  BY NextTypeOK, NextHandlersOK DEF MailInv
<1>1. CASE Arrival
  BY <1>0, <1>1, ArrivalArrives, ArrivalInv DEF MailInv
<1>2. CASE ~Arrival
  <2>0. Lasting
    BY <1>0, <1>2, StepLasts
  <2>1. CalmAlone'
    BY <1>0, <2>0, LastingCalmAlone DEF MailInv
  <2>2. ASSUME UNCHANGED <<mailboxes, target, dovecot, vmailbox, index, blind>>,
               NEW q \in Request,
               \A r \in Request : r # q => op'[r] = op[r],
               \A d \in Delete : d # q => seen'[d] = seen[d],
               \/ op' = op /\ seen' = seen
               \/ /\ op[q] \notin {"dovecotEmptied", "vmailboxEmptied"}
                  /\ \/ op'[q] \in {"dovecotWrite", "failed"}
                     \/ op'[q] = "vmailboxWrite" /\ op[q] = "vmailbox"
        PROVE  RowsUnique' /\ \A a \in Address : AddressInv(a)'
    <3>1. \A d \in Delete : \A pc \in {"dovecotEmptied", "vmailboxEmptied"} :
            /\ op'[d] = pc <=> op[d] = pc
            /\ op[d] = pc => Kept(d)' = Kept(d)
      BY <2>2 DEF Kept, LinesOf, Request
    <3>2. \A a \in Address : SameDovecot(a) /\ SameVmailbox(a)
      BY <2>2, <3>1 DEF SameDovecot, SameVmailbox, InDovecot, InVmailbox, Rewriting
    <3>3. \A r \in Request :
            \/ op'[r] \in {op[r], "dovecotWrite", "failed"}
            \/ op'[r] = "vmailboxWrite" /\ op[r] = "vmailbox"
      BY <2>2
    <3>4. UNCHANGED <<mailboxes, index, blind>>
      BY <2>2
    <3>5. ASSUME NEW a \in Address PROVE AddressInv(a)'
      BY <2>0, <3>2, <3>3, <3>4, KeepingStep
    <3>. QED
      BY <3>4, <3>5 DEF MailInv, RowsUnique
  <2>3. ASSUME NEW r \in Request, Answer(r) \/ GiveUp(r)
        PROVE  RowsUnique' /\ \A a \in Address : AddressInv(a)'
    BY <2>2, <2>3 DEF Answer, GiveUp, files
  <2>4. ASSUME NEW d \in Delete, Read(d)
        PROVE  RowsUnique' /\ \A a \in Address : AddressInv(a)'
    <3>1. /\ UNCHANGED <<mailboxes, target, dovecot, vmailbox, index, blind>>
          /\ d \in Request /\ \A r \in Request : r # d => op'[r] = op[r]
          /\ \A x \in Delete : x # d => seen'[x] = seen[x]
          /\ op[d] \notin {"dovecotEmptied", "vmailboxEmptied"}
          /\ \/ op'[d] \in {"dovecotWrite", "failed"}
             \/ op'[d] = "vmailboxWrite" /\ op[d] = "vmailbox"
      BY <1>0, <2>4 DEF Read, Becomes, controlPlane, TypeOK, Request
    <3>. QED
      BY <2>2, <3>1
  <2>5. ASSUME NEW r \in Request, OpFails(r)
        PROVE  RowsUnique' /\ \A a \in Address : AddressInv(a)'
    <3>1. /\ UNCHANGED <<mailboxes, target, dovecot, vmailbox, index, blind>>
          /\ \A x \in Request : x # r => op'[x] = op[x]
          /\ \A x \in Delete : x # r => seen'[x] = seen[x]
          /\ op[r] \notin {"dovecotEmptied", "vmailboxEmptied"} /\ op'[r] = "failed"
      BY <1>0, <2>5 DEF OpFails, Becomes, controlPlane, TypeOK
    <3>. QED
      BY <2>2, <3>1
  <2>6. CASE UNCHANGED vars
    <3>1. /\ UNCHANGED <<mailboxes, target, dovecot, vmailbox, index, blind>>
          /\ op' = op /\ seen' = seen /\ mailboxes' = mailboxes
      BY <2>6 DEF vars
    <3>2. ASSUME NEW a \in Address PROVE AddressInv(a)'
      <4>1. SameDovecot(a) /\ SameVmailbox(a)
        BY <3>1 DEF SameDovecot, SameVmailbox, InDovecot, InVmailbox, Rewriting, Kept, LinesOf
      <4>. QED
        BY <2>0, <3>1, <4>1, KeepingStep
    <3>. QED
      BY <1>0, <2>1, <3>1, <3>2 DEF MailInv, RowsUnique
  <2>7. ASSUME NEW c \in Create, AppendDovecot(c) \/ AppendVmailbox(c) \/ AppendFails(c)
        PROVE  RowsUnique' /\ \A a \in Address : AddressInv(a)'
    BY <2>0, <2>7, AppendStep
       DEF MailInv, RowsUnique, AppendDovecot, AppendVmailbox, AppendFails, controlPlane
  <2>8. ASSUME NEW r \in Request, Postmap(r)
        PROVE  RowsUnique' /\ \A a \in Address : AddressInv(a)'
    BY <2>0, <2>8, PostmapStep DEF MailInv, RowsUnique, Postmap, controlPlane
  <2>9. ASSUME NEW d \in Delete, TruncateDovecot(d) \/ TruncateVmailbox(d)
        PROVE  RowsUnique' /\ \A a \in Address : AddressInv(a)'
    BY <2>0, <2>9, TruncateDovecotStep, TruncateVmailboxStep
       DEF MailInv, RowsUnique, TruncateDovecot, TruncateVmailbox, controlPlane
  <2>10. ASSUME NEW d \in Delete, WriteDovecot(d) \/ WriteVmailbox(d) \/ WriteFails(d)
         PROVE  RowsUnique' /\ \A a \in Address : AddressInv(a)'
    BY <2>0, <2>10, RewrittenStep
       DEF MailInv, RowsUnique, WriteDovecot, WriteVmailbox, WriteFails, controlPlane
  <2>11. ASSUME NEW d \in Delete, DeleteRow(d)
         PROVE  RowsUnique' /\ \A a \in Address : AddressInv(a)'
    BY <2>0, <2>11, DeleteRowStep DEF MailInv, RowsUnique, DeleteRow
  <2>. QED
    BY <1>0, <1>2, <2>1, <2>3, <2>4, <2>5, <2>6, <2>7, <2>8, <2>9, <2>10, <2>11
       DEF Next, Arrival, MailInv
<1>. QED
  BY <1>1, <1>2

\* The inductive invariant, for any number of mailboxes and with every overlap.
THEOREM Invariance == Spec => []MailInv
BY InitMailInv, NextMailInv, PTL DEF Spec

\* A mailbox that was created with success and that nobody deletes works, up to
\* the rewritings and torn lines that hit its own lines (mail.go).
THEOREM CreatedStaysUsable == Spec => []CreatedIsUsable
<1>1. MailInv => CreatedIsUsable
  <2>. SUFFICES ASSUME MailInv, NEW c \in mailboxes,
                       handler[c] = "answered", AddressOf[c] \notin spoilt,
                       Undisturbed(AddressOf[c]),
                       \A d \in Delete : target[d] # c
                PROVE  Usable(c)
    BY DEF CreatedIsUsable
  <2>. DEFINE a == AddressOf[c]
  <2>1. c \in Create /\ c \in LinesOf(a) /\ a \in Address /\ op[c] = "succeeded"
    BY MailAssumption DEF MailInv, TypeOK, HandlersOK, LinesOf, Request
  <2>2. CreationDone(a) /\ LinesHaveRows(a)
    BY <2>1 DEF MailInv, AddressInv
  <2>3. InDovecot(c) /\ InVmailbox(c) /\ (a \in index \/ blind)
    BY <2>1, <2>2 DEF CreationDone
  <2>4. Emptied("dovecotEmptied") = {} => c \in dovecot
    BY <2>3 DEF InDovecot, Rewriting, Emptied
  <2>5. Emptied("vmailboxEmptied") = {} => c \in vmailbox
    BY <2>3 DEF InVmailbox, Rewriting, Emptied
  <2>6. dovecot \cap LinesOf(a) \subseteq {c}
    BY <2>1, <2>2 DEF LinesHaveRows, InDovecot, MailInv, RowsUnique, LinesOf
  <2>. QED
    BY <2>1, <2>3, <2>4, <2>5, <2>6 DEF Usable
<1>. QED
  BY <1>1, Invariance, PTL

\* An address without a row has nothing left on the node, unless a rewriting
\* brought it back (mail_handler.go, mail.go).
THEOREM GoesWithRow == Spec => []GoneWithRow
<1>1. MailInv => GoneWithRow
  <2>. SUFFICES ASSUME MailInv, NEW a \in Address, a \notin Addresses(mailboxes),
                       a \notin spoilt, Undisturbed(a)
                PROVE  a \notin Addresses(dovecot) \cup Addresses(vmailbox) \cup index
    BY DEF GoneWithRow
  <2>1. LinesHaveRows(a)
    BY DEF MailInv, AddressInv
  <2>. QED
    BY <2>1 DEF MailInv, TypeOK, LinesHaveRows, LinesOf, Addresses, InDovecot, InVmailbox
<1>. QED
  BY <1>1, Invariance, PTL
=============================================================================
