--------------------------- MODULE HostingProofs ---------------------------
(***************************************************************************)
(* Theorems about Hosting, for any number of creations and accounts.       *)
(***************************************************************************)
EXTENDS Hosting, TLAPS

USE DEF HandlerPC, OpPC, Owner

LEMMA NextTypeOK == TypeOK /\ [Next]_vars => TypeOK'
<1> SUFFICES ASSUME TypeOK, [Next]_vars PROVE TypeOK'
  OBVIOUS
<1> USE HostingAssumption DEF TypeOK, node, controlPlane, Becomes
<1>1. ASSUME NEW c \in Creation, CreateHostingUser(c) PROVE TypeOK'
  BY <1>1 DEF CreateHostingUser
<1>2. ASSUME NEW c \in Creation, Stat(c) PROVE TypeOK'
  BY <1>2 DEF Stat
<1>3. ASSUME NEW c \in Creation, Useradd(c) \/ UseraddFails(c) PROVE TypeOK'
  <2>1. home' \in [Account -> Owner] /\ passwd' \in SUBSET Account
    BY <1>3 DEF Useradd, UseraddFails, Added
  <2> QED BY <1>3, <2>1 DEF Useradd, UseraddFails
<1>4. ASSUME NEW c \in Creation, Chmod(c) \/ ChmodFails(c) PROVE TypeOK'
  BY <1>4 DEF Chmod, ChmodFails
<1>5. ASSUME NEW c \in Creation, Mkdir(c) \/ Chown(c) PROVE TypeOK'
  <2>1. public_html' \in [Account -> Owner]
    BY <1>5 DEF Mkdir, Chown
  <2> QED BY <1>5, <2>1 DEF Mkdir, Chown
<1>6. ASSUME NEW c \in Creation, Send(c) PROVE TypeOK'
  BY <1>6 DEF Send
<1>7. ASSUME NEW c \in Creation, Answer(c) \/ GiveUp(c) PROVE TypeOK'
  BY <1>7 DEF Answer, GiveUp
<1>8. ASSUME NEW c \in Creation, Dies(c) PROVE TypeOK'
  BY <1>8 DEF Dies
<1>9. CASE UNCHANGED vars
  BY <1>9 DEF vars
<1> QED BY <1>1, <1>2, <1>3, <1>4, <1>5, <1>6, <1>7, <1>8, <1>9 DEF Next

LEMMA InitTypeOK == Init => TypeOK
  BY HostingAssumption DEF Init, TypeOK

\* Tables, handlers, operations and the node keep their types
\* (hosting_handler.go, hosting_user.go).
THEOREM TypeCorrect == Spec => []TypeOK
  BY InitTypeOK, NextTypeOK, PTL DEF Spec

-----------------------------------------------------------------------------
\* A creation at work holds the row of its name: at most one ever does.
RowsFirst ==
  \A c \in Creation :
    /\ handler[c] = "none" => op[c] = "none"
    /\ handler[c] = "send" => op[c] = "none"
    /\ handler[c] = "waiting" => op[c] # "none"
    /\ op[c] # "none" => hosting_users[UserOf[c]] = c
    /\ handler[c] \in {"send", "waiting", "answered", "panicked"} =>
         hosting_users[UserOf[c]] = c

Absent(a) == a \notin passwd /\ home[a] = "none"
Made(a) == a \in passwd /\ home[a] = "user"

\* How far the creation is that a handler still waits for, and that it was
\* answered with success.
Stages ==
  \A c \in Creation :
    LET a == UserOf[c] IN
    a \notin Foreign =>
      /\ handler[c] \in {"send", "waiting"} =>
           /\ op[c] \in {"none", "stat", "useradd"} => Absent(a)
           /\ op[c] = "chmod" => Made(a)
           /\ op[c] \in {"mkdir", "chown", "succeeded"} => Made(a) /\ a \in private
      /\ handler[c] = "answered" => Made(a) /\ a \in private

Inductive == TypeOK /\ RowsFirst /\ NothingUnowned /\ Stages

-----------------------------------------------------------------------------
LEMMA InitInductive == Init => Inductive
<1> SUFFICES ASSUME Init PROVE Inductive
  OBVIOUS
<1>1. TypeOK
  BY InitTypeOK
<1>2. RowsFirst
  BY HostingAssumption DEF Init, RowsFirst
<1>3. NothingUnowned
  BY DEF Init, NothingUnowned
<1>4. Stages
  BY HostingAssumption DEF Init, Stages
<1> QED BY <1>1, <1>2, <1>3, <1>4 DEF Inductive

\* The steps of the agent leave the control plane alone and move one operation.
LEMMA AgentKeepsRows ==
  ASSUME Inductive, TypeOK', UNCHANGED controlPlane,
         NEW c \in Creation, op[c] # "none", NEW pc, pc # "none", Becomes(c, pc)
  PROVE  RowsFirst'
<1> USE HostingAssumption DEF Inductive, TypeOK, Becomes, controlPlane
<1>1. \A x \in Creation : op'[x] = "none" <=> op[x] = "none"
  OBVIOUS
<1> QED BY <1>1 DEF RowsFirst

\* A creation whose operation moves is the one that holds the row of its name.
LEMMA OthersOfTheName ==
  ASSUME Inductive, NEW c \in Creation, NEW d \in Creation,
         UserOf[c] = UserOf[d], hosting_users[UserOf[c]] = c, d # c
  PROVE  handler[d] \notin {"send", "waiting", "answered"} /\ op[d] = "none"
  BY DEF Inductive, RowsFirst

LEMMA CreationStep ==
  ASSUME Inductive, TypeOK', NEW c \in Creation,
         \/ Stat(c) \/ Useradd(c) \/ UseraddFails(c) \/ Chmod(c)
         \/ ChmodFails(c) \/ Mkdir(c) \/ Chown(c)
  PROVE  Inductive'
<1> DEFINE a == UserOf[c]
<1> USE HostingAssumption DEF Inductive
<1>1. UNCHANGED controlPlane /\ op[c] # "none"
  BY DEF Stat, Useradd, UseraddFails, Chmod, ChmodFails, Mkdir, Chown
<1>2. PICK pc : pc # "none" /\ Becomes(c, pc)
  BY DEF Stat, Useradd, UseraddFails, Chmod, ChmodFails, Mkdir, Chown
<1>3. RowsFirst'
  BY <1>1, <1>2, AgentKeepsRows
<1>4. hosting_users[a] = c /\ a \in Account /\ c # None
  BY <1>1 DEF RowsFirst
<1>5. \A b \in Account \ {a} : /\ b \in passwd' <=> b \in passwd
                               /\ b \in private' <=> b \in private
                               /\ home'[b] = home[b]
                               /\ public_html'[b] = public_html[b]
  BY DEF Stat, Useradd, UseraddFails, Added, Chmod, ChmodFails, Mkdir, Chown, node, TypeOK
<1>6. NothingUnowned'
  BY <1>1, <1>4, <1>5 DEF NothingUnowned, controlPlane
<1>7. Stages'
  <2> SUFFICES ASSUME NEW d \in Creation, UserOf[d] \notin Foreign
               PROVE  /\ handler'[d] \in {"send", "waiting"} =>
                           /\ op'[d] \in {"none", "stat", "useradd"} => Absent(UserOf[d])'
                           /\ op'[d] = "chmod" => Made(UserOf[d])'
                           /\ op'[d] \in {"mkdir", "chown", "succeeded"} =>
                                Made(UserOf[d])' /\ UserOf[d] \in private'
                      /\ handler'[d] = "answered" =>
                           Made(UserOf[d])' /\ UserOf[d] \in private'
    BY DEF Stages
  <2>1. handler' = handler
    BY <1>1 DEF controlPlane
  <2>2. CASE UserOf[d] # a
    <3>1. op'[d] = op[d] /\ UserOf[d] \in Account
      BY <1>2, <2>2 DEF Becomes, TypeOK
    <3> QED BY <1>5, <2>1, <2>2, <3>1 DEF Stages, Absent, Made
  <2>3. CASE d # c /\ UserOf[d] = a
    BY <1>4, <2>1, <2>3, OthersOfTheName
  <2>4. CASE d = c
    <3>1. handler[c] = "answered" => Made(a)' /\ a \in private'
      <4> HAVE handler[c] = "answered"
      <4>1. Made(a) /\ a \in private
        BY <2>4 DEF Stages
      <4> QED BY <4>1 DEF Made, Stat, Useradd, UseraddFails, Added, Chmod,
                          ChmodFails, Mkdir, Chown, node, TypeOK
    <3>2. ASSUME handler[c] \in {"send", "waiting"}
          PROVE  /\ op'[c] \in {"none", "stat", "useradd"} => Absent(a)'
                 /\ op'[c] = "chmod" => Made(a)'
                 /\ op'[c] \in {"mkdir", "chown", "succeeded"} =>
                      Made(a)' /\ a \in private'
      <4>1. /\ op[c] \in {"none", "stat", "useradd"} => Absent(a)
            /\ op[c] = "chmod" => Made(a)
            /\ op[c] \in {"mkdir", "chown", "succeeded"} => Made(a) /\ a \in private
        BY <2>4, <3>2 DEF Stages
      <4>2. CASE Stat(c)
        BY <4>1, <4>2 DEF Stat, Becomes, Absent, node, TypeOK
      <4>3. CASE Useradd(c)
        BY <4>1, <4>3 DEF Useradd, Added, Becomes, Absent, Made, TypeOK
      <4>4. CASE UseraddFails(c) \/ ChmodFails(c)
        BY <4>4 DEF UseraddFails, ChmodFails, Becomes, TypeOK
      <4>5. CASE Chmod(c)
        BY <4>1, <4>5 DEF Chmod, Becomes, Made, TypeOK
      <4>6. CASE Mkdir(c) \/ Chown(c)
        BY <4>1, <4>6 DEF Mkdir, Chown, Becomes, Made, TypeOK
      <4> QED BY <4>2, <4>3, <4>4, <4>5, <4>6
    <3> QED BY <2>1, <2>4, <3>1, <3>2
  <2> QED BY <2>2, <2>3, <2>4
<1> QED BY <1>3, <1>6, <1>7

LEMMA DiesStep ==
  ASSUME Inductive, TypeOK', NEW c \in Creation, Dies(c)
  PROVE  Inductive'
<1> USE HostingAssumption DEF Inductive
<1>1. UNCHANGED controlPlane /\ UNCHANGED node /\ op[c] # "none" /\ Becomes(c, "dead")
  BY DEF Dies
<1>2. RowsFirst'
  BY <1>1, AgentKeepsRows
<1>3. NothingUnowned'
  BY <1>1 DEF NothingUnowned, controlPlane, node
<1>4. \A d \in Creation : handler'[d] = handler[d] /\ (op'[d] = op[d] \/ op'[d] = "dead")
  BY <1>1 DEF Becomes, controlPlane, TypeOK
<1>5. passwd' = passwd /\ private' = private /\ home' = home
  BY <1>1 DEF node
<1>6. Stages'
  BY <1>4, <1>5 DEF Stages, Absent, Made
<1> QED BY <1>2, <1>3, <1>6

LEMMA InsertStep ==
  ASSUME Inductive, TypeOK', NEW c \in Creation, CreateHostingUser(c)
  PROVE  Inductive'
<1> DEFINE a == UserOf[c]
<1> USE HostingAssumption DEF Inductive
<1>1. /\ handler[c] = "none" /\ UNCHANGED <<op, node>>
      /\ \A x \in Creation \ {c} : handler'[x] = handler[x]
      /\ op[c] = "none" /\ a \in Account
  BY DEF CreateHostingUser, TypeOK, RowsFirst
<1>2. CASE hosting_users[a] = None
  <2>1. handler'[c] = "send" /\ hosting_users' = [hosting_users EXCEPT ![a] = c]
    BY <1>2 DEF CreateHostingUser, TypeOK
  <2>2. hosting_users'[a] = c /\ \A b \in Account \ {a} : hosting_users'[b] = hosting_users[b]
    BY <1>1, <2>1 DEF TypeOK
  <2>3. \A d \in Creation \ {c} : UserOf[d] = a =>
           op[d] = "none" /\ handler[d] \notin {"send", "waiting", "answered", "panicked"}
    BY <1>2 DEF RowsFirst
  <2>4. RowsFirst'
    BY <1>1, <2>1, <2>2, <2>3 DEF RowsFirst
  <2>5. NothingUnowned'
    BY <1>1, <2>2 DEF NothingUnowned, node
  <2>6. a \notin Foreign => Absent(a)
    BY <1>1, <1>2 DEF NothingUnowned, Absent, TypeOK
  <2>7. Stages'
    BY <1>1, <2>1, <2>3, <2>6 DEF Stages, Absent, Made, node
  <2> QED BY <2>4, <2>5, <2>7
<1>3. CASE hosting_users[a] # None
  <2>1. handler'[c] = "failed" /\ UNCHANGED hosting_users
    BY <1>3 DEF CreateHostingUser, TypeOK
  <2>2. RowsFirst'
    BY <1>1, <2>1 DEF RowsFirst
  <2>3. NothingUnowned'
    BY <1>1, <2>1 DEF NothingUnowned, node
  <2>4. Stages'
    BY <1>1, <2>1 DEF Stages, Absent, Made, node
  <2> QED BY <2>2, <2>3, <2>4
<1> QED BY <1>2, <1>3

LEMMA HandlerStep ==
  ASSUME Inductive, TypeOK', NEW c \in Creation, Send(c) \/ Answer(c) \/ GiveUp(c)
  PROVE  Inductive'
<1> USE HostingAssumption DEF Inductive
<1>1. /\ UNCHANGED <<hosting_users, node>>
      /\ handler[c] \in {"send", "waiting"}
      /\ \A x \in Creation \ {c} : handler'[x] = handler[x] /\ op'[x] = op[x]
  BY DEF Send, Answer, GiveUp, TypeOK
<1>2. NothingUnowned'
  BY <1>1 DEF NothingUnowned, node
<1>3. CASE Send(c)
  <2>1. handler[c] = "send" /\ handler'[c] = "waiting" /\ op'[c] = "stat"
    BY <1>3 DEF Send, TypeOK
  <2>2. RowsFirst'
    BY <1>1, <2>1 DEF RowsFirst
  <2>3. op[c] = "none"
    BY <2>1 DEF RowsFirst
  <2>4. Stages'
    BY <1>1, <2>1, <2>3 DEF Stages, Absent, Made, node
  <2> QED BY <1>2, <2>2, <2>4
<1>4. CASE Answer(c)
  <2>1. /\ op' = op /\ handler[c] = "waiting" /\ Ended(c)
        /\ handler'[c] = IF op[c] = "succeeded" THEN "answered" ELSE "panicked"
    BY <1>4 DEF Answer, TypeOK
  <2>2. RowsFirst'
    BY <1>1, <2>1 DEF RowsFirst
  <2>3. Stages'
    BY <1>1, <2>1 DEF Stages, Absent, Made, node
  <2> QED BY <1>2, <2>2, <2>3
<1>5. CASE GiveUp(c)
  <2>1. op' = op /\ handler'[c] = "failed"
    BY <1>5 DEF GiveUp, TypeOK
  <2>2. RowsFirst'
    BY <1>1, <2>1 DEF RowsFirst
  <2>3. Stages'
    BY <1>1, <2>1 DEF Stages, Absent, Made, node
  <2> QED BY <1>2, <2>2, <2>3
<1> QED BY <1>3, <1>4, <1>5

LEMMA NextInductive == Inductive /\ [Next]_vars => Inductive'
<1> SUFFICES ASSUME Inductive, [Next]_vars PROVE Inductive'
  OBVIOUS
<1>1. TypeOK'
  BY NextTypeOK DEF Inductive
<1>2. CASE UNCHANGED vars
  BY <1>1, <1>2 DEF vars, Inductive, RowsFirst, NothingUnowned, Stages,
                    Absent, Made
<1>3. CASE Next
  BY <1>1, <1>3, CreationStep, DiesStep, InsertStep,
     HandlerStep DEF Next
<1> QED BY <1>2, <1>3

THEOREM AlwaysInductive == Spec => []Inductive
  BY InitInductive, NextInductive, PTL DEF Spec

\* A creation answered with success leaves a private home of the user's own, for
\* good (hosting_user.go).
THEOREM HomesAlwaysPrivate == Spec => []HomesArePrivate
<1>1. Inductive => HomesArePrivate
  BY DEF Inductive, Stages, Made, HomesArePrivate
<1> QED BY <1>1, AlwaysInductive, PTL

\* Nothing is on the node that the panel has no row for (hosting_handler.go).
THEOREM NothingEverUnowned == Spec => []NothingUnowned
<1>1. Inductive => NothingUnowned
  BY DEF Inductive
<1> QED BY <1>1, AlwaysInductive, PTL
=============================================================================
