------------------------------ MODULE Hosting ------------------------------
(***************************************************************************)
(* Hosting users of one node: the control plane's CreateHostingUser        *)
(* handler with its table, and on the agent the operation of the same name *)
(* command by command.  The handler inserts its row, as active, before it  *)
(* asks the agent, and never takes it back.  A task reaches the agent at   *)
(* most once here: copies that overlap with it or follow a restart         *)
(* (TaskProtocol) are left out.                                            *)
(*                                                                         *)
(* Virtual hosts are left out: their operation always fails before it      *)
(* touches the node, because VHostParams has no names for the parameters   *)
(* that the control plane sends.                                           *)
(***************************************************************************)
EXTENDS Naturals

CONSTANTS
  Creation,  \* CreateHostingUser requests
  Account,   \* user names
  UserOf,    \* [Creation -> Account]
  Foreign,   \* accounts that the node has on its own
  None

ASSUME HostingAssumption ==
  /\ UserOf \in [Creation -> Account]
  /\ Foreign \subseteq Account
  /\ None \notin Creation

VARIABLES
  hosting_users, \* [Account -> the creation whose row it is, or None]
  handler,       \* [Creation -> where its handler is]
  op,            \* [Creation -> where its operation is]
  passwd,        \* accounts of the node
  home,          \* [Account -> the owner of its home, or "none"]
  private,       \* accounts whose home has mode 750
  public_html    \* [Account -> the owner of its public_html, or "none"]

vars == <<hosting_users, handler, op, passwd, home, private, public_html>>

controlPlane == <<hosting_users, handler>>
node == <<passwd, home, private, public_html>>

-----------------------------------------------------------------------------
\* "panicked" ends in the router's Recoverer, with status 500.
HandlerPC == {"none", "send", "waiting", "answered", "failed", "panicked"}

\* The command that is next.
OpPC == {"none", "stat", "useradd", "chmod", "mkdir", "chown",
         "succeeded", "failed", "dead"}

Owner == {"none", "root", "user"}

TypeOK ==
  /\ hosting_users \in [Account -> Creation \cup {None}]
  /\ handler \in [Creation -> HandlerPC]
  /\ op \in [Creation -> OpPC]
  /\ passwd \in SUBSET Account
  /\ home \in [Account -> Owner]
  /\ private \in SUBSET Account
  /\ public_html \in [Account -> Owner]

\* A foreign account may have a home or, like a daemon's, none.
Init ==
  /\ hosting_users = [a \in Account |-> None]
  /\ handler = [c \in Creation |-> "none"]
  /\ op = [c \in Creation |-> "none"]
  /\ passwd = Foreign
  /\ \E housed \in SUBSET Foreign :
       home = [a \in Account |-> IF a \in housed THEN "user" ELSE "none"]
  /\ private = {}
  /\ public_html = [a \in Account |-> "none"]

\* The operation has an answer.
Ended(c) == op[c] \in {"succeeded", "failed"}

-----------------------------------------------------------------------------
\* Control plane.

InsertAnyway(c) ==
  /\ handler[c] = "none"
  /\ hosting_users' = [hosting_users EXCEPT ![UserOf[c]] = c]
  /\ handler' = [handler EXCEPT ![c] = "send"]
  /\ UNCHANGED <<op, node>>

\* HostingStore.CreateHostingUser; (node_id, username) is UNIQUE.
CreateHostingUser(c) ==
  /\ handler[c] = "none"
  /\ IF hosting_users[UserOf[c]] = None
       THEN /\ hosting_users' = [hosting_users EXCEPT ![UserOf[c]] = c]
            /\ handler' = [handler EXCEPT ![c] = "send"]
       ELSE /\ handler' = [handler EXCEPT ![c] = "failed"]
            /\ UNCHANGED hosting_users
  /\ UNCHANGED <<op, node>>

\* Client.SendTask.
Send(c) ==
  /\ handler[c] = "send"
  /\ handler' = [handler EXCEPT ![c] = "waiting"]
  /\ op' = [op EXCEPT ![c] = "stat"]
  /\ UNCHANGED <<hosting_users, node>>

AnswerAgentStatus(c) ==
  /\ handler[c] = "waiting"
  /\ Ended(c)
  /\ handler' = [handler EXCEPT ![c] = op[c]]
  /\ UNCHANGED <<hosting_users, op, node>>

\* The agent's answer.  Where it says that the operation failed, err is nil, and
\* the handler panics in err.Error().
Answer(c) ==
  /\ handler[c] = "waiting"
  /\ Ended(c)
  /\ handler' = [handler EXCEPT ![c] =
                   IF op[c] = "succeeded" THEN "answered" ELSE "panicked"]
  /\ UNCHANGED <<hosting_users, op, node>>

GiveUpAndDelete(c) ==
  /\ handler[c] \in {"send", "waiting"}
  /\ handler' = [handler EXCEPT ![c] = "failed"]
  /\ hosting_users' = [a \in Account |-> IF hosting_users[a] = c THEN None
                                         ELSE hosting_users[a]]
  /\ UNCHANGED <<op, node>>

\* The key cannot be decrypted, the call times out or its response is lost, the
\* client leaves, or the control plane stops.  Rows and operations stay.
GiveUp(c) ==
  /\ handler[c] \in {"send", "waiting"}
  /\ handler' = [handler EXCEPT ![c] = "failed"]
  /\ UNCHANGED <<hosting_users, op, node>>

-----------------------------------------------------------------------------
\* Agent.
Becomes(c, pc) == op' = [op EXCEPT ![c] = pc]

\* os.Stat: whose home it is, it does not ask.
Stat(c) ==
  /\ op[c] = "stat"
  /\ Becomes(c, IF home[UserOf[c]] # "none" THEN "succeeded" ELSE "useradd")
  /\ UNCHANGED <<controlPlane, node>>

\* useradd -m.  It leaves a home that is there by now as it is.
Added(c) ==
  LET a == UserOf[c] IN
  /\ a \notin passwd
  /\ passwd' = passwd \cup {a}
  /\ home' = [home EXCEPT ![a] = IF @ = "none" THEN "user" ELSE @]

Useradd(c) ==
  /\ op[c] = "useradd"
  /\ Added(c)
  /\ Becomes(c, "chmod")
  /\ UNCHANGED <<controlPlane, private, public_html>>

\* The name is none that the agent accepts, or both attempts fail: the account
\* exists, or the first one was killed at its timeout, its work undone, half-done or
\* done.
UseraddFails(c) ==
  /\ op[c] = "useradd"
  /\ \/ Added(c)
     \/ passwd' = passwd \cup {UserOf[c]} /\ UNCHANGED home
     \/ UNCHANGED <<passwd, home>>
  /\ Becomes(c, "failed")
  /\ UNCHANGED <<controlPlane, private, public_html>>

Chmod(c) ==
  /\ op[c] = "chmod"
  /\ private' = private \cup {UserOf[c]}
  /\ Becomes(c, "mkdir")
  /\ UNCHANGED <<controlPlane, passwd, home, public_html>>

ChmodFails(c) ==
  /\ op[c] = "chmod"
  /\ private' \in {private, private \cup {UserOf[c]}}
  /\ Becomes(c, "failed")
  /\ UNCHANGED <<controlPlane, passwd, home, public_html>>

\* mkdir -p and chown of public_html, whose errors are ignored.
Mkdir(c) ==
  LET a == UserOf[c] IN
  /\ op[c] = "mkdir"
  /\ public_html' \in {[public_html EXCEPT ![a] = IF @ = "none" THEN "root" ELSE @],
                       public_html}
  /\ Becomes(c, "chown")
  /\ UNCHANGED <<controlPlane, passwd, home, private>>

Chown(c) ==
  LET a == UserOf[c] IN
  /\ op[c] = "chown"
  /\ public_html' \in {[public_html EXCEPT ![a] = IF @ = "none" THEN @ ELSE "user"],
                       public_html}
  /\ Becomes(c, "succeeded")
  /\ UNCHANGED <<controlPlane, passwd, home, private>>

\* The task does not arrive, or the agent dies: there will be no answer.
Dies(c) ==
  /\ op[c] \notin {"none", "dead"} /\ ~Ended(c)
  /\ Becomes(c, "dead")
  /\ UNCHANGED <<controlPlane, node>>

-----------------------------------------------------------------------------
Next ==
  \E c \in Creation :
    \/ CreateHostingUser(c) \/ Send(c) \/ Answer(c) \/ GiveUp(c)
    \/ Stat(c) \/ Useradd(c) \/ UseraddFails(c) \/ Chmod(c) \/ ChmodFails(c)
    \/ Mkdir(c) \/ Chown(c) \/ Dies(c)

Spec == Init /\ [][Next]_vars

-----------------------------------------------------------------------------
\* A creation that was answered with success, of a name the node did not have,
\* has made the Linux account and a home of its own that others cannot read, and
\* it stays so.  The operation takes any home that is there for its own: no creation
\* that failed half-way may have left one to a later one (hosting_user.go,
\* hosting_handler.go).
HomesArePrivate ==
  \A c \in Creation :
    LET a == UserOf[c] IN
    handler[c] = "answered" /\ a \notin Foreign =>
      /\ a \in passwd
      /\ home[a] = "user"
      /\ a \in private

\* What the node has of a name, an account, a home or a directory in it, the panel
\* has a row for, whatever call failed or was given up while the agent works on
\* (hosting_handler.go: the row comes first and stays).
NothingUnowned ==
  \A a \in Account \ Foreign :
    a \in passwd \/ home[a] # "none" \/ public_html[a] # "none" =>
      hosting_users[a] # None
=============================================================================
