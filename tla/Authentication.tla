--------------------------- MODULE Authentication ---------------------------
(***************************************************************************)
(* Logins, sessions and the second factor in the control plane: the        *)
(* handlers of auth_handler.go and totp_handler.go, the Authenticate       *)
(* middleware, and the users and sessions tables they share.  Each request *)
(* is a goroutine; a step is one SQL statement or one access to the        *)
(* in-memory map of pending enrolments, and steps of different requests    *)
(* interleave, since no handler holds a lock or opens a transaction.       *)
(*                                                                         *)
(* Secrets and backup codes are fresh random values, so an enrolment names *)
(* its secret: <<e, 0>> is a code its authenticator shows, <<e, i>> for    *)
(* i > 0 is its i-th backup code.  Passwords are right; a wrong one ends   *)
(* the request before it touches any state.                                *)
(***************************************************************************)
EXTENDS Integers, FiniteSets

CONSTANTS
  User,
  Session,       \* sessions that may be created
  Enrolment,     \* results of GenerateEnrollment
  CodeCount,     \* backupCodeCount
  Worker,        \* request goroutines
  None           \* nil, or no code

ASSUME AuthAssumption ==
  /\ CodeCount \in Nat
  /\ None \notin User \cup Session \cup Enrolment \cup (Enrolment \X Nat)

VARIABLES
  users,     \* the users table: [User -> row]
  sessions,  \* the sessions table: map of session ids to rows; a row is live
             \* while revoked_at IS NULL AND expires_at > now()
  pending,   \* TOTPHandler.pendingEnrollments: [User -> Enrolment or None]
  req,       \* [Worker -> record]: where each request is
  owner,     \* [Enrolment -> User or None]: who was shown the enrolment
  confirmed, \* history: enrolments whose authenticator passed ConfirmEnrollment
  stale,     \* history: [User -> codes of his row that a stale list put back]
  spent,     \* history: backup codes accepted since they were last given, by a
             \* confirmation or by a stale list ...
  respent    \* ... and accepted again

codeHistory == <<stale, spent, respent>>
vars == <<users, sessions, pending, req, owner, confirmed, codeHistory>>

-----------------------------------------------------------------------------
TOTP(e) == <<e, 0>>
CodesOf(e) == {e} \X (1 .. CodeCount)
BackupCode == Enrolment \X (1 .. CodeCount)
Code == Enrolment \X (0 .. CodeCount)

Operation == {"login", "logout", "logoutAll", "begin", "confirm", "verify", "disable"}

\* Where the handler of a request with a session begins.
FirstStep ==
  [logout |-> "revoke", logoutAll |-> "revokeAll", begin |-> "begin",
   confirm |-> "pending", verify |-> "totp", disable |-> "totp"]

\* What a request goes on to once its second factor has been accepted.
Granted == [login |-> "create", verify |-> "elevate", disable |-> "remove"]

PC == {"idle", "arrived", "validated", "turnaway", "totp", "codes", "consume",
       "create", "elevate", "remove", "revoke", "revokeAll", "begin",
       "pending", "enable", "unpend"}

NoRow == [active |-> TRUE, mfa |-> FALSE, secret |-> None, codes |-> {}]

\* What a request asks for and the code in it are picked where the code first
\* looks at them.  barred is history: when the request arrived its session was
\* dead or its account suspended.
Idle == [pc |-> "idle", op |-> None, user |-> None, session |-> None,
         code |-> None, factor |-> FALSE, list |-> {}, enrolment |-> None,
         barred |-> FALSE]

TypeOK ==
  /\ users \in [User -> [active : BOOLEAN, mfa : BOOLEAN,
                         secret : Enrolment \cup {None}, codes : SUBSET BackupCode]]
  /\ DOMAIN sessions \subseteq Session
  /\ \A s \in DOMAIN sessions :
       sessions[s] \in [user : User, mfa : BOOLEAN, live : BOOLEAN]
  /\ pending \in [User -> Enrolment \cup {None}]
  /\ req \in [Worker -> [pc : PC, op : Operation \cup {None}, user : User \cup {None},
                         session : Session \cup {None}, code : Code \cup {None},
                         factor : BOOLEAN, list : SUBSET BackupCode,
                         enrolment : Enrolment \cup {None}, barred : BOOLEAN]]
  /\ owner \in [Enrolment -> User \cup {None}]
  /\ confirmed \subseteq Enrolment
  /\ spent \subseteq BackupCode
  /\ respent \subseteq BackupCode
  /\ stale \in [User -> SUBSET BackupCode]
  /\ \A w \in Worker : req[w].pc # "idle" =>
       /\ req[w].user \in User
       /\ req[w].session # None =>
            /\ req[w].session \in DOMAIN sessions
            /\ sessions[req[w].session].user = req[w].user
  /\ \A w \in Worker : req[w].pc = "enable" => req[w].enrolment \in Enrolment

-----------------------------------------------------------------------------
Goto(w, pc) == req' = [req EXCEPT ![w].pc = pc]
Done(w) == req' = [req EXCEPT ![w] = Idle]

Row(w) == users[req[w].user]

\* The codes that the user of account u may type: those of the enrolments that
\* BeginEnrollment has shown him.
Offered(u) == {c \in Code : owner[c[1]] = u}

-----------------------------------------------------------------------------
\* POST /api/auth/login: Login fetches the account, before it checks the
\* password.  A refusal changes nothing, nor does the answer that a code is
\* needed; without mfa_enabled a code is ignored.
Login(w, u) ==
  /\ req[w].pc = "idle"
  /\ users[u].active
  /\ req' = [req EXCEPT ![w] = [Idle EXCEPT !.pc = IF users[u].mfa THEN "totp" ELSE "create",
                                            !.op = "login", !.user = u]]
  /\ UNCHANGED <<users, sessions, pending, owner, confirmed, codeHistory>>

Create(w, verified) ==
  /\ req[w].pc = "create"
  /\ \E s \in Session \ DOMAIN sessions :
       sessions' = [x \in DOMAIN sessions \cup {s} |->
                      IF x = s THEN [user |-> req[w].user, mfa |-> verified, live |-> TRUE]
                               ELSE sessions[x]]
  /\ Done(w)
  /\ UNCHANGED <<users, pending, owner, confirmed, codeHistory>>

CreateVerified(w) == Create(w, TRUE)

\* SessionManager.Create.
CreateSession(w) == Create(w, req[w].factor)

-----------------------------------------------------------------------------
\* Every other request carries the token of a session.
Arrive(w, s) ==
  LET u == sessions[s].user
  IN /\ req[w].pc = "idle"
     /\ req' = [req EXCEPT ![w] = [Idle EXCEPT !.pc = "arrived", !.user = u, !.session = s,
                                               !.barred = ~sessions[s].live \/ ~users[u].active]]
     /\ UNCHANGED <<users, sessions, pending, owner, confirmed, codeHistory>>

ValidateAlways(w) ==
  /\ req[w].pc = "arrived"
  /\ Goto(w, "validated")
  /\ UNCHANGED <<users, sessions, pending, owner, confirmed, codeHistory>>

\* Authenticate calls SessionManager.Validate; without a principal RequireAuth
\* answers 401.
Validate(w) ==
  /\ req[w].pc = "arrived"
  /\ IF sessions[req[w].session].live THEN Goto(w, "validated") ELSE Done(w)
  /\ UNCHANGED <<users, sessions, pending, owner, confirmed, codeHistory>>

\* loadPrincipal: the account is read afresh; an account that is not active
\* and a query that fails are one.
LoadPrincipal(w) ==
  /\ req[w].pc = "validated"
  /\ \/ /\ Row(w).active
        /\ \E op \in DOMAIN FirstStep :
             req' = [req EXCEPT ![w].pc = FirstStep[op], ![w].op = op]
     \/ Goto(w, "turnaway")
  /\ UNCHANGED <<users, sessions, pending, owner, confirmed, codeHistory>>

\* SessionManager.Revoke: by Authenticate, which then serves nothing, and by
\* Logout.
Revoke(w) ==
  /\ req[w].pc \in {"turnaway", "revoke"}
  /\ sessions' = [sessions EXCEPT ![req[w].session].live = FALSE]
  /\ Done(w)
  /\ UNCHANGED <<users, pending, owner, confirmed, codeHistory>>

\* SessionManager.RevokeAll, by LogoutAll.
RevokeAll(w) ==
  /\ req[w].pc = "revokeAll"
  /\ sessions' = [s \in DOMAIN sessions |->
                    IF sessions[s].user = req[w].user
                      THEN [sessions[s] EXCEPT !.live = FALSE] ELSE sessions[s]]
  /\ Done(w)
  /\ UNCHANGED <<users, pending, owner, confirmed, codeHistory>>

-----------------------------------------------------------------------------
\* BeginEnrollment: a fresh secret and fresh codes replace what was pending.
Begin(w) ==
  /\ req[w].pc = "begin"
  /\ \E e \in Enrolment :
       /\ owner[e] = None
       /\ owner' = [owner EXCEPT ![e] = req[w].user]
       /\ pending' = [pending EXCEPT ![req[w].user] = e]
  /\ Done(w)
  /\ UNCHANGED <<users, sessions, confirmed, codeHistory>>

\* The handler reads the pending enrolment, and TOTPManager.ConfirmEnrollment
\* checks the code against it, then encrypts and hashes, which takes a while.
ReadPending(w) ==
  LET e == pending[req[w].user]
  IN /\ req[w].pc = "pending"
     /\ \/ /\ e # None
           /\ req' = [req EXCEPT ![w].pc = "enable", ![w].enrolment = e]
           /\ confirmed' = confirmed \cup {e}
        \/ Done(w) /\ UNCHANGED confirmed
     /\ UNCHANGED <<users, sessions, pending, owner, codeHistory>>

Store(w, e) ==
  /\ req[w].pc = "enable"
  /\ users' = [users EXCEPT ![req[w].user].mfa = TRUE,
                            ![req[w].user].secret = e,
                            ![req[w].user].codes = CodesOf(e)]
  /\ stale' = [stale EXCEPT ![req[w].user] = {}]
  /\ spent' = spent \ CodesOf(e)
  /\ UNCHANGED <<sessions, pending, owner, confirmed, respent>>

EnablePending(w) == Store(w, pending[req[w].user]) /\ Goto(w, "unpend")

\* ConfirmEnrollment's UPDATE, of the enrolment it was given and not of the one
\* that is pending by then.
Enable(w) == Store(w, req[w].enrolment) /\ Goto(w, "unpend")

\* The UPDATE is committed and its answer is lost: the handler reports a failure,
\* and the enrolment stays pending.
EnableUnacknowledged(w) == Store(w, req[w].enrolment) /\ Done(w)

\* The handler drops whatever is pending by now.
Unpend(w) ==
  /\ req[w].pc = "unpend"
  /\ pending' = [pending EXCEPT ![req[w].user] = None]
  /\ Done(w)
  /\ UNCHANGED <<users, sessions, owner, confirmed, codeHistory>>

-----------------------------------------------------------------------------
\* TOTPManager.Verify.  Login and DisableMFA go on to the backup codes.
VerifyTOTP(w) ==
  /\ req[w].pc = "totp"
  /\ \E c \in Offered(req[w].user) :
       IF Row(w).mfa /\ c = TOTP(Row(w).secret)
         THEN req' = [req EXCEPT ![w].pc = Granted[req[w].op], ![w].factor = TRUE]
         ELSE IF req[w].op = "verify" THEN Done(w)
         ELSE req' = [req EXCEPT ![w].pc = "codes", ![w].code = c]
  /\ UNCHANGED <<users, sessions, pending, owner, confirmed, codeHistory>>

\* TOTPManager.VerifyBackupCode: the list is read and searched ...
ReadCodes(w) ==
  /\ req[w].pc = "codes"
  /\ IF req[w].code \in Row(w).codes
       THEN req' = [req EXCEPT ![w].pc = "consume", ![w].list = Row(w).codes]
       ELSE Done(w)
  /\ UNCHANGED <<users, sessions, pending, owner, confirmed, codeHistory>>

\* Codes that the request has read and that its row has no more.
Gone(w) == req[w].list \ Row(w).codes

WriteCodes(w, list) ==
  /\ req[w].pc = "consume"
  /\ users' = [users EXCEPT ![req[w].user].codes = list]
  /\ stale' = [stale EXCEPT ![req[w].user] = (@ \cup Gone(w)) \cap list]
  /\ UNCHANGED <<sessions, pending, owner, confirmed>>

Consume(w, list) ==
  LET c == req[w].code
  IN /\ WriteCodes(w, list)
     /\ req' = [req EXCEPT ![w].pc = Granted[req[w].op], ![w].factor = TRUE,
                           ![w].code = None, ![w].list = {}]
     /\ spent' = (spent \ Gone(w)) \cup {c}
     /\ respent' = respent \cup ({c} \cap (spent \ Gone(w)))

ConsumeNothing(w) == Consume(w, req[w].list)

\* ... and written back without the code, whatever the row holds by now.
ConsumeCode(w) == Consume(w, req[w].list \ {req[w].code})

\* The list is written back and the answer is lost: the code is refused.
ConsumeUnacknowledged(w) ==
  /\ WriteCodes(w, req[w].list \ {req[w].code})
  /\ Done(w)
  /\ spent' = spent \ Gone(w)
  /\ UNCHANGED respent

\* VerifyMFA's UPDATE of its session.
Elevate(w) ==
  /\ req[w].pc = "elevate"
  /\ sessions' = [sessions EXCEPT ![req[w].session].mfa = TRUE]
  /\ Done(w)
  /\ UNCHANGED <<users, pending, owner, confirmed, codeHistory>>

Remove(w, codes) ==
  LET u == req[w].user
  IN /\ req[w].pc = "remove"
     /\ users' = [users EXCEPT ![u].mfa = FALSE, ![u].secret = None, ![u].codes = codes]
     /\ stale' = [stale EXCEPT ![u] = @ \cap codes]
     /\ Done(w)
     /\ UNCHANGED <<sessions, pending, owner, confirmed, spent, respent>>

DisableKeepsCodes(w) == Remove(w, Row(w).codes)

\* TOTPManager.Disable.
Disable(w) == Remove(w, {})

-----------------------------------------------------------------------------
\* A statement fails and writes nothing, or the client goes away and takes the
\* context of the request with it: no handler goes on from there.  Reading and
\* deleting the pending enrolment ("pending", "unpend") cannot fail.  Where the
\* handler does nothing after the statement, one that is committed and whose
\* answer is lost is one that succeeds.
Abort(w) ==
  /\ req[w].pc \notin {"idle", "begin", "pending", "unpend"}
  /\ Done(w)
  /\ UNCHANGED <<users, sessions, pending, owner, confirmed, codeHistory>>

\* is_suspended is set by somebody outside this program.
Suspend(u) ==
  /\ users[u].active
  /\ users' = [users EXCEPT ![u].active = FALSE]
  /\ UNCHANGED <<sessions, pending, req, owner, confirmed, codeHistory>>

\* expires_at passes.
Expire(s) ==
  /\ sessions[s].live
  /\ sessions' = [sessions EXCEPT ![s].live = FALSE]
  /\ UNCHANGED <<users, pending, req, owner, confirmed, codeHistory>>

\* The control plane dies and comes back; two handlers in the pending map at
\* once are one cause (the Go runtime stops the program).
Restart ==
  /\ pending' = [u \in User |-> None]
  /\ req' = [w \in Worker |-> Idle]
  /\ UNCHANGED <<users, sessions, owner, confirmed, codeHistory>>

-----------------------------------------------------------------------------
Init ==
  /\ users = [u \in User |-> NoRow]
  /\ sessions = [s \in {} |-> Idle]
  /\ pending = [u \in User |-> None]
  /\ req = [w \in Worker |-> Idle]
  /\ owner = [e \in Enrolment |-> None]
  /\ confirmed = {}
  /\ stale = [u \in User |-> {}]
  /\ spent = {}
  /\ respent = {}

Next ==
  \/ \E w \in Worker :
       \/ \E u \in User : Login(w, u)
       \/ \E s \in DOMAIN sessions : Arrive(w, s)
       \/ CreateSession(w) \/ Validate(w) \/ LoadPrincipal(w)
       \/ Revoke(w) \/ RevokeAll(w)
       \/ Begin(w) \/ ReadPending(w)
       \/ Enable(w) \/ EnableUnacknowledged(w) \/ Unpend(w)
       \/ VerifyTOTP(w) \/ ReadCodes(w) \/ ConsumeCode(w) \/ ConsumeUnacknowledged(w)
       \/ Elevate(w) \/ Disable(w) \/ Abort(w)
  \/ \E u \in User : Suspend(u)
  \/ \E s \in DOMAIN sessions : Expire(s)
  \/ Restart

Spec == Init /\ [][Next]_vars

-----------------------------------------------------------------------------
\* A request that arrives with a revoked or expired session, or for a
\* suspended account, never gets as far as a handler, whatever logins and
\* revocations are under way meanwhile (middleware Authenticate: "Revocation:
\* immediate").
BarredNeverServed ==
  \A w \in Worker : req[w].barred => req[w].pc \in {"arrived", "validated", "turnaway"}

\* Nobody is locked out by an enrolment that was replaced or lost half-way:
\* while the second factor is on, its secret is one of which this account's
\* own authenticator has shown a code (totp_handler.go ConfirmEnrollment).
NoLockout ==
  \A u \in User : users[u].mfa =>
    users[u].secret \in confirmed /\ owner[users[u].secret] = u

ConfirmedBy(u) == {e \in confirmed : owner[e] = u}

\* However the read-modify-writes of a code list overlap with each other, with
\* Disable and with a new enrolment, the account's codes are codes that were
\* once shown to its own user, in an enrolment he completed (totp.go
\* VerifyBackupCode, ConfirmEnrollment).
CodesGenuine ==
  \A u \in User : users[u].codes \subseteq ConfirmedBy(u) \X (1 .. CodeCount)

\* A session counts as verified, and a request as having shown its second
\* factor, only for an account that completed an enrolment (auth_handler.go
\* Login, totp_handler.go VerifyMFA).
FactorsGenuine ==
  /\ \A s \in DOMAIN sessions : sessions[s].mfa => ConfirmedBy(sessions[s].user) # {}
  /\ \A w \in Worker : req[w].factor => ConfirmedBy(req[w].user) # {}

\* However requests overlap and fail, one backup code is accepted no more often
\* than it is given: when its enrolment is stored, and when a list that was read
\* before a newer write of the column is written over it (totp.go
\* VerifyBackupCode: "the code is consumed (removed from the list) to prevent
\* reuse").
CodesUsedOnce == respent = {}

\* The columns of the users row agree, but for codes that such a stale list put
\* back: with the second factor off there is no secret and no code left; with it
\* on, the codes are unspent ones of the enrolment the secret is from (totp.go
\* ConfirmEnrollment, VerifyBackupCode, Disable).
RowConsistent ==
  \A u \in User :
    LET codes == users[u].codes \ stale[u]
    IN /\ users[u].codes \cap spent = {}
       /\ IF users[u].mfa THEN codes \subseteq CodesOf(users[u].secret)
                          ELSE users[u].secret = None /\ codes = {}
=============================================================================
