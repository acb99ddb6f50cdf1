------------------------ MODULE AuthenticationProofs ------------------------
(***************************************************************************)
(* Theorems about Authentication, for any number of accounts, requests and *)
(* enrolments, and every overlap of requests.                              *)
(***************************************************************************)
EXTENDS Authentication, TLAPS

\* What a request may be doing at each place, and what it can rely on there.
RequestInv(w) ==
  LET r == req[w]
  IN /\ r.pc \in {"totp", "codes", "consume"} =>
          /\ r.op \in {"login", "verify", "disable"}
          /\ r.op # "login" => r.session # None
     /\ r.pc \in {"arrived", "validated", "turnaway", "revoke", "revokeAll", "begin",
                  "pending", "enable", "unpend", "elevate", "remove"} => r.session # None
     /\ r.pc = "enable" => r.enrolment \in ConfirmedBy(r.user)
     /\ r.pc = "consume" => /\ r.code \in r.list
                            /\ r.list \subseteq ConfirmedBy(r.user) \X (1 .. CodeCount)
     /\ r.pc = "elevate" => r.factor
     /\ r.factor => ConfirmedBy(r.user) # {}
     /\ r.barred => /\ r.pc \in {"arrived", "validated", "turnaway"}
                    /\ users[r.user].active =>
                         r.pc \in {"arrived", "turnaway"} /\ ~sessions[r.session].live

\* Enrolments belong to the user they were shown to.
EnrolmentsOwned ==
  /\ \A e \in confirmed : owner[e] \in User
  /\ \A u \in User : pending[u] # None => owner[pending[u]] = u

SessionsGenuine ==
  \A s \in DOMAIN sessions : sessions[s].mfa => ConfirmedBy(sessions[s].user) # {}

AuthInv ==
  /\ TypeOK
  /\ EnrolmentsOwned
  /\ NoLockout
  /\ CodesGenuine
  /\ SessionsGenuine
  /\ \A w \in Worker : RequestInv(w)

LEMMA IdleType ==
  Idle \in [pc : PC, op : Operation \cup {None}, user : User \cup {None},
            session : Session \cup {None}, code : Code \cup {None},
            factor : BOOLEAN, list : SUBSET BackupCode,
            enrolment : Enrolment \cup {None}, barred : BOOLEAN]
BY DEF Idle, PC, Operation

LEMMA InitInv == Init => AuthInv
<1>. SUFFICES ASSUME Init PROVE AuthInv
  OBVIOUS
<1>1. TypeOK
  BY IdleType DEF Init, TypeOK, NoRow, Idle
<1>2. EnrolmentsOwned /\ NoLockout /\ CodesGenuine /\ SessionsGenuine
  BY DEF Init, EnrolmentsOwned, NoLockout, CodesGenuine, SessionsGenuine, NoRow
<1>3. ASSUME NEW w \in Worker PROVE RequestInv(w)
  BY DEF Init, RequestInv, Idle
<1>. QED
  BY <1>1, <1>2, <1>3 DEF AuthInv

-----------------------------------------------------------------------------
\* What no step takes back: a completed enrolment, whose it is, the death of a
\* session, the suspension of an account.
Monotone ==
  /\ confirmed \subseteq confirmed'
  /\ \A e \in confirmed : owner'[e] = owner[e]
  /\ DOMAIN sessions \subseteq DOMAIN sessions'
  /\ \A s \in DOMAIN sessions :
       /\ sessions'[s].user = sessions[s].user
       /\ sessions'[s].live => sessions[s].live
  /\ \A u \in User : users'[u].active => users[u].active

\* The steps of the request that goroutine w serves.
Step(w) ==
  \/ \E u \in User : Login(w, u)
  \/ \E s \in DOMAIN sessions : Arrive(w, s)
  \/ CreateSession(w) \/ Validate(w) \/ LoadPrincipal(w)
  \/ Revoke(w) \/ RevokeAll(w)
  \/ Begin(w) \/ ReadPending(w)
  \/ Enable(w) \/ EnableUnacknowledged(w) \/ Unpend(w)
  \/ VerifyTOTP(w) \/ ReadCodes(w) \/ ConsumeCode(w) \/ ConsumeUnacknowledged(w)
  \/ Elevate(w) \/ Disable(w) \/ Abort(w)

\* The UPDATEs of the users row, acknowledged or not.
Stores(w) == Store(w, req[w].enrolment)
Writes(w) ==
  /\ WriteCodes(w, req[w].list \ {req[w].code})
  /\ spent' \in {spent \ Gone(w), (spent \ Gone(w)) \cup {req[w].code}}
  /\ respent' \in {respent, respent \cup ({req[w].code} \cap (spent \ Gone(w)))}

LEMMA Updates ==
  ASSUME NEW w
  PROVE  /\ Enable(w) \/ EnableUnacknowledged(w) => Stores(w)
         /\ ConsumeCode(w) \/ ConsumeUnacknowledged(w) => Writes(w)
BY DEF Enable, EnableUnacknowledged, Stores, ConsumeCode, Consume, ConsumeUnacknowledged, Writes

LEMMA StepIsMonotone ==
  ASSUME TypeOK, EnrolmentsOwned, NEW w \in Worker, Step(w)
  PROVE  Monotone
<1>1. CASE UNCHANGED <<users, sessions, owner, confirmed>>
  BY <1>1 DEF Monotone
<1>2. CASE CreateSession(w)
  BY <1>2 DEF CreateSession, Create, Monotone, TypeOK
<1>3. CASE Revoke(w)
  BY <1>3 DEF Revoke, Monotone, TypeOK
<1>4. CASE RevokeAll(w)
  BY <1>4 DEF RevokeAll, Monotone, TypeOK
<1>5. CASE Begin(w)
  <2>. PICK e \in Enrolment : /\ owner[e] = None
                              /\ owner' = [owner EXCEPT ![e] = req[w].user]
    BY <1>5 DEF Begin
  <2>1. e \notin confirmed
    BY AuthAssumption DEF EnrolmentsOwned
  <2>. QED
    BY <1>5, <2>1 DEF Begin, Monotone, TypeOK
<1>6. CASE ReadPending(w)
  BY <1>6 DEF ReadPending, Monotone, TypeOK
<1>7. CASE Stores(w)
  BY <1>7 DEF Stores, Store, Monotone, TypeOK
<1>8. CASE Writes(w)
  BY <1>8 DEF Writes, WriteCodes, Monotone, TypeOK
<1>9. CASE Elevate(w)
  BY <1>9 DEF Elevate, Monotone, TypeOK
<1>10. CASE Disable(w)
  BY <1>10 DEF Disable, Remove, Monotone, TypeOK
<1>11. Step(w) => \/ UNCHANGED <<users, sessions, owner, confirmed>>
                  \/ CreateSession(w) \/ Revoke(w) \/ RevokeAll(w) \/ Begin(w)
                  \/ ReadPending(w) \/ Stores(w) \/ Writes(w) \/ Elevate(w)
                  \/ Disable(w)
  BY Updates DEF Step, Login, Arrive, Validate, LoadPrincipal, Unpend, VerifyTOTP,
         ReadCodes, Abort
<1>. QED
  BY <1>1, <1>2, <1>3, <1>4, <1>5, <1>6, <1>7, <1>8, <1>9, <1>10, <1>11

\* What is monotone keeps a request that does not move.
LEMMA OthersStay ==
  ASSUME TypeOK, Monotone, NEW v \in Worker, RequestInv(v), req'[v] = req[v]
  PROVE  RequestInv(v)'
<1>1. \A u : ConfirmedBy(u) \subseteq ConfirmedBy(u)'
  BY DEF Monotone, ConfirmedBy
<1>2. req[v].barred => req[v].user \in User /\ req[v].session \in DOMAIN sessions
  BY DEF RequestInv, TypeOK
<1>3. req[v].barred => /\ users'[req[v].user].active => users[req[v].user].active
                       /\ ~sessions[req[v].session].live =>
                            ~sessions'[req[v].session].live
  BY <1>2 DEF Monotone
<1>. QED
  BY <1>1, <1>3 DEF RequestInv

LEMMA RowsStay ==
  ASSUME NoLockout, CodesGenuine, Monotone, UNCHANGED users
  PROVE  NoLockout' /\ CodesGenuine'
BY DEF NoLockout, CodesGenuine, Monotone, ConfirmedBy

LEMMA SessionsStay ==
  ASSUME SessionsGenuine, Monotone,
         \A s \in DOMAIN sessions' : sessions'[s].mfa => s \in DOMAIN sessions /\ sessions[s].mfa
  PROVE  SessionsGenuine'
BY DEF SessionsGenuine, Monotone, ConfirmedBy

-----------------------------------------------------------------------------
\* TypeOK in two parts: the tables and the histories, and each request.
Request == [pc : PC, op : Operation \cup {None}, user : User \cup {None},
            session : Session \cup {None}, code : Code \cup {None},
            factor : BOOLEAN, list : SUBSET BackupCode,
            enrolment : Enrolment \cup {None}, barred : BOOLEAN]

WellFormed(r) ==
  /\ r \in Request
  /\ r.pc # "idle" =>
       /\ r.user \in User
       /\ r.session # None => /\ r.session \in DOMAIN sessions
                              /\ sessions[r.session].user = r.user
  /\ r.pc = "enable" => r.enrolment \in Enrolment

Account == [active : BOOLEAN, mfa : BOOLEAN,
            secret : Enrolment \cup {None}, codes : SUBSET BackupCode]

TablesOK ==
  /\ users \in [User -> Account]
  /\ DOMAIN sessions \subseteq Session
  /\ \A s \in DOMAIN sessions :
       sessions[s] \in [user : User, mfa : BOOLEAN, live : BOOLEAN]
  /\ pending \in [User -> Enrolment \cup {None}]
  /\ owner \in [Enrolment -> User \cup {None}]
  /\ confirmed \subseteq Enrolment
  /\ spent \subseteq BackupCode
  /\ respent \subseteq BackupCode
  /\ stale \in [User -> SUBSET BackupCode]

RequestsOK ==
  /\ req \in [Worker -> Request]
  /\ \A w \in Worker : WellFormed(req[w])

LEMMA TypeParts == TypeOK <=> TablesOK /\ RequestsOK
BY DEF TypeOK, TablesOK, Account, RequestsOK, WellFormed, Request

LEMMA IdleWellFormed == WellFormed(Idle) /\ WellFormed(Idle)'
BY IdleType DEF WellFormed, Request, Idle

\* One request moves, the others keep their types.
LEMMA OneMoves ==
  ASSUME TypeOK, Monotone, NEW w \in Worker, NEW r,
         WellFormed(r)', req' = [req EXCEPT ![w] = r]
  PROVE  RequestsOK'
<1>1. req \in [Worker -> Request] /\ \A v \in Worker : WellFormed(req[v])
  BY TypeParts DEF RequestsOK
<1>2. req' \in [Worker -> Request]
  BY <1>1 DEF WellFormed
<1>3. ASSUME NEW v \in Worker PROVE WellFormed(req[v])'
  <2>1. CASE v = w
    BY <1>1, <2>1
  <2>2. CASE v # w
    <3>1. req'[v] = req[v] /\ WellFormed(req[v])
      BY <1>1, <2>2
    <3>. QED
      BY <3>1 DEF WellFormed, Monotone
  <2>. QED
    BY <2>1, <2>2
<1>. QED
  BY <1>2, <1>3 DEF RequestsOK

LEMMA TablesUpdated ==
  ASSUME TablesOK, NEW u \in User, NEW row \in Account, NEW st \in SUBSET BackupCode,
         users' = [users EXCEPT ![u] = row], stale' = [stale EXCEPT ![u] = st],
         spent' \subseteq BackupCode, respent' \subseteq BackupCode,
         UNCHANGED <<sessions, pending, owner, confirmed>>
  PROVE  TablesOK'
<1>1. users' \in [User -> Account]
  BY DEF TablesOK
<1>2. stale' \in [User -> SUBSET BackupCode]
  BY DEF TablesOK
<1>. QED
  BY <1>1, <1>2 DEF TablesOK

LEMMA TablesStep ==
  ASSUME TypeOK, NEW w \in Worker, RequestInv(w), Step(w)
  PROVE  TablesOK'
<1>0. TablesOK
  BY TypeParts
<1>1. CASE UNCHANGED <<users, sessions, pending, owner, confirmed, codeHistory>>
  BY <1>0, <1>1 DEF TablesOK, codeHistory
<1>2. CASE CreateSession(w)
  <2>1. req[w].user \in User /\ req[w].factor \in BOOLEAN
    BY <1>2 DEF CreateSession, Create, TypeOK
  <2>. QED
    BY <1>0, <1>2, <2>1 DEF CreateSession, Create, TablesOK, codeHistory
<1>3. CASE Revoke(w)
  BY <1>0, <1>3 DEF Revoke, TablesOK, codeHistory
<1>4. CASE RevokeAll(w)
  BY <1>0, <1>4 DEF RevokeAll, TablesOK, codeHistory
<1>5. CASE Begin(w)
  <2>1. req[w].user \in User
    BY <1>5 DEF Begin, TypeOK
  <2>. QED
    BY <1>0, <1>5, <2>1 DEF Begin, TablesOK, codeHistory
<1>6. CASE ReadPending(w)
  <2>1. req[w].user \in User
    BY <1>6 DEF ReadPending, TypeOK
  <2>. QED
    BY <1>0, <1>6, <2>1 DEF ReadPending, TablesOK, codeHistory
<1>7. CASE Stores(w)
  <2>1. req[w].enrolment \in Enrolment
    BY <1>7 DEF Stores, Store, TypeOK
  <2>2. CodesOf(req[w].enrolment) \subseteq BackupCode
    BY <2>1 DEF CodesOf, BackupCode
  <2>. DEFINE u == req[w].user
              row == [users[u] EXCEPT !.mfa = TRUE, !.secret = req[w].enrolment,
                                      !.codes = CodesOf(req[w].enrolment)]
  <2>3. u \in User /\ users' = [users EXCEPT ![u] = row]
    BY <1>7 DEF Stores, Store, TypeOK
  <2>4. users[u] \in Account
    BY <1>0, <2>3 DEF TablesOK
  <2>5. row \in Account
    BY <2>1, <2>2, <2>4 DEF Account
  <2>6. stale' = [stale EXCEPT ![u] = {}]
    BY <1>7 DEF Stores, Store
  <2>. HIDE DEF row, u
  <2>7. /\ spent' \subseteq BackupCode /\ respent' \subseteq BackupCode
        /\ UNCHANGED <<sessions, pending, owner, confirmed>>
    BY <1>0, <1>7 DEF Stores, Store, TablesOK
  <2>. QED
    BY <1>0, <2>3, <2>5, <2>6, <2>7, TablesUpdated
<1>8. CASE Unpend(w)
  BY <1>0, <1>8 DEF Unpend, TablesOK, codeHistory
<1>9. CASE Writes(w)
  <2>1. req[w].list \subseteq BackupCode /\ req[w].code \in req[w].list
    BY <1>9 DEF Writes, WriteCodes, TypeOK, RequestInv
  <2>. DEFINE u == req[w].user
              row == [users[u] EXCEPT !.codes = req[w].list \ {req[w].code}]
              st == (stale[u] \cup Gone(w)) \cap (req[w].list \ {req[w].code})
  <2>2. u \in User /\ users' = [users EXCEPT ![u] = row] /\ stale' = [stale EXCEPT ![u] = st]
    BY <1>9 DEF Writes, WriteCodes, TypeOK
  <2>3. users[u] \in Account
    BY <1>0, <2>2 DEF TablesOK
  <2>4. row \in Account
    BY <2>1, <2>3 DEF Account
  <2>5. st \subseteq BackupCode
    BY <2>1
  <2>. HIDE DEF row, u, st
  <2>6. spent' \subseteq BackupCode /\ respent' \subseteq BackupCode
    BY <1>0, <1>9, <2>1 DEF Writes, TablesOK
  <2>. QED
    BY <1>0, <1>9, <2>2, <2>4, <2>5, <2>6, TablesUpdated DEF Writes, WriteCodes
<1>10. CASE Elevate(w)
  BY <1>0, <1>10 DEF Elevate, TablesOK, codeHistory
<1>11. CASE Disable(w)
  <2>. DEFINE u == req[w].user
              row == [users[u] EXCEPT !.mfa = FALSE, !.secret = None, !.codes = {}]
  <2>1. u \in User /\ users' = [users EXCEPT ![u] = row]
        /\ stale' = [stale EXCEPT ![u] = stale[u] \cap {}]
    BY <1>11 DEF Disable, Remove, TypeOK
  <2>2. users[u] \in Account
    BY <1>0, <2>1 DEF TablesOK
  <2>3. row \in Account
    BY <2>2 DEF Account
  <2>4. /\ spent' \subseteq BackupCode /\ respent' \subseteq BackupCode
        /\ UNCHANGED <<sessions, pending, owner, confirmed>>
    BY <1>0, <1>11 DEF Disable, Remove, TablesOK
  <2>. HIDE DEF row, u
  <2>. QED
    BY <1>0, <1>11, <2>1, <2>3, <2>4, TablesUpdated
<1>12. \/ UNCHANGED <<users, sessions, pending, owner, confirmed, codeHistory>>
       \/ CreateSession(w) \/ Revoke(w) \/ RevokeAll(w) \/ Begin(w) \/ ReadPending(w)
       \/ Stores(w) \/ Unpend(w) \/ Writes(w) \/ Elevate(w) \/ Disable(w)
  BY Updates DEF Step, Login, Arrive, Validate, LoadPrincipal, VerifyTOTP, ReadCodes,
         Abort
<1>. QED
  BY <1>1, <1>2, <1>3, <1>4, <1>5, <1>6, <1>7, <1>8, <1>9, <1>10, <1>11, <1>12

-----------------------------------------------------------------------------
\* The request that moves is at a place its goroutine can be at.
LEMMA Finished ==
  ASSUME TypeOK, NEW w \in Worker, Done(w)
  PROVE  /\ \E r : WellFormed(r)' /\ req' = [req EXCEPT ![w] = r]
         /\ RequestInv(w)'
<1>1. req'[w] = Idle
  BY DEF TypeOK, Done
<1>2. RequestInv(w)'
  BY <1>1 DEF RequestInv, Idle
<1>. QED
  BY <1>2, IdleWellFormed DEF Done

LEMMA Moved ==
  ASSUME TypeOK, NEW w \in Worker, NEW pc \in PC \ {"idle", "enable"}, Goto(w, pc),
         req[w].user \in User, UNCHANGED sessions \/ Monotone,
         req[w].session # None => /\ req[w].session \in DOMAIN sessions
                                  /\ sessions[req[w].session].user = req[w].user
  PROVE  \E r : WellFormed(r)' /\ req' = [req EXCEPT ![w] = r]
<1>. PICK r : r = [req[w] EXCEPT !.pc = pc]
  OBVIOUS
<1>1. req[w] \in Request
  BY TypeParts DEF RequestsOK
<1>2. r \in Request /\ r.pc = pc /\ r.user = req[w].user /\ r.op = req[w].op
      /\ r.session = req[w].session
  BY <1>1 DEF Request
<1>3. req' = [req EXCEPT ![w] = r]
  BY DEF Goto, TypeOK
<1>4. /\ req[w].session \in DOMAIN sessions => /\ req[w].session \in DOMAIN sessions'
                                               /\ sessions'[req[w].session].user
                                                    = sessions[req[w].session].user
  BY DEF Monotone
<1>5. WellFormed(r)'
  BY <1>2, <1>4 DEF WellFormed
<1>. QED
  BY <1>3, <1>5

LEMMA RequestStep ==
  ASSUME AuthInv, Monotone, NEW w \in Worker, Step(w)
  PROVE  /\ \E r : WellFormed(r)' /\ req' = [req EXCEPT ![w] = r]
         /\ RequestInv(w)'
<1>0. TypeOK /\ RequestInv(w) /\ req[w] \in Request
  BY TypeParts DEF AuthInv, RequestsOK
<1>1. CASE Done(w)
  BY <1>0, <1>1, Finished
<1>2. ASSUME NEW u \in User, Login(w, u)
      PROVE  /\ \E r : WellFormed(r)' /\ req' = [req EXCEPT ![w] = r]
             /\ RequestInv(w)'
  <2>. PICK r : r = [Idle EXCEPT !.pc = IF users[u].mfa THEN "totp" ELSE "create",
                                !.op = "login", !.user = u]
    OBVIOUS
  <2>1. req' = [req EXCEPT ![w] = r]
    BY <1>2 DEF Login
  <2>2. r \in Request /\ r.op = "login" /\ ~r.barred /\ ~r.factor
        /\ r.user = u /\ r.pc \in {"totp", "create"} /\ r.session = None
    BY DEF Request, Idle, PC, Operation
  <2>3. WellFormed(r)'
    BY <2>2 DEF WellFormed
  <2>4. req'[w] = r
    BY <1>0, <2>1 DEF TypeOK
  <2>5. RequestInv(w)'
    BY <2>2, <2>4 DEF RequestInv
  <2>. QED
    BY <2>1, <2>3, <2>5
<1>3. ASSUME NEW s \in DOMAIN sessions, Arrive(w, s)
      PROVE  /\ \E r : WellFormed(r)' /\ req' = [req EXCEPT ![w] = r]
             /\ RequestInv(w)'
  <2>. DEFINE u == sessions[s].user
  <2>. PICK r : r = [Idle EXCEPT !.pc = "arrived", !.user = u, !.session = s,
                                !.barred = ~sessions[s].live \/ ~users[u].active]
    OBVIOUS
  <2>1. req' = [req EXCEPT ![w] = r] /\ UNCHANGED <<users, sessions>>
    BY <1>3 DEF Arrive
  <2>2. u \in User /\ s \in Session /\ s # None
    BY <1>0, AuthAssumption DEF TypeOK
  <2>3. /\ r \in Request /\ r.user = u /\ r.session = s
        /\ ~r.factor /\ r.pc = "arrived"
    BY <2>2 DEF Request, Idle, PC, Operation
  <2>4. r.barred = (~sessions[s].live \/ ~users[u].active)
    BY DEF Idle
  <2>5. req'[w] = r
    BY <1>0, <2>1 DEF TypeOK
  <2>6. WellFormed(r)'
    BY <2>1, <2>2, <2>3 DEF WellFormed
  <2>7. RequestInv(w)'
    BY <2>1, <2>2, <2>3, <2>4, <2>5 DEF RequestInv
  <2>. QED
    BY <2>1, <2>6, <2>7
<1>4. CASE Validate(w) /\ ~Done(w)
  <2>1. /\ req[w].pc = "arrived" /\ sessions[req[w].session].live
        /\ Goto(w, "validated") /\ UNCHANGED <<users, sessions>>
    BY <1>4 DEF Validate
  <2>2. /\ req[w].user \in User
        /\ req[w].session \in DOMAIN sessions
        /\ sessions[req[w].session].user = req[w].user
    BY <1>0, <2>1 DEF TypeOK, RequestInv
  <2>3. req'[w] = [req[w] EXCEPT !.pc = "validated"]
    BY <1>0, <2>1 DEF TypeOK, Goto
  <2>4. RequestInv(w)'
    BY <1>0, <2>1, <2>3 DEF RequestInv, Request, Monotone, ConfirmedBy
  <2>. QED
    BY <1>0, <2>1, <2>2, <2>4, Moved DEF PC
<1>5. CASE LoadPrincipal(w)
  <2>1. /\ req[w].pc = "validated"
        /\ UNCHANGED <<users, sessions>>
        /\ req[w].user \in User
        /\ req[w].session # None /\ req[w].session \in DOMAIN sessions
        /\ sessions[req[w].session].user = req[w].user
    BY <1>0, <1>5 DEF LoadPrincipal, TypeOK, RequestInv
  <2>2. CASE Goto(w, "turnaway")
    <3>1. req'[w] = [req[w] EXCEPT !.pc = "turnaway"]
      BY <1>0, <2>2 DEF TypeOK, Goto
    <3>2. RequestInv(w)'
      BY <1>0, <2>1, <3>1 DEF RequestInv, Request, Monotone, ConfirmedBy
    <3>. QED
      BY <1>0, <2>1, <2>2, <3>2, Moved DEF PC
  <2>3. ASSUME NEW op \in DOMAIN FirstStep, users[req[w].user].active,
               req' = [req EXCEPT ![w].pc = FirstStep[op], ![w].op = op]
        PROVE  /\ \E r : WellFormed(r)' /\ req' = [req EXCEPT ![w] = r]
               /\ RequestInv(w)'
    <3>. PICK r : r = [req[w] EXCEPT !.pc = FirstStep[op], !.op = op]
      OBVIOUS
    <3>1. req' = [req EXCEPT ![w] = r] /\ req'[w] = r
      BY <1>0, <2>3 DEF TypeOK
    <3>2. /\ FirstStep[op] \in {"revoke", "revokeAll", "begin", "pending", "totp"}
          /\ FirstStep[op] = "totp" => op \in {"verify", "disable"}
          /\ op \in Operation
      BY DEF FirstStep, Operation
    <3>3. /\ r \in Request /\ r.pc = FirstStep[op] /\ r.op = op
          /\ r.user = req[w].user /\ r.session = req[w].session
          /\ r.factor = req[w].factor /\ r.barred = req[w].barred
      BY <1>0, <3>2 DEF Request, PC
    <3>4. WellFormed(r)'
      BY <2>1, <3>2, <3>3 DEF WellFormed
    <3>5. ~req[w].barred
      BY <1>0, <2>1, <2>3 DEF RequestInv
    <3>6. RequestInv(w)'
      BY <1>0, <2>1, <3>1, <3>2, <3>3, <3>5 DEF RequestInv, Monotone, ConfirmedBy
    <3>. QED
      BY <3>1, <3>4, <3>6
  <2>. QED
    BY <1>5, <2>2, <2>3 DEF LoadPrincipal, Row
<1>6. CASE ReadPending(w) /\ ~Done(w)
  <2>. PICK e : e = pending[req[w].user]
    OBVIOUS
  <2>. PICK r : r = [req[w] EXCEPT !.pc = "enable", !.enrolment = e]
    OBVIOUS
  <2>1. /\ req[w].pc = "pending" /\ e # None /\ confirmed' = confirmed \cup {e}
        /\ UNCHANGED <<users, sessions, owner>>
    BY <1>6 DEF ReadPending
  <2>2. req' = [req EXCEPT ![w] = r]
    BY <1>0, <1>6 DEF ReadPending, TypeOK
  <2>3. /\ req[w].user \in User
        /\ req[w].session # None
        /\ req[w].session \in DOMAIN sessions
        /\ sessions[req[w].session].user = req[w].user
    BY <1>0, <2>1 DEF TypeOK, RequestInv
  <2>4. e \in Enrolment /\ owner[e] = req[w].user
    BY <1>0, <2>1, <2>3 DEF TypeOK, AuthInv, EnrolmentsOwned
  <2>5. /\ r \in Request /\ r.op = req[w].op /\ r.user = req[w].user
        /\ r.session = req[w].session /\ r.pc = "enable" /\ r.enrolment = e
        /\ r.barred = req[w].barred
    BY <1>0, <2>4 DEF Request, PC
  <2>6. WellFormed(r)'
    BY <2>1, <2>3, <2>4, <2>5 DEF WellFormed
  <2>7. req'[w] = r
    BY <1>0, <2>2 DEF TypeOK
  <2>8. e \in ConfirmedBy(r.user)'
    BY <2>1, <2>4, <2>5 DEF ConfirmedBy
  <2>9. RequestInv(w)'
    BY <1>0, <2>1, <2>3, <2>5, <2>7, <2>8 DEF RequestInv
  <2>. QED
    BY <2>2, <2>6, <2>9
<1>7. CASE Stores(w) /\ Goto(w, "unpend")
  <2>1. req[w].pc = "enable" /\ Goto(w, "unpend") /\ UNCHANGED <<sessions, owner, confirmed>>
    BY <1>7 DEF Stores, Store
  <2>2. /\ req[w].user \in User
        /\ req[w].session # None
        /\ req[w].session \in DOMAIN sessions
        /\ sessions[req[w].session].user = req[w].user
    BY <1>0, <2>1 DEF TypeOK, RequestInv
  <2>3. req'[w] = [req[w] EXCEPT !.pc = "unpend"]
    BY <1>0, <2>1 DEF TypeOK, Goto
  <2>4. RequestInv(w)'
    BY <1>0, <2>1, <2>3 DEF RequestInv, Request, ConfirmedBy
  <2>. QED
    BY <1>0, <2>1, <2>2, <2>4, Moved DEF PC
<1>8. CASE VerifyTOTP(w) /\ ~Done(w)
  <2>1. req[w].pc = "totp" /\ UNCHANGED <<users, sessions, owner, confirmed>>
    BY <1>8 DEF VerifyTOTP
  <2>2. /\ req[w].user \in User
        /\ req[w].op \in {"login", "verify", "disable"}
        /\ req[w].op # "login" => req[w].session # None
        /\ req[w].session # None => /\ req[w].session \in DOMAIN sessions
                                    /\ sessions[req[w].session].user = req[w].user
        /\ ~req[w].barred
    BY <1>0, <2>1 DEF TypeOK, RequestInv
  <2>3. CASE /\ users[req[w].user].mfa
             /\ req' = [req EXCEPT ![w].pc = Granted[req[w].op], ![w].factor = TRUE]
    <3>. PICK r : r = [req[w] EXCEPT !.pc = Granted[req[w].op], !.factor = TRUE]
      OBVIOUS
    <3>1. req' = [req EXCEPT ![w] = r]
      BY <1>0, <2>3 DEF TypeOK
    <3>2. ConfirmedBy(req[w].user) # {}
      BY <2>2, <2>3 DEF AuthInv, NoLockout, ConfirmedBy
    <3>3. /\ Granted[req[w].op] \in {"create", "elevate", "remove"}
          /\ Granted[req[w].op] \in {"elevate", "remove"} => req[w].session # None
      BY <2>2 DEF Granted
    <3>4. /\ r \in Request /\ r.pc = Granted[req[w].op] /\ r.op = req[w].op
          /\ r.user = req[w].user /\ r.session = req[w].session /\ r.factor
          /\ ~r.barred
      BY <1>0, <2>2, <3>3 DEF Request, PC
    <3>5. WellFormed(r)'
      BY <2>1, <2>2, <3>3, <3>4 DEF WellFormed
    <3>6. req'[w] = r
      BY <1>0, <3>1 DEF TypeOK
    <3>7. RequestInv(w)'
      BY <2>1, <3>2, <3>3, <3>4, <3>6 DEF RequestInv, ConfirmedBy
    <3>. QED
      BY <3>1, <3>5, <3>7
  <2>4. ASSUME NEW c \in Code, req' = [req EXCEPT ![w].pc = "codes", ![w].code = c]
        PROVE  /\ \E r : WellFormed(r)' /\ req' = [req EXCEPT ![w] = r]
               /\ RequestInv(w)'
    <3>. PICK r : r = [req[w] EXCEPT !.pc = "codes", !.code = c]
      OBVIOUS
    <3>1. req' = [req EXCEPT ![w] = r] /\ req'[w] = r
      BY <1>0, <2>4 DEF TypeOK
    <3>2. /\ r \in Request /\ r.pc = "codes" /\ r.op = req[w].op
          /\ r.user = req[w].user /\ r.session = req[w].session /\ r.factor = req[w].factor
          /\ ~r.barred
      BY <1>0, <2>2 DEF Request, PC
    <3>3. WellFormed(r)'
      BY <2>1, <2>2, <3>2 DEF WellFormed
    <3>4. RequestInv(w)'
      BY <1>0, <2>1, <2>2, <3>1, <3>2 DEF RequestInv, ConfirmedBy
    <3>. QED
      BY <3>1, <3>3, <3>4
  <2>. QED
    BY <1>8, <2>3, <2>4 DEF VerifyTOTP, Row, Offered
<1>9. CASE ReadCodes(w) /\ ~Done(w)
  <2>. PICK r : r = [req[w] EXCEPT !.pc = "consume", !.list = users[req[w].user].codes]
    OBVIOUS
  <2>1. /\ req[w].pc = "codes" /\ req[w].code \in users[req[w].user].codes
        /\ UNCHANGED <<users, sessions, owner, confirmed>>
    BY <1>9 DEF ReadCodes, Row
  <2>2. req' = [req EXCEPT ![w] = r]
    BY <1>0, <1>9 DEF ReadCodes, Row, TypeOK
  <2>3. /\ req[w].user \in User
        /\ req[w].op \in {"login", "verify", "disable"}
        /\ req[w].op # "login" => req[w].session # None
        /\ req[w].session # None => /\ req[w].session \in DOMAIN sessions
                                    /\ sessions[req[w].session].user = req[w].user
        /\ ~req[w].barred
    BY <1>0, <2>1 DEF TypeOK, RequestInv
  <2>4. users[req[w].user].codes \subseteq BackupCode
    BY <1>0, <2>3 DEF TypeOK
  <2>5. users[req[w].user].codes \subseteq ConfirmedBy(req[w].user) \X (1 .. CodeCount)
    BY <2>3 DEF AuthInv, CodesGenuine
  <2>6. /\ r \in Request /\ r.pc = "consume" /\ r.op = req[w].op
        /\ r.user = req[w].user /\ r.session = req[w].session /\ r.code = req[w].code
        /\ r.list = users[req[w].user].codes /\ r.factor = req[w].factor /\ ~r.barred
    BY <1>0, <2>3, <2>4 DEF Request, PC
  <2>7. WellFormed(r)'
    BY <2>1, <2>3, <2>6 DEF WellFormed
  <2>8. req'[w] = r
    BY <1>0, <2>2 DEF TypeOK
  <2>9. RequestInv(w)'
    BY <1>0, <2>1, <2>3, <2>5, <2>6, <2>8 DEF RequestInv, ConfirmedBy
  <2>. QED
    BY <2>2, <2>7, <2>9
<1>10. CASE ConsumeCode(w)
  <2>. PICK r : r = [req[w] EXCEPT !.pc = Granted[req[w].op], !.factor = TRUE,
                                  !.code = None, !.list = {}]
    OBVIOUS
  <2>1. req[w].pc = "consume" /\ UNCHANGED <<sessions, owner, confirmed>>
    BY <1>10 DEF ConsumeCode, Consume, WriteCodes
  <2>2. req' = [req EXCEPT ![w] = r]
    BY <1>0, <1>10 DEF ConsumeCode, Consume, TypeOK
  <2>3. /\ req[w].user \in User
        /\ req[w].op \in {"login", "verify", "disable"}
        /\ req[w].op # "login" => req[w].session # None
        /\ req[w].session # None => /\ req[w].session \in DOMAIN sessions
                                    /\ sessions[req[w].session].user = req[w].user
        /\ ~req[w].barred
    BY <1>0, <2>1 DEF TypeOK, RequestInv
  <2>4. ConfirmedBy(req[w].user) # {}
    BY <1>0, <2>1 DEF RequestInv
  <2>5. /\ Granted[req[w].op] \in {"create", "elevate", "remove"}
        /\ Granted[req[w].op] \in {"elevate", "remove"} => req[w].session # None
    BY <2>3 DEF Granted
  <2>6. /\ r \in Request /\ r.pc = Granted[req[w].op] /\ r.op = req[w].op
        /\ r.user = req[w].user /\ r.session = req[w].session /\ r.factor
        /\ ~r.barred
    BY <1>0, <2>3, <2>5 DEF Request, PC
  <2>7. WellFormed(r)'
    BY <2>1, <2>3, <2>5, <2>6 DEF WellFormed
  <2>8. req'[w] = r
    BY <1>0, <2>2 DEF TypeOK
  <2>9. RequestInv(w)'
    BY <2>1, <2>4, <2>5, <2>6, <2>8 DEF RequestInv, ConfirmedBy
  <2>. QED
    BY <2>2, <2>7, <2>9
<1>11. \/ Done(w)
       \/ \E u \in User : Login(w, u)
       \/ \E s \in DOMAIN sessions : Arrive(w, s)
       \/ Validate(w) /\ ~Done(w)
       \/ LoadPrincipal(w)
       \/ ReadPending(w) /\ ~Done(w)
       \/ Stores(w) /\ Goto(w, "unpend")
       \/ VerifyTOTP(w) /\ ~Done(w)
       \/ ReadCodes(w) /\ ~Done(w)
       \/ ConsumeCode(w)
  BY DEF Step, CreateSession, Create, Revoke, RevokeAll, Begin, Enable, EnableUnacknowledged,
         Stores, Unpend, ConsumeUnacknowledged, Elevate, Disable, Remove, Abort
<1>. QED
  BY <1>1, <1>2, <1>3, <1>4, <1>5, <1>6, <1>7, <1>8, <1>9, <1>10, <1>11

-----------------------------------------------------------------------------
LEMMA EnrolmentsStep ==
  ASSUME AuthInv, Monotone, NEW w \in Worker, Step(w)
  PROVE  EnrolmentsOwned'
<1>0. TypeOK /\ EnrolmentsOwned
  BY DEF AuthInv
<1>1. CASE UNCHANGED <<pending, owner, confirmed>>
  BY <1>0, <1>1 DEF EnrolmentsOwned
<1>2. CASE Begin(w)
  <2>. PICK e \in Enrolment : /\ owner[e] = None
                              /\ owner' = [owner EXCEPT ![e] = req[w].user]
                              /\ pending' = [pending EXCEPT ![req[w].user] = e]
    BY <1>2 DEF Begin
  <2>1. req[w].user \in User /\ e \notin confirmed
        /\ \A u \in User : pending[u] # e
    BY <1>0, <1>2, AuthAssumption DEF Begin, TypeOK, EnrolmentsOwned
  <2>2. UNCHANGED confirmed
    BY <1>2 DEF Begin
  <2>. QED
    BY <1>0, <2>1, <2>2 DEF EnrolmentsOwned, TypeOK
<1>3. CASE ReadPending(w)
  BY <1>0, <1>3 DEF ReadPending, EnrolmentsOwned, TypeOK
<1>4. CASE Unpend(w)
  BY <1>0, <1>4 DEF Unpend, EnrolmentsOwned, TypeOK
<1>5. \/ UNCHANGED <<pending, owner, confirmed>>
      \/ Begin(w) \/ ReadPending(w) \/ Unpend(w)
  BY Updates DEF Step, Login, Arrive, Validate, LoadPrincipal, VerifyTOTP, ReadCodes,
         Abort, CreateSession, Create, Revoke, RevokeAll, Stores, Store, Writes, WriteCodes,
         Elevate, Disable, Remove
<1>. QED
  BY <1>1, <1>2, <1>3, <1>4, <1>5

\* An enabled secret is one its own user's authenticator has confirmed, and a
\* list that is written back was genuine when it was read.
LEMMA RowsStep ==
  ASSUME AuthInv, Monotone, NEW w \in Worker, Step(w)
  PROVE  NoLockout' /\ CodesGenuine'
<1>0. TypeOK /\ NoLockout /\ CodesGenuine /\ RequestInv(w)
  BY DEF AuthInv
<1>1. CASE UNCHANGED users
  BY <1>0, <1>1, RowsStay
<1>2. \A u \in User : ConfirmedBy(u) \subseteq ConfirmedBy(u)'
  BY DEF Monotone, ConfirmedBy
<1>3. ASSUME NEW u \in User, NEW row \in Account, users' = [users EXCEPT ![u] = row],
             row.mfa => row.secret \in ConfirmedBy(u)',
             row.codes \subseteq ConfirmedBy(u)' \X (1 .. CodeCount)
      PROVE  NoLockout' /\ CodesGenuine'
  <2>. SUFFICES ASSUME NEW v \in User
                PROVE  /\ users'[v].mfa => users'[v].secret \in ConfirmedBy(v)'
                       /\ users'[v].codes \subseteq ConfirmedBy(v)' \X (1 .. CodeCount)
    BY DEF NoLockout, CodesGenuine, ConfirmedBy
  <2>1. users'[u] = row
    BY <1>0, <1>3 DEF TypeOK
  <2>2. v # u => users'[v] = users[v]
    BY <1>0, <1>3 DEF TypeOK
  <2>3. users[v].mfa => users[v].secret \in ConfirmedBy(v)
    BY <1>0 DEF NoLockout, ConfirmedBy
  <2>4. users[v].codes \subseteq ConfirmedBy(v) \X (1 .. CodeCount)
    BY <1>0 DEF CodesGenuine
  <2>. QED
    BY <1>2, <1>3, <2>1, <2>2, <2>3, <2>4
<1>4. CASE Stores(w)
  <2>. PICK u : u = req[w].user
    OBVIOUS
  <2>. PICK row : row = [users[u] EXCEPT !.mfa = TRUE, !.secret = req[w].enrolment,
                                         !.codes = CodesOf(req[w].enrolment)]
    OBVIOUS
  <2>1. u \in User /\ users' = [users EXCEPT ![u] = row] /\ UNCHANGED <<owner, confirmed>>
    BY <1>0, <1>4 DEF Stores, Store, TypeOK
  <2>2. users[u] \in Account
    BY <1>0, <2>1 DEF TypeOK, Account
  <2>3. req[w].enrolment \in ConfirmedBy(u) /\ ConfirmedBy(u) \subseteq Enrolment
    BY <1>0, <1>4 DEF RequestInv, Stores, Store, ConfirmedBy, TypeOK
  <2>4. CodesOf(req[w].enrolment) \subseteq ConfirmedBy(u) \X (1 .. CodeCount)
    BY <2>3 DEF CodesOf
  <2>5. row \in Account
    BY <2>2, <2>3, <2>4 DEF Account, BackupCode
  <2>6. row.mfa => row.secret \in ConfirmedBy(u)
    BY <2>2, <2>3 DEF Account
  <2>7. row.codes \subseteq ConfirmedBy(u) \X (1 .. CodeCount)
    BY <2>2, <2>4 DEF Account
  <2>. QED
    BY <1>2, <1>3, <2>1, <2>5, <2>6, <2>7
<1>5. CASE Writes(w)
  <2>. PICK u : u = req[w].user
    OBVIOUS
  <2>. PICK row : row = [users[u] EXCEPT !.codes = req[w].list \ {req[w].code}]
    OBVIOUS
  <2>1. u \in User /\ users' = [users EXCEPT ![u] = row]
    BY <1>0, <1>5 DEF Writes, WriteCodes, TypeOK
  <2>2. users[u] \in Account
    BY <1>0, <2>1 DEF TypeOK, Account
  <2>3. /\ req[w].list \subseteq ConfirmedBy(u) \X (1 .. CodeCount)
        /\ ConfirmedBy(u) \subseteq Enrolment
    BY <1>0, <1>5 DEF RequestInv, Writes, WriteCodes, ConfirmedBy, TypeOK
  <2>4. row \in Account
    BY <2>2, <2>3 DEF Account, BackupCode
  <2>5. row.mfa => row.secret \in ConfirmedBy(u)
    BY <1>0, <2>1, <2>2 DEF Account, NoLockout, ConfirmedBy
  <2>6. row.codes \subseteq ConfirmedBy(u) \X (1 .. CodeCount)
    BY <2>2, <2>3 DEF Account
  <2>. QED
    BY <1>2, <1>3, <2>1, <2>4, <2>5, <2>6
<1>6. CASE Disable(w)
  <2>. PICK u : u = req[w].user
    OBVIOUS
  <2>. PICK row : row = [users[u] EXCEPT !.mfa = FALSE, !.secret = None, !.codes = {}]
    OBVIOUS
  <2>1. u \in User /\ users' = [users EXCEPT ![u] = row]
    BY <1>0, <1>6 DEF Disable, Remove, TypeOK
  <2>2. users[u] \in Account
    BY <1>0, <2>1 DEF TypeOK, Account
  <2>3. row \in Account /\ ~row.mfa /\ row.codes = {}
    BY <2>2 DEF Account
  <2>. QED
    BY <1>3, <2>1, <2>3
<1>7. UNCHANGED users \/ Stores(w) \/ Writes(w) \/ Disable(w)
  BY Updates DEF Step, Login, Arrive, Validate, LoadPrincipal, VerifyTOTP, ReadCodes,
         Abort, CreateSession, Create, Revoke, RevokeAll, Begin, ReadPending, Unpend,
         Elevate
<1>. QED
  BY <1>1, <1>4, <1>5, <1>6, <1>7

LEMMA SessionsStep ==
  ASSUME AuthInv, Monotone, NEW w \in Worker, Step(w)
  PROVE  SessionsGenuine'
<1>0. TypeOK /\ SessionsGenuine /\ RequestInv(w)
  BY DEF AuthInv
<1>1. CASE \A s \in DOMAIN sessions' : sessions'[s].mfa =>
             s \in DOMAIN sessions /\ sessions[s].mfa
  BY <1>0, <1>1, SessionsStay
<1>2. \A u : ConfirmedBy(u) \subseteq ConfirmedBy(u)'
  BY DEF Monotone, ConfirmedBy
<1>3. CASE CreateSession(w)
  <2>1. req[w].factor => ConfirmedBy(req[w].user) # {}
    BY <1>0 DEF RequestInv
  <2>2. \A s \in DOMAIN sessions' :
          \/ s \in DOMAIN sessions /\ sessions'[s] = sessions[s]
          \/ sessions'[s] = [user |-> req[w].user, mfa |-> req[w].factor, live |-> TRUE]
    BY <1>3 DEF CreateSession, Create
  <2>. QED
    BY <1>0, <1>2, <2>1, <2>2 DEF SessionsGenuine
<1>4. CASE Elevate(w)
  <2>1. /\ ConfirmedBy(req[w].user) # {}
        /\ req[w].session \in DOMAIN sessions
        /\ sessions[req[w].session].user = req[w].user
    BY <1>0, <1>4 DEF Elevate, RequestInv, TypeOK
  <2>2. /\ DOMAIN sessions' = DOMAIN sessions
        /\ \A s \in DOMAIN sessions :
             /\ sessions'[s].user = sessions[s].user
             /\ s # req[w].session => sessions'[s] = sessions[s]
    BY <1>0, <1>4, <2>1 DEF Elevate, TypeOK
  <2>. QED
    BY <1>0, <1>2, <2>1, <2>2 DEF SessionsGenuine
<1>5. CASE UNCHANGED sessions \/ Revoke(w) \/ RevokeAll(w)
  <2>1. \A s \in DOMAIN sessions' : sessions'[s].mfa =>
          s \in DOMAIN sessions /\ sessions[s].mfa
    BY <1>0, <1>5 DEF Revoke, RevokeAll, TypeOK
  <2>. QED
    BY <1>1, <2>1
<1>6. UNCHANGED sessions \/ CreateSession(w) \/ Elevate(w) \/ Revoke(w) \/ RevokeAll(w)
  BY Updates DEF Step, Login, Arrive, Validate, LoadPrincipal, VerifyTOTP, ReadCodes,
         Abort, Begin, ReadPending, Stores, Store, Unpend, Writes, WriteCodes, Disable, Remove
<1>. QED
  BY <1>3, <1>4, <1>5, <1>6

-----------------------------------------------------------------------------
LEMMA StepInv ==
  ASSUME AuthInv, NEW w \in Worker, Step(w)
  PROVE  AuthInv'
<1>1. TypeOK /\ EnrolmentsOwned /\ \A v \in Worker : RequestInv(v)
  BY DEF AuthInv
<1>2. Monotone
  BY <1>1, StepIsMonotone
<1>3. PICK r : WellFormed(r)' /\ req' = [req EXCEPT ![w] = r]
  BY <1>2, RequestStep
<1>4. TypeOK'
  <2>1. RequestsOK'
    BY <1>1, <1>2, <1>3, OneMoves
  <2>2. TablesOK'
    BY <1>1, TablesStep
  <2>. QED
    BY <2>1, <2>2, TypeParts, PTL
<1>5. ASSUME NEW v \in Worker PROVE RequestInv(v)'
  <2>1. CASE v = w
    BY <1>2, <2>1, RequestStep
  <2>2. CASE v # w
    <3>1. req'[v] = req[v]
      BY <1>1, <1>3, <2>2 DEF TypeOK
    <3>. QED
      BY <1>1, <1>2, <3>1, OthersStay
  <2>. QED
    BY <2>1, <2>2
<1>. QED
  BY <1>2, <1>4, <1>5, EnrolmentsStep, RowsStep, SessionsStep DEF AuthInv

\* An account is suspended.
LEMMA SuspendInv ==
  ASSUME AuthInv, NEW u \in User, Suspend(u)
  PROVE  AuthInv'
<1>. PICK row : row = [users[u] EXCEPT !.active = FALSE]
  OBVIOUS
<1>0. TypeOK /\ EnrolmentsOwned /\ NoLockout /\ CodesGenuine /\ SessionsGenuine
  BY DEF AuthInv
<1>1. users[u] \in Account
  BY <1>0 DEF TypeOK, Account
<1>2. /\ row \in Account /\ ~row.active /\ row.mfa = users[u].mfa
      /\ row.secret = users[u].secret /\ row.codes = users[u].codes
  BY <1>1 DEF Account
<1>3. /\ users' = [users EXCEPT ![u] = row]
      /\ UNCHANGED <<sessions, pending, req, owner, confirmed, codeHistory>>
  BY <1>0 DEF Suspend, TypeOK
<1>4. Monotone
  BY <1>0, <1>2, <1>3 DEF Monotone, TypeOK
<1>5. TypeOK'
  <2>1. TablesOK'
    BY <1>0, <1>2, <1>3, TypeParts DEF TablesOK, codeHistory
  <2>2. RequestsOK'
    BY <1>0, <1>3, TypeParts DEF RequestsOK, WellFormed
  <2>. QED
    BY <2>1, <2>2, TypeParts, PTL
<1>6. EnrolmentsOwned' /\ SessionsGenuine'
  BY <1>0, <1>3 DEF EnrolmentsOwned, SessionsGenuine, ConfirmedBy
<1>7. NoLockout' /\ CodesGenuine'
  <2>1. \A v \in User : /\ users'[v].mfa = users[v].mfa
                        /\ users'[v].secret = users[v].secret
                        /\ users'[v].codes = users[v].codes
    BY <1>0, <1>2, <1>3 DEF TypeOK
  <2>. QED
    BY <1>0, <1>3, <2>1 DEF NoLockout, CodesGenuine, ConfirmedBy
<1>8. \A v \in Worker : RequestInv(v)'
  <2>. TAKE v \in Worker
  <2>. QED
    BY <1>0, <1>3, <1>4, OthersStay DEF AuthInv
<1>. QED
  BY <1>5, <1>6, <1>7, <1>8 DEF AuthInv

\* A session expires.
LEMMA ExpireInv ==
  ASSUME AuthInv, NEW s \in DOMAIN sessions, Expire(s)
  PROVE  AuthInv'
<1>0. TypeOK /\ EnrolmentsOwned /\ NoLockout /\ CodesGenuine /\ SessionsGenuine
  BY DEF AuthInv
<1>1. /\ sessions' = [sessions EXCEPT ![s].live = FALSE]
      /\ UNCHANGED <<users, pending, req, owner, confirmed, codeHistory>>
  BY DEF Expire
<1>2. Monotone
  BY <1>0, <1>1 DEF Monotone, TypeOK
<1>3. TypeOK'
  <2>1. TablesOK'
    BY <1>0, <1>1, TypeParts DEF TablesOK, codeHistory
  <2>2. RequestsOK'
    BY <1>0, <1>1, TypeParts DEF RequestsOK, WellFormed, TablesOK
  <2>. QED
    BY <2>1, <2>2, TypeParts, PTL
<1>4. EnrolmentsOwned' /\ NoLockout' /\ CodesGenuine'
  BY <1>0, <1>1 DEF EnrolmentsOwned, NoLockout, CodesGenuine, ConfirmedBy
<1>5. SessionsGenuine'
  <2>1. \A x \in DOMAIN sessions' : sessions'[x].mfa =>
          x \in DOMAIN sessions /\ sessions[x].mfa
    BY <1>0, <1>1 DEF TypeOK
  <2>. QED
    BY <1>0, <1>2, <2>1, SessionsStay
<1>6. \A v \in Worker : RequestInv(v)'
  <2>. TAKE v \in Worker
  <2>. QED
    BY <1>0, <1>1, <1>2, OthersStay DEF AuthInv
<1>. QED
  BY <1>3, <1>4, <1>5, <1>6 DEF AuthInv

\* The control plane restarts.
LEMMA RestartInv ==
  ASSUME AuthInv, Restart
  PROVE  AuthInv'
<1>0. TypeOK /\ EnrolmentsOwned /\ NoLockout /\ CodesGenuine /\ SessionsGenuine
  BY DEF AuthInv
<1>1. /\ pending' = [u \in User |-> None] /\ req' = [w \in Worker |-> Idle]
      /\ UNCHANGED <<users, sessions, owner, confirmed, codeHistory>>
  BY DEF Restart
<1>2. TypeOK'
  <2>1. TablesOK'
    BY <1>0, <1>1, TypeParts DEF TablesOK, codeHistory
  <2>2. RequestsOK'
    BY <1>1, IdleWellFormed DEF RequestsOK, WellFormed
  <2>. QED
    BY <2>1, <2>2, TypeParts, PTL
<1>3. EnrolmentsOwned' /\ NoLockout' /\ CodesGenuine' /\ SessionsGenuine'
  BY <1>0, <1>1 DEF EnrolmentsOwned, NoLockout, CodesGenuine, SessionsGenuine, ConfirmedBy
<1>4. \A w \in Worker : RequestInv(w)'
  BY <1>1 DEF RequestInv, Idle
<1>. QED
  BY <1>2, <1>3, <1>4 DEF AuthInv

LEMMA NextInv == AuthInv /\ [Next]_vars => AuthInv'
<1>. SUFFICES ASSUME AuthInv, [Next]_vars PROVE AuthInv'
  OBVIOUS
<1>1. CASE UNCHANGED vars
  BY <1>1 DEF vars, codeHistory, AuthInv, TypeOK, EnrolmentsOwned, NoLockout, CodesGenuine,
              SessionsGenuine, ConfirmedBy, RequestInv
<1>2. ASSUME NEW w \in Worker, Step(w) PROVE AuthInv'
  BY <1>2, StepInv
<1>3. ASSUME NEW u \in User, Suspend(u) PROVE AuthInv'
  BY <1>3, SuspendInv
<1>4. ASSUME NEW s \in DOMAIN sessions, Expire(s) PROVE AuthInv'
  BY <1>4, ExpireInv
<1>5. CASE Restart
  BY <1>5, RestartInv
<1>6. Next => \/ \E w \in Worker : Step(w)
              \/ \E u \in User : Suspend(u)
              \/ \E s \in DOMAIN sessions : Expire(s)
              \/ Restart
  BY DEF Next, Step
<1>. QED
  BY <1>1, <1>2, <1>3, <1>4, <1>5, <1>6

-----------------------------------------------------------------------------
\* The inductive invariant holds whatever requests overlap.
THEOREM Invariance == Spec => []AuthInv
BY InitInv, NextInv, PTL DEF Spec

\* Every request of the handlers in auth_handler.go and totp_handler.go keeps
\* the tables and its own goroutine within their types.
THEOREM TypeCorrect == Spec => []TypeOK
<1>1. AuthInv => TypeOK
  BY DEF AuthInv
<1>. QED
  BY <1>1, Invariance, PTL

\* Authenticate (middleware/auth.go) serves no request that arrives with a dead
\* session or for a suspended account.
THEOREM ServesNobodyBarred == Spec => []BarredNeverServed
<1>1. AuthInv => BarredNeverServed
  BY DEF AuthInv, RequestInv, BarredNeverServed
<1>. QED
  BY <1>1, Invariance, PTL

\* However enrolments overlap, ConfirmEnrollment (totp.go) never turns on a
\* secret that the account's own authenticator has not confirmed.
THEOREM LocksNobodyOut == Spec => []NoLockout
<1>1. AuthInv => NoLockout
  BY DEF AuthInv
<1>. QED
  BY <1>1, Invariance, PTL

\* The lost updates of VerifyBackupCode (totp.go) may bring a code back, but
\* never one of another account or of an enrolment that was not completed.
THEOREM KeepsGenuineCodes == Spec => []CodesGenuine
<1>1. AuthInv => CodesGenuine
  BY DEF AuthInv
<1>. QED
  BY <1>1, Invariance, PTL

\* Login and VerifyMFA mark a session verified only for an account that has
\* completed an enrolment.
THEOREM VerifiesGenuinely == Spec => []FactorsGenuine
<1>1. AuthInv => FactorsGenuine
  BY DEF AuthInv, SessionsGenuine, RequestInv, FactorsGenuine
<1>. QED
  BY <1>1, Invariance, PTL

-----------------------------------------------------------------------------
\* The books of codes: no code in a row has been accepted since it was given, and
\* what is in a row is from its secret or put back by a stale list.
CodesInv == RowConsistent /\ CodesUsedOnce

\* One row is replaced.
LEMMA RowReplaced ==
  ASSUME TypeOK, RowConsistent, NEW u \in User, NEW row \in Account, NEW st,
         users' = [users EXCEPT ![u] = row], stale' = [stale EXCEPT ![u] = st],
         row.codes \cap spent' = {},
         row.mfa => row.codes \ st \subseteq CodesOf(row.secret),
         ~row.mfa => row.secret = None /\ row.codes \subseteq st,
         \A v \in User \ {u} : users[v].codes \cap spent' = {}
  PROVE  RowConsistent'
<1>. SUFFICES ASSUME NEW v \in User
              PROVE  /\ users'[v].codes \cap spent' = {}
                     /\ users'[v].mfa =>
                          users'[v].codes \ stale'[v] \subseteq CodesOf(users'[v].secret)
                     /\ ~users'[v].mfa =>
                          users'[v].secret = None /\ users'[v].codes \ stale'[v] = {}
  BY DEF RowConsistent, CodesOf
<1>1. CASE v = u
  <2>1. users'[v] = row /\ stale'[v] = st
    BY <1>1 DEF TypeOK
  <2>. QED
    BY <2>1
<1>2. CASE v # u
  <2>1. users'[v] = users[v] /\ stale'[v] = stale[v] /\ users[v] \in Account
    BY <1>2 DEF TypeOK, Account
  <2>. QED
    BY <1>2, <2>1 DEF RowConsistent, Account
<1>. QED
  BY <1>1, <1>2

\* Confirming gives the codes of its enrolment, all of them.
LEMMA StoresCodes ==
  ASSUME AuthInv, CodesInv, NEW w \in Worker, Stores(w)
  PROVE  CodesInv'
<1>. DEFINE u == req[w].user
            e == req[w].enrolment
            row == [users[u] EXCEPT !.mfa = TRUE, !.secret = e, !.codes = CodesOf(e)]
<1>1. /\ TypeOK /\ RowConsistent /\ CodesUsedOnce /\ u \in User /\ e \in Enrolment
      /\ users' = [users EXCEPT ![u] = row] /\ stale' = [stale EXCEPT ![u] = {}]
      /\ spent' = spent \ CodesOf(e) /\ respent' = respent
  BY DEF AuthInv, CodesInv, Stores, Store, TypeOK
<1>2. users[u] \in Account /\ CodesOf(e) \subseteq BackupCode
  BY <1>1 DEF TypeOK, Account, CodesOf, BackupCode
<1>3. row \in Account /\ row.mfa /\ row.secret = e /\ row.codes = CodesOf(e)
  BY <1>1, <1>2 DEF Account
<1>4. \A v \in User : users[v].codes \cap spent' = {}
  BY <1>1 DEF RowConsistent
<1>5. row.codes \cap spent' = {} /\ row.codes \ {} \subseteq CodesOf(row.secret)
  BY <1>1, <1>3
<1>. HIDE DEF row, u, e
<1>6. RowConsistent'
  BY <1>1, <1>3, <1>4, <1>5, RowReplaced
<1>. QED
  BY <1>1, <1>6 DEF CodesInv, CodesUsedOnce

\* Writing a list back takes the accepted code out of the row, and whatever the
\* list puts back counts as given.
LEMMA WritesCodes ==
  ASSUME AuthInv, CodesInv, NEW w \in Worker, Writes(w)
  PROVE  CodesInv'
<1>. DEFINE u == req[w].user
            c == req[w].code
            L == req[w].list
            row == [users[u] EXCEPT !.codes = L \ {c}]
            st == (stale[u] \cup Gone(w)) \cap (L \ {c})
<1>1. /\ TypeOK /\ RowConsistent /\ CodesUsedOnce /\ RequestInv(w) /\ CodesGenuine
      /\ req[w].pc = "consume" /\ u \in User
      /\ users' = [users EXCEPT ![u] = row] /\ stale' = [stale EXCEPT ![u] = st]
  BY DEF AuthInv, CodesInv, Writes, WriteCodes, TypeOK
<1>2. /\ c \in L /\ L \subseteq ConfirmedBy(u) \X (1 .. CodeCount) /\ L \subseteq BackupCode
      /\ users[u] \in Account
  BY <1>1 DEF RequestInv, TypeOK, Account
<1>3. /\ row \in Account /\ row.mfa = users[u].mfa /\ row.secret = users[u].secret
      /\ row.codes = L \ {c}
  BY <1>2 DEF Account
<1>4. /\ spent' \subseteq (spent \ Gone(w)) \cup {c}
      /\ respent' \subseteq respent \cup ({c} \cap (spent \ Gone(w)))
      /\ Gone(w) = L \ users[u].codes
  BY DEF Writes, Gone, Row
<1>5. users[u].codes \cap spent = {}
  BY <1>1 DEF RowConsistent
<1>6. ASSUME NEW v \in User \ {u} PROVE users[v].codes \cap spent' = {}
  <2>1. c \notin users[v].codes
    <3>1. c[1] \in ConfirmedBy(u)
      BY <1>2
    <3>2. \A x \in users[v].codes : x[1] \in ConfirmedBy(v)
      BY <1>1 DEF CodesGenuine
    <3>. QED
      BY <3>1, <3>2 DEF ConfirmedBy
  <2>2. users[v].codes \cap spent = {}
    BY <1>1 DEF RowConsistent
  <2>. QED
    BY <1>4, <2>1, <2>2
<1>7. row.codes \cap spent' = {}
  BY <1>3, <1>4, <1>5
<1>8. /\ row.mfa => row.codes \ st \subseteq CodesOf(row.secret)
      /\ ~row.mfa => row.secret = None /\ row.codes \subseteq st
  <2>1. row.codes \ st \subseteq users[u].codes \ stale[u]
    BY <1>3, <1>4
  <2>2. /\ users[u].mfa => users[u].codes \ stale[u] \subseteq CodesOf(users[u].secret)
        /\ ~users[u].mfa => users[u].secret = None /\ users[u].codes \ stale[u] = {}
    BY <1>1 DEF RowConsistent
  <2>. QED
    BY <1>3, <2>1, <2>2
<1>. HIDE DEF row, st
<1>9. RowConsistent'
  BY <1>1, <1>3, <1>6, <1>7, <1>8, RowReplaced
<1>10. respent' = {}
  BY <1>1, <1>2, <1>4, <1>5 DEF CodesUsedOnce
<1>. QED
  BY <1>9, <1>10 DEF CodesInv, CodesUsedOnce

LEMMA DisablesCodes ==
  ASSUME AuthInv, CodesInv, NEW w \in Worker, Disable(w)
  PROVE  CodesInv'
<1>. DEFINE u == req[w].user
            row == [users[u] EXCEPT !.mfa = FALSE, !.secret = None, !.codes = {}]
<1>1. /\ TypeOK /\ RowConsistent /\ CodesUsedOnce /\ u \in User
      /\ users' = [users EXCEPT ![u] = row]
      /\ stale' = [stale EXCEPT ![u] = stale[u] \cap {}]
      /\ spent' = spent /\ respent' = respent
  BY DEF AuthInv, CodesInv, Disable, Remove, TypeOK
<1>2. users[u] \in Account
  BY <1>1 DEF TypeOK, Account
<1>3. row \in Account /\ ~row.mfa /\ row.secret = None /\ row.codes = {}
  BY <1>2 DEF Account
<1>4. \A v \in User : users[v].codes \cap spent' = {}
  BY <1>1 DEF RowConsistent
<1>. HIDE DEF row
<1>5. RowConsistent'
  BY <1>1, <1>3, <1>4, RowReplaced
<1>. QED
  BY <1>1, <1>5 DEF CodesInv, CodesUsedOnce

LEMMA NextCodes == AuthInv /\ CodesInv /\ [Next]_vars => CodesInv'
<1>. SUFFICES ASSUME AuthInv, CodesInv, [Next]_vars PROVE CodesInv'
  OBVIOUS
<1>1. CASE UNCHANGED <<users, stale, spent, respent>>
  BY <1>1 DEF CodesInv, RowConsistent, CodesUsedOnce, CodesOf
<1>2. ASSUME NEW w \in Worker, Stores(w) \/ Writes(w) \/ Disable(w) PROVE CodesInv'
  BY <1>2, StoresCodes, WritesCodes, DisablesCodes
<1>3. ASSUME NEW u \in User, Suspend(u) PROVE CodesInv'
  <2>1. \A v \in User : /\ users'[v].mfa = users[v].mfa /\ users'[v].secret = users[v].secret
                        /\ users'[v].codes = users[v].codes
    BY <1>3 DEF AuthInv, TypeOK, Suspend
  <2>2. UNCHANGED <<stale, spent, respent>>
    BY <1>3 DEF Suspend, codeHistory
  <2>. QED
    BY <2>1, <2>2 DEF CodesInv, RowConsistent, CodesUsedOnce, CodesOf
<1>4. ASSUME NEW w \in Worker, Step(w)
      PROVE  UNCHANGED <<users, stale, spent, respent>> \/ Stores(w) \/ Writes(w) \/ Disable(w)
  BY <1>4, Updates DEF Step, Login, Arrive, CreateSession, Create, Validate, LoadPrincipal,
     Revoke, RevokeAll, Begin, ReadPending, Unpend, VerifyTOTP, ReadCodes, Elevate, Abort,
     codeHistory
<1>5. UNCHANGED vars \/ Restart \/ (\E s \in DOMAIN sessions : Expire(s))
        => UNCHANGED <<users, stale, spent, respent>>
  BY DEF vars, codeHistory, Restart, Expire
<1>. QED
  BY <1>1, <1>2, <1>3, <1>4, <1>5 DEF Next, Step

LEMMA CodesInvariance == Spec => []CodesInv
<1>1. Init => CodesInv
  BY DEF Init, CodesInv, RowConsistent, CodesUsedOnce, NoRow
<1>. QED
  BY <1>1, NextCodes, Invariance, PTL DEF Spec

\* However requests overlap, fail or lose the answer to their UPDATE,
\* VerifyBackupCode (totp.go) accepts no code more often than a confirmation or a
\* stale list has put it into the row.
THEOREM UsesCodesOnce == Spec => []CodesUsedOnce
<1>1. CodesInv => CodesUsedOnce
  BY DEF CodesInv
<1>. QED
  BY <1>1, CodesInvariance, PTL

\* The columns of a users row agree, up to codes that a stale list put back
\* (totp.go).
THEOREM RowsAreConsistent == Spec => []RowConsistent
<1>1. CodesInv => RowConsistent
  BY DEF CodesInv
<1>. QED
  BY <1>1, CodesInvariance, PTL
=============================================================================
