--------------------------- MODULE DnsZoneProofs ---------------------------
(***************************************************************************)
(* Theorems about DnsZone, for any number of requests, records and keys.   *)
(***************************************************************************)
EXTENDS DnsZone, TLAPS

USE DEF HandlerPC, OpPC, HandlerState

LEMMA InitTypeOK == Init => TypeOK
<1>. SUFFICES ASSUME Init PROVE TypeOK
  OBVIOUS
<1>1. Fresh \in HandlerState
  BY DEF Fresh
<1>2. handler \in [Request -> HandlerState] /\ op \in [Request -> OpPC]
  BY <1>1 DEF Init
<1>3. DOMAIN served = {}
  BY DEF Init
<1>. QED
  BY <1>2, <1>3 DEF Init, TypeOK

\* One REPLACE per record leaves the keys PowerDNS had, adds those of the list,
\* and puts a record of the list under each of these.
LEMMA ReplaceType ==
  ASSUME TypeOK, DnsAssumption,
         NEW list \in SUBSET RecordRequest, NEW c \in Choices(list)
  PROVE  /\ DOMAIN Replace(c) = DOMAIN served \cup Keys(list)
         /\ \A k \in DOMAIN Replace(c) :
              \/ k \in Keys(list) /\ Replace(c)[k] \in list /\ KeyOf[Replace(c)[k]] = k
              \/ k \in DOMAIN served /\ Replace(c)[k] = served[k]
<1>1. c \in [Keys(list) -> list] /\ \A k \in Keys(list) : KeyOf[c[k]] = k
  BY DEF Choices
<1>2. DOMAIN c = Keys(list)
  BY <1>1
<1>. QED
  BY <1>1, <1>2 DEF Replace

LEMMA NextTypeOK == TypeOK /\ [Next]_vars => TypeOK'
<1>. SUFFICES ASSUME TypeOK, [Next]_vars PROVE TypeOK'
  OBVIOUS
<1>. USE DnsAssumption DEF TypeOK, Request
<1>1. ASSUME NEW r \in ZoneRequest, CreateZone(r) PROVE TypeOK'
  BY <1>1 DEF CreateZone, Goto, Send
<1>2. ASSUME NEW r \in RecordRequest, CreateRecord(r) PROVE TypeOK'
  BY <1>2 DEF CreateRecord, Goto
<1>3. ASSUME NEW r \in RecordRequest, IncrementSerial(r) PROVE TypeOK'
  <2>1. handler' \in [Request -> HandlerState]
    <3>1. PICK h \in HandlerState : h = handler[r]
      OBVIOUS
    <3>2. PICK n \in Nat : n = serial + 1
      OBVIOUS
    <3>3. [h EXCEPT !.pc = "numbered", !.number = n] \in HandlerState
      OBVIOUS
    <3>. QED
      BY <1>3, <3>1, <3>2, <3>3 DEF IncrementSerial
  <2>. QED
    BY <1>3, <2>1 DEF IncrementSerial
<1>4. ASSUME NEW r \in RecordRequest, ListRecords(r) \/ ListFails(r) PROVE TypeOK'
  <2>1. PICK list \in SUBSET records, complete \in BOOLEAN : SendList(r, list, complete)
    BY <1>4 DEF ListRecords, ListFails
  <2>2. PICK h \in HandlerState : h = handler[r]
    OBVIOUS
  <2>3. [h EXCEPT !.pc = "waiting", !.list = list, !.listed = complete] \in HandlerState
    OBVIOUS
  <2>4. handler' \in [Request -> HandlerState]
    BY <2>1, <2>2, <2>3 DEF SendList
  <2>. QED
    BY <2>1, <2>4 DEF SendList, Send
<1>5. ASSUME NEW r \in Request, StopAwaiting(r) PROVE op' \in [Request -> OpPC]
  BY <1>5 DEF StopAwaiting
<1>6. ASSUME NEW r \in Request, Answer(r) \/ GiveUp(r) PROVE TypeOK'
  <2>1. op' \in [Request -> OpPC]
    BY <1>5, <1>6 DEF Answer, GiveUp, Leave
  <2>. QED
    BY <1>6, <2>1 DEF Answer, GiveUp, Leave, Goto
<1>7. ASSUME Post PROVE /\ hosted' \in BOOLEAN /\ DOMAIN served' \subseteq Key
                        /\ \A k \in DOMAIN served' : served'[k] \in RecordRequest \cup {Nameservers}
  BY <1>7 DEF Post
<1>8. ASSUME NEW r \in Request, Patch(r)
      PROVE  /\ DOMAIN served' \subseteq Key
             /\ \A k \in DOMAIN served' : served'[k] \in RecordRequest \cup {Nameservers}
  <2>1. PICK list \in SUBSET RecordRequest : list = handler[r].list
    OBVIOUS
  <2>2. PICK c \in Choices(list) : served' = Replace(c)
    BY <1>8, <2>1 DEF Patch
  <2>3. Keys(list) \subseteq Key
    BY DEF Keys, DnsAssumption
  <2>4. /\ DOMAIN Replace(c) \subseteq Key
        /\ \A k \in DOMAIN Replace(c) : Replace(c)[k] \in RecordRequest \cup {Nameservers}
    BY <2>3, ReplaceType
  <2>. QED
    BY <2>2, <2>4
<1>9. ASSUME NEW r \in Request, PostZone(r) \/ CopyPosts(r) PROVE TypeOK'
  <2>1. op' \in [Request -> OpPC] /\ Post
    BY <1>9 DEF PostZone, CopyPosts
  <2>2. UNCHANGED <<zones, records, serial, handler>>
    BY <2>1 DEF Post
  <2>. QED
    BY <1>7, <2>1, <2>2
<1>10. ASSUME NEW r \in Request, PatchRecords(r) \/ CopyPatches(r) PROVE TypeOK'
  <2>1. op' \in [Request -> OpPC] /\ Patch(r)
    BY <1>10 DEF PatchRecords, CopyPatches
  <2>2. UNCHANGED <<zones, records, serial, handler, hosted>>
    BY <2>1 DEF Patch
  <2>. QED
    BY <1>8, <2>1, <2>2
<1>11. ASSUME NEW r \in Request, OpFails(r) PROVE TypeOK'
  BY <1>11 DEF OpFails
<1>12. CASE UNCHANGED vars
  BY <1>12 DEF vars
<1>. QED
  BY <1>1, <1>2, <1>3, <1>4, <1>6, <1>9, <1>10, <1>11, <1>12 DEF Next

\* The tables, the handlers, the operations and the contents of PowerDNS keep
\* their types (dns_handler.go, dns.go).
THEOREM TypeCorrect == Spec => []TypeOK
BY InitTypeOK, NextTypeOK, PTL DEF Spec
-----------------------------------------------------------------------------
\* The inductive invariant: how far a handler is, what its operation may have
\* done by then, and what that says of the tables and of PowerDNS.
HandlerFollows(r) ==
  /\ handler[r].pc \in {"none", "inserted", "numbered"} => handler[r].list = {}
  /\ handler[r].pc \in {"inserted", "numbered"} => r \in records
  /\ handler[r].list \subseteq records
  /\ handler[r].number <= serial
  /\ handler[r].number > 0 => r \in records
  /\ (/\ r \in RecordRequest
      /\ handler[r].pc \in {"waiting", "answered"}
      /\ handler[r].listed) => handler[r].list # {}

\* PowerDNS has a record under each key of the list.
Published(list) ==
  \A x \in list : KeyOf[x] \in DOMAIN served /\ served[KeyOf[x]] # Nameservers

OpFollows(r) ==
  /\ handler[r].pc \in {"none", "inserted", "numbered"} => op[r] = "none"
  /\ op[r] # "none" => zones # {}
  /\ op[r] = "patch" => hosted
  /\ (op[r] = "succeeded" \/ handler[r].pc = "answered") => Published(handler[r].list)

RecordsInZone == records # {} => zones # {}

Inductive ==
  /\ TypeOK
  /\ \A r \in Request : HandlerFollows(r) /\ OpFollows(r)
  /\ RecordsInZone
  /\ SerialCoversRecords
  /\ ServedIsRecorded

LEMMA InitInductive == Init => Inductive
<1>. SUFFICES ASSUME Init PROVE Inductive
  OBVIOUS
<1>1. TypeOK
  BY InitTypeOK
<1>2. \A r \in Request : handler[r] = Fresh /\ op[r] = "none"
  BY DEF Init
<1>3. \A r \in Request : HandlerFollows(r) /\ OpFollows(r)
  BY <1>2 DEF Init, HandlerFollows, OpFollows, Published, Fresh
<1>4. RecordsInZone /\ ServedIsRecorded
  BY DEF Init, RecordsInZone, ServedIsRecorded
<1>5. SerialCoversRecords
  BY <1>2 DEF SerialCoversRecords, Listed, Fresh, Request
<1>. QED
  BY <1>1, <1>3, <1>4, <1>5 DEF Inductive

\* A step of the control plane at request r that leaves its list, its number
\* and what PowerDNS serves alone.
LEMMA ControlStep ==
  ASSUME Inductive, TypeOK', NEW r \in Request,
         NEW pc \in {"waiting", "answered", "failed"},
         handler' = [handler EXCEPT ![r].pc = pc],
         handler[r].pc = "waiting" \/ pc = "failed" \/ r \in ZoneRequest,
         UNCHANGED <<records, serial, hosted, served>>
  PROVE  /\ \A q \in Request : HandlerFollows(q)'
         /\ SerialCoversRecords'
<1>. USE DEF Request
<1>1. \A q \in Request : /\ handler'[q].list = handler[q].list
                         /\ handler'[q].number = handler[q].number
                         /\ handler'[q].listed = handler[q].listed
                         /\ q # r => handler'[q].pc = handler[q].pc
                         /\ handler'[r].pc = pc
  BY DEF Inductive, TypeOK
<1>2. \A q \in Request : HandlerFollows(q)'
  <2>. SUFFICES ASSUME NEW q \in Request PROVE HandlerFollows(q)'
    OBVIOUS
  <2>. QED
    BY <1>1, DnsAssumption DEF Inductive, HandlerFollows
<1>3. SerialCoversRecords'
  <2>. SUFFICES ASSUME NEW q \in RecordRequest, NEW x \in RecordRequest,
                       Listed(q)', Numbered(x)', handler'[x].number <= handler'[q].number
                PROVE  x \in handler'[q].list
    BY DEF SerialCoversRecords
  <2>1. Listed(q) /\ Numbered(x) /\ handler[x].number <= handler[q].number
    BY <1>1 DEF Inductive, HandlerFollows, Listed, Numbered, TypeOK
  <2>. QED
    BY <1>1, <2>1 DEF Inductive, SerialCoversRecords
<1>. QED
  BY <1>2, <1>3

\* Nothing is said of PowerDNS by a step that leaves it and the tables alone.
LEMMA QuietStep ==
  ASSUME Inductive, UNCHANGED <<zones, records, hosted, served>>
  PROVE  RecordsInZone' /\ ServedIsRecorded' /\ \A list : Published(list)' = Published(list)
BY DEF Inductive, RecordsInZone, ServedIsRecorded, Published

\* POST gives a zone that PowerDNS did not have its nameservers, and publishes
\* or unpublishes no record.
LEMMA PostStep ==
  ASSUME Inductive, TypeOK', Post, zones # {}
  PROVE  /\ hosted' /\ RecordsInZone' /\ ServedIsRecorded'
         /\ \A q \in Request : HandlerFollows(q)'
         /\ SerialCoversRecords'
         /\ \A list : Published(list) => Published(list)'
<1>1. hosted' /\ UNCHANGED <<zones, records, serial, handler>>
  BY DEF Post
<1>2. RecordsInZone' /\ SerialCoversRecords' /\ \A q \in Request : HandlerFollows(q)'
  BY <1>1 DEF Inductive, RecordsInZone, SerialCoversRecords, Listed, Numbered, HandlerFollows
<1>3. CASE hosted
  <2>1. served' = served
    BY <1>3 DEF Post
  <2>. QED
    BY <1>1, <1>2, <1>3, <2>1 DEF Inductive, ServedIsRecorded, Published
<1>4. CASE ~hosted
  <2>1. served' = [k \in {Apex} |-> Nameservers]
    BY <1>4 DEF Post
  <2>2. DOMAIN served = {}
    BY <1>4 DEF Inductive, ServedIsRecorded
  <2>3. ServedIsRecorded'
    BY <1>1, <2>1 DEF ServedIsRecorded
  <2>4. ASSUME NEW list, Published(list) PROVE Published(list)'
    BY <2>2, <2>4 DEF Published
  <2>. QED
    BY <1>1, <1>2, <2>3, <2>4
<1>. QED
  BY <1>3, <1>4

\* PATCH publishes the list and takes nothing back.
LEMMA PatchStep ==
  ASSUME Inductive, TypeOK', NEW r \in Request, Patch(r), op[r] # "none", hosted
  PROVE  /\ RecordsInZone' /\ ServedIsRecorded'
         /\ \A q \in Request : HandlerFollows(q)'
         /\ SerialCoversRecords'
         /\ \A list : Published(list) => Published(list)'
         /\ Published(handler[r].list)'
<1>. USE DnsAssumption DEF Request
<1>0. TypeOK
  BY DEF Inductive
<1>1. PICK list \in SUBSET RecordRequest : list = handler[r].list
  BY <1>0 DEF TypeOK
<1>2. PICK c \in Choices(list) : served' = Replace(c)
  BY <1>1 DEF Patch
<1>3. UNCHANGED <<zones, records, serial, handler, hosted>>
  BY DEF Patch
<1>4. /\ DOMAIN served' = DOMAIN served \cup Keys(list)
      /\ \A k \in DOMAIN served' :
           \/ k \in Keys(list) /\ served'[k] \in list /\ KeyOf[served'[k]] = k
           \/ k \in DOMAIN served /\ k \notin Keys(list) /\ served'[k] = served[k]
  <2>1. c \in [Keys(list) -> list] /\ \A k \in Keys(list) : KeyOf[c[k]] = k
    BY <1>2 DEF Choices
  <2>2. DOMAIN c = Keys(list)
    BY <2>1
  <2>3. served' = [k \in DOMAIN served \cup DOMAIN c |->
                     IF k \in DOMAIN c THEN c[k] ELSE served[k]]
    BY <1>2 DEF Replace
  <2>. QED
    BY <2>1, <2>2, <2>3
<1>5. list \subseteq records /\ list \subseteq RecordRequest
  BY <1>1 DEF Inductive, HandlerFollows
<1>6. RecordsInZone' /\ SerialCoversRecords' /\ \A q \in Request : HandlerFollows(q)'
  BY <1>3 DEF Inductive, RecordsInZone, SerialCoversRecords, Listed, Numbered, HandlerFollows
<1>7. ServedIsRecorded'
  <2>1. hosted /\ zones # {}
    BY DEF Inductive, ServedIsRecorded
  <2>2. \A k \in DOMAIN served' : \/ served'[k] \in records /\ KeyOf[served'[k]] = k
                                  \/ served'[k] = Nameservers /\ k = Apex
    BY <1>4, <1>5 DEF Inductive, ServedIsRecorded
  <2>. QED
    BY <1>3, <2>1, <2>2 DEF ServedIsRecorded
<1>8. \A k \in Keys(list) : k \in DOMAIN served' /\ served'[k] # Nameservers
  BY <1>4, <1>5
<1>9. ASSUME NEW l, Published(l) PROVE Published(l)'
  <2>. SUFFICES ASSUME NEW x \in l PROVE KeyOf[x] \in DOMAIN served' /\ served'[KeyOf[x]] # Nameservers
    BY DEF Published
  <2>1. KeyOf[x] \in DOMAIN served /\ served[KeyOf[x]] # Nameservers
    BY <1>9 DEF Published
  <2>. QED
    BY <1>4, <1>8, <2>1
<1>10. Published(list)'
  BY <1>8 DEF Published, Keys
<1>11. Published(handler[r].list)'
  BY <1>1, <1>3, <1>10 DEF Published
<1>. QED
  BY <1>6, <1>7, <1>9, <1>11

LEMMA NextInductive == Inductive /\ [Next]_vars => Inductive'
<1>. SUFFICES ASSUME Inductive, [Next]_vars PROVE Inductive'
  OBVIOUS
<1>0. TypeOK /\ TypeOK'
  BY NextTypeOK DEF Inductive
<1>. USE DnsAssumption DEF Request
<1>1. ASSUME NEW r \in ZoneRequest, CreateZone(r) PROVE Inductive'
  <2>1. PICK pc \in {"waiting", "failed"} : handler' = [handler EXCEPT ![r].pc = pc]
    BY <1>1 DEF CreateZone, Goto
  <2>2. zones' # {} /\ UNCHANGED <<records, serial, hosted, served>>
    BY <1>1 DEF CreateZone
  <2>3. (\A q \in Request : HandlerFollows(q)') /\ SerialCoversRecords'
    BY <1>0, <2>1, <2>2, ControlStep
  <2>4. /\ op'[r] \in {"none", "post"} /\ \A q \in Request : q # r => op'[q] = op[q]
        /\ \A q \in Request : q # r => handler'[q] = handler[q]
        /\ handler'[r].pc = pc /\ handler'[r].list = handler[r].list
    <3>1. op[r] = "none"
      BY <1>1 DEF CreateZone, Inductive, OpFollows
    <3>. QED
      BY <1>0, <1>1, <2>1, <3>1 DEF CreateZone, Send, TypeOK
  <2>5. \A q \in Request : OpFollows(q)'
    BY <1>0, <2>2, <2>4 DEF Inductive, OpFollows, Published, TypeOK
  <2>6. RecordsInZone' /\ ServedIsRecorded'
    BY <2>2 DEF Inductive, RecordsInZone, ServedIsRecorded
  <2>. QED
    BY <1>0, <2>3, <2>5, <2>6 DEF Inductive
<1>2. ASSUME NEW r \in RecordRequest, CreateRecord(r) PROVE Inductive'
  <2>1. /\ handler' = [handler EXCEPT ![r].pc = "inserted"]
        /\ records' = records \cup {r} /\ zones # {} /\ handler[r].pc = "none"
        /\ UNCHANGED <<zones, serial, op, hosted, served>>
    BY <1>2 DEF CreateRecord, Goto
  <2>2. \A q \in Request : HandlerFollows(q)'
    BY <1>0, <2>1 DEF Inductive, HandlerFollows, TypeOK
  <2>3. \A q \in Request : OpFollows(q)'
    BY <1>0, <2>1 DEF Inductive, OpFollows, Published, TypeOK
  <2>4. SerialCoversRecords'
    BY <1>0, <2>1 DEF Inductive, SerialCoversRecords, Listed, Numbered, TypeOK
  <2>5. RecordsInZone' /\ ServedIsRecorded'
    BY <2>1 DEF Inductive, RecordsInZone, ServedIsRecorded
  <2>. QED
    BY <1>0, <2>2, <2>3, <2>4, <2>5 DEF Inductive
<1>3. ASSUME NEW r \in RecordRequest, IncrementSerial(r) PROVE Inductive'
  <2>1. /\ handler[r].pc = "inserted" /\ serial' = serial + 1
        /\ UNCHANGED <<zones, records, op, hosted, served>>
    BY <1>3 DEF IncrementSerial
  <2>2. /\ handler'[r].pc = "numbered" /\ handler'[r].number = serial + 1
        /\ handler'[r].list = handler[r].list
        /\ \A q \in Request : q # r => handler'[q] = handler[q]
    BY <1>0, <1>3 DEF IncrementSerial, TypeOK
  <2>3. \A q \in Request : HandlerFollows(q)'
    BY <1>0, <2>1, <2>2 DEF Inductive, HandlerFollows, TypeOK
  <2>4. \A q \in Request : OpFollows(q)'
    BY <1>0, <2>1, <2>2 DEF Inductive, OpFollows, Published, TypeOK
  <2>5. SerialCoversRecords'
    <3>. SUFFICES ASSUME NEW q \in RecordRequest, NEW x \in RecordRequest,
                         Listed(q)', Numbered(x)', handler'[x].number <= handler'[q].number
                  PROVE  x \in handler'[q].list
      BY DEF SerialCoversRecords
    <3>1. q # r /\ handler'[q] = handler[q]
      BY <2>2 DEF Listed
    <3>2. handler[q].number \in Nat /\ handler[q].number <= serial /\ serial \in Nat
      BY <1>0 DEF Inductive, HandlerFollows, TypeOK
    <3>3. x # r
      BY <2>2, <3>1, <3>2
    <3>. QED
      BY <2>2, <3>1, <3>3 DEF Inductive, SerialCoversRecords, Listed, Numbered
  <2>6. RecordsInZone' /\ ServedIsRecorded'
    BY <2>1 DEF Inductive, RecordsInZone, ServedIsRecorded
  <2>. QED
    BY <1>0, <2>3, <2>4, <2>5, <2>6 DEF Inductive
<1>4. ASSUME NEW r \in RecordRequest, ListRecords(r) \/ ListFails(r) PROVE Inductive'
  <2>1. PICK list \in SUBSET records, complete \in BOOLEAN :
          SendList(r, list, complete) /\ (complete => list = records)
    BY <1>4 DEF ListRecords, ListFails
  <2>2. /\ handler[r].pc = "numbered" /\ Send(r)
        /\ UNCHANGED <<zones, records, serial, hosted, served>>
    BY <2>1 DEF SendList
  <2>3. /\ handler'[r].pc = "waiting" /\ handler'[r].number = handler[r].number
        /\ handler'[r].list = list /\ handler'[r].listed = complete
        /\ \A q \in Request : q # r => handler'[q] = handler[q]
    BY <1>0, <2>1 DEF SendList, TypeOK
  <2>4. \A q \in Request : HandlerFollows(q)'
    BY <1>0, <2>1, <2>2, <2>3 DEF Inductive, HandlerFollows, TypeOK
  <2>5. \A q \in Request : OpFollows(q)'
    <3>1. zones # {}
      BY <2>2 DEF Inductive, HandlerFollows, RecordsInZone
    <3>2. op'[r] = "post" /\ \A q \in Request : q # r => op'[q] = op[q]
      BY <1>0, <2>2 DEF Send, TypeOK
    <3>. QED
      BY <1>0, <2>2, <2>3, <3>1, <3>2 DEF Inductive, OpFollows, Published, TypeOK
  <2>6. SerialCoversRecords'
    <3>. SUFFICES ASSUME NEW q \in RecordRequest, NEW x \in RecordRequest,
                         Listed(q)', Numbered(x)', handler'[x].number <= handler'[q].number
                  PROVE  x \in handler'[q].list
      BY DEF SerialCoversRecords
    <3>1. handler'[x].number = handler[x].number /\ x \in records
      BY <1>0, <2>3 DEF Inductive, HandlerFollows, Numbered, TypeOK
    <3>2. CASE q = r
      BY <2>1, <2>3, <3>1, <3>2 DEF Listed
    <3>3. CASE q # r
      BY <2>3, <3>1, <3>3 DEF Inductive, SerialCoversRecords, Listed, Numbered
    <3>. QED
      BY <3>2, <3>3
  <2>7. RecordsInZone' /\ ServedIsRecorded'
    BY <2>2, QuietStep
  <2>. QED
    BY <1>0, <2>4, <2>5, <2>6, <2>7 DEF Inductive
<1>5. ASSUME NEW r \in Request, Answer(r) \/ GiveUp(r) PROVE Inductive'
  <2>1. PICK pc \in {"answered", "failed"} : handler' = [handler EXCEPT ![r].pc = pc]
    BY <1>5 DEF Answer, GiveUp, Leave, Goto
  <2>2. StopAwaiting(r) /\ UNCHANGED <<zones, records, serial, hosted, served>>
    BY <1>5 DEF Answer, GiveUp, Leave
  <2>3. pc = "answered" => handler[r].pc = "waiting" /\ op[r] = "succeeded"
    BY <1>0, <1>5, <2>1 DEF Answer, GiveUp, Leave, Goto, TypeOK
  <2>4. (\A q \in Request : HandlerFollows(q)') /\ SerialCoversRecords'
    BY <1>0, <2>1, <2>2, <2>3, ControlStep
  <2>5. /\ handler'[r].pc = pc /\ handler'[r].list = handler[r].list
        /\ \A q \in Request : q # r => handler'[q] = handler[q] /\ op'[q] = op[q]
        /\ op'[r] \in {"none", "over"} /\ (op[r] = "none" => op'[r] = "none")
    BY <1>0, <2>1, <2>2 DEF StopAwaiting, TypeOK
  <2>6. \A q \in Request : OpFollows(q)'
    BY <1>0, <2>2, <2>3, <2>5 DEF Inductive, OpFollows, Published, TypeOK
  <2>7. RecordsInZone' /\ ServedIsRecorded'
    BY <2>2, QuietStep
  <2>. QED
    BY <1>0, <2>4, <2>6, <2>7 DEF Inductive
<1>6. ASSUME NEW r \in Request, PostZone(r) \/ CopyPosts(r) PROVE Inductive'
  <2>1. Post /\ zones # {}
    BY <1>6 DEF PostZone, CopyPosts, Inductive, OpFollows
  <2>2. /\ hosted' /\ RecordsInZone' /\ ServedIsRecorded' /\ SerialCoversRecords'
        /\ \A q \in Request : HandlerFollows(q)'
        /\ \A list : Published(list) => Published(list)'
    BY <1>0, <2>1, PostStep
  <2>3. /\ op[r] # "none" /\ handler' = handler /\ zones' = zones
        /\ \A q \in Request : q # r => op'[q] = op[q]
        /\ op'[r] \in {op[r], "patch", "failed"} \/ handler[r].list = {}
    BY <1>0, <1>6, <2>1 DEF PostZone, CopyPosts, Post, TypeOK
  <2>4. ASSUME NEW q \in Request PROVE OpFollows(q)'
    <3>1. op'[q] # "none" => op[q] # "none"
      BY <2>3
    <3>2. (op'[q] = "succeeded" \/ handler'[q].pc = "answered") => Published(handler[q].list)
      BY <1>0, <2>3 DEF Inductive, OpFollows, Published
    <3>3. handler'[q].pc \in {"none", "inserted", "numbered"} => op'[q] = "none"
      BY <2>3 DEF Inductive, OpFollows
    <3>. QED
      BY <2>2, <2>3, <3>1, <3>2, <3>3 DEF Inductive, OpFollows
  <2>. QED
    BY <1>0, <2>2, <2>4 DEF Inductive
<1>7. ASSUME NEW r \in Request, PatchRecords(r) \/ CopyPatches(r) PROVE Inductive'
  <2>1. Patch(r) /\ op[r] # "none" /\ hosted
    BY <1>7 DEF PatchRecords, CopyPatches, Inductive, OpFollows
  <2>2. /\ RecordsInZone' /\ ServedIsRecorded' /\ SerialCoversRecords'
        /\ \A q \in Request : HandlerFollows(q)'
        /\ \A list : Published(list) => Published(list)'
        /\ Published(handler[r].list)'
    BY <1>0, <2>1, PatchStep
  <2>3. /\ UNCHANGED <<zones, handler, hosted>>
        /\ \A q \in Request : q # r => op'[q] = op[q]
        /\ op'[r] \in {op[r], "succeeded", "failed"}
    BY <1>0, <1>7, <2>1 DEF PatchRecords, CopyPatches, Patch, TypeOK
  <2>4. ASSUME NEW q \in Request PROVE OpFollows(q)'
    <3>1. op'[q] # "none" => op[q] # "none"
      BY <2>1, <2>3
    <3>2. (op'[q] = "succeeded" \/ handler'[q].pc = "answered") => Published(handler[q].list)'
      <4>1. CASE q = r
        BY <2>2, <2>3, <4>1
      <4>2. CASE q # r
        <5>1. (op[q] = "succeeded" \/ handler[q].pc = "answered") => Published(handler[q].list)
          BY DEF Inductive, OpFollows
        <5>. QED
          BY <2>2, <2>3, <4>2, <5>1 DEF Published
      <4>. QED
        BY <4>1, <4>2
    <3>3. handler'[q].pc \in {"none", "inserted", "numbered"} => op'[q] = "none"
      BY <2>1, <2>3 DEF Inductive, OpFollows
    <3>. QED
      BY <2>1, <2>3, <3>1, <3>2, <3>3 DEF Inductive, OpFollows
  <2>. QED
    BY <1>0, <2>2, <2>4 DEF Inductive
<1>8. ASSUME NEW r \in Request, OpFails(r) PROVE Inductive'
  <2>1. /\ op[r] # "none" /\ op'[r] = "failed"
        /\ \A q \in Request : q # r => op'[q] = op[q]
        /\ UNCHANGED <<zones, records, serial, handler, hosted, served>>
    BY <1>0, <1>8 DEF OpFails, TypeOK
  <2>2. \A q \in Request : HandlerFollows(q)'
    BY <2>1 DEF Inductive, HandlerFollows
  <2>3. \A q \in Request : OpFollows(q)'
    BY <1>0, <2>1 DEF Inductive, OpFollows, Published
  <2>4. SerialCoversRecords'
    BY <2>1 DEF Inductive, SerialCoversRecords, Listed, Numbered
  <2>5. RecordsInZone' /\ ServedIsRecorded'
    BY <2>1, QuietStep
  <2>. QED
    BY <1>0, <2>2, <2>3, <2>4, <2>5 DEF Inductive
<1>9. CASE UNCHANGED vars
  BY <1>0, <1>9 DEF vars, Inductive, HandlerFollows, OpFollows, Published, RecordsInZone,
     SerialCoversRecords, ServedIsRecorded, Listed, Numbered
<1>. QED
  BY <1>1, <1>2, <1>3, <1>4, <1>5, <1>6, <1>7, <1>8, <1>9 DEF Next

\* The invariant holds in every reachable state, however requests overlap and
\* whichever tasks are late or lost (dns_handler.go, dns.go).
THEOREM Invariance == Spec => []Inductive
BY InitInductive, NextInductive, PTL DEF Spec

\* A task whose list was read to its end carries every record up to its serial
\* number (dns_handler.go CreateRecord).
THEOREM SerialsCoverRecords == Spec => []SerialCoversRecords
<1>1. Inductive => SerialCoversRecords
  BY DEF Inductive
<1>. QED
  BY <1>1, Invariance, PTL

\* Besides its nameservers PowerDNS serves only what is in the tables
\* (dns_handler.go, dns.go).
THEOREM ServesOnlyRecorded == Spec => []ServedIsRecorded
<1>1. Inductive => ServedIsRecorded
  BY DEF Inductive
<1>. QED
  BY <1>1, Invariance, PTL

\* A creation answered with success has published every record up to its
\* serial number, and nothing takes one back (dns_handler.go CreateRecord,
\* dns.go HandleCreateDNSZone).
THEOREM SuccessPublishes == Spec => []SuccessPublishesAll
<1>1. Inductive => SuccessPublishesAll
  <2>. SUFFICES ASSUME Inductive, NEW r \in RecordRequest, NEW x \in RecordRequest,
                       handler[r].pc = "answered", handler[r].listed, Numbered(x),
                       handler[x].number <= handler[r].number
                PROVE  /\ KeyOf[x] \in DOMAIN served
                       /\ Alone(x) => served[KeyOf[x]] = x
    BY DEF SuccessPublishesAll
  <2>1. handler[r].list # {} /\ Published(handler[r].list)
    BY DEF Inductive, HandlerFollows, OpFollows, Request
  <2>2. x \in handler[r].list
    BY <2>1 DEF Inductive, SerialCoversRecords, Listed
  <2>3. KeyOf[x] \in DOMAIN served /\ served[KeyOf[x]] # Nameservers
    BY <2>1, <2>2 DEF Published
  <2>. QED
    BY <2>3 DEF Inductive, ServedIsRecorded, Alone
<1>. QED
  BY <1>1, Invariance, PTL
=============================================================================
