------------------------------ MODULE DnsZone ------------------------------
(***************************************************************************)
(* A DNS zone and its records: the control plane's CreateZone and          *)
(* CreateRecord handlers with their tables, and on the agent the operation *)
(* HandleCreateDNSZone that hands them to PowerDNS.  Requests overlap at   *)
(* will, and a copy of a task may be executed again (TaskProtocol).        *)
(*                                                                         *)
(* All zone requests are for one domain; a row is named by the request     *)
(* that inserts it.  Every creation of a record hands over all records of  *)
(* the zone, under the name CreateDNSZone.                                 *)
(***************************************************************************)
EXTENDS Naturals, FiniteSets

CONSTANTS
  ZoneRequest,    \* CreateZone requests
  RecordRequest,  \* CreateRecord requests
  Key,            \* the names and types under which PowerDNS keeps contents
  KeyOf,          \* [RecordRequest -> Key], after HandleCreateDNSZone has made
                  \* the name absolute ("@" and the domain are one key)
  Apex,           \* the key of the domain's own NS records
  Nameservers,    \* what PowerDNS puts there on its own: ns1 and ns2
  MaxUnread       \* bound: lists that cannot be read to their end

Request == ZoneRequest \cup RecordRequest

ASSUME DnsAssumption ==
  /\ ZoneRequest \cap RecordRequest = {}
  /\ KeyOf \in [RecordRequest -> Key]
  /\ Apex \in Key
  /\ Nameservers \notin RecordRequest
  /\ MaxUnread \in Nat

VARIABLES
  zones,    \* requests whose row is in dns_zones, for this domain
  records,  \* requests whose row is in dns_records
  serial,   \* how often dns_zones.serial was incremented
  handler,  \* [Request -> record]: where its handler is
  op,       \* [Request -> where HandleCreateDNSZone is]
  hosted,   \* does PowerDNS have the zone?
  served    \* PowerDNS: [some of Key -> record request whose content it has,
            \* or Nameservers]

vars == <<zones, records, serial, handler, op, hosted, served>>

-----------------------------------------------------------------------------
\* "answered" is the answer 200, "failed" any other.
HandlerPC == {"none", "inserted", "numbered", "waiting", "answered", "failed"}

\* The execution whose answer the handler awaits; "over" when it awaits none
\* any more, and what goes on is one of the copies of the task.
OpPC == {"none", "post", "patch", "succeeded", "failed", "over"}

\* number is what IncrementSerial returned, list the records that go into the
\* task; listed is FALSE if ListRecordsByZone returned an error, which nobody
\* looks at.
HandlerState == [pc : HandlerPC, number : Nat, list : SUBSET RecordRequest, listed : BOOLEAN]

TypeOK ==
  /\ zones \in SUBSET ZoneRequest
  /\ records \in SUBSET RecordRequest
  /\ serial \in Nat
  /\ handler \in [Request -> HandlerState]
  /\ op \in [Request -> OpPC]
  /\ hosted \in BOOLEAN
  /\ DOMAIN served \subseteq Key
  /\ \A k \in DOMAIN served : served[k] \in RecordRequest \cup {Nameservers}

Fresh == [pc |-> "none", number |-> 0, list |-> {}, listed |-> TRUE]

Init ==
  /\ zones = {} /\ records = {} /\ serial = 0
  /\ handler = [r \in Request |-> Fresh]
  /\ op = [r \in Request |-> "none"]
  /\ hosted = FALSE
  /\ served = [k \in {} |-> 0]

Goto(r, pc) == handler' = [handler EXCEPT ![r].pc = pc]

StopAwaiting(r) ==
  op' = [op EXCEPT ![r] = IF op[r] = "none" THEN "none" ELSE "over"]

-----------------------------------------------------------------------------
\* Control plane.

\* Client.SendTask.  The task may be long on its way, or lost (OpFails).
Send(r) == op' = [op EXCEPT ![r] = "post"]

\* DNSStore.CreateZone; domain is UNIQUE.  A task without records is sent.
CreateZone(r) ==
  /\ handler[r].pc = "none"
  /\ IF zones = {}
       THEN zones' = {r} /\ Goto(r, "waiting") /\ Send(r)
       ELSE zones' = zones /\ Goto(r, "failed") /\ UNCHANGED op
  /\ UNCHANGED <<records, serial, hosted, served>>

\* DNSStore.CreateRecord.
CreateRecord(r) ==
  /\ handler[r].pc = "none"
  /\ zones # {}
  /\ records' = records \cup {r}
  /\ Goto(r, "inserted")
  /\ UNCHANGED <<zones, serial, op, hosted, served>>

\* DNSStore.IncrementSerial.
IncrementSerial(r) ==
  /\ handler[r].pc = "inserted"
  /\ serial' = serial + 1
  /\ handler' = [handler EXCEPT ![r].pc = "numbered", ![r].number = serial + 1]
  /\ UNCHANGED <<zones, records, op, hosted, served>>

\* The task with the new serial and these records is sent.
SendList(r, list, complete) ==
  /\ handler[r].pc = "numbered"
  /\ handler' = [handler EXCEPT ![r].pc = "waiting", ![r].list = list, ![r].listed = complete]
  /\ Send(r)
  /\ UNCHANGED <<zones, records, serial, hosted, served>>

ListOwnRecord(r) == SendList(r, {r}, TRUE)

\* DNSStore.ListRecordsByZone.
ListRecords(r) == SendList(r, records, TRUE)

\* The query fails; the handler goes on with the records read until then.
ListFails(r) ==
  /\ Cardinality({x \in RecordRequest : ~handler[x].listed}) < MaxUnread
  /\ \E list \in SUBSET records : SendList(r, list, FALSE)

AnswerAgentStatus(r) ==
  /\ handler[r].pc = "waiting"
  /\ op[r] \in {"succeeded", "failed"}
  /\ Goto(r, op[r])
  /\ StopAwaiting(r)
  /\ UNCHANGED <<zones, records, serial, hosted, served>>

\* The handler learns how the operation ended.
Answer(r) ==
  /\ handler[r].pc = "waiting"
  /\ op[r] \in {"succeeded", "failed"}
  /\ Goto(r, IF op[r] = "succeeded" THEN "answered" ELSE "failed")
  /\ StopAwaiting(r)
  /\ UNCHANGED <<zones, records, serial, hosted, served>>

Leave(r, rows) ==
  /\ handler[r].pc \in {"inserted", "numbered", "waiting"}
  /\ Goto(r, "failed")
  /\ records' = rows
  /\ StopAwaiting(r)
  /\ UNCHANGED <<zones, serial, hosted, served>>

GiveUpAndDelete(r) == Leave(r, records \ {r})

\* A statement fails, the handler panics over a missing node, the client
\* leaves, the call times out or its response is lost, or the control plane
\* stops.  Rows and operations stay as they are; a task that was not sent yet is
\* as good as lost.
GiveUp(r) == Leave(r, records)

-----------------------------------------------------------------------------
\* Agent: HandleCreateDNSZone, which does not look at its context and goes on
\* when the caller has gone.

\* POST of the zone: 201, and PowerDNS serves its nameservers, or 409 if there
\* is one, and it serves what it did.
Post ==
  /\ hosted' = TRUE
  /\ served' = IF hosted THEN served ELSE [k \in {Apex} |-> Nameservers]
  /\ UNCHANGED <<zones, records, serial, handler>>

\* The answer may be lost.
PostZone(r) ==
  /\ op[r] = "post"
  /\ \E pc \in {IF handler[r].list = {} THEN "succeeded" ELSE "patch", "failed"} :
       op' = [op EXCEPT ![r] = pc]
  /\ Post

Keys(list) == {KeyOf[x] : x \in list}

\* One rrset per record: of several with one key, any can be the one that
\* stays.
Choices(list) ==
  {c \in [Keys(list) -> list] : \A k \in Keys(list) : KeyOf[c[k]] = k}

ReplaceAll(c) == c

\* REPLACE touches the keys of the list only.
Replace(c) ==
  [k \in DOMAIN served \cup DOMAIN c |-> IF k \in DOMAIN c THEN c[k] ELSE served[k]]

\* PATCH of the rrsets; PowerDNS takes all of them or none.
Patch(r) ==
  /\ \E c \in Choices(handler[r].list) : served' = Replace(c)
  /\ UNCHANGED <<zones, records, serial, handler, hosted>>

\* The answer may be lost.
PatchRecords(r) ==
  /\ op[r] = "patch"
  /\ \E pc \in {"succeeded", "failed"} : op' = [op EXCEPT ![r] = pc]
  /\ Patch(r)

\* A copy of the task is executed, or the first goes on although nobody awaits
\* it any more.  A POST that meets the zone changes nothing.
CopyPosts(r) == op[r] # "none" /\ ~hosted /\ Post /\ UNCHANGED op
CopyPatches(r) == op[r] # "none" /\ hosted /\ Patch(r) /\ UNCHANGED op

\* The task does not arrive, the agent dies, or PowerDNS cannot be reached or
\* refuses the rrsets (a content it does not take, perhaps two with one key).
OpFails(r) ==
  /\ op[r] \in {"post", "patch"}
  /\ op' = [op EXCEPT ![r] = "failed"]
  /\ UNCHANGED <<zones, records, serial, handler, hosted, served>>

-----------------------------------------------------------------------------
Next ==
  \/ \E r \in ZoneRequest : CreateZone(r)
  \/ \E r \in RecordRequest :
       CreateRecord(r) \/ IncrementSerial(r) \/ ListRecords(r) \/ ListFails(r)
  \/ \E r \in Request :
       \/ Answer(r) \/ GiveUp(r)
       \/ PostZone(r) \/ PatchRecords(r) \/ OpFails(r)
       \/ CopyPosts(r) \/ CopyPatches(r)

Spec == Init /\ [][Next]_vars

-----------------------------------------------------------------------------
Numbered(r) == handler[r].number > 0
Listed(r) ==
  /\ handler[r].pc \in {"waiting", "answered", "failed"}
  /\ handler[r].list # {} /\ handler[r].listed

\* A task whose list was read to its end carries every record whose creation
\* has the task's serial number or a lower one, in whatever order requests are
\* served: the number says how complete the list is (CreateRecord inserts, then
\* counts, then lists).
SerialCoversRecords ==
  \A r, x \in RecordRequest :
    (/\ Listed(r)
     /\ Numbered(x)
     /\ handler[x].number <= handler[r].number) => x \in handler[r].list

\* Whatever PowerDNS serves besides the nameservers it was created with is in
\* the tables: the zone, and under each key one of its records.  A creation that
\* fails, however late or often its task is executed, leaves nothing in the DNS
\* that the panel does not know (dns_handler.go, dns.go).
ServedIsRecorded ==
  /\ hosted => zones # {}
  /\ DOMAIN served # {} => hosted
  /\ \A k \in DOMAIN served :
       \/ served[k] \in records /\ KeyOf[served[k]] = k
       \/ served[k] = Nameservers /\ k = Apex

Alone(x) == \A y \in records : KeyOf[y] = KeyOf[x] => y = x

\* A creation that is answered with success, and whose list could be read to
\* its end, has made good the failed and the incomplete ones before it: every
\* record up to its serial number has its key in PowerDNS, with its own content
\* unless another record has the same key.  Operations that are late, repeated,
\* incomplete or out of order do not undo it.
SuccessPublishesAll ==
  \A r, x \in RecordRequest :
    (/\ handler[r].pc = "answered" /\ handler[r].listed
     /\ Numbered(x) /\ handler[x].number <= handler[r].number) =>
      /\ KeyOf[x] \in DOMAIN served
      /\ Alone(x) => served[KeyOf[x]] = x
=============================================================================
