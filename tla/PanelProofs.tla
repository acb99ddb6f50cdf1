---------------------------- MODULE PanelProofs ----------------------------
(***************************************************************************)
(* Proofs about Panel, for any number of posts and any length of history.  *)
(***************************************************************************)
EXTENDS Panel, SequenceTheorems, TLAPS

HistoryOK ==
  /\ entries \in Seq(Location)
  /\ at \in 1..Len(entries)
  /\ landing \in Location

FormOK ==
  /\ form \in [typed : Credential \cup {Blank}, error : Message,
               loading : BOOLEAN, mounted : BOOLEAN]
  /\ post \in [Post -> [sent : Credential \cup {Blank}, own : BOOLEAN]]
  /\ last \in [sent : Credential \cup {Blank}, answer : Outcome \cup {"none"}]

\* Whoever owns a post is mounted: what LoadingIsOwn needs when a page changes.
OwnerIsMounted ==
  /\ ~form.mounted => form = NoForm
  /\ \A i \in Post : post[i].own => form.mounted /\ UnderWay(i)

FormInv == FormOK /\ OwnerIsMounted /\ LoadingIsOwn /\ ErrorIsOwn

HistoryInv == HistoryOK /\ WayBack

SidebarOK == sidebar \in {"unmounted", "open", "closed"}

-----------------------------------------------------------------------------
LEMMA FormTypes ==
  /\ NoForm \in [typed : Credential \cup {Blank}, error : Message,
                 loading : BOOLEAN, mounted : BOOLEAN]
  /\ FreshForm \in [typed : Credential \cup {Blank}, error : Message,
                    loading : BOOLEAN, mounted : BOOLEAN]
  /\ FreshForm.mounted /\ ~FreshForm.loading /\ FreshForm.error = ""
  /\ ~NoForm.mounted /\ ~NoForm.loading /\ NoForm.error = ""
  /\ NoPost \in [sent : Credential \cup {Blank}, own : BOOLEAN] /\ ~NoPost.own
  /\ NoSubmission \in [sent : Credential \cup {Blank}, answer : Outcome \cup {"none"}]
  BY DEF NoForm, FreshForm, NoPost, NoSubmission, Message

\* A new document has no post and a fresh form, if any.
LEMMA LoadForm ==
  ASSUME NEW l, Load(l)
  PROVE  FormInv' /\ SidebarOK'
<1>1. \A i \in Post : post'[i] = NoPost
  BY DEF Load
<1>2. form' \in {FreshForm, NoForm} /\ last' = NoSubmission
  BY DEF Load
<1>3. FormOK'
  BY <1>1, <1>2, FormTypes DEF Load, FormOK
<1>4. OwnerIsMounted'
  BY <1>1, <1>2, FormTypes DEF OwnerIsMounted, UnderWay
<1>5. LoadingIsOwn' /\ ErrorIsOwn'
  BY <1>1, <1>2, FormTypes DEF LoadingIsOwn, ErrorIsOwn
<1>6. SidebarOK'
  BY DEF Load, SidebarOK
<1> QED BY <1>3, <1>4, <1>5, <1>6 DEF FormInv

\* Another page of the document: a form that goes takes its posts' ownership
\* with it.
LEMMA ShowForm ==
  ASSUME FormInv, SidebarOK, NEW l, NEW posts,
         posts \in [Post -> [sent : Credential \cup {Blank}, own : BOOLEAN]],
         Layout(l.path) = "Login" => posts = post,
         Show(l, posts)
  PROVE  FormInv' /\ SidebarOK'
<1> DEFINE login == Layout(l.path) = "Login"
<1>1. \A i \in Post : /\ post'[i] \in [sent : Credential \cup {Blank}, own : BOOLEAN]
                      /\ post'[i].own <=> posts[i].own /\ login
                      /\ post'[i].sent = posts[i].sent
  BY DEF Show
<1>2. post' \in [Post -> [sent : Credential \cup {Blank}, own : BOOLEAN]]
  BY <1>1 DEF Show
<1>3. SidebarOK'
  BY DEF Show, SidebarOK
<1>4. CASE ~login
  <2>1. form' = NoForm /\ last' = NoSubmission /\ \A i \in Post : ~post'[i].own
    BY <1>1, <1>4 DEF Show
  <2>2. FormOK' /\ OwnerIsMounted'
    BY <1>2, <2>1, FormTypes DEF FormOK, OwnerIsMounted
  <2>3. LoadingIsOwn' /\ ErrorIsOwn'
    BY <2>1, FormTypes DEF LoadingIsOwn, ErrorIsOwn
  <2> QED BY <1>3, <2>2, <2>3 DEF FormInv
<1>5. CASE login /\ form.mounted
  <2>1. form' = form /\ last' = last
    BY <1>5 DEF Show
  <2>2. \A i \in Post : post'[i] = post[i]
    BY <1>1, <1>5 DEF FormInv, FormOK
  <2>3. FormOK' /\ OwnerIsMounted'
    BY <1>2, <2>1, <2>2 DEF FormInv, FormOK, OwnerIsMounted, UnderWay
  <2>4. LoadingIsOwn' /\ ErrorIsOwn'
    BY <2>1, <2>2 DEF FormInv, LoadingIsOwn, ErrorIsOwn
  <2> QED BY <1>3, <2>3, <2>4 DEF FormInv
<1>6. CASE login /\ ~form.mounted
  <2>1. form' = FreshForm /\ last' = last
    BY <1>6 DEF Show
  <2>2. \A i \in Post : ~post'[i].own
    BY <1>1, <1>6 DEF FormInv, OwnerIsMounted
  <2>3. FormOK' /\ OwnerIsMounted'
    BY <1>2, <2>1, <2>2, FormTypes DEF FormInv, FormOK, OwnerIsMounted
  <2>4. LoadingIsOwn' /\ ErrorIsOwn'
    BY <2>1, <2>2, FormTypes DEF LoadingIsOwn, ErrorIsOwn
  <2> QED BY <1>3, <2>3, <2>4 DEF FormInv
<1> QED BY <1>4, <1>5, <1>6

\* A pushed entry comes after the one that is shown and replaces those ahead.
LEMMA PushedEntries ==
  ASSUME HistoryOK, NEW l \in Location
  PROVE  /\ Pushed(l) \in Seq(Location)
         /\ Len(Pushed(l)) = at + 1
         /\ at + 1 \in 1..Len(Pushed(l))
         /\ Pushed(l)[at + 1] = l
         /\ \A k \in 1..at : Pushed(l)[k] = entries[k]
<1> DEFINE kept == SubSeq(entries, 1, at)
<1>1. at \in Nat /\ 1 <= at /\ at <= Len(entries) /\ Len(entries) \in Nat
  BY LenProperties DEF HistoryOK
<1>2. kept \in Seq(Location) /\ Len(kept) = at /\ \A k \in 1..at : kept[k] = entries[k]
  BY <1>1, SubSeqProperties DEF HistoryOK
<1>3. Append(kept, l) \in Seq(Location) /\ Len(Append(kept, l)) = at + 1
      /\ Append(kept, l)[at + 1] = l /\ \A k \in 1..at : Append(kept, l)[k] = kept[k]
  BY <1>1, <1>2, AppendProperties
<1> QED BY <1>1, <1>2, <1>3 DEF Pushed

LEMMA MenuIsThere ==
  ASSUME NEW item \in DOMAIN menuItems
  PROVE  /\ Exactly(item) \in Location
         /\ Layout(item) = "Dashboard"
         /\ Content(item) = menuItems[item]
  BY DEF menuItems, Exactly, Location, Path, Layout, Content

\* To push a page of the menu keeps the way back.
LEMMA PushKeepsWayBack ==
  ASSUME HistoryInv, NEW item \in DOMAIN menuItems,
         entries' = Pushed(Exactly(item)), at' = at + 1, landing' = landing
  PROVE  HistoryInv'
<1>1. Exactly(item) \in Location
  BY MenuIsThere
<1>2. /\ Pushed(Exactly(item)) \in Seq(Location)
      /\ Len(Pushed(Exactly(item))) = at + 1
      /\ at + 1 \in 1..Len(Pushed(Exactly(item)))
      /\ Pushed(Exactly(item))[at + 1] = Exactly(item)
      /\ \A k \in 1..at : Pushed(Exactly(item))[k] = entries[k]
  BY <1>1, PushedEntries DEF HistoryInv
<1>3. HistoryOK'
  BY <1>2 DEF HistoryInv, HistoryOK
<1>4. at \in Nat /\ 1 <= at /\ at <= Len(entries) /\ Len(entries) \in Nat
  BY LenProperties DEF HistoryInv, HistoryOK
<1>5. entries'[1] = landing'
  BY <1>2, <1>4 DEF HistoryInv, WayBack
<1>6. ASSUME NEW k \in 2..Len(entries')
      PROVE  \E i \in DOMAIN menuItems :
               /\ entries'[k] = Exactly(i)
               /\ Layout(i) = "Dashboard"
               /\ Content(i) = menuItems[i]
  <2>1. CASE k = at + 1
    BY <1>2, <2>1, MenuIsThere
  <2>2. CASE k # at + 1
    <3>1. k \in 1..at /\ k \in 2..Len(entries)
      BY <1>2, <1>4, <2>2
    <3> QED BY <1>2, <3>1 DEF HistoryInv, WayBack
  <2> QED BY <2>1, <2>2
<1> QED BY <1>3, <1>5, <1>6 DEF HistoryInv, WayBack

-----------------------------------------------------------------------------
Invariant == FormInv /\ HistoryInv /\ SidebarOK

LEMMA LandedIsLocation ==
  ASSUME NEW l \in Landing
  PROVE  Landed(l) \in Location
  BY PanelAssumption DEF Landed, Exactly, Location, Path

LEMMA InitialInvariant == Init => Invariant
<1> SUFFICES ASSUME Init PROVE Invariant
  OBVIOUS
<1>1. PICK l \in Landing : entries = <<Landed(l)>> /\ at = 1 /\ landing = Landed(l)
  BY DEF Init
<1>2. HistoryInv
  BY <1>1, LandedIsLocation DEF HistoryInv, HistoryOK, WayBack
<1>3. form \in {FreshForm, NoForm} /\ last = NoSubmission /\ SidebarOK
  BY DEF Init, SidebarOK
<1>4. post = [i \in Post |-> NoPost]
  BY DEF Init
<1>5. FormOK /\ OwnerIsMounted
  BY <1>3, <1>4, FormTypes DEF FormOK, OwnerIsMounted
<1>6. LoadingIsOwn /\ ErrorIsOwn
  BY <1>3, <1>4, FormTypes DEF LoadingIsOwn, ErrorIsOwn
<1> QED BY <1>2, <1>3, <1>5, <1>6 DEF Invariant, FormInv

LEMMA KeptHistory ==
  ASSUME HistoryInv, UNCHANGED <<entries, at, landing>>
  PROVE  HistoryInv'
  BY DEF HistoryInv, HistoryOK, WayBack

LEMMA SubmitForm ==
  ASSUME FormInv, NEW i \in Post, Submit(i)
  PROVE  FormInv'
<1>1. /\ form' = [form EXCEPT !.error = "", !.loading = TRUE]
      /\ post' = [post EXCEPT ![i] = [sent |-> form.typed, own |-> TRUE]]
      /\ last' = [sent |-> form.typed, answer |-> "none"]
      /\ form.mounted /\ form.typed # Blank /\ ~form.loading
  BY DEF Submit
<1>2. form'.mounted /\ form'.loading /\ form'.error = ""
  BY <1>1 DEF FormInv, FormOK
<1>3. post'[i].own /\ post'[i].sent # Blank /\ \A j \in Post \ {i} : post'[j] = post[j]
  BY <1>1 DEF FormInv, FormOK
<1>4. \A j \in Post : ~post[j].own
  BY <1>1 DEF FormInv, LoadingIsOwn
<1>5. FormOK'
  BY <1>1 DEF FormInv, FormOK, Message
<1>6. OwnerIsMounted'
  <2>1. NoPost.sent = Blank
    BY DEF NoPost
  <2>2. post'[i] # NoPost
    BY <1>3, <2>1
  <2>3. \A j \in Post : post'[j].own => j = i
    BY <1>3, <1>4
  <2> QED BY <1>2, <2>2, <2>3 DEF OwnerIsMounted, UnderWay
<1>7. LoadingIsOwn' /\ ErrorIsOwn'
  BY <1>2, <1>3, <1>4 DEF LoadingIsOwn, ErrorIsOwn
<1> QED BY <1>5, <1>6, <1>7 DEF FormInv

\* Only the form's own answer touches the form.
LEMMA FailForm ==
  ASSUME FormInv, NEW i \in Post, NEW a \in Outcome, Fail(i, a)
  PROVE  FormInv'
<1>1. post'[i] = NoPost /\ \A j \in Post \ {i} : post'[j] = post[j]
  BY DEF Fail, Ended, FormInv, FormOK
<1>2. post' \in [Post -> [sent : Credential \cup {Blank}, own : BOOLEAN]]
  BY FormTypes DEF Fail, Ended, FormInv, FormOK
<1>3. ~NoPost.own
  BY FormTypes
<1>4. CASE post[i].own
  <2>1. /\ form' = [form EXCEPT !.error = MessageOf(a), !.loading = FALSE]
        /\ last' = [last EXCEPT !.answer = a]
    BY <1>4 DEF Fail
  <2>2. form.mounted /\ form'.mounted /\ ~form'.loading /\ form'.error = MessageOf(a)
    BY <1>4, <2>1 DEF FormInv, FormOK, OwnerIsMounted
  <2>3. last'.answer = a /\ a # "none"
    BY <2>1 DEF FormInv, FormOK, Outcome
  <2>4. \A j \in Post : ~post'[j].own
    BY <1>1, <1>3, <1>4 DEF FormInv, LoadingIsOwn
  <2>5. FormOK'
    BY <1>2, <2>1 DEF FormInv, FormOK, MessageOf, Message
  <2>6. OwnerIsMounted'
    BY <2>2, <2>4 DEF OwnerIsMounted
  <2>7. LoadingIsOwn' /\ ErrorIsOwn'
    BY <2>2, <2>3, <2>4 DEF LoadingIsOwn, ErrorIsOwn
  <2> QED BY <2>5, <2>6, <2>7 DEF FormInv
<1>5. CASE ~post[i].own
  <2>1. form' = form /\ last' = last
    BY <1>5 DEF Fail
  <2>2. \A j \in Post : post'[j].own <=> post[j].own
    BY <1>1, <1>3, <1>5
  <2>3. FormOK'
    BY <1>2, <2>1 DEF FormInv, FormOK
  <2>4. OwnerIsMounted'
    BY <1>1, <1>3, <2>1 DEF FormInv, OwnerIsMounted, UnderWay
  <2>5. LoadingIsOwn' /\ ErrorIsOwn'
    BY <2>1, <2>2 DEF FormInv, LoadingIsOwn, ErrorIsOwn
  <2> QED BY <2>3, <2>4, <2>5 DEF FormInv
<1> QED BY <1>4, <1>5

LEMMA TypeForm ==
  ASSUME FormInv, NEW c \in Credential \cup {Blank}, Type(c)
  PROVE  FormInv'
<1>1. form' = [form EXCEPT !.typed = c] /\ form.mounted /\ UNCHANGED <<post, last>>
  BY DEF Type
<1>2. form'.mounted /\ form'.error = form.error /\ form'.loading = form.loading
  BY <1>1 DEF FormInv, FormOK
<1>3. FormOK'
  BY <1>1 DEF FormInv, FormOK
<1>4. OwnerIsMounted' /\ LoadingIsOwn' /\ ErrorIsOwn'
  BY <1>1, <1>2 DEF FormInv, OwnerIsMounted, LoadingIsOwn, ErrorIsOwn, UnderWay
<1> QED BY <1>3, <1>4 DEF FormInv

LEMMA InductiveStep == Invariant /\ [Next]_vars => Invariant'
<1> SUFFICES ASSUME Invariant, [Next]_vars PROVE Invariant'
  OBVIOUS
<1> USE DEF Invariant
<1>0. post \in [Post -> [sent : Credential \cup {Blank}, own : BOOLEAN]]
  BY DEF FormInv, FormOK
<1>1. ASSUME NEW l \in Landing, Open(l) PROVE Invariant'
  <2>1. HistoryInv'
    BY <1>1, LandedIsLocation DEF Open, HistoryInv, HistoryOK, WayBack
  <2> QED BY <1>1, <2>1, LoadForm DEF Open
<1>2. CASE Reload
  BY <1>2, LoadForm, KeptHistory DEF Reload
<1>3. ASSUME NEW k \in 1..Len(entries), Traverse(k) PROVE Invariant'
  <2>1. HistoryInv'
    BY <1>3 DEF Traverse, HistoryInv, HistoryOK, WayBack
  <2> QED BY <1>0, <1>3, <2>1, ShowForm DEF Traverse
<1>4. ASSUME NEW item \in DOMAIN menuItems, Click(item) PROVE Invariant'
  <2>1. HistoryInv'
    BY <1>4, PushKeepsWayBack, KeptHistory DEF Click
  <2> QED BY <1>0, <1>4, <2>1, ShowForm DEF Click
<1>5. CASE toggleSidebar
  BY <1>5 DEF toggleSidebar, FormInv, FormOK, OwnerIsMounted, LoadingIsOwn, ErrorIsOwn,
              UnderWay, HistoryInv, HistoryOK, WayBack, SidebarOK
<1>6. ASSUME NEW c \in Credential \cup {Blank}, Type(c) PROVE Invariant'
  BY <1>6, TypeForm, KeptHistory DEF Type, SidebarOK
<1>7. ASSUME NEW i \in Post, Submit(i) PROVE Invariant'
  BY <1>7, SubmitForm, KeptHistory DEF Submit, SidebarOK
<1>8. ASSUME NEW i \in Post, Succeed(i) PROVE Invariant'
  <2>1. "/dashboard" \in DOMAIN menuItems
    BY DEF menuItems
  <2>2. HistoryInv'
    BY <1>8, <2>1, PushKeepsWayBack DEF Succeed
  <2>3. Ended(i) \in [Post -> [sent : Credential \cup {Blank}, own : BOOLEAN]]
    BY <1>0, FormTypes DEF Ended
  <2>4. Exactly("/dashboard").path = "/dashboard" /\ Layout("/dashboard") # "Login"
    BY DEF Exactly, Layout
  <2> QED BY <1>8, <2>2, <2>3, <2>4, ShowForm DEF Succeed
<1>9. ASSUME NEW i \in Post, NEW a \in Outcome, Fail(i, a) PROVE Invariant'
  BY <1>9, FailForm, KeptHistory DEF Fail, SidebarOK
<1>10. CASE UNCHANGED vars
  BY <1>10 DEF vars, FormInv, FormOK, OwnerIsMounted, LoadingIsOwn, ErrorIsOwn,
               UnderWay, HistoryInv, HistoryOK, WayBack, SidebarOK
<1> QED BY <1>1, <1>2, <1>3, <1>4, <1>5, <1>6, <1>7, <1>8, <1>9, <1>10 DEF Next, Answer

THEOREM AlwaysInvariant == Spec => []Invariant
  BY InitialInvariant, InductiveStep, PTL DEF Spec

\* The form's state, the history and the posts are of their types.
THEOREM TypeCorrect == Spec => []TypeOK
<1>1. Invariant => TypeOK
  BY DEF Invariant, FormInv, FormOK, HistoryInv, HistoryOK, SidebarOK, TypeOK
<1> QED BY <1>1, AlwaysInvariant, PTL

\* The login page shows "Authenticating..." exactly while its own post is under
\* way (Login.tsx).
THEOREM LoadingAlwaysOwn == Spec => []LoadingIsOwn
<1>1. Invariant => LoadingIsOwn
  BY DEF Invariant, FormInv
<1> QED BY <1>1, AlwaysInvariant, PTL

\* The message on the login page is about its own latest submission (Login.tsx).
THEOREM ErrorAlwaysOwn == Spec => []ErrorIsOwn
<1>1. Invariant => ErrorIsOwn
  BY DEF Invariant, FormInv
<1> QED BY <1>1, AlwaysInvariant, PTL

\* The history leads back to where the panel was opened, through pages of the
\* menu only (App.tsx, Dashboard.tsx).
THEOREM AlwaysWayBack == Spec => []WayBack
<1>1. Invariant => WayBack
  BY DEF Invariant, HistoryInv
<1> QED BY <1>1, AlwaysInvariant, PTL
=============================================================================
