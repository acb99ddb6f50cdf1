------------------------------- MODULE Panel -------------------------------
(***************************************************************************)
(* The panel in one tab of a browser: the login page and the dashboard,    *)
(* the tab's history, and the login requests that the document has under   *)
(* way.  A request outlives the form that sent it: the user may have gone  *)
(* back or forward when its answer comes.                                  *)
(*                                                                         *)
(* The browser, React and its router are external; the model has what the  *)
(* panel's components make of them: a component's state is new whenever it *)
(* is mounted, and what is set after it was unmounted is ignored.          *)
(***************************************************************************)
EXTENDS Naturals, Sequences

CONSTANTS
  Credential, \* what a user can type that the form accepts
  Blank,      \* a form with an empty field
  Post,       \* posts the document can have under way (bound)
  AnswerTo,   \* [Credential -> the answers of the control plane]
  Landing,    \* locations at which the user opens the panel
  MaxDepth    \* bound: entries of the history that clicks and moves reach

\* Paths that the router tells apart: "/other" and "/dashboard/other" stand for
\* every path without a route.
Path == {"/", "/login", "/dashboard", "/dashboard/websites", "/dashboard/databases",
         "/dashboard/settings", "/dashboard/other", "/other"}

\* exact: spelled as above.  Routes also match in another case and with a slash
\* at the end.
Location == [path : Path, exact : BOOLEAN]

\* "other" is any status but 2xx and 401, and no response at all.
Outcome == {"session", "mfa_required", "unauthorized", "other"}

ASSUME PanelAssumption ==
  /\ Blank \notin Credential
  /\ AnswerTo \in [Credential -> SUBSET Outcome]
  /\ Landing \subseteq Location
  /\ MaxDepth \in Nat

VARIABLES
  entries, \* the tab's history, as far as this panel made it
  at,      \* the entry that is shown
  form,    \* state of Login, or NoForm while it is not mounted
  sidebar, \* state of Dashboard, or "unmounted"
  post,    \* [Post -> the request; own: sent by the form now mounted]
  landing, \* history: where the user opened the panel
  last     \* history: the latest submission of the form now mounted

vars == <<entries, at, form, sidebar, post, landing, last>>

-----------------------------------------------------------------------------
NoForm == [typed |-> Blank, error |-> "", loading |-> FALSE, mounted |-> FALSE]
FreshForm == [NoForm EXCEPT !.mounted = TRUE]
NoPost == [sent |-> Blank, own |-> FALSE]
NoSubmission == [sent |-> Blank, answer |-> "none"]

Message == {"", "Invalid username or password", "Cannot connect to the server"}

\* App's Routes: which component a path mounts.
Layout(path) ==
  CASE path = "/login" -> "Login"
    [] path \in {"/", "/other"} -> "none"
    [] OTHER -> "Dashboard"

\* Dashboard's Routes: the page in the layout.
Content(path) ==
  CASE path = "/dashboard" -> "Overview"
    [] path = "/dashboard/websites" -> "Websites"
    [] path = "/dashboard/databases" -> "Databases"
    [] path = "/dashboard/settings" -> "Settings"
    [] OTHER -> "nothing"

menuItems ==
  [path \in {"/dashboard", "/dashboard/websites", "/dashboard/databases",
             "/dashboard/settings"} |->
     CASE path = "/dashboard" -> "Overview"
       [] path = "/dashboard/websites" -> "Websites"
       [] path = "/dashboard/databases" -> "Databases"
       [] path = "/dashboard/settings" -> "Settings"]

Exactly(path) == [path |-> path, exact |-> TRUE]

\* The route of "/" replaces itself.
Landed(l) == IF l.path = "/" THEN Exactly("/login") ELSE l

here == entries[at]
UnderWay(i) == post[i] # NoPost

TypeOK ==
  /\ entries \in Seq(Location)
  /\ at \in 1..Len(entries)
  /\ form \in [typed : Credential \cup {Blank}, error : Message,
               loading : BOOLEAN, mounted : BOOLEAN]
  /\ sidebar \in {"unmounted", "open", "closed"}
  /\ post \in [Post -> [sent : Credential \cup {Blank}, own : BOOLEAN]]
  /\ landing \in Location
  /\ last \in [sent : Credential \cup {Blank}, answer : Outcome \cup {"none"}]

\* A new document at location l: every state is new and requests of the document
\* before it are cancelled.
Load(l) ==
  /\ form' = IF Layout(l.path) = "Login" THEN FreshForm ELSE NoForm
  /\ sidebar' = IF Layout(l.path) = "Dashboard" THEN "open" ELSE "unmounted"
  /\ post' = [i \in Post |-> NoPost]
  /\ last' = NoSubmission

\* The document shows location l: a component that is mounted stays, another is
\* mounted anew.  Given the posts that are still under way.
Show(l, posts) ==
  LET login == Layout(l.path) = "Login" IN
  /\ form' = IF ~login THEN NoForm ELSE IF form.mounted THEN form ELSE FreshForm
  /\ sidebar' = IF Layout(l.path) # "Dashboard" THEN "unmounted"
                ELSE IF sidebar = "unmounted" THEN "open" ELSE sidebar
  /\ post' = [i \in Post |-> [posts[i] EXCEPT !.own = @ /\ login]]
  /\ last' = IF login THEN last ELSE NoSubmission

Pushed(l) == Append(SubSeq(entries, 1, at), l)

Init ==
  \E l \in Landing :
    /\ entries = <<Landed(l)>> /\ at = 1 /\ landing = Landed(l)
    /\ form = IF Layout(Landed(l).path) = "Login" THEN FreshForm ELSE NoForm
    /\ sidebar = IF Layout(Landed(l).path) = "Dashboard" THEN "open" ELSE "unmounted"
    /\ post = [i \in Post |-> NoPost]
    /\ last = NoSubmission

-----------------------------------------------------------------------------
\* The user and the browser.

\* main.tsx renders App in a document of its own.
Open(l) ==
  /\ entries' = <<Landed(l)>>
  /\ at' = 1
  /\ landing' = Landed(l)
  /\ Load(Landed(l))

\* The history stays.
Reload ==
  /\ Load(here)
  /\ UNCHANGED <<entries, at, landing>>

\* Back or forward to entry k.
Traverse(k) ==
  /\ k # at /\ k <= MaxDepth
  /\ at' = k
  /\ Show(entries[k], post)
  /\ UNCHANGED <<entries, landing>>

\* A Link replaces the entry of the very location it leads to.
Click(item) ==
  /\ Layout(here.path) = "Dashboard"
  /\ IF here = Exactly(item)
       THEN UNCHANGED <<entries, at>>
       ELSE /\ at < MaxDepth
            /\ entries' = Pushed(Exactly(item))
            /\ at' = at + 1
  /\ Show(Exactly(item), post)
  /\ UNCHANGED landing

toggleSidebar ==
  /\ sidebar # "unmounted"
  /\ sidebar' = IF sidebar = "open" THEN "closed" ELSE "open"
  /\ UNCHANGED <<entries, at, form, post, landing, last>>

\* The fields stay open while a post is under way.
Type(c) ==
  /\ form.mounted
  /\ form' = [form EXCEPT !.typed = c]
  /\ UNCHANGED <<entries, at, sidebar, post, landing, last>>

SubmitTwice(i) ==
  /\ form.mounted
  /\ form.typed # Blank
  /\ ~UnderWay(i)
  /\ form' = [form EXCEPT !.error = "", !.loading = TRUE]
  /\ post' = [post EXCEPT ![i] = [sent |-> form.typed, own |-> TRUE]]
  /\ last' = [sent |-> form.typed, answer |-> "none"]
  /\ UNCHANGED <<entries, at, sidebar, landing>>

\* handleLogin up to its await: both fields are required, and the button, with it
\* the Enter key, is disabled while loading.
Submit(i) ==
  /\ form.mounted
  /\ form.typed # Blank
  /\ ~form.loading
  /\ ~UnderWay(i)
  /\ form' = [form EXCEPT !.error = "", !.loading = TRUE]
  /\ post' = [post EXCEPT ![i] = [sent |-> form.typed, own |-> TRUE]]
  /\ last' = [sent |-> form.typed, answer |-> "none"]
  /\ UNCHANGED <<entries, at, sidebar, landing>>

-----------------------------------------------------------------------------
\* The server.

\* On the way there may be a proxy that answers for it, and no response at all.
Answers(c) == AnswerTo[c] \cup {"other"}

MessageOfStatus(a) == a

MessageOf(a) ==
  IF a = "unauthorized" THEN "Invalid username or password"
  ELSE "Cannot connect to the server"

Ended(i) == [post EXCEPT ![i] = NoPost]

SucceedReplacing(i) ==
  /\ UnderWay(i)
  /\ Answers(post[i].sent) \cap {"session", "mfa_required"} # {}
  /\ entries' = [entries EXCEPT ![at] = Exactly("/dashboard")]
  /\ Show(Exactly("/dashboard"), Ended(i))
  /\ UNCHANGED <<at, landing>>

\* res.data of every 2xx is an object: also of the one that asks for a second
\* factor.  navigate works after its form was unmounted.
Succeed(i) ==
  /\ UnderWay(i)
  /\ Answers(post[i].sent) \cap {"session", "mfa_required"} # {}
  /\ entries' = Pushed(Exactly("/dashboard"))
  /\ at' = at + 1
  /\ Show(Exactly("/dashboard"), Ended(i))
  /\ UNCHANGED landing

FailAnyForm(i, a) ==
  /\ UnderWay(i)
  /\ a \in Answers(post[i].sent) \ {"session", "mfa_required"}
  /\ post' = Ended(i)
  /\ form' = IF form.mounted THEN [form EXCEPT !.error = MessageOf(a), !.loading = FALSE]
             ELSE form
  /\ last' = IF post[i].own THEN [last EXCEPT !.answer = a] ELSE last
  /\ UNCHANGED <<entries, at, sidebar, landing>>

\* The catch and the finally of handleLogin.
Fail(i, a) ==
  /\ UnderWay(i)
  /\ a \in Answers(post[i].sent) \ {"session", "mfa_required"}
  /\ post' = Ended(i)
  /\ form' = IF post[i].own THEN [form EXCEPT !.error = MessageOf(a), !.loading = FALSE]
             ELSE form
  /\ last' = IF post[i].own THEN [last EXCEPT !.answer = a] ELSE last
  /\ UNCHANGED <<entries, at, sidebar, landing>>

Answer(i) == Succeed(i) \/ \E a \in Outcome : Fail(i, a)

-----------------------------------------------------------------------------
Next ==
  \/ \E l \in Landing : Open(l)
  \/ Reload
  \/ \E k \in 1..Len(entries) : Traverse(k)
  \/ \E item \in DOMAIN menuItems : Click(item)
  \/ toggleSidebar
  \/ \E c \in Credential \cup {Blank} : Type(c)
  \/ \E i \in Post : Submit(i) \/ Answer(i)

\* Nothing obliges an answer to come: axios sets no timeout, and the server's
\* WriteTimeout ends neither a handler nor a connection before it writes.
Spec == Init /\ [][Next]_vars

-----------------------------------------------------------------------------
\* "Authenticating..." is shown, and the button disabled, exactly while a post
\* that this form sent is under way: the answer to an earlier form's post does
\* not release it, and no form waits for two (Login.tsx, setIsLoading).
LoadingIsOwn ==
  /\ form.loading <=> \E i \in Post : post[i].own
  /\ \A i, j \in Post : post[i].own /\ post[j].own => i = j

\* The message on the login page is about the latest submission of the form the
\* user sees, whatever answers to posts of earlier forms have come since
\* (Login.tsx, setError).
ErrorIsOwn ==
  form.error # "" =>
    /\ last.answer # "none"
    /\ form.error = MessageOf(last.answer)
    /\ ~form.loading

\* The way back: however logins, late answers, clicks and moves through the
\* history mix, the first entry is where the user opened the panel and every
\* later one is a page that the menu names and the dashboard has (App.tsx,
\* Dashboard.tsx).
WayBack ==
  /\ entries[1] = landing
  /\ \A k \in 2..Len(entries) :
       \E item \in DOMAIN menuItems :
         /\ entries[k] = Exactly(item)
         /\ Layout(item) = "Dashboard"
         /\ Content(item) = menuItems[item]
=============================================================================
