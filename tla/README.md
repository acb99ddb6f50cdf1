# A TLA+ model of GohaHost

GohaHost is a hosting control panel. A **control plane** (Go, PostgreSQL) has
the accounts, the sessions and the rows of every hosted resource. On each
hosting server an **agent** (Go) executes operations - create a user, a
database, a mailbox, a DNS zone, a backup - as tasks that the control plane
signs and sends over mutually authenticated HTTPS. The panel's frontend talks
only to the control plane's HTTP API.

This directory models the parts of that system whose correctness depends on
the order in which things happen: the task protocol, authentication, rate
limiting, backups, DNS zones, mailboxes, hosting users, the start of control
planes and of the agent, and the panel in the browser. It states what the code
promises, checks it with TLC on small instances, and proves with TLAPS the
parts that matter most for every instance. Paths below are relative to the
repository; `PROJECT.json` maps every definition to its lines.

## 1. Inventory

| Part | State | Operations | What is hard about it | Correct when |
|---|---|---|---|---|
| Task signing and transport: `control-plane/internal/agentclient` | none of its own; one pending HTTP call per task | `TaskBuilder.Build`, `Client.SendTask` | the request or the response is lost; the timeout passes while the agent works on | success is reported only of what succeeded |
| Task verification: `agent/internal/protocol`, `nonce`, `agent/cmd/agent` | the map of seen nonces with their expiry, in memory | `Verifier.Verify` (nine checks), `Store.HasSeen`, `MarkSeen`, `cleanup`, `handleTask` | one goroutine per request; check and mark are separate critical sections; clocks differ; timestamps are cut to seconds; a restart forgets | a task runs at most once, on its node, in its validity |
| Operation registry: `agent/internal/operations/allowlist.go` | the handlers map | `Register`, `Execute` | `Register` panics | only listed operations run, and the agent starts |
| Sessions and login: `auth/session.go`, `api/auth_handler.go`, `middleware/auth.go` | tables `users`, `sessions` | `Login`, `Logout`, `LogoutAll`, `Authenticate`, `Validate`, `Revoke` | no transaction spans two statements; requests of one account overlap | revocation is immediate; no session without a demanded factor |
| Second factor: `auth/totp.go`, `api/totp_handler.go` | columns of `users`; the map of pending enrolments, in memory and unsynchronised | `BeginEnrollment`, `ConfirmEnrollment`, `VerifyMFA`, `DisableMFA`, `VerifyBackupCode` | read-modify-write of the code list; an enrolment is replaced while it is being confirmed; restart | codes are single-use; nobody is locked out |
| Rate limiting: `middleware/ratelimit.go` | map of addresses to token buckets | `Allow`, `cleanup` | the sweep forgets buckets | forgetting cannot be observed; the rate is bounded |
| Backups: `api/backup_handler.go`, `models/backup.go`, `agent/internal/operations/backup.go` | table `backups`; files on the node | `RunBackup`, `RunRestore`, `HandleRunBackup`, `HandleRunRestore` | two attempts per command, timeouts, lost responses, clients that leave, paths of one-second granularity | a completed row has its file; a restore reads that file; no row stays running |
| Hosting users: `api/hosting_handler.go`, `models/hosting.go`, `agent/internal/operations/hosting_user.go` | table `hosting_users`; accounts and homes of the node | `CreateHostingUser` on both sides | the row comes first and stays; a creation fails half-way and is repeated | who was told of success has an account with a private home |
| Virtual hosts, certificates, databases, Node.js apps | tables and node resources | `CreateVirtualHost`, `IssueSSL`, `CreateDatabase`, `GrantPrivileges`, `nodejs_handler.go` | the row is inserted before the agent is asked, and stays when it fails | rows and node agree |
| One-click installer | none | `InstallApp` (four tasks) | one of four steps fails | no resource is left behind |
| DNS: `api/dns_handler.go`, `agent/internal/operations/dns.go` | `dns_zones`, `dns_records`; PowerDNS | `CreateZone`, `CreateRecord`, `HandleCreateDNSZone` | every change pushes the whole list, without a lock | the server has what the table has |
| Mail: `api/mail_handler.go`, `agent/internal/operations/mail.go` | `mailboxes`, `mail_aliases`; map files on the node | `CreateMailbox`, `DeleteMailbox`, `CreateAlias` | read-modify-write of shared files by several goroutines | a mailbox that was created exists; a deleted one does not |
| Migrations and server start: `db/migrate.go`, `cmd/server/main.go` | `schema_migrations`, the first row of `users` | `Migrator.Run`, seeding of the first administrator | processes start together; a crash inside a migration; releases that fill gaps | each migration is applied once, in order; who serves has its schema |
| Panel: `frontend/src` | the tab's history, the login form, the sidebar; posts under way | `handleLogin`, the routes, the menu | the answer to a post comes when its form is gone | a form shows what became of its own post; the history has only pages |
| Clusters and load balancers | `clusters`, nginx files | `CreateCluster`, `ProvisionLoadBalancer` | shares a directory with virtual hosts | - |
| File manager, packages, metrics, WHMCS stubs, audit log | none, or single inserts | | - | - |
| Role-based access: `rbac/rbac.go` | none | `Can`, `Require` | - | the permission table is monotone in the role |
| Configuration, mTLS, hashing, request logging, installers, scripts | - | - | - | - |

How they interact. A handler of the control plane inserts or reads rows, signs
a task and calls the agent, synchronously, with the context of the browser's
request; the agent's answer decides what the handler answers. The agent never
calls the control plane. Agent goroutines share the nonce store and the node's
files; control-plane goroutines share the database, the rate limiters and the
map of pending enrolments. Nothing in the control plane runs in the background
except the rate limiter's sweep; in the agent, except the nonce store's.

## 2. Modules

| Module | Models | Composes |
|---|---|---|
| `TaskProtocol` | Build, SendTask, network, `handleTask`, `Verify`, nonce store, restarts, clocks | implements `TaskLedger` |
| `TaskLedger` | abstract: what the protocol promises | |
| `TaskProtocolProofs` | theorems | `TaskProtocol` |
| `RateLimiter` | `Allow`, `cleanup`, time | implements `TokenBucket` |
| `TokenBucket` | abstract: a bucket per key for ever | |
| `Authentication` | login, sessions, second factor | |
| `AuthenticationProofs` | theorems | `Authentication` |
| `Backups` | backups, restores, files | |
| `BackupsProofs` | theorems | `Backups` |
| `DnsZone` | one zone's requests, tables, pushes and PowerDNS | |
| `DnsZoneProofs` | theorems | `DnsZone` |
| `Mailboxes` | mailbox requests, their table, the node's map files | |
| `MailboxesProofs` | theorems | `Mailboxes` |
| `Hosting` | creations of hosting users, their table, the node's accounts and homes | |
| `HostingProofs` | theorems | `Hosting` |
| `ServerStart` | migrations, seeding, crashes and restarts of several control planes | |
| `ControlPlaneProofs` | theorems | `RateLimiter`, `ServerStart` |
| `AgentStartup` | registrations, allowlist | |
| `Panel` | one tab: routes, history, login form, posts, sidebar | |
| `PanelProofs` | theorems | `Panel` |
| `MC...` | instances for TLC | the module of that name |

### TaskProtocol

A task stands for its envelope; its nonce is the task itself, since
`generateNonce` draws 16 fresh random bytes. `handler[w]` is one goroutine of
`handleTask`; its `pc` stops where another goroutine can come in between: after
the request is read, after checks 1-8 of `Verify` (which use one reading of the
clock and no shared state), between `HasSeen` and `MarkSeen`, before and after
`registry.Execute`, before the response. `own` tells the caller's own request
from another copy. `entries` is the store's map of nonces to expiry times.
`runs` counts executions by the running agent process; `completed` is history.

Time is counted in ticks, `Second` of them to a second, because
`time.RFC3339` drops the fraction of `issued_at` and `expires_at`. Each agent's
clock has a fixed `Offset`. `MaxPause` bounds how long a goroutine can stall
between `Verify`'s reading of the clock and the start of the operation; without
such a bound no expiry check means anything.

Copies overlap freely. `raced` is history: the tasks of which this process let a
copy past `HasSeen` while another was before its `MarkSeen`. `TaskLedger` is what is
left of "at most once": a copy is admitted, the task is closed before the copy
begins, and once a task is closed no further copy of it is admitted by this
process, if it is `Kept`, that is, its lifetime fits the nonce TTL.

### RateLimiter

`limiters` is the map; an entry's `tokens` and `last` are the fields of
`rate.Limiter` (external), counted in ticks' worth of credit so that they are
integers. `Allow` and one pass of `cleanup` each hold the mutex throughout, so
each is one action. The `Bucket` instance maps an entry to its level now, and a
missing entry to a full bucket. `passed[k][n]` is history: how many requests of
`k` got through in this tick and the `n` before it.

### Authentication

Each request is a goroutine whose `pc` stops at every SQL statement and at
every access to the pending map; which operation it is and which code it brings
are chosen where the code first looks at them. `Abort` is a statement that fails
with nothing written; `EnableUnacknowledged` and `ConsumeUnacknowledged` are UPDATEs
that are committed although the handler sees an error. `Suspend` is external: the
code reads `is_suspended` and never writes it. `Restart` empties the map; an
unsynchronised map access by two goroutines, at which the Go runtime stops the
program, is one of its causes. `confirmed`, `spent`, `respent`, `stale` (codes that
a list read earlier has put back into the row) and `barred` are history that no
action reads as a guard.

### Backups

`handler[r]` is `RunBackup`; an execution `e = <<r, i>>` is `HandleRunBackup` on the
node for the i-th copy of its task (`Copies` bounds them): these tasks outlive the
agent's memory of their nonces, so a copy may come when the first has long
succeeded. The client waits for `First(r)`; the two part company when a call
fails, and the operation goes on alone. `file[p]` says whose bytes are under a
path and whether they are a whole dump; a late copy of a restore may extract
again. `abandoned` rows are those whose handler ended without an update: the
client left (`Desert`), the UPDATE failed (`UpdateFails`), the handler panicked
(`Panic`), the INSERT was committed but seen as failed (`CreateUnacknowledged`).
`overwritten` is history: another execution wrote to the path while, or after,
the request's own did.

### DnsZone

A row is named by the request that inserts it. `handler[r]` stops after each
statement of `CreateZone` and `CreateRecord` (`inserted`, `numbered`) and while it
waits for the agent; `op[r]` is `HandleCreateDNSZone`, which ignores its context
and goes on when its caller has given up, and "over" when nobody awaits it.
`CopyPosts` and `CopyPatches` are what further copies of a task do. A key is a
name and type as PowerDNS knows them. PowerDNS is external: a POST makes it serve
`Nameservers` under `Apex`; it takes a PATCH as a whole or not at all, and where a
task has several records of one key (the agent sends one REPLACE for each) it may
refuse the task or keep any of them. `listed` is FALSE when the list ended with an
error, which the handler drops: any part of the records is then pushed.

### Mailboxes

`dovecot` and `vmailbox` are the lines of the two files, each named by the
creation whose hash it carries; `index` is what `postmap` last compiled.
`removeLinePrefix` is three steps: a read into `seen`, the truncation by
`os.WriteFile` and its writing, from the beginning of the file and so over what
others have appended since. `WriteFails` is a full disk or an agent that dies
there: any part of the lines remains. `AppendFails` is a short write, after which
the file is `ragged` and the next line is glued to its last. History: `calm`
requests came when none was under way for their address; `spoilt` addresses had
a line lost, or brought back, by a rewriting or a torn line not meant for it;
the index is `blind` when it was last compiled between a truncation and the
writing after it, until a compilation of a whole file clears that. The
properties name these as the only ways in which rows, files and index come
apart, and all of them are real (section 5).

### Hosting

`handler[c]` is the control plane's `CreateHostingUser`, `op[c]` the agent's
operation, whose value is the command that comes next. `UseraddFails` and
`ChmodFails` are what a command leaves that failed twice or was killed at its
timeout. `Foreign` accounts are the node's own: a creation of such a name is
answered as successful when there is a home, whoever owns it, so the promise of
`HomesArePrivate` leaves them out.

### ServerStart

`Release[p]` is the list of migrations compiled into a control plane's binary;
nothing keeps two releases from sharing one database. `Migrator.Run` stops at each
statement of its transaction per migration, whose SQL is one step that waits for
another open transaction with the same migration, as PostgreSQL makes it wait
for the same table. Losing such a race is an error at the INSERT of the version,
and ends the process; `install.sh:163` has systemd start it again. `MaxFaults`
bounds crashes, COMMITs whose answer is lost, and failing statements of the
seeding. The next-state relation and its parts are called `StartNext` and so on,
so that one proof module can extend this module and `RateLimiter`.

### AgentStartup

The two lists are those of `allowlist.go` and `main.go`, word for word. All
other modules about the agent presume a build whose registrations succeed.

### Panel

`entries` and `at` are the tab's history as the router drives it; `form` is
what `Login` keeps in its four `useState` (both fields are one value),
`NoForm` while it is not mounted; a `post` is
a call of `axios.post`, with `own` while the component that made it is still
mounted (React ignores what is set on another). A location is a path the routes
tell apart and whether it is spelled as the menu spells it, because a `Link`
replaces only the very same one. `landing` and `last` are history. The browser,
React and the router are external. `AnswerTo` is what the control plane answers
to what was typed; the run lets it answer anything, which is more than it does
today (section 5).

## 3. Runs

| Run | Shows | Result |
|---|---|---|
| `task_protocol` | copies that are late, repeated, overlapping or stalled, with restarts: one start per process unless two copies raced past `HasSeen`, valid starts, remembered nonces, late copies refused, refinement of `TaskLedger` | pass |
| `task_concurrent` | with overlapping copies `AtMostOnce` fails: check and mark are two critical sections | violation |
| `task_restart` | after a restart a completed task is executed again, `NoDuplicateExecution` fails | violation |
| `login_limiter` | the limiter implements a bucket per address; the rate is bounded | pass |
| `auth` | revocation, the second factor and the backup codes, whatever overlaps, fails or fails after its commit | pass |
| `backups` | completed rows, restores, and the eventual end of "running", with late copies, collisions of paths and handlers that end without an update | pass |
| `dns` | besides its nameservers PowerDNS serves what is recorded; a success publishes everything up to its serial number | pass |
| `mailboxes` | rows, files and index agree for every address whose own lines no rewriting or torn line hit | pass |
| `hosting` | homes are private and nothing on the node is without a row, whatever fails half-way and is repeated | pass |
| `server_start` | migrations are applied once and in version order, who serves has its schema, and in the end all serve | pass |
| `panel` | forms and posts that outlive each other, or are never answered; the history | pass |
| `agent_startup` | the sixth registration panics | violation |

**Bounds.** `task_protocol`: two agents. n1 has two goroutines and restarts once,
n2 has one. Task t1 is for n1; t2 is for n2 but signed with the key of n1, so that
n1 finds the signature valid and the node wrong, n2 the node right and the
signature wrong, and `Verify`'s two checks are tested apart. `MaxBuilt` has one of
the two built in a behaviour, at tick 1, where a second's fraction is cut off, which
costs an entry its margin. `MaxAge` and the lifetimes are 4 ticks, two to a second,
the tolerance is 1, a goroutine stalls for up to one tick, and the agent's clock is
as far behind as `Verify` can tolerate, which is where an entry's end comes closest
to its task's. The clock passes the end of both the task and its entry. Two
goroutines suffice for two copies; the theorems hold for any number.
`task_concurrent` and `task_restart` are smaller: one task, nothing stalls.
`login_limiter`: bucket of 2, a token every 2 ticks, ttl 6 against 4 to fill:
the proportions of `LoginRateLimiter`; 16 ticks see several sweeps, and the
bound is checked of every window of up to `Window` ticks.
`auth`: one account, since no statement of a handler touches another account's
rows except by a mistaken key, two requests, two enrolments of two codes (so that
one enrolment replaces the other, and one code is put back while another is
spent), one session. Every property is about the account's row and single steps
against it, for which two goroutines suffice; the theorems are for any number.
`backups`: two backups and a restore, two paths, so that the backups may or may
not fall into one second, and two executions of each backup's task.
`dns`: three records, two of them with one key and the third an NS record of the
domain, so that pushes overtake each other in every order and keys collide among
themselves and with PowerDNS's nameservers; one list that is read in part
(`MaxUnread`). One request for the zone: a second one only finds the domain taken.
`mailboxes`: two creations of one address, so that it is created, deleted and
created again, one of another, two deletions; `MaxTasks` has any four of the five
sent, `MaxUnderWay` lets any two overlap, and `MaxFaults` counts failed operations
and requests for an address that is busy: two, so that the deletion of what a
failed creation left fails as well, or a failure meets an overlap on one address.
`hosting`: three creations of one name, so that a creation repeats one that
failed while another is under way, one of a name of its own and one of a name the
node has.
`server_start`: two control planes of one release and one of a later release
whose additional version lies between two older ones; two faults, so that the
restart after a fault can fail as well.
`panel`: two posts under way, one of an earlier form and one of the form shown;
three entries of history that moves reach, so that an answer can come in front
of, at and behind the login page; six landings.

**Fairness** is assumed in two modules. `Backups`: a handler that can send, give
up or record does so, since its goroutine runs, the HTTP client has a timeout of
60 seconds and a statement ends with an answer or a broken connection; nothing is
assumed of the agent, which may be silent for ever, nor of the user, who may
leave. `ServerStart`: each process goes on with its next statement, and one that
failed is started again: systemd pauses for 5 seconds, so that its limit of
starts per interval is never reached; faults are bounded and unfair. `Panel` has
none: an answer may never come, and no liveness is claimed of its form.

**Deadlock** is checked in `panel`, where the user can always do something. The
other systems may stop, when nobody sends a request or a bound is reached.

## 4. Proofs

All proofs are by TLAPS, from the named assumptions on the constants only, which
TLC evaluates on every run.

* **TaskProtocolProofs.** `IndInv` holds in every behaviour, with any number of
  copies in any overlap. It strengthens `NonceRemembered` by `HandlersTimely`:
  between the clock reading and the start, the envelope was accepted at a reading
  that is at most `MaxPause` old. So when `MarkSeen` stores `AgentTime + NonceTTL`,
  the task's expiry is at most `Lifetime + SkewTolerance + MaxPause + Second - 1`
  away, and `SufficientTTL` closes the gap; `Cleanup` only drops entries whose
  task no reading can accept any more. From it follow `StartsAreValid` and
  `RefusesLateCopies`. `OnceInv` adds `UnracedIsFresh`: where the lifetime fits and
  no two copies were between `HasSeen` and `MarkSeen` together, a copy that is
  past `HasSeen` is alone and its task was not started; hence
  `ExecutesOnceUnlessRaced`. `Implementation` says that every step is a step of
  `TaskLedger` or a stutter. It assumes nothing: tasks whose lifetime does not fit
  are not `Kept` by the ledger, copies that overlap are admitted together, and a
  restart is the ledger's `Forget`.
* **ControlPlaneProofs, the limiter.** `TypeCorrect`, and `SweepIsInvisible`: if
  the ttl is at least the time an empty bucket needs to fill, the limiter
  implements a bucket per key kept for ever. The argument: `last <= lastSeen`, so
  an entry idle for longer than the ttl is full, which is what a missing entry
  maps to. `BoundsTheRate` says that no window of `n + 1` ticks lets more than
  `Burst + n \div Period` requests of a key through, for every `n` below `Window`. Its inductive
  invariant `PaidFor` counts credit: what got through in a window, at the price of
  a token each, and the level that is left are together at most a full bucket and
  the refill of `n` ticks. It needs the same condition on the ttl, since
  otherwise the sweep gives credit away. `LoginAttempts` puts in the constants of
  `LoginRateLimiter`: 19 attempts in 10 minutes.
* **ControlPlaneProofs, the start.** `StartInv` begins with PostgreSQL's locks:
  a migration's transaction is open in at most one process (`OneHolder`), so when
  a version is committed nobody else has recorded it (`CommitsAreNew`), and each is
  applied once (`AppliesOnce`). A process takes the least version it lacks
  (of a set of naturals there is one because `<` is well-founded on them, which
  stands in for induction), so all smaller ones of its release are recorded
  (`NothingSkipped`). Nothing is ever taken back, whence `AppliesInOrder`; and
  `ServesReady`: who serves has found every version of its release and, unless a
  statement of its seeding failed, a user.
* **AuthenticationProofs.** No assumption on overlap, on the numbers of accounts,
  sessions or requests, or on what a failing statement has done. `AuthInv` adds
  to the first five properties of `auth` what each goroutine carries: the list it
  read, the enrolment it confirmed, the factor it showed, all of them its own
  account's. `CodesInv` adds that no code in a row has been accepted since it was
  last given, and that the row's codes other than `stale` ones are of the secret
  beside them: whatever writes the column gives codes, puts stale ones back (which
  counts as giving them again) or takes one away. `CodesUsedOnce` and
  `RowConsistent` are its parts.
* **BackupsProofs.** No assumption. `Steps` says how far a request's row, handler
  and first execution are together; `FileFollows`, that while no other execution
  has written to the path of an `Undisturbed` request, the file is what its own
  execution has made of it, and whole once that has succeeded (`Promised`). From
  these follow `CompletedBackups` and `WholeRestores`, for any number of copies.
* **DnsZoneProofs.** `Inductive` says how far each handler is and what its
  operation may have done by then; with it `SerialCoversRecords` and
  `ServedIsRecorded` are inductive. Insert comes before count and count before
  list, so whoever lists after drawing number n sees every record numbered up
  to n, if the list was read to its end; an operation that succeeds has put all
  of its list under their keys (`Published`), and no step, of a late copy or of
  the creation of the zone with its nameservers, takes a key back. Hence
  `SuccessPublishesAll`.
* **MailboxesProofs.** `IndexIsCurrent`: an index that is behind its file always
  has an operation yet to compile it, or one that failed. `MailInv` is about each
  undisturbed address: its requests work one at a time (`CalmAlone`) and hold
  their row meanwhile (`RowsHeld`); lines and index entries have a row
  (`LinesHaveRows`); a deletion has removed what lies behind it, and what a
  creation has written stays until a deletion of its row is sent
  (`DeletionDone`, `CreationDone`). While some deletion has a file empty, "has
  written" means in the file or in what that deletion is about to write back
  (`InDovecot`, `InVmailbox`). `CreatedIsUsable` and `GoneWithRow` follow for every
  address that is not `spoilt`.
* **HostingProofs.** `RowsFirst`: a creation at work holds the row of its name,
  and rows never go, so of several creations of one name one at most ever reaches
  the agent. `Stages` says what that one has made of the account at each command.
  From both follow `HomesArePrivate` and `NothingUnowned`.
* **PanelProofs.** `FormInv` ties the form to the posts: only a mounted form owns
  one, at most one, exactly while it is loading, and its message is the answer to
  its latest submission. `HistoryInv` follows every way of adding an entry: the
  menu and the answer to a login are the only ones, and both name a page.

Model-checked only: liveness (`Settles`, `EventuallyServes`), since liveness under
fairness and ENABLED are beyond the prover, and the three runs that end in a
violation.

## 5. Where the code and its promises disagree

Three disagreements are runs of their own, recorded under "findings" in
`PROJECT.json`: `task_concurrent`, `task_restart` and `agent_startup`. The others
were met while modelling; where a model has the behaviour, its properties are
stated up to it.

Tasks.
* Two copies of a request that are in the handlers together both run
  (`task_concurrent`): `HasSeen` (`task.go:178`) and `MarkSeen` (`:183`) are two
  critical sections.
* A completed task starts again when it is delivered again after a restart of
  the agent (`task_restart`): the nonces are in memory (`nonce.go:27`), while
  `docs/03_AGENT_PROTOCOL.md:108` promises "no duplicate execution" and
  `nonce.go:10-11` that tasks from before the restart have expired.
* An entry of the nonce store lives for 2 * `MaxAge`, ten minutes by default,
  whatever the task's own expiry, while certificates are issued by tasks of 15
  minutes and backups made by tasks of 30: `SufficientTTL` says which tasks fit.
* `VHostParams` and `LBParams` (`webserver/driver.go:7`, `:17`) have no names for
  the parameters of the control plane; `encoding/json` matches neither
  `document_root` nor `php_version`, `runtime_port` or `compute_ips` to a field.
  Every virtual host, certificate and load balancer fails at the agent before it
  touches the node. `IssueSSL` and `ConfigureLoadBalancer` are not in the
  allowlist either.

Control plane.
* Backup codes work again after a race: `totp.go:165` reads the list and `:185`
  writes it, so that of two requests with one code both are accepted, and of two
  with different codes the later write puts the other's back; the same write can
  undo a `DisableMFA` or a new enrolment's list. Two requests that both confirm one
  enrolment, or one that is repeated because its UPDATE was committed while the
  handler saw an error (`totp_handler.go:104-112`), give all codes again. The model
  counts each code so returned as given again (`spent`, `stale`):
  `CodesUsedOnce` says that there is no other way.
* `Login` reads `mfa_enabled` before it checks the password
  (`auth_handler.go:141`); a second factor that is enabled meanwhile is not asked
  for.
* Two backups of one user and type in one second have one path
  (`backup_handler.go:85`), and write to it together.
* Backup and restore tasks live for 30 minutes (`backup_handler.go:107`, `:170`),
  nonces for 10: a late copy of a backup's request truncates and rewrites a dump
  whose row has long been completed.
* A backup's row stays "running" for ever when the client leaves, when the UPDATE
  at `backup_handler.go:119` or `:133` fails (its error is ignored), when the
  handler panics on a nil node (`:105-106`) or on the nil agent client of a control
  plane without certificates (`main.go:113-120`), and when the INSERT was committed
  but not acknowledged. Nothing ever looks at such a row again.
* `ListRecordsByZone` returns what it has read so far together with the error
  (`models/dns.go:110`), which `dns_handler.go:168` drops: an incomplete zone is
  pushed under the new serial number and reported as a success.
* "10 attempts per 10 minutes" (`ratelimit.go:76`) is 19 at most, burst and
  refill; `RateIsBounded` is that bound, `LoginAttempts` the number.
* When the agent answers that an operation failed, `hosting_handler.go:136` and
  `:231` call `err.Error()` of a nil error, and `cluster_handler.go:115` reads
  `result.Output` of a nil result: the handler panics, and nothing is answered
  by it or audited. The row, inserted as active, stays, and its UNIQUE name
  blocks every retry (`NothingUnowned` is what is left of the row's meaning).
  `docs/DISASTER_RECOVERY.md:34` has operators re-trigger the creation of a virtual
  host, which the UNIQUE domain of the row refuses.
* A failed COUNT at the seeding is taken for "there are users" (`main.go:85`):
  on an empty table nobody can log in until a restart.
* `LogFromContext` sets no address, so that every INSERT of an audit entry of an
  operation passes the empty string for an inet and is refused
  (`audit.go:86`), although entries are to be reliable (comment at 59-61).
* The installer sends `db_user` and `db_pass` where the agent reads `db_username`
  and `password`, and asks for `GrantPrivileges`, which no agent registers
  (`installer_handler.go:108-118`).

Agent.
* A deletion's rewriting of a map file is made of a stale reading: the line of a
  mailbox created meanwhile is lost, one removed meanwhile comes back
  (`mail.go:157`). `os.WriteFile` also empties the file before it writes: if the
  agent dies there, or the disk is full, all lines are gone; a line appended in
  between is overwritten; a `postmap` in between compiles an empty index and
  reports success, and the index stays empty when the deletion's own `postmap`
  then fails. For that moment Dovecot knows no mailbox at all.
* A short write of `appendToFile` (`mail.go:130`) leaves a line without an end,
  to which the next one is glued; that creation is answered with success.

Panel.
* The form posts `username` (`Login.tsx:21-24`), the handler decodes `email`
  (`auth_handler.go:51-55`, `:86-88`): every login is answered with 401. Were it
  not, an answer that asks for a second factor (`auth_handler.go:143`, status
  200) would lead to the dashboard as well; `/dashboard` is shown without a
  session in any case, and the button "Logout" has no handler.
* 429 and 500 are shown as "Cannot connect to the server".
* `axios.post` has no timeout (`Login.tsx:21`), and the server's `WriteTimeout`
  (`main.go:139`) ends neither a blocked handler nor its connection: a form whose
  answer never comes stays disabled until the user leaves it.
* The answer to a login whose form the user has left pushes `/dashboard` in front
  of wherever the user is by then, and drops what lay ahead in the history.

Scripts. `updater.sh` runs `-u postgres pg_dump` without `sudo` before it, and
always stops there.

## 6. Not modelled

* Copies of a mailbox or hosting-user task that overlap with it or follow a restart
  (in `Mailboxes` and `Hosting` a task reaches the agent at most once); `Backups` and
  `DnsZone` have them.
* Virtual hosts, certificates and load balancers: they never reach the node
  (above). `CreateCluster` is one INSERT.
* The one-click installer: its second task always fails.
* Databases, Node.js applications: single INSERTs and single commands whose
  half-way states nothing reads again. The port of an application is drawn
  at random and checked against nothing.
* Mail aliases: lines that are only ever appended to a file of their own;
  `DeleteAlias`, `HandleDeleteDNSZone`, `RevokeAllExcept` and
  `CleanExpiredSessions` are never called.
* Role-based access: a constant table. File manager, packages, metrics, audit
  log, WHMCS stubs: single calls without state that another call depends on.
* Configuration, mTLS, password hashing, request logging, scripts: no state whose
  order matters, or outside the programs. The argument and path validation of
  the executor: pure functions of one call.
* In the browser: other tabs, pages kept whole by the browser when a document is
  left, and what Vite builds.

Data is abstracted throughout: signatures, hashes, dumps and templates are what
they decide. Models other than `Hosting` let a request name any row of its own
table, as the handlers do.
