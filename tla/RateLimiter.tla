----------------------------- MODULE RateLimiter -----------------------------
(***************************************************************************)
(* The control plane's in-memory rate limiter: a map from client address   *)
(* to a token bucket of golang.org/x/time/rate, made when the address is   *)
(* first seen and dropped by a background sweep when it has been idle for  *)
(* longer than ttl.  Allow and the sweep hold one mutex from beginning to  *)
(* end, so each is one action.                                             *)
(*                                                                         *)
(* Time is counted in ticks, Period of them to a token, and a bucket's     *)
(* content in ticks' worth of credit, so that it is an integer.            *)
(***************************************************************************)
EXTENDS Integers

CONSTANTS
  Key,      \* client addresses
  Burst,    \* burst
  Period,   \* ticks to a token: 1 / rate
  TTL,      \* ttl
  Window,   \* length of the longest sliding window the history below covers
  MaxTime   \* bound: the last value of the clock

ASSUME LimiterAssumption ==
  /\ Burst \in Nat \ {0}
  /\ Period \in Nat \ {0}
  /\ TTL \in Nat
  /\ Window \in Nat \ {0}

VARIABLES
  clock,
  limiters,  \* map of keys to [tokens, last, lastSeen]: RateLimiter.limiters
  verdict,   \* the last decision: <<key, let through?>>
  passed     \* history: [Key -> [0 .. Window - 1 -> how many requests got through
             \*                    in this tick and so many before it]]

vars == <<clock, limiters, verdict, passed>>

Full == Burst * Period

TypeOK ==
  /\ clock \in Nat
  /\ passed \in [Key -> [0 .. Window - 1 -> Nat]]
  /\ DOMAIN limiters \subseteq Key
  /\ \A k \in DOMAIN limiters :
       /\ limiters[k] \in [tokens : 0 .. Full, last : Nat, lastSeen : Nat]
       /\ limiters[k].last <= limiters[k].lastSeen
       /\ limiters[k].lastSeen <= clock

-----------------------------------------------------------------------------
\* rate.Limiter: the credit of entry e now.  AllowN updates tokens and last
\* only when it lets a request through.
Available(e) ==
  LET credit == e.tokens + (clock - e.last)
  IN IF credit < Full THEN credit ELSE Full

NewEntry == [tokens |-> Full, last |-> clock, lastSeen |-> clock]

Entry(k) == IF k \in DOMAIN limiters THEN limiters[k] ELSE NewEntry

Store(k, e) ==
  limiters' = [x \in DOMAIN limiters \cup {k} |-> IF x = k THEN e ELSE limiters[x]]

\* A request of key k got through.
Passes(k) == passed' = [passed EXCEPT ![k] = [n \in 0 .. Window - 1 |-> @[n] + 1]]

\* A refused request that costs a token all the same.
AllowChargesRefusals(k) ==
  LET e == Entry(k)
      ok == Available(e) >= Period
  IN /\ Store(k, [tokens   |-> IF ok THEN Available(e) - Period ELSE 0,
                  last     |-> clock,
                  lastSeen |-> clock])
     /\ verdict' = <<k, ok>>
     /\ IF ok THEN Passes(k) ELSE UNCHANGED passed
     /\ UNCHANGED clock

\* RateLimiter.Allow, and with it one request through LimitByIP or Login.
Allow(k) ==
  LET e == Entry(k)
      ok == Available(e) >= Period
  IN /\ Store(k, [tokens   |-> IF ok THEN Available(e) - Period ELSE e.tokens,
                  last     |-> IF ok THEN clock ELSE e.last,
                  lastSeen |-> clock])
     /\ verdict' = <<k, ok>>
     /\ IF ok THEN Passes(k) ELSE UNCHANGED passed
     /\ UNCHANGED clock

IdleAtAll(k) == clock - limiters[k].lastSeen > 0
Idle(k) == clock - limiters[k].lastSeen > TTL

\* One pass of cleanup; when the ticker fires is left open.
Sweep ==
  /\ \E k \in DOMAIN limiters : Idle(k)
  /\ limiters' = [k \in {x \in DOMAIN limiters : ~Idle(x)} |-> limiters[k]]
  /\ UNCHANGED <<clock, verdict, passed>>

Tick ==
  /\ clock < MaxTime
  /\ clock' = clock + 1
  /\ passed' = [k \in Key |->
                 [n \in 0 .. Window - 1 |-> IF n = 0 THEN 0 ELSE passed[k][n - 1]]]
  /\ UNCHANGED <<limiters, verdict>>

Init ==
  /\ clock = 0
  /\ limiters = [k \in {} |-> NewEntry]
  /\ verdict = <<>>
  /\ passed = [k \in Key |-> [n \in 0 .. Window - 1 |-> 0]]

Next == Tick \/ Sweep \/ \E k \in Key : Allow(k)

Spec == Init /\ [][Next]_vars

-----------------------------------------------------------------------------
\* Dropping an idle entry and making a new one gives no key more credit, or
\* less, than a bucket that is kept for ever: the sweep cannot be observed
\* (ratelimit.go Allow, cleanup).  This needs TTL to be long enough for an
\* empty bucket to fill up; both preconfigured limiters are.
LongTTL == TTL >= Full

Bucket == INSTANCE TokenBucket WITH
  level <- [k \in Key |-> IF k \in DOMAIN limiters THEN Available(limiters[k])
                                                   ELSE Full]

ImplementsBucket == Bucket!Spec

\* In a tick and the n before it no key gets more requests through than the burst
\* and what the rate refills meanwhile, sweeps or not, for windows of every length
\* up to Window (ratelimit.go NewRateLimiter).
RateIsBounded ==
  \A k \in Key, n \in 0 .. Window - 1 : passed[k][n] <= Burst + (n \div Period)
=============================================================================
