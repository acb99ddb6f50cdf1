------------------------- MODULE ControlPlaneProofs -------------------------
(***************************************************************************)
(* Theorems about two parts of the control plane that share no state: its  *)
(* rate limiter, for every burst, rate, window and set of keys, and its    *)
(* start, for every number of control planes and every set of migrations.  *)
(***************************************************************************)
EXTENDS RateLimiter, ServerStart, TLAPS, WellFoundedInduction

LEMMA FullType == Full \in Nat /\ Period \in Nat /\ Period > 0 /\ Full >= Period
BY LimiterAssumption DEF Full

\* The credit of an entry is within the bucket (ratelimit.go Allow).
LEMMA AvailableType ==
  ASSUME clock \in Nat,
         NEW e \in [tokens : 0 .. Full, last : Nat, lastSeen : Nat],
         e.last <= clock
  PROVE  Available(e) \in 0 .. Full
BY FullType DEF Available

LEMMA EntryType ==
  ASSUME TypeOK, NEW k \in Key
  PROVE  /\ Entry(k) \in [tokens : 0 .. Full, last : Nat, lastSeen : Nat]
         /\ Entry(k).last <= clock
         /\ Available(Entry(k)) \in 0 .. Full
<1>1. CASE k \in DOMAIN limiters
  <2>1. /\ limiters[k] \in [tokens : 0 .. Full, last : Nat, lastSeen : Nat]
        /\ limiters[k].last <= clock
    BY <1>1 DEF TypeOK
  <2>. QED
    BY <1>1, <2>1, AvailableType DEF TypeOK, Entry
<1>2. CASE k \notin DOMAIN limiters
  <2>1. /\ NewEntry \in [tokens : 0 .. Full, last : Nat, lastSeen : Nat]
        /\ NewEntry.last <= clock
    BY FullType DEF NewEntry, TypeOK
  <2>. QED
    BY <1>2, <2>1, AvailableType DEF TypeOK, Entry
<1>. QED
  BY <1>1, <1>2

\* The decision Allow takes on a key, and the entry it leaves behind.
LEMMA AllowEffect ==
  ASSUME TypeOK, NEW k \in Key, Allow(k)
  PROVE  /\ DOMAIN limiters' = DOMAIN limiters \cup {k}
         /\ \A x \in DOMAIN limiters : x # k => limiters'[x] = limiters[x]
         /\ limiters'[k] \in [tokens : 0 .. Full, last : Nat, lastSeen : Nat]
         /\ limiters'[k].last <= clock
         /\ limiters'[k].lastSeen = clock
         /\ clock' = clock
         /\ \/ /\ Available(Entry(k)) >= Period
               /\ verdict' = <<k, TRUE>>
               /\ Passes(k)
               /\ limiters'[k].tokens = Available(Entry(k)) - Period
               /\ limiters'[k].last = clock
            \/ /\ Available(Entry(k)) < Period
               /\ verdict' = <<k, FALSE>>
               /\ passed' = passed
               /\ limiters'[k].tokens = Entry(k).tokens
               /\ limiters'[k].last = Entry(k).last
<1>. DEFINE e == Entry(k)
            ok == Available(e) >= Period
            new == [tokens   |-> IF ok THEN Available(e) - Period ELSE e.tokens,
                    last     |-> IF ok THEN clock ELSE e.last,
                    lastSeen |-> clock]
<1>1. /\ e \in [tokens : 0 .. Full, last : Nat, lastSeen : Nat]
      /\ e.last <= clock
      /\ Available(e) \in 0 .. Full
  BY EntryType
<1>2. limiters' = [x \in DOMAIN limiters \cup {k} |-> IF x = k THEN new ELSE limiters[x]]
  BY DEF Allow, Store
<1>3. /\ clock' = clock /\ clock \in Nat
      /\ verdict' = <<k, ok>>
      /\ IF ok THEN Passes(k) ELSE passed' = passed
  BY DEF Allow, TypeOK
<1>4. /\ new \in [tokens : 0 .. Full, last : Nat, lastSeen : Nat]
      /\ new.last <= clock
      /\ new.lastSeen = clock
  BY <1>1, <1>3, FullType
<1>5. \/ /\ Available(e) >= Period
         /\ ok = TRUE
         /\ new.tokens = Available(e) - Period
         /\ new.last = clock
      \/ /\ Available(e) < Period
         /\ ok = FALSE
         /\ new.tokens = e.tokens
         /\ new.last = e.last
  BY <1>1, FullType
<1>6. limiters'[k] = new
  BY <1>2
<1>7. /\ DOMAIN limiters' = DOMAIN limiters \cup {k}
      /\ \A x \in DOMAIN limiters : x # k => limiters'[x] = limiters[x]
  BY <1>2
<1>. HIDE DEF e, ok, new
<1>. QED
  BY <1>3, <1>4, <1>5, <1>6, <1>7 DEF e

\* Whether a request gets through or not, the counts stay counts.
LEMMA PassesType ==
  ASSUME TypeOK, NEW k \in Key, Passes(k) \/ passed' = passed
  PROVE  passed' \in [Key -> [0 .. Window - 1 -> Nat]]
<1>1. passed \in [Key -> [0 .. Window - 1 -> Nat]]
  BY DEF TypeOK
<1>2. CASE Passes(k)
  <2>1. passed[k] \in [0 .. Window - 1 -> Nat]
    BY <1>1
  <2>2. ASSUME NEW n \in 0 .. Window - 1 PROVE passed[k][n] + 1 \in Nat
    BY <2>1, LimiterAssumption
  <2>3. [n \in 0 .. Window - 1 |-> passed[k][n] + 1] \in [0 .. Window - 1 -> Nat]
    BY <2>2, Zenon
  <2>. QED
    BY <1>1, <1>2, <2>3 DEF Passes
<1>. QED
  BY <1>1, <1>2

LEMMA TickShifts ==
  ASSUME TypeOK, Tick
  PROVE  /\ passed' \in [Key -> [0 .. Window - 1 -> Nat]]
         /\ \A k \in Key, n \in 0 .. Window - 1 :
              \/ n = 0 /\ passed'[k][n] = 0
              \/ n - 1 \in 0 .. Window - 1 /\ passed'[k][n] = passed[k][n - 1]
<1>. DEFINE shifted(k) == [n \in 0 .. Window - 1 |-> IF n = 0 THEN 0 ELSE passed[k][n - 1]]
<1>1. passed' = [k \in Key |-> shifted(k)]
  BY DEF Tick
<1>2. ASSUME NEW k \in Key PROVE shifted(k) \in [0 .. Window - 1 -> Nat]
  <2>1. passed[k] \in [0 .. Window - 1 -> Nat]
    BY DEF TypeOK
  <2>2. \A n \in 0 .. Window - 1 : n # 0 => n - 1 \in 0 .. Window - 1
    BY LimiterAssumption
  <2>. QED
    BY <2>1, <2>2
<1>3. ASSUME NEW k \in Key, NEW n \in 0 .. Window - 1
      PROVE  \/ n = 0 /\ shifted(k)[n] = 0
             \/ n - 1 \in 0 .. Window - 1 /\ shifted(k)[n] = passed[k][n - 1]
  BY LimiterAssumption
<1>. HIDE DEF shifted
<1>. QED
  BY <1>1, <1>2, <1>3

LEMMA InitTypeOK == Init => TypeOK
BY DEF Init, TypeOK

LEMMA NextTypeOK == TypeOK /\ [Next]_vars => TypeOK'
<1>. SUFFICES ASSUME TypeOK, [Next]_vars PROVE TypeOK'
  OBVIOUS
<1>1. CASE Tick
  <2>1. passed' \in [Key -> [0 .. Window - 1 -> Nat]]
    BY <1>1, TickShifts
  <2>. QED
    BY <1>1, <2>1 DEF Tick, TypeOK
<1>2. CASE Sweep
  BY <1>2 DEF Sweep, TypeOK
<1>3. ASSUME NEW k \in Key, Allow(k) PROVE TypeOK'
  <2>1. /\ DOMAIN limiters' = DOMAIN limiters \cup {k}
        /\ \A x \in DOMAIN limiters : x # k => limiters'[x] = limiters[x]
        /\ limiters'[k] \in [tokens : 0 .. Full, last : Nat, lastSeen : Nat]
        /\ limiters'[k].last <= clock
        /\ limiters'[k].lastSeen = clock
        /\ clock' = clock
        /\ Passes(k) \/ passed' = passed
    BY <1>3, AllowEffect
  <2>2. passed' \in [Key -> [0 .. Window - 1 -> Nat]]
    BY <2>1, PassesType
  <2>. QED
    BY <2>1, <2>2 DEF TypeOK
<1>4. CASE UNCHANGED vars
  BY <1>4 DEF vars, TypeOK
<1>. QED
  BY <1>1, <1>2, <1>3, <1>4 DEF Next

\* Every entry holds at most a full bucket, and was last used no earlier than
\* it was last charged (ratelimit.go).
THEOREM TypeCorrect == Spec => []TypeOK
BY InitTypeOK, NextTypeOK, PTL DEF Spec
-----------------------------------------------------------------------------
\* The refinement.

\* The credit of key k, whether or not it has an entry now.
Level(k) == IF k \in DOMAIN limiters THEN Available(limiters[k]) ELSE Full

LEMMA LevelOfEntry ==
  ASSUME TypeOK, NEW k \in Key
  PROVE  Level(k) = Available(Entry(k)) /\ Level(k) \in 0 .. Full
<1>1. Available(NewEntry) = Full
  BY FullType DEF Available, NewEntry, TypeOK
<1>. QED
  BY <1>1, EntryType DEF Level, Entry

\* An entry the sweep drops has filled up (ratelimit.go cleanup).
LEMMA IdleIsFull ==
  ASSUME LongTTL, TypeOK, NEW k \in DOMAIN limiters, Idle(k)
  PROVE  Available(limiters[k]) = Full
<1>. DEFINE e == limiters[k]
<1>1. /\ e.tokens \in 0 .. Full /\ e.last \in Nat /\ e.lastSeen \in Nat
      /\ e.last <= e.lastSeen /\ clock \in Nat
  BY DEF TypeOK
<1>2. clock - e.lastSeen > TTL /\ TTL >= Full
  BY DEF Idle, LongTTL
<1>3. ~(e.tokens + (clock - e.last) < Full)
  BY <1>1, <1>2, FullType, LimiterAssumption
<1>. QED
  BY <1>3 DEF Available

LEMMA TickFills ==
  ASSUME TypeOK, Tick, NEW k \in Key
  PROVE  Level(k)' = IF Level(k) < Full THEN Level(k) + 1 ELSE Full
<1>1. limiters' = limiters /\ clock' = clock + 1 /\ clock \in Nat
  BY DEF Tick, TypeOK
<1>2. CASE k \in DOMAIN limiters
  <2>. DEFINE e == limiters[k]
  <2>1. e.tokens \in 0 .. Full /\ e.last \in Nat /\ e.last <= clock
    BY <1>2 DEF TypeOK
  <2>2. Level(k)' = IF e.tokens + (clock' - e.last) < Full
                      THEN e.tokens + (clock' - e.last) ELSE Full
    BY <1>1, <1>2 DEF Level, Available, Full
  <2>3. Level(k) = IF e.tokens + (clock - e.last) < Full
                     THEN e.tokens + (clock - e.last) ELSE Full
    BY <1>2 DEF Level, Available
  <2>. HIDE DEF e
  <2>. QED
    BY <1>1, <2>1, <2>2, <2>3, FullType
<1>3. CASE k \notin DOMAIN limiters
  BY <1>1, <1>3, FullType DEF Level, Full
<1>. QED
  BY <1>2, <1>3

LEMMA AllowDecides ==
  ASSUME TypeOK, NEW k \in Key, Allow(k)
  PROVE  /\ \A x \in Key : x # k => Level(x)' = Level(x)
         /\ \/ /\ Level(k) >= Period
               /\ verdict' = <<k, TRUE>>
               /\ Passes(k)
               /\ Level(k)' = Level(k) - Period
            \/ /\ Level(k) < Period
               /\ verdict' = <<k, FALSE>>
               /\ passed' = passed
               /\ Level(k)' = Level(k)
<1>. DEFINE e == Entry(k)
            new == limiters'[k]
<1>1. /\ DOMAIN limiters' = DOMAIN limiters \cup {k}
      /\ \A x \in DOMAIN limiters : x # k => limiters'[x] = limiters[x]
      /\ clock' = clock
      /\ \/ /\ Available(e) >= Period
            /\ verdict' = <<k, TRUE>>
            /\ Passes(k)
            /\ new.tokens = Available(e) - Period
            /\ new.last = clock
         \/ /\ Available(e) < Period
            /\ verdict' = <<k, FALSE>>
            /\ passed' = passed
            /\ new.tokens = e.tokens
            /\ new.last = e.last
  BY AllowEffect
<1>2. Level(k) = Available(e) /\ Available(e) \in 0 .. Full
  BY LevelOfEntry
<1>3. Level(k)' = IF new.tokens + (clock - new.last) < Full
                    THEN new.tokens + (clock - new.last) ELSE Full
  BY <1>1 DEF Level, Available, Full
<1>4. ASSUME NEW x \in Key, x # k PROVE Level(x)' = Level(x)
  BY <1>1, <1>4 DEF Level, Available, Full
<1>5. Available(e) = IF e.tokens + (clock - e.last) < Full
                       THEN e.tokens + (clock - e.last) ELSE Full
  BY DEF Available
<1>6. clock \in Nat
  BY DEF TypeOK
<1>7. SUFFICES \/ /\ Level(k) >= Period
                  /\ verdict' = <<k, TRUE>>
                  /\ Passes(k)
                  /\ Level(k)' = Level(k) - Period
               \/ /\ Level(k) < Period
                  /\ verdict' = <<k, FALSE>>
                  /\ passed' = passed
                  /\ Level(k)' = Level(k)
  BY <1>4
<1>. HIDE DEF e, new
<1>8. CASE /\ Available(e) >= Period
           /\ verdict' = <<k, TRUE>>
           /\ Passes(k)
           /\ new.tokens = Available(e) - Period
           /\ new.last = clock
  BY <1>2, <1>3, <1>6, <1>8, FullType
<1>9. CASE /\ Available(e) < Period
           /\ verdict' = <<k, FALSE>>
           /\ passed' = passed
           /\ new.tokens = e.tokens
           /\ new.last = e.last
  BY <1>2, <1>3, <1>5, <1>9
<1>. QED
  BY <1>1, <1>8, <1>9

\* The sweep takes and gives no credit.
LEMMA SweepKeeps ==
  ASSUME LongTTL, TypeOK, Sweep, NEW k \in Key
  PROVE  Level(k)' = Level(k)
<1>1. CASE k \in DOMAIN limiters /\ Idle(k)
  <2>1. k \notin DOMAIN limiters'
    BY <1>1 DEF Sweep
  <2>. QED
    BY <1>1, <2>1, IdleIsFull DEF Level, Full
<1>2. CASE ~(k \in DOMAIN limiters /\ Idle(k))
  BY <1>2 DEF Sweep, Level, Available, Full
<1>. QED
  BY <1>1, <1>2

LEMMA InitBucket == Init => Bucket!Init
<1>. SUFFICES ASSUME Init PROVE Bucket!Init
  OBVIOUS
<1>1. \A k \in Key : Level(k) = Full
  BY DEF Init, Level
<1>2. [k \in Key |-> Level(k)] = [k \in Key |-> Full]
  BY <1>1
<1>. QED
  BY <1>2 DEF Init, Level, Bucket!Init, Bucket!Full, Full

LEMMA NextBucket ==
  ASSUME LongTTL, TypeOK, [Next]_vars
  PROVE  [Bucket!Next]_(Bucket!bucketVars)
<1>. DEFINE level == [k \in Key |-> Level(k)]
<1>1. ASSUME Tick PROVE Bucket!Fill
  <2>1. \A k \in Key : Level(k)' = IF Level(k) < Full THEN Level(k) + 1 ELSE Full
    BY <1>1, TickFills
  <2>2. level' = [k \in Key |-> IF level[k] < Full THEN level[k] + 1 ELSE Full]
    BY <2>1
  <2>3. verdict' = verdict
    BY <1>1 DEF Tick
  <2>. QED
    BY <2>2, <2>3 DEF Bucket!Fill, Bucket!Full, Full, Level
<1>2. ASSUME Sweep PROVE UNCHANGED Bucket!bucketVars
  <2>1. ASSUME NEW k \in Key PROVE Level(k)' = Level(k)
    BY <1>2, SweepKeeps
  <2>2. level' = level
    BY <2>1
  <2>3. verdict' = verdict
    BY <1>2 DEF Sweep
  <2>. QED
    BY <2>2, <2>3 DEF Bucket!bucketVars, Level
<1>3. ASSUME NEW k \in Key, Allow(k) PROVE Bucket!Take(k) \/ Bucket!Refuse(k)
  <2>1. \A x \in Key : x # k => Level(x)' = Level(x)
    BY <1>3, AllowDecides
  <2>2. CASE /\ Level(k) >= Period
             /\ verdict' = <<k, TRUE>>
             /\ Level(k)' = Level(k) - Period
    <3>1. \A x \in Key : Level(x)' = IF x = k THEN Level(k) - Period ELSE Level(x)
      BY <2>1, <2>2
    <3>2. level' = [level EXCEPT ![k] = @ - Period]
      BY <3>1
    <3>. QED
      BY <2>2, <3>2 DEF Bucket!Take, Level
  <2>3. CASE /\ Level(k) < Period
             /\ verdict' = <<k, FALSE>>
             /\ Level(k)' = Level(k)
    <3>1. level' = level
      BY <2>1, <2>3
    <3>. QED
      BY <2>3, <3>1 DEF Bucket!Refuse, Level
  <2>. QED
    BY <1>3, <2>2, <2>3, AllowDecides
<1>4. ASSUME UNCHANGED vars PROVE UNCHANGED Bucket!bucketVars
  BY <1>4 DEF vars, Bucket!bucketVars, Available
<1>. QED
  BY <1>1, <1>2, <1>3, <1>4 DEF Next, Bucket!Next

\* The limiter with its map and sweep behaves as one bucket per key kept for
\* ever, if the ttl is long enough for a bucket to fill up
\* (ratelimit.go Allow, cleanup).
THEOREM SweepIsInvisible ==
  ASSUME LongTTL
  PROVE  Spec => ImplementsBucket
BY InitBucket, NextBucket, TypeCorrect, PTL
DEF Spec, ImplementsBucket, Bucket!Spec
-----------------------------------------------------------------------------
\* The bound on the rate.

\* What got through in a tick and the n before it was paid for by a full bucket
\* and n ticks of refill; the credit that is left was not spent.
PaidFor ==
  \A k \in Key, n \in 0 .. Window - 1 : passed[k][n] * Period + Level(k) <= Full + n

LEMMA DivBound ==
  ASSUME NEW a \in Nat, NEW b \in Nat, NEW n \in Nat, NEW p \in Nat \ {0},
         a * p <= b * p + n
  PROVE  a <= b + (n \div p)
<1>. DEFINE q == n \div p
<1>1. q \in Nat /\ n < (q + 1) * p
  <2>1. q \in Int /\ n = p * q + (n % p) /\ n % p \in 0 .. (p - 1)
    OBVIOUS
  <2>2. q >= 0
    OBVIOUS
  <2>. HIDE DEF q
  <2>. QED
    BY <2>1, <2>2
<1>. HIDE DEF q
<1>2. ASSUME a > b + q PROVE FALSE
  <2>1. PICK d \in Nat : a = b + q + 1 + d
    <3>1. a - (b + q + 1) \in Nat
      BY <1>1, <1>2
    <3>. QED
      BY <1>1, <3>1
  <2>2. a * p = b * p + (q + 1) * p + d * p
    BY <1>1, <2>1
  <2>3. b * p \in Nat /\ (q + 1) * p \in Nat /\ d * p \in Nat
    BY <1>1
  <2>. QED
    BY <1>1, <2>2, <2>3
<1>. QED
  BY <1>1, <1>2 DEF q

LEMMA InitPaidFor == Init => PaidFor
<1>. SUFFICES ASSUME Init, NEW k \in Key, NEW n \in 0 .. Window - 1
              PROVE  passed[k][n] * Period + Level(k) <= Full + n
  BY DEF PaidFor
<1>1. passed[k][n] = 0 /\ Level(k) = Full
  BY DEF Init, Level
<1>. QED
  BY <1>1, FullType

LEMMA NextPaidFor ==
  ASSUME LongTTL, TypeOK, PaidFor, [Next]_vars
  PROVE  PaidFor'
<1>. SUFFICES ASSUME NEW k \in Key, NEW n \in 0 .. Window - 1
              PROVE  passed'[k][n] * Period + Level(k)' <= Full + n
  BY DEF PaidFor, Full
<1>1. /\ passed \in [Key -> [0 .. Window - 1 -> Nat]]
      /\ passed[k][n] \in Nat
      /\ Level(k) \in 0 .. Full
      /\ passed[k][n] * Period + Level(k) <= Full + n
  BY LevelOfEntry DEF PaidFor, TypeOK
<1>2. CASE Tick
  <2>1. Level(k)' = IF Level(k) < Full THEN Level(k) + 1 ELSE Full
    BY <1>2, TickFills
  <2>2. CASE n = 0 /\ passed'[k][n] = 0
    BY <1>1, <2>1, <2>2, FullType
  <2>3. CASE n - 1 \in 0 .. Window - 1 /\ passed'[k][n] = passed[k][n - 1]
    <3>1. passed[k][n - 1] * Period + Level(k) <= Full + (n - 1)
      BY <2>3 DEF PaidFor
    <3>2. passed[k] \in [0 .. Window - 1 -> Nat]
      BY <1>1
    <3>3. passed[k][n - 1] \in Nat
      BY <2>3, <3>2
    <3>4. passed[k][n - 1] * Period \in Nat
      BY <3>3, FullType
    <3>. QED
      BY <1>1, <2>1, <2>3, <3>1, <3>4, FullType
  <2>. QED
    BY <1>2, <2>2, <2>3, TickShifts
<1>3. CASE Sweep
  <2>1. Level(k)' = Level(k) /\ passed' = passed
    BY <1>3, SweepKeeps DEF Sweep
  <2>. QED
    BY <1>1, <2>1
<1>4. ASSUME NEW x \in Key, Allow(x)
      PROVE  passed'[k][n] * Period + Level(k)' <= Full + n
  <2>1. CASE x # k
    <3>1. Level(k)' = Level(k)
      BY <1>4, <2>1, AllowDecides
    <3>2. passed'[k] = passed[k]
      BY <1>1, <1>4, <2>1, AllowDecides DEF Passes
    <3>. QED
      BY <1>1, <3>1, <3>2
  <2>2. CASE x = k /\ Passes(k) /\ Level(k)' = Level(k) - Period
    <3>1. passed'[k][n] = passed[k][n] + 1
      BY <1>1, <2>2 DEF Passes
    <3>2. (passed[k][n] + 1) * Period = passed[k][n] * Period + Period
      BY <1>1, FullType
    <3>3. passed[k][n] * Period \in Nat
      BY <1>1, FullType
    <3>. QED
      BY <1>1, <2>2, <3>1, <3>2, <3>3, FullType
  <2>3. CASE x = k /\ passed' = passed /\ Level(k)' = Level(k)
    BY <1>1, <2>3
  <2>. QED
    BY <1>4, <2>1, <2>2, <2>3, AllowDecides
<1>5. CASE UNCHANGED vars
  BY <1>1, <1>5 DEF vars, Level, Available
<1>. QED
  BY <1>2, <1>3, <1>4, <1>5 DEF Next

LEMMA PaidForBounds ==
  ASSUME TypeOK, PaidFor
  PROVE  RateIsBounded
<1>. SUFFICES ASSUME NEW k \in Key, NEW n \in 0 .. Window - 1
              PROVE  passed[k][n] <= Burst + (n \div Period)
  BY DEF RateIsBounded
<1>1. passed[k][n] \in Nat /\ Level(k) \in 0 .. Full
  BY LevelOfEntry DEF TypeOK
<1>2. passed[k][n] * Period \in Nat
  BY <1>1, FullType
<1>3. passed[k][n] * Period <= Full + n
  BY <1>1, <1>2, FullType, LimiterAssumption DEF PaidFor
<1>4. /\ Burst \in Nat /\ Period \in Nat \ {0} /\ n \in Nat
      /\ passed[k][n] * Period <= Burst * Period + n
  BY <1>3, LimiterAssumption DEF Full
<1>. QED
  BY <1>1, <1>4, DivBound, Zenon

\* In a tick and the n before it no key gets more through than the burst and what
\* the rate refills meanwhile, whatever the sweep drops, if the ttl is long enough
\* for a bucket to fill up (ratelimit.go Allow, cleanup).
THEOREM BoundsTheRate ==
  ASSUME LongTTL
  PROVE  Spec => []RateIsBounded
BY InitTypeOK, NextTypeOK, InitPaidFor, NextPaidFor, PaidForBounds, PTL DEF Spec

\* Ten minutes of LoginRateLimiter, which gains a token a minute: 19 attempts at
\* most, however fine the ticks (ratelimit.go LoginRateLimiter: "10 attempts per 10
\* minutes per IP").
THEOREM LoginAttempts ==
  ASSUME Burst = 10, TTL = 15 * Period, Window = 10 * Period
  PROVE  Spec => [](\A k \in Key : passed[k][Window - 1] <= 19)
<1>1. LongTTL
  BY LimiterAssumption DEF LongTTL, Full
<1>2. Window - 1 \in 0 .. Window - 1
  BY LimiterAssumption
<1>3. (Window - 1) \div Period \in Int /\ (Window - 1) \div Period <= 9
  <2>. DEFINE n == Window - 1
              q == n \div Period
  <2>1. n \in Nat /\ Period \in Nat \ {0} /\ n < 10 * Period
    BY LimiterAssumption
  <2>. HIDE DEF n
  <2>2. q \in Int /\ n = Period * q + (n % Period) /\ n % Period \in 0 .. (Period - 1)
    BY <2>1
  <2>. HIDE DEF q
  <2>3. ASSUME q > 9 PROVE FALSE
    <3>1. q - 10 \in Nat /\ Period * (q - 10) \in Nat
      BY <2>1, <2>2, <2>3
    <3>2. Period * q = Period * (q - 10) + 10 * Period
      BY <2>1, <2>2
    <3>. QED
      BY <2>1, <2>2, <3>1, <3>2
  <2>. QED
    BY <2>2, <2>3 DEF n, q
<1>4. TypeOK /\ RateIsBounded => \A k \in Key : passed[k][Window - 1] <= 19
  <2>. SUFFICES ASSUME TypeOK, RateIsBounded, NEW k \in Key
                PROVE  passed[k][Window - 1] <= 19
    OBVIOUS
  <2>. DEFINE q == (Window - 1) \div Period
  <2>1. passed[k][Window - 1] <= 10 + q
    BY <1>2 DEF RateIsBounded
  <2>2. passed[k][Window - 1] \in Nat
    BY <1>2 DEF TypeOK
  <2>3. q \in Int /\ q <= 9
    BY <1>3
  <2>. HIDE DEF q
  <2>. QED
    BY <2>1, <2>2, <2>3
<1>. QED
  BY <1>1, <1>4, TypeCorrect, BoundsTheRate, PTL
-----------------------------------------------------------------------------
\* The start of the control planes.

\* A process that is at a migration has one left to apply.
AtWork == \A p \in Process : pc[p] \in {"record", "commit"} => pending[p] # {}

\* Of those that are at one migration, one has run it; PostgreSQL keeps the others
\* waiting.
OneHolder ==
  \A p, q \in Process :
    /\ pc[p] \in {"record", "commit"}
    /\ pc[q] \in {"record", "commit"}
    /\ Current(p) = Current(q)
    => p = q

\* What a process is about to commit nobody has committed yet.
CommitsAreNew == \A p \in Process : pc[p] = "commit" => Current(p) \notin recorded

\* A process has still to apply what it lacks and nothing else, however stale the
\* list it goes by, and it gets past the migrations with none missing.
NothingSkipped ==
  \A p \in Process :
    /\ pending[p] \subseteq Release[p]
    /\ pc[p] \in {"apply", "record", "commit"} => Release[p] \subseteq recorded \cup pending[p]
    /\ pc[p] \in {"count", "seed", "serving"} => Release[p] \subseteq recorded

\* Somebody can log in where a server runs, or its seeding was hit by a fault.
Seeded == \A p \in Process : pc[p] = "serving" => admin \/ p \in unseeded

StartInv ==
  /\ AtWork /\ OneHolder /\ CommitsAreNew /\ NothingSkipped /\ Seeded
  /\ AppliedOnce /\ AppliedInOrder

\* A set of natural numbers has a least one, so that Current is what it says.
LEMMA LeastExists ==
  ASSUME NEW S \in SUBSET Nat, S # {}
  PROVE  Min(S) \in S /\ \A y \in S : Min(S) <= y
<1>1. PICK x \in S : \A y \in S : <<y, x>> \notin OpToRel(<, Nat)
  BY WFMin, NatLessThanWellFounded, Zenon
<1>2. \A y \in S : ~(y < x)
  BY <1>1, Zenon DEF OpToRel
<1>3. \A y \in S : x <= y
  BY <1>2
<1>. QED
  BY <1>3 DEF Min

LEMMA VersionType == Version \subseteq Nat /\ \A p \in Process : Release[p] \subseteq Version
BY StartAssumption DEF Version

LEMMA CurrentIsPending ==
  ASSUME StartTypeOK, NEW p \in Process, pending[p] # {}
  PROVE  /\ Current(p) \in pending[p]
         /\ Current(p) \in Version
         /\ \A w \in pending[p] : ~(w < Current(p))
<1>1. pending[p] \in SUBSET Nat /\ pending[p] \subseteq Version
  BY VersionType DEF StartTypeOK
<1>2. Current(p) \in pending[p] /\ \A w \in pending[p] : Current(p) <= w
  BY <1>1, LeastExists DEF Current
<1>3. Current(p) \in Nat
  BY <1>1, <1>2
<1>. QED
  BY <1>1, <1>2, <1>3

LEMMA InitStart == StartInit => StartTypeOK /\ StartInv
<1>. SUFFICES ASSUME StartInit PROVE StartTypeOK /\ StartInv
  OBVIOUS
<1>1. StartTypeOK
  <2>1. pc \in [Process -> PC] /\ pending \in [Process -> SUBSET Version]
    BY DEF StartInit, PC
  <2>2. created \in BOOLEAN /\ admin \in BOOLEAN
    BY DEF StartInit
  <2>3. recorded \in SUBSET Version /\ ran \in [Version -> Nat]
    BY DEF StartInit
  <2>4. unseeded \in SUBSET Process
    BY DEF StartInit
  <2>5. faults \in 0 .. MaxFaults
    BY StartAssumption DEF StartInit
  <2>. QED
    BY <2>1, <2>2, <2>3, <2>4, <2>5 DEF StartTypeOK
<1>2. AppliedOnce
  <2>1. \A v \in Version : ran[v] = 0 /\ v \notin recorded
    BY DEF StartInit
  <2>. QED
    BY <2>1 DEF AppliedOnce
<1>3. /\ AtWork /\ OneHolder /\ CommitsAreNew /\ NothingSkipped /\ Seeded
      /\ AppliedInOrder
  BY DEF StartInit, AtWork, OneHolder, CommitsAreNew, NothingSkipped, Seeded, AppliedInOrder
<1>. QED
  BY <1>1, <1>2, <1>3 DEF StartInv

LEMMA CommittedType ==
  ASSUME StartTypeOK, NEW p \in Process, pending[p] # {}, Committed(p)
  PROVE  recorded' \in SUBSET Version /\ ran' \in [Version -> Nat]
<1>1. Current(p) \in Version
  BY CurrentIsPending
<1>. QED
  BY <1>1 DEF Committed, StartTypeOK

LEMMA NextStartTypeOK ==
  ASSUME StartTypeOK, AtWork, [StartNext]_startVars
  PROVE  StartTypeOK'
<1>. USE DEF StartTypeOK, PC
<1>1. ASSUME NEW p \in Process, Start(p) PROVE StartTypeOK'
  BY <1>1 DEF Start, Becomes, database
<1>2. ASSUME NEW p \in Process, ensureSchema(p) PROVE StartTypeOK'
  <2>1. pc' \in [Process -> PC]
    BY <1>2 DEF ensureSchema
  <2>. QED
    BY <1>2, <2>1 DEF ensureSchema
<1>3. ASSUME NEW p \in Process, appliedVersions(p) PROVE StartTypeOK'
  BY <1>3, VersionType DEF appliedVersions, Becomes, database
<1>4. ASSUME NEW p \in Process, Exec(p) \/ Record(p) \/ Migrated(p) \/ Count(p)
      PROVE  StartTypeOK'
  BY <1>4 DEF Exec, Record, Migrated, Count, Becomes, database
<1>5. ASSUME NEW p \in Process, Commit(p) \/ CommitLost(p) PROVE StartTypeOK'
  <2>1. pending[p] # {} /\ Committed(p)
    BY <1>5 DEF Commit, CommitLost, AtWork
  <2>2. recorded' \in SUBSET Version /\ ran' \in [Version -> Nat]
    BY <2>1, CommittedType
  <2>3. CASE Commit(p)
    BY <2>2, <2>3 DEF Commit, Committed, Becomes
  <2>4. CASE CommitLost(p)
    BY <2>2, <2>4, StartAssumption DEF CommitLost, Committed, Fault, Becomes
  <2>. QED
    BY <1>5, <2>3, <2>4
<1>6. ASSUME NEW p \in Process, Seed(p) PROVE StartTypeOK'
  BY <1>6 DEF Seed, Becomes
<1>7. ASSUME NEW p \in Process, Crash(p) \/ SeedFails(p) PROVE StartTypeOK'
  BY <1>7, StartAssumption DEF Crash, SeedFails, Fault, Becomes, database
<1>8. CASE UNCHANGED startVars
  BY <1>8 DEF startVars
<1>. QED
  BY <1>1, <1>2, <1>3, <1>4, <1>5, <1>6, <1>7, <1>8 DEF StartNext, Step

\* Of the other processes a step of p at most ends some.
LEMMA OthersStay ==
  ASSUME StartTypeOK, NEW p \in Process,
         Step(p) \/ Crash(p) \/ CommitLost(p) \/ SeedFails(p)
  PROVE  \A q \in Process : q # p =>
           /\ pc'[q] = pc[q] \/ pc'[q] = "down"
           /\ pending'[q] = pending[q]
           /\ q \in unseeded' <=> q \in unseeded
<1>. SUFFICES ASSUME NEW q \in Process, q # p
              PROVE  /\ pc'[q] = pc[q] \/ pc'[q] = "down"
                     /\ pending'[q] = pending[q]
                     /\ q \in unseeded' <=> q \in unseeded
  OBVIOUS
<1>. USE DEF StartTypeOK
<1>1. CASE Start(p) \/ Exec(p) \/ Record(p) \/ Migrated(p) \/ Count(p) \/ Seed(p)
  BY <1>1 DEF Start, Exec, Record, Migrated, Count, Seed, Becomes
<1>2. CASE ensureSchema(p)
  BY <1>2 DEF ensureSchema
<1>3. CASE appliedVersions(p) \/ Commit(p)
  BY <1>3 DEF appliedVersions, Commit, Becomes
<1>4. CASE Crash(p) \/ CommitLost(p) \/ SeedFails(p)
  BY <1>4 DEF Crash, CommitLost, SeedFails, Becomes
<1>. QED
  BY <1>1, <1>2, <1>3, <1>4 DEF Step

\* Where a process comes from when it is at a migration, and what a step commits.
LEMMA MoverWorks ==
  ASSUME StartTypeOK, NEW p \in Process,
         Step(p) \/ Crash(p) \/ CommitLost(p) \/ SeedFails(p)
  PROVE  /\ pc'[p] = "record" =>
              /\ pc[p] = "apply" /\ pending[p] # {}
              /\ pending' = pending /\ recorded' = recorded
              /\ \A q \in Process \ {p} : ~Holds(q, Current(p))
         /\ pc'[p] = "commit" =>
              /\ pc[p] = "record" /\ Current(p) \notin recorded
              /\ pending' = pending /\ recorded' = recorded
         /\ \/ recorded' = recorded /\ ran' = ran
            \/ pc[p] = "commit" /\ Committed(p) /\ pc'[p] \in {"apply", "down"}
<1>. USE DEF StartTypeOK
<1>1. CASE Start(p) \/ Migrated(p) \/ Count(p) \/ Seed(p)
  BY <1>1 DEF Start, Migrated, Count, Seed, Becomes, database
<1>2. CASE ensureSchema(p)
  BY <1>2 DEF ensureSchema
<1>3. CASE Exec(p)
  BY <1>3 DEF Exec, Becomes, database
<1>4. CASE Record(p)
  BY <1>4 DEF Record, Becomes, database
<1>5. CASE appliedVersions(p)
  BY <1>5 DEF appliedVersions, Becomes, database
<1>6. CASE Commit(p) \/ CommitLost(p)
  BY <1>6 DEF Commit, CommitLost, Becomes
<1>7. CASE Crash(p) \/ SeedFails(p)
  BY <1>7 DEF Crash, SeedFails, Becomes, database
<1>. QED
  BY <1>1, <1>2, <1>3, <1>4, <1>5, <1>6, <1>7 DEF Step

LEMMA NextAtWork ==
  ASSUME StartTypeOK, AtWork, [StartNext]_startVars
  PROVE  AtWork'
<1>1. ASSUME NEW p \in Process, Step(p) \/ Crash(p) \/ CommitLost(p) \/ SeedFails(p)
      PROVE  AtWork'
  <2>1. pc'[p] \in {"record", "commit"} => pending'[p] # {}
    BY <1>1, MoverWorks DEF AtWork
  <2>2. \A q \in Process : q # p => (pc'[q] = pc[q] \/ pc'[q] = "down") /\ pending'[q] = pending[q]
    BY <1>1, OthersStay
  <2>. QED
    BY <2>1, <2>2 DEF AtWork
<1>2. CASE UNCHANGED startVars
  BY <1>2 DEF startVars, AtWork
<1>. QED
  BY <1>1, <1>2 DEF StartNext

LEMMA NextOneHolder ==
  ASSUME StartTypeOK, OneHolder, [StartNext]_startVars
  PROVE  OneHolder'
<1>1. ASSUME NEW p \in Process, Step(p) \/ Crash(p) \/ CommitLost(p) \/ SeedFails(p)
      PROVE  OneHolder'
  <2>. DEFINE works(q) == pc[q] \in {"record", "commit"}
  <2>1. \A q \in Process : q # p => (works(q)' => works(q)) /\ Current(q)' = Current(q)
    BY <1>1, OthersStay DEF Current
  <2>2. works(p)' => Current(p)' = Current(p)
    BY <1>1, MoverWorks DEF Current
  <2>3. ASSUME NEW q \in Process, q # p, works(p)', works(q)' PROVE Current(p)' # Current(q)'
    <3>1. works(q) /\ Current(q)' = Current(q) /\ Current(p)' = Current(p)
      BY <2>1, <2>2, <2>3
    <3>2. CASE pc'[p] = "record"
      <4>1. ~Holds(q, Current(p))
        BY <1>1, <2>3, <3>2, MoverWorks
      <4>. QED
        BY <3>1, <4>1 DEF Holds
    <3>3. CASE pc'[p] = "commit"
      <4>1. works(p)
        BY <1>1, <3>3, MoverWorks
      <4>. QED
        BY <2>3, <3>1, <4>1 DEF OneHolder
    <3>. QED
      BY <2>3, <3>2, <3>3
  <2>4. ASSUME NEW q \in Process, NEW r \in Process, works(q)', works(r)',
               Current(q)' = Current(r)'
        PROVE  q = r
    <3>1. CASE q # p /\ r # p
      BY <2>1, <2>4, <3>1 DEF OneHolder
    <3>2. CASE q = p \/ r = p
      BY <2>3, <2>4, <3>2
    <3>. QED
      BY <3>1, <3>2
  <2>. QED
    BY <2>4 DEF OneHolder
<1>2. CASE UNCHANGED startVars
  BY <1>2 DEF startVars, OneHolder, Current
<1>. QED
  BY <1>1, <1>2 DEF StartNext

LEMMA NextCommitsAreNew ==
  ASSUME StartTypeOK, OneHolder, CommitsAreNew, [StartNext]_startVars
  PROVE  CommitsAreNew'
<1>1. ASSUME NEW p \in Process, Step(p) \/ Crash(p) \/ CommitLost(p) \/ SeedFails(p),
             NEW q \in Process, pc'[q] = "commit"
      PROVE  Current(q)' \notin recorded'
  <2>1. CASE q = p
    BY <1>1, <2>1, MoverWorks DEF Current
  <2>2. CASE q # p
    <3>1. pc[q] = "commit" /\ Current(q)' = Current(q) /\ Current(q) \notin recorded
      BY <1>1, <2>2, OthersStay DEF Current, CommitsAreNew
    <3>2. CASE recorded' = recorded
      BY <3>1, <3>2
    <3>3. CASE pc[p] = "commit" /\ Committed(p)
      <4>1. Current(q) # Current(p)
        BY <2>2, <3>1, <3>3 DEF OneHolder
      <4>. QED
        BY <3>1, <3>3, <4>1 DEF Committed
    <3>. QED
      BY <1>1, <3>2, <3>3, MoverWorks
  <2>. QED
    BY <2>1, <2>2
<1>2. CASE UNCHANGED startVars
  BY <1>2 DEF startVars, CommitsAreNew, Current
<1>. QED
  BY <1>1, <1>2 DEF StartNext, CommitsAreNew

LEMMA NextNothingSkipped ==
  ASSUME StartTypeOK, AtWork, NothingSkipped, [StartNext]_startVars
  PROVE  NothingSkipped'
<1>. DEFINE knows(q) ==
              /\ pending[q] \subseteq Release[q]
              /\ pc[q] \in {"apply", "record", "commit"} =>
                   Release[q] \subseteq recorded \cup pending[q]
              /\ pc[q] \in {"count", "seed", "serving"} => Release[q] \subseteq recorded
<1>1. ASSUME NEW p \in Process, Step(p) \/ Crash(p) \/ CommitLost(p) \/ SeedFails(p)
      PROVE  NothingSkipped'
  <2>1. knows(p)
    BY DEF NothingSkipped
  <2>2. recorded \subseteq recorded'
    BY <1>1, MoverWorks DEF Committed
  <2>3. ASSUME NEW q \in Process, q # p PROVE knows(q)'
    BY <1>1, <2>2, <2>3, OthersStay DEF NothingSkipped
  <2>4. knows(p)'
    <3>. USE DEF StartTypeOK
    <3>1. CASE Start(p) \/ Crash(p)
      BY <2>1, <3>1 DEF Start, Crash, Becomes
    <3>2. CASE ensureSchema(p)
      BY <2>1, <3>2 DEF ensureSchema
    <3>3. CASE appliedVersions(p)
      BY <3>3 DEF appliedVersions, Becomes, database
    <3>4. CASE Exec(p) \/ Record(p)
      BY <2>1, <3>4 DEF Exec, Record, Becomes, database
    <3>5. CASE Commit(p)
      BY <2>1, <3>5 DEF Commit, Committed, Becomes
    <3>6. CASE CommitLost(p)
      BY <2>1, <3>6 DEF CommitLost, Becomes
    <3>7. CASE Migrated(p)
      BY <2>1, <3>7 DEF Migrated, Becomes, database
    <3>8. CASE Count(p) \/ Seed(p) \/ SeedFails(p)
      BY <2>1, <3>8 DEF Count, Seed, SeedFails, Becomes, database
    <3>. QED
      BY <1>1, <3>1, <3>2, <3>3, <3>4, <3>5, <3>6, <3>7, <3>8 DEF Step
  <2>. QED
    BY <2>3, <2>4 DEF NothingSkipped
<1>2. CASE UNCHANGED startVars
  BY <1>2 DEF startVars, NothingSkipped
<1>. QED
  BY <1>1, <1>2 DEF StartNext

LEMMA NextSeeded ==
  ASSUME StartTypeOK, Seeded, [StartNext]_startVars
  PROVE  Seeded'
<1>1. ASSUME NEW p \in Process, Step(p) \/ Crash(p) \/ CommitLost(p) \/ SeedFails(p)
      PROVE  Seeded'
  <2>. USE DEF StartTypeOK
  <2>1. /\ admin => admin'
        /\ pc'[p] = "serving" => admin' \/ p \in unseeded'
    <3>1. CASE Start(p) \/ Exec(p) \/ Record(p) \/ Migrated(p) \/ appliedVersions(p)
      BY <3>1 DEF Start, Exec, Record, Migrated, appliedVersions, Becomes, database
    <3>2. CASE ensureSchema(p)
      BY <3>2 DEF ensureSchema
    <3>3. CASE Commit(p) \/ CommitLost(p)
      BY <3>3 DEF Commit, CommitLost, Committed, Becomes
    <3>4. CASE Count(p) \/ Seed(p)
      BY <3>4 DEF Count, Seed, Becomes, database
    <3>5. CASE Crash(p) \/ SeedFails(p)
      BY <3>5 DEF Crash, SeedFails, Becomes, database
    <3>. QED
      BY <1>1, <3>1, <3>2, <3>3, <3>4, <3>5 DEF Step
  <2>2. \A q \in Process : q # p => /\ pc'[q] = pc[q] \/ pc'[q] = "down"
                                    /\ q \in unseeded' <=> q \in unseeded
    BY <1>1, OthersStay
  <2>. QED
    BY <2>1, <2>2 DEF Seeded
<1>2. CASE UNCHANGED startVars
  BY <1>2 DEF startVars, Seeded
<1>. QED
  BY <1>1, <1>2 DEF StartNext

LEMMA NextAppliedOnce ==
  ASSUME StartTypeOK, AtWork, CommitsAreNew, AppliedOnce, [StartNext]_startVars
  PROVE  AppliedOnce'
<1>1. ASSUME NEW p \in Process, pc[p] = "commit", Committed(p) PROVE AppliedOnce'
  <2>. DEFINE v == Current(p)
  <2>1. v \in Version /\ v \notin recorded /\ ran[v] = 0
    BY <1>1, CurrentIsPending DEF AtWork, CommitsAreNew, AppliedOnce
  <2>2. recorded' = recorded \cup {v} /\ ran' = [ran EXCEPT ![v] = @ + 1]
    BY <1>1 DEF Committed
  <2>. HIDE DEF v
  <2>. QED
    BY <2>1, <2>2 DEF StartTypeOK, AppliedOnce
<1>2. ASSUME recorded' = recorded, ran' = ran PROVE AppliedOnce'
  BY <1>2 DEF AppliedOnce
<1>3. CASE UNCHANGED startVars
  BY <1>2, <1>3 DEF startVars
<1>. QED
  BY <1>1, <1>2, <1>3, MoverWorks DEF StartNext

LEMMA NextAppliedInOrder ==
  ASSUME StartTypeOK, AtWork, NothingSkipped, AppliedInOrder, [StartNext]_startVars
  PROVE  AppliedInOrder'
<1>1. ASSUME NEW p \in Process, pc[p] = "commit", Committed(p) PROVE AppliedInOrder'
  <2>. DEFINE v == Current(p)
  <2>1. v \in pending[p] /\ \A w \in pending[p] : ~(w < v)
    BY <1>1, CurrentIsPending DEF AtWork
  <2>2. recorded' = recorded \cup {v}
    BY <1>1 DEF Committed
  <2>3. pending[p] \subseteq Release[p] /\ Release[p] \subseteq recorded \cup pending[p]
    BY <1>1 DEF NothingSkipped
  <2>. HIDE DEF v
  <2>4. v \in Release[p] /\ {w \in Release[p] : w < v} \subseteq recorded'
    BY <2>1, <2>2, <2>3
  <2>5. ASSUME NEW x \in recorded
        PROVE  \E q \in Process : x \in Release[q] /\ {w \in Release[q] : w < x} \subseteq recorded'
    BY <2>2 DEF AppliedInOrder
  <2>. QED
    BY <2>2, <2>4, <2>5 DEF AppliedInOrder
<1>2. ASSUME recorded' = recorded PROVE AppliedInOrder'
  BY <1>2 DEF AppliedInOrder
<1>3. CASE UNCHANGED startVars
  BY <1>2, <1>3 DEF startVars
<1>. QED
  BY <1>1, <1>2, <1>3, MoverWorks DEF StartNext

LEMMA NextStart == StartTypeOK /\ StartInv /\ [StartNext]_startVars => StartTypeOK' /\ StartInv'
<1>. SUFFICES ASSUME StartTypeOK, StartInv, [StartNext]_startVars
              PROVE  StartTypeOK' /\ StartInv'
  OBVIOUS
<1>1. /\ AtWork /\ OneHolder /\ CommitsAreNew /\ NothingSkipped /\ Seeded
      /\ AppliedOnce /\ AppliedInOrder
  BY DEF StartInv
<1>2. StartTypeOK' /\ AtWork' /\ OneHolder' /\ CommitsAreNew'
  BY <1>1, NextStartTypeOK, NextAtWork, NextOneHolder, NextCommitsAreNew
<1>3. NothingSkipped' /\ Seeded' /\ AppliedOnce' /\ AppliedInOrder'
  BY <1>1, NextNothingSkipped, NextSeeded, NextAppliedOnce, NextAppliedInOrder
<1>. QED
  BY <1>2, <1>3 DEF StartInv

\* Every process is at one of the statements of its start, and what the database
\* holds are versions of the releases (migrate.go, main.go).
THEOREM StartTypeCorrect == StartSpec => []StartTypeOK
BY InitStart, NextStart, PTL DEF StartSpec

\* The inductive invariant behind the theorems that follow.
THEOREM StartInvariance == StartSpec => []StartInv
BY InitStart, NextStart, PTL DEF StartSpec

\* No migration is committed twice and none is recorded that was not committed,
\* however many control planes start together and wherever they are killed
\* (Migrator.apply).
THEOREM AppliesOnce == StartSpec => []AppliedOnce
<1>1. StartInv => AppliedOnce
  BY DEF StartInv
<1>. QED
  BY <1>1, StartInvariance, PTL

\* A migration is recorded after all earlier ones of a release that has it,
\* whatever the releases that start together have in common (Migrator.Run).
THEOREM AppliesInOrder == StartSpec => []AppliedInOrder
<1>1. StartInv => AppliedInOrder
  BY DEF StartInv
<1>. QED
  BY <1>1, StartInvariance, PTL

\* A control plane that serves has all of its own release's migrations, and a user,
\* unless a fault hit its seeding (main.go run).
THEOREM ServesReady == StartSpec => []ServingIsReady
<1>1. StartInv => ServingIsReady
  BY DEF StartInv, NothingSkipped, Seeded, ServingIsReady
<1>. QED
  BY <1>1, StartInvariance, PTL
=============================================================================
