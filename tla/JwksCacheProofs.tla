-------------------------- MODULE JwksCacheProofs --------------------------
(***************************************************************************)
(* Theorems about the JWKS cache, for any callers, keys and durations.     *)
(***************************************************************************)
EXTENDS JwksCache, TLAPS

\* Everything but the two conclusions, which follow from it at each return.
Core == TypeOK /\ LockHeldByFetcher /\ CacheReflects /\ CallsRecent

\* A moment the cached set relies on is recent enough for every call.
LEMMA RecentEnough ==
  ASSUME NEW c \in Caller, Core,
         NEW moment \in Time, moment + Timeout >= now
  PROVE  moment > Horizon(c)
<1>1. start[c] \in Time /\ start[c] <= now
  BY DEF Core, TypeOK, CallsRecent
<1>2. now \in Nat /\ moment \in Nat /\ start[c] \in Nat
  BY <1>1 DEF Core, TypeOK, Time
<1> QED BY <1>1, <1>2, CacheAssumption DEF Horizon

LEMMA FreshIsRecent ==
  ASSUME NEW c \in Caller, Core, Fresh
  PROVE  at > Horizon(c)
<1>1. /\ start[c] \in Nat /\ start[c] <= now /\ now \in Nat /\ at \in Nat
      /\ expiration \in Nat
  BY DEF Core, TypeOK, CallsRecent, Time
<1>2. expiration > 0 => expiration <= at + Duration + Timeout
  BY DEF Core, CacheReflects
<1> QED BY <1>1, <1>2, CacheAssumption DEF Horizon, Fresh

LEMMA InitHolds == Init => IInv
<1> SUFFICES ASSUME Init PROVE IInv
  OBVIOUS
<1>1. 0 \in Time
  BY CacheAssumption DEF Time
<1>2. TypeOK
  BY <1>1, CacheAssumption DEF Init, TypeOK, Outcome
<1>3. LockHeldByFetcher
  BY CacheAssumption DEF Init, LockHeldByFetcher, Fetching
<1>4. CacheReflects
  BY CacheAssumption DEF Init, CacheReflects, Reflects
<1>5. CallsRecent
  <2> SUFFICES ASSUME NEW c \in Caller
               PROVE  start[c] <= now /\ (pc[c] = "read" => at > Horizon(c))
    BY DEF CallsRecent
  <2>1. start[c] = 0 /\ now = 0 /\ pc[c] = "idle"
    BY DEF Init
  <2> QED BY <2>1
<1>6. NoRetiredKey /\ KnownKeyFound
  BY DEF Init, NoRetiredKey, KnownKeyFound
<1> QED BY <1>2, <1>3, <1>4, <1>5, <1>6 DEF IInv

LEMMA TypeStep ==
  ASSUME IInv, [Next]_vars
  PROVE  TypeOK'
<1> USE CacheAssumption
<1> USE DEF IInv, TypeOK, Time, Response, Outcome, Fetching, issuerVars, cacheVars,
           fetchVars, callVars
<1>1. CASE UNCHANGED vars
  BY <1>1 DEF vars
<1>2. ASSUME NEW k \in Kid, Turn(k) PROVE TypeOK'
  BY <1>2 DEF Turn
<1>3. CASE Answer
  BY <1>3 DEF Answer
<1>4. CASE Tick
  BY <1>4 DEF Tick
<1>5. ASSUME NEW c \in Caller, NEW k \in Kid, Call(c, k) PROVE TypeOK'
  BY <1>5 DEF Call
<1>6. ASSUME NEW c \in Caller, Lookup(c) PROVE TypeOK'
  BY <1>6 DEF Lookup, Goto, Return
<1>7. ASSUME NEW c \in Caller, Acquire(c) PROVE TypeOK'
  BY <1>7 DEF Acquire, Goto
<1>8. ASSUME NEW c \in Caller, Discover(c) PROVE TypeOK'
  BY <1>8 DEF Discover, Goto
<1>9. ASSUME NEW c \in Caller, Store(c) PROVE TypeOK'
  BY <1>9 DEF Store, Goto, Unlock
<1>10. ASSUME NEW c \in Caller, Fail(c) PROVE TypeOK'
  BY <1>10 DEF Fail, Return, Unlock
<1>11. ASSUME NEW c \in Caller, Read(c) PROVE TypeOK'
  BY <1>11 DEF Read, Return
<1> QED
  BY <1>1, <1>2, <1>3, <1>4, <1>5, <1>6, <1>7, <1>8, <1>9, <1>10, <1>11
  DEF Next, CallerNext, Locking, Fetch

-----------------------------------------------------------------------------
\* Only the caller that holds the write lock is fetching.
LEMMA LockStep ==
  ASSUME IInv, [Next]_vars
  PROVE  LockHeldByFetcher'
<1> USE CacheAssumption
<1> USE DEF IInv, TypeOK, Time, LockHeldByFetcher, Fresh, Fetching, issuerVars,
           cacheVars, fetchVars, callVars
<1>1. CASE UNCHANGED vars
  BY <1>1 DEF vars
<1>2. ASSUME NEW k \in Kid, Turn(k) PROVE LockHeldByFetcher'
  BY <1>2 DEF Turn
<1>3. CASE Answer
  BY <1>3 DEF Answer
<1>4. CASE Tick
  BY <1>4 DEF Tick
<1>5. ASSUME NEW c \in Caller, NEW k \in Kid, Call(c, k) PROVE LockHeldByFetcher'
  BY <1>5 DEF Call
<1>6. ASSUME NEW c \in Caller, Lookup(c) PROVE LockHeldByFetcher'
  BY <1>6 DEF Lookup, Goto, Return
<1>7. ASSUME NEW c \in Caller, Acquire(c) PROVE LockHeldByFetcher'
  BY <1>7 DEF Acquire, Goto
<1>8. ASSUME NEW c \in Caller, Discover(c) PROVE LockHeldByFetcher'
  BY <1>8 DEF Discover, Goto
<1>9. ASSUME NEW c \in Caller, Store(c) PROVE LockHeldByFetcher'
  BY <1>9 DEF Store, Goto, Unlock
<1>10. ASSUME NEW c \in Caller, Fail(c) PROVE LockHeldByFetcher'
  BY <1>10 DEF Fail, Return, Unlock
<1>11. ASSUME NEW c \in Caller, Read(c) PROVE LockHeldByFetcher'
  BY <1>11 DEF Read, Return
<1> QED
  BY <1>1, <1>2, <1>3, <1>4, <1>5, <1>6, <1>7, <1>8, <1>9, <1>10, <1>11
  DEF Next, CallerNext, Locking, Fetch

\* What the cache and a pending answer hold stays what the issuer published:
\* a later change bears a later moment.
LEMMA CacheStep ==
  ASSUME IInv, [Next]_vars
  PROVE  CacheReflects'
<1> USE CacheAssumption
<1> USE DEF IInv, TypeOK, Time, Response, CacheReflects, Reflects, issuerVars,
           cacheVars, fetchVars, callVars
<1>1. CASE UNCHANGED vars
  BY <1>1 DEF vars
<1>2. ASSUME NEW k \in Kid, Turn(k) PROVE CacheReflects'
  BY <1>2 DEF Turn
<1>3. CASE Answer
  BY <1>3 DEF Answer
<1>4. CASE Tick
  BY <1>4 DEF Tick
<1>5. ASSUME NEW c \in Caller, NEW k \in Kid, Call(c, k) PROVE CacheReflects'
  BY <1>5 DEF Call
<1>6. ASSUME NEW c \in Caller, Lookup(c) PROVE CacheReflects'
  BY <1>6 DEF Lookup
<1>7. ASSUME NEW c \in Caller, Acquire(c) PROVE CacheReflects'
  BY <1>7 DEF Acquire
<1>8. ASSUME NEW c \in Caller, Discover(c) PROVE CacheReflects'
  <2>1. response = None
    BY <1>8 DEF Discover, LockHeldByFetcher, Fetching
  <2> QED BY <1>8, <2>1 DEF Discover
<1>9. ASSUME NEW c \in Caller, Store(c) PROVE CacheReflects'
  BY <1>9 DEF Store, Unlock
<1>10. ASSUME NEW c \in Caller, Fail(c) PROVE CacheReflects'
  BY <1>10 DEF Fail, Unlock
<1>11. ASSUME NEW c \in Caller, Read(c) PROVE CacheReflects'
  BY <1>11 DEF Read
<1> QED
  BY <1>1, <1>2, <1>3, <1>4, <1>5, <1>6, <1>7, <1>8, <1>9, <1>10, <1>11
  DEF Next, CallerNext, Locking, Fetch

\* A caller reads the cache only after a check or a refresh that makes it
\* recent enough for its call, and a refresh by another makes it more recent.
LEMMA CallsStep ==
  ASSUME IInv, [Next]_vars
  PROVE  CallsRecent'
<1> USE CacheAssumption
<1> USE DEF IInv, TypeOK, Time, CallsRecent, Horizon, issuerVars, cacheVars,
           fetchVars, callVars
<1>1. CASE UNCHANGED vars
  BY <1>1 DEF vars
<1>2. ASSUME NEW k \in Kid, Turn(k) PROVE CallsRecent'
  BY <1>2 DEF Turn
<1>3. CASE Answer
  BY <1>3 DEF Answer
<1>4. CASE Tick
  BY <1>4 DEF Tick
<1>5. ASSUME NEW c \in Caller, NEW k \in Kid, Call(c, k) PROVE CallsRecent'
  BY <1>5 DEF Call
<1>6. ASSUME NEW c \in Caller, Lookup(c) PROVE CallsRecent'
  BY <1>6 DEF Lookup, Goto, Return
<1>7. ASSUME NEW c \in Caller, Acquire(c) PROVE CallsRecent'
  <2>1. Fresh => at > Horizon(c)
    BY FreshIsRecent DEF Core
  <2> QED BY <1>7, <2>1 DEF Acquire, Goto
<1>8. ASSUME NEW c \in Caller, Discover(c) PROVE CallsRecent'
  BY <1>8 DEF Discover, Goto
<1>9. ASSUME NEW c \in Caller, Store(c) PROVE CallsRecent'
  <2>1. response.at \in Time /\ response.at + Timeout >= now
    BY <1>9 DEF Store, CacheReflects, Response
  <2>2. \A d \in Caller : response.at > Horizon(d)
    BY <2>1, RecentEnough DEF Core
  <2>3. at' = response.at /\ UNCHANGED <<start, now>>
    BY <1>9 DEF Store, Goto
  <2> QED BY <2>2, <2>3
<1>10. ASSUME NEW c \in Caller, Fail(c) PROVE CallsRecent'
  BY <1>10 DEF Fail, Return
<1>11. ASSUME NEW c \in Caller, Read(c) PROVE CallsRecent'
  BY <1>11 DEF Read, Return
<1> QED
  BY <1>1, <1>2, <1>3, <1>4, <1>5, <1>6, <1>7, <1>8, <1>9, <1>10, <1>11
  DEF Next, CallerNext, Locking, Fetch

\* An answer from a recent enough cache is right: if the issuer disagrees, it
\* has changed its mind since.
LEMMA RecentIsRight ==
  ASSUME IInv, NEW c \in Caller, at > Horizon(c)
  PROVE  /\ seek[c] \in keys =>
               seek[c] \in published \/ stamp[seek[c]] > Horizon(c)
         /\ seek[c] \notin keys =>
               seek[c] \notin published \/ stamp[seek[c]] > Horizon(c)
<1>1. seek[c] \in Kid
  BY DEF IInv, TypeOK
<1>2. /\ stamp[seek[c]] \in Int /\ at \in Int /\ Horizon(c) \in Int
  BY <1>1, CacheAssumption DEF IInv, TypeOK, Time, Horizon
<1>3. Reflects(keys, at)
  BY DEF IInv, CacheReflects
<1> QED BY <1>1, <1>2, <1>3 DEF Reflects

LEMMA OutcomesStep ==
  ASSUME IInv, [Next]_vars
  PROVE  NoRetiredKey' /\ KnownKeyFound'
<1> USE CacheAssumption
<1> USE DEF IInv, TypeOK, NoRetiredKey, KnownKeyFound, Horizon, issuerVars,
           cacheVars, fetchVars, callVars
<1> DEFINE Right == NoRetiredKey' /\ KnownKeyFound'
<1>1. CASE UNCHANGED vars
  BY <1>1 DEF vars
<1>2. ASSUME NEW k \in Kid, Turn(k) PROVE Right
  <2>1. \A c \in Caller : now > Horizon(c)
    BY DEF CallsRecent, Time
  <2>2. \A c \in Caller : seek'[c] # k \/ stamp'[seek'[c]] > Horizon(c)'
    BY <1>2, <2>1 DEF Turn
  <2>3. \A j \in Kid \ {k} : stamp'[j] = stamp[j] /\ (j \in published' <=> j \in published)
    BY <1>2 DEF Turn
  <2>4. UNCHANGED <<pc, seek, start, outcome>>
    BY <1>2 DEF Turn
  <2> QED BY <2>2, <2>3, <2>4
<1>3. CASE Answer
  BY <1>3 DEF Answer
<1>4. CASE Tick
  BY <1>4 DEF Tick
<1>5. ASSUME NEW c \in Caller, NEW k \in Kid, Call(c, k) PROVE Right
  BY <1>5 DEF Call
<1>6. ASSUME NEW c \in Caller, Lookup(c) PROVE Right
  <2>1. Fresh => at > Horizon(c)
    BY FreshIsRecent DEF Core
  <2>2. Fresh /\ seek[c] \in keys => seek[c] \in published \/ stamp[seek[c]] > Horizon(c)
    BY <2>1, RecentIsRight
  <2> QED BY <1>6, <2>2 DEF Lookup, Goto, Return
<1>7. ASSUME NEW c \in Caller, Acquire(c) PROVE Right
  BY <1>7 DEF Acquire, Goto
<1>8. ASSUME NEW c \in Caller, Discover(c) PROVE Right
  BY <1>8 DEF Discover, Goto
<1>9. ASSUME NEW c \in Caller, Store(c) PROVE Right
  BY <1>9 DEF Store, Goto
<1>10. ASSUME NEW c \in Caller, Fail(c) PROVE Right
  BY <1>10 DEF Fail, Return
<1>11. ASSUME NEW c \in Caller, Read(c) PROVE Right
  <2>1. at > Horizon(c)
    BY <1>11 DEF Read, CallsRecent
  <2>2. /\ seek[c] \in keys =>
              seek[c] \in published \/ stamp[seek[c]] > Horizon(c)
        /\ seek[c] \notin keys =>
              seek[c] \notin published \/ stamp[seek[c]] > Horizon(c)
    BY <2>1, RecentIsRight
  <2> QED BY <1>11, <2>2 DEF Read, Return
<1> QED
  BY <1>1, <1>2, <1>3, <1>4, <1>5, <1>6, <1>7, <1>8, <1>9, <1>10, <1>11
  DEF Next, CallerNext, Locking, Fetch

-----------------------------------------------------------------------------
\* The inductive invariant holds in every reachable state: the write lock has
\* one holder, the cached keys are the issuer's as of their moment, and who is
\* about to read them will find them recent enough.
THEOREM InvariantHolds == Spec => []IInv
<1>1. IInv /\ [Next]_vars => IInv'
  BY TypeStep, LockStep, CacheStep, CallsStep, OutcomesStep DEF IInv
<1> QED BY InitHolds, <1>1, PTL DEF Spec

\* No signature is verified with a key that the issuer retired longer before
\* the call than a cache entry lives and a request takes.
THEOREM NoRetiredKeyUsed == Spec => []NoRetiredKey
<1>1. IInv => NoRetiredKey
  BY DEF IInv
<1> QED BY InvariantHolds, <1>1, PTL

\* No key is reported missing that the issuer has published for that long.
THEOREM KnownKeysAreFound == Spec => []KnownKeyFound
<1>1. IInv => KnownKeyFound
  BY DEF IInv
<1> QED BY InvariantHolds, <1>1, PTL

\* The key set is replaced only once it has expired, however many callers
\* wanted to.
THEOREM FetchesAreSpaced == Spec => FetchedOnlyWhenExpired
<1>1. ASSUME IInv, [Next]_vars
      PROVE  [<<keys, expiration>>' # <<keys, expiration>> => now >= expiration]_vars
  <2> USE DEF cacheVars
  <2>1. ASSUME NEW c \in Caller, Store(c) PROVE now >= expiration
    <3>1. lock = c
      BY <1>1, <2>1 DEF Store, IInv, LockHeldByFetcher, Fetching
    <3>2. ~(now < expiration)
      BY <1>1, <3>1 DEF IInv, LockHeldByFetcher, Fresh
    <3>3. now \in Nat /\ expiration \in Nat
      BY <1>1 DEF IInv, TypeOK, Time
    <3> QED BY <3>2, <3>3
  <2>2. (\E c \in Caller : Store(c)) \/ UNCHANGED <<keys, expiration>>
    BY <1>1 DEF Next, CallerNext, Locking, Fetch, Turn, Answer, Tick, Call, Lookup,
               Acquire, Discover, Fail, Read, vars
  <2> QED BY <2>1, <2>2
<1> QED BY InvariantHolds, <1>1, PTL DEF Spec, FetchedOnlyWhenExpired
=============================================================================
