----------------------------- MODULE JwksCache -----------------------------
(***************************************************************************)
(* The JWKS cache of the GitHub Actions token verifier, shared by the      *)
(* goroutines that verify tokens with one Verifier, while the issuer       *)
(* publishes and retires signing keys (internal/identity/github).          *)
(*                                                                         *)
(* A key set travels as the set of its key ids, with the moment the issuer *)
(* produced it, which the code does not know.  A section under the read    *)
(* lock makes no calls, so it is one step that needs the write lock free.  *)
(***************************************************************************)
EXTENDS Integers

CONSTANTS
  Caller,     \* goroutines in getKey
  Kid,        \* key ids of usable RSA signing keys
  None,       \* no caller, no response
  Duration,   \* JWKSCacheDuration
  Timeout,    \* Timeout of the HTTP client, for one request
  MaxTime     \* bound: the clock stops here

ASSUME CacheAssumption ==
  /\ None \notin Caller
  /\ Duration \in Nat \ {0} /\ Timeout \in Nat /\ MaxTime \in Nat \ {0}

Time == 0..MaxTime
Response == [keys : SUBSET Kid, at : Time]
Fetching == {"config", "jwks"}
Outcome == {"none", "found", "notFound", "error"}

VARIABLES
  published,         \* the issuer's current keys
  stamp,             \* history: when each key was last published or retired
  keys, expiration,  \* c.keys, c.expiration
  at,                \* history: when the issuer produced the cached key set
  lock,              \* the caller that holds c.mu for writing
  asked, response,   \* the request for the JWKS: when it was sent, its answer
  pc, seek,          \* where each caller is, and the kid it wants
  start, outcome,    \* history: when its call began, and how it ended
  now

issuerVars == <<published, stamp>>
cacheVars == <<keys, expiration, at>>
fetchVars == <<lock, asked, response>>
callVars == <<pc, seek, start, outcome>>
vars == <<issuerVars, cacheVars, fetchVars, callVars, now>>

TypeOK ==
  /\ published \in SUBSET Kid /\ stamp \in [Kid -> Time]
  /\ keys \in SUBSET Kid /\ expiration \in Nat /\ at \in Time
  /\ lock \in Caller \cup {None}
  /\ asked \in Time /\ response \in Response \cup {None}
  /\ pc \in [Caller -> {"idle", "lookup", "lock", "read"} \cup Fetching]
  /\ seek \in [Caller -> Kid] /\ start \in [Caller -> Time]
  /\ outcome \in [Caller -> Outcome]
  /\ now \in Time

\* newJWKSCache: no keys, and the zero time has long passed.
Init ==
  /\ published \in SUBSET Kid /\ stamp = [k \in Kid |-> 0]
  /\ keys = {} /\ expiration = 0 /\ at = 0
  /\ lock = None /\ asked = 0 /\ response = None
  /\ pc = [c \in Caller |-> "idle"] /\ seek \in [Caller -> Kid]
  /\ start = [c \in Caller |-> 0] /\ outcome = [c \in Caller |-> "none"]
  /\ now = 0

-----------------------------------------------------------------------------
(***************************************************************************)
(* The issuer and the clock.                                               *)
(***************************************************************************)
Turn(k) ==
  /\ published' = IF k \in published THEN published \ {k} ELSE published \cup {k}
  /\ stamp' = [stamp EXCEPT ![k] = now]
  /\ UNCHANGED <<cacheVars, fetchVars, callVars, now>>

Answer ==
  /\ \E c \in Caller : lock = c /\ pc[c] = "jwks"
  /\ response = None
  /\ response' = [keys |-> published, at |-> now]
  /\ UNCHANGED <<issuerVars, cacheVars, lock, asked, callVars, now>>

Tick ==
  /\ now < MaxTime
  /\ now' = now + 1
  /\ UNCHANGED <<issuerVars, cacheVars, fetchVars, callVars>>

(***************************************************************************)
(* getKey and refresh.                                                     *)
(***************************************************************************)
Goto(c, step) == pc' = [pc EXCEPT ![c] = step] /\ UNCHANGED <<seek, start, outcome>>
Return(c, result) ==
  /\ pc' = [pc EXCEPT ![c] = "idle"] /\ outcome' = [outcome EXCEPT ![c] = result]
  /\ UNCHANGED <<seek, start>>
Unlock == lock' = None /\ asked' = 0 /\ response' = None

\* verifySignature asks for the key its token names.
Call(c, k) ==
  /\ pc[c] = "idle"
  /\ pc' = [pc EXCEPT ![c] = "lookup"] /\ seek' = [seek EXCEPT ![c] = k]
  /\ start' = [start EXCEPT ![c] = now] /\ outcome' = [outcome EXCEPT ![c] = "none"]
  /\ UNCHANGED <<issuerVars, cacheVars, fetchVars, now>>

Fresh == now < expiration

\* Bug: an expired entry is served as long as the kid is known.
BugLookup(c) ==
  /\ pc[c] = "lookup" /\ lock = None
  /\ IF seek[c] \in keys THEN Return(c, "found") ELSE Goto(c, "lock")
  /\ UNCHANGED <<issuerVars, cacheVars, fetchVars, now>>

\* The first section under the read lock.
Lookup(c) ==
  /\ pc[c] = "lookup" /\ lock = None
  /\ IF Fresh /\ seek[c] \in keys THEN Return(c, "found") ELSE Goto(c, "lock")
  /\ UNCHANGED <<issuerVars, cacheVars, fetchVars, now>>

\* Bug: no second check once the write lock is held.
BugAcquire(c) ==
  /\ pc[c] = "lock" /\ lock = None
  /\ Goto(c, "config") /\ lock' = c
  /\ UNCHANGED <<issuerVars, cacheVars, asked, response, now>>

\* The write lock, and the check whether another caller has refreshed.
Acquire(c) ==
  /\ pc[c] = "lock" /\ lock = None
  /\ IF Fresh THEN Goto(c, "read") /\ UNCHANGED lock
              ELSE Goto(c, "config") /\ lock' = c
  /\ UNCHANGED <<issuerVars, cacheVars, asked, response, now>>

\* The OIDC configuration has arrived: the JWKS is requested.
Discover(c) ==
  /\ pc[c] = "config"
  /\ Goto(c, "jwks") /\ asked' = now
  /\ UNCHANGED <<issuerVars, cacheVars, lock, response, now>>

\* The JWKS has arrived in time and replaces the cached one.
Store(c) ==
  /\ pc[c] = "jwks" /\ response # None /\ now <= asked + Timeout
  /\ keys' = response.keys /\ at' = response.at
  /\ expiration' = now + Duration
  /\ Goto(c, "read") /\ Unlock
  /\ UNCHANGED <<issuerVars, now>>

\* Bug: the error of the refresh is ignored, and the old keys are used.
BugFail(c) ==
  /\ pc[c] \in Fetching
  /\ Goto(c, "read") /\ Unlock
  /\ UNCHANGED <<issuerVars, cacheVars, now>>

\* Bug: an error path of the refresh returns without the Unlock.
BugFailLocked(c) ==
  /\ pc[c] \in Fetching
  /\ Return(c, "error")
  /\ UNCHANGED <<issuerVars, cacheVars, fetchVars, now>>

\* Either request fails, times out, or returns something unusable.
Fail(c) ==
  /\ pc[c] \in Fetching
  /\ Return(c, "error") /\ Unlock
  /\ UNCHANGED <<issuerVars, cacheVars, now>>

\* The second section under the read lock, which does not look at the
\* expiration.
Read(c) ==
  /\ pc[c] = "read" /\ lock = None
  /\ Return(c, IF seek[c] \in keys THEN "found" ELSE "notFound")
  /\ UNCHANGED <<issuerVars, cacheVars, fetchVars, now>>

Locking(c) == Lookup(c) \/ Acquire(c) \/ Read(c)
Fetch(c) == Discover(c) \/ Store(c) \/ Fail(c)
CallerNext(c) == Locking(c) \/ Fetch(c)

Next ==
  \/ \E c \in Caller : CallerNext(c) \/ \E k \in Kid : Call(c, k)
  \/ \E k \in Kid : Turn(k)
  \/ Answer \/ Tick

Spec == Init /\ [][Next]_vars

(***************************************************************************)
(* Goroutines run, requests end (the client has a timeout), and a          *)
(* sync.RWMutex lets every goroutine that waits for it in eventually.      *)
(* Nothing is asked of the issuer, the clock or the callers.               *)
(***************************************************************************)
FairSpec ==
  /\ Spec
  /\ \A c \in Caller : WF_vars(Fetch(c)) /\ SF_vars(Locking(c))

-----------------------------------------------------------------------------
\* What the issuer published before this moment is too old for a call.
Horizon(c) == start[c] - Duration - Timeout

\* getKey never returns a key that the issuer retired longer before the call
\* than a cache entry lives and a request takes, although the last read does
\* not check the expiration and others may have let the cache expire.
NoRetiredKey ==
  \A c \in Caller : outcome[c] = "found" =>
    seek[c] \in published \/ stamp[seek[c]] > Horizon(c)

\* getKey never says that a key is not in the JWKS when the issuer has been
\* publishing it for that long, although it does not fetch the JWKS again for
\* a kid it does not know while the cache is fresh.
KnownKeyFound ==
  \A c \in Caller : outcome[c] = "notFound" =>
    seek[c] \notin published \/ stamp[seek[c]] > Horizon(c)

\* However many callers find the cache expired at once, the JWKS is replaced
\* only when it has expired: the others notice that it was refreshed.
FetchedOnlyWhenExpired ==
  [][<<keys, expiration>>' # <<keys, expiration>> => now >= expiration]_vars

\* Every call returns: no failure leaves the write lock taken.
VerifierReturns == \A c \in Caller : pc[c] # "idle" ~> pc[c] = "idle"

(***************************************************************************)
(* The inductive invariant.                                                *)
(***************************************************************************)
LockHeldByFetcher ==
  /\ \A c \in Caller : pc[c] \in Fetching <=> lock = c
  /\ \A c \in Caller : lock = c => ~Fresh
  /\ response # None => \E c \in Caller : lock = c /\ pc[c] = "jwks"

\* A key set is the issuer's as of its moment: what it holds was published
\* then, and what it lacks was not.
Reflects(set, moment) ==
  \A k \in Kid :
    /\ k \in set => k \in published \/ stamp[k] >= moment
    /\ k \notin set => k \notin published \/ stamp[k] >= moment

CacheReflects ==
  /\ at <= now /\ asked <= now /\ Reflects(keys, at)
  /\ expiration > 0 => expiration <= at + Duration + Timeout
  /\ response # None => response.at >= asked /\ response.at <= now
                        /\ Reflects(response.keys, response.at)

CallsRecent ==
  \A c \in Caller :
    /\ start[c] <= now
    /\ pc[c] = "read" => at > Horizon(c)

IInv ==
  /\ TypeOK /\ LockHeldByFetcher /\ CacheReflects /\ CallsRecent
  /\ NoRetiredKey /\ KnownKeyFound
=============================================================================
