-------------------------- MODULE GenesisOperator --------------------------
(***************************************************************************)
(* The two reconcilers of the genesis operator, running concurrently in    *)
(* one manager process against one GenesisBootstrap, the                   *)
(* GenesisRotationPolicy that rotates it, and the Secrets that carry its   *)
(* age private key (internal/controller, cmd/operator/main.go).            *)
(*                                                                         *)
(* Reads go to the manager's informer caches, which lag behind the API     *)
(* server; writes go to the server, which refuses an Update whose          *)
(* resourceVersion is not the current one.  The resourceVersion is only    *)
(* ever compared for equality with the current one, so it is represented   *)
(* by the set of copies that no longer carry the current one: a write that *)
(* changes the object makes every copy stale, a read of a current cache    *)
(* makes the reader's copy current.  A reconciler that holds no copy       *)
(* counts as stale.                                                        *)
(*                                                                         *)
(* Keys are numbered in the order they are generated: key 1 is the one in  *)
(* the envelope the user applied, each rotation draws the next number.     *)
(***************************************************************************)
EXTENDS Integers, FiniteSets

CONSTANTS
  Targets,         \* number of Secrets: 1 is the primary, the others are additionalNamespaces
  Interval,        \* spec.schedule.interval of the policy
  MaxTime,         \* bound: the clock stops here
  MaxKey,          \* bound: number of keys ever generated
  Disruptions,     \* the kinds of disruption considered
  MaxDisruptions   \* bound: how many of them happen

DisruptionKind == {"call", "crash", "deleteBoot", "deletePol", "suspend", "deleteSecret"}

ASSUME BoundsAssumption ==
  /\ Targets \in Nat \ {0}
  /\ Interval \in Nat \ {0}
  /\ MaxTime \in Nat \ {0}
  /\ MaxKey \in Nat \ {0}
  /\ MaxDisruptions \in Nat
  /\ Disruptions \subseteq DisruptionKind

Target == 1..Targets
Primary == 1
Key == 1..MaxKey
NoKey == 0
KeyOrNone == Key \cup {NoKey}
Time == 0..MaxTime
Never == 0                 \* a nil timestamp; the clock starts at 1

(***************************************************************************)
(* API objects.  GenesisBootstrap: deletion phase, finalizer, the key its  *)
(* envelope wraps (spec), and of its status the Ready condition, the       *)
(* AttestationValid condition, keyMetadata.publicKey and                   *)
(* lastAttestation.time.                                                   *)
(***************************************************************************)
Phase == {"live", "deleting", "gone"}
Boot == [phase : Phase, fin : BOOLEAN, key : Key,
         ready : BOOLEAN, attested : BOOLEAN, pub : KeyOrNone, at : Time]
NoBoot == [phase |-> "gone", fin |-> FALSE, key |-> 1,
           ready |-> FALSE, attested |-> TRUE, pub |-> NoKey, at |-> Never]

\* GenesisRotationPolicy; cond is the reason of its Ready condition.
Cond == {"none", "scheduled", "suspended", "failed", "succeeded"}
Policy == [phase : Phase, fin : BOOLEAN, suspend : BOOLEAN,
           last : Time, count : Nat, cond : Cond]
NoPolicy == [phase |-> "gone", fin |-> FALSE, suspend |-> FALSE,
             last |-> Never, count |-> 0, cond |-> "none"]

\* Secret: the private key in it, creationTimestamp, and the
\* genesis.io/rotation-version annotation (0: absent).
Secret == [key : KeyOrNone, born : Time, ann : Nat]
NoSecret == [key |-> NoKey, born |-> Never, ann |-> 0]

BPc == {"idle", "addFinalizer", "inject", "statusReady", "statusFailed",
        "statusUnattested", "cleanup", "removeFinalizer"}
RPc == {"idle", "addFinalizer", "injectOld", "injectNew", "update",
        "annotate", "status", "removeFinalizer"}
Copies == {"cache", "b", "r"}

VARIABLES
  boot, bootCache, staleBoot,   \* the CR, the informer's copy, copies not current
  pol, polCache, stalePol,      \* the policy, likewise
  sec, secCache, staleSec,      \* the Secrets; cache and staleness of the primary
  bpc, bBoot, bNext,            \* bootstrap reconciler: step, CR in hand, next target
  rpc, rPol, rSec, rBoot, rNew, \* rotation reconciler: step, copies in hand, new key
  nextKey,                      \* next key number to be generated
  now,                          \* the clock
  disruptions,                  \* failures and user actions so far
  rotations,                    \* history: envelopes the CR got from rotations
  envelopes,                    \* history: the keys of all envelopes it has had
  covered                       \* history: targets that got the CR's current key

bootVars == <<boot, bootCache, staleBoot>>
polVars  == <<pol, polCache, stalePol>>
secVars  == <<sec, secCache, staleSec>>
bVars    == <<bpc, bBoot, bNext>>
rVars    == <<rpc, rPol, rSec, rBoot, rNew>>
keyVars  == <<nextKey, rotations, envelopes>>
vars == <<bootVars, polVars, secVars, bVars, rVars, keyVars, now, covered, disruptions>>

TypeOK ==
  /\ boot \in Boot /\ bootCache \in Boot /\ staleBoot \in SUBSET Copies
  /\ pol \in Policy /\ polCache \in Policy /\ stalePol \in SUBSET Copies
  /\ sec \in [Target -> Secret] /\ secCache \in Secret /\ staleSec \in SUBSET Copies
  /\ bpc \in BPc /\ bBoot \in Boot /\ bNext \in Target
  /\ rpc \in RPc /\ rPol \in Policy /\ rSec \in Secret /\ rBoot \in Boot
  /\ rNew \in KeyOrNone
  /\ nextKey \in 2..MaxKey + 1
  /\ now \in 1..MaxTime
  /\ disruptions \in 0..MaxDisruptions
  /\ rotations \in Nat
  /\ envelopes \in SUBSET Key
  /\ covered \in SUBSET Target

(***************************************************************************)
(* The CR and the policy have just been applied, no Secret exists, and the *)
(* caches have completed their initial list.                               *)
(***************************************************************************)
Init ==
  /\ boot = [NoBoot EXCEPT !.phase = "live"]
  /\ bootCache = boot
  /\ staleBoot = Copies \ {"cache"}
  /\ pol = [NoPolicy EXCEPT !.phase = "live"]
  /\ polCache = pol
  /\ stalePol = Copies \ {"cache"}
  /\ sec = [t \in Target |-> NoSecret]
  /\ secCache = NoSecret
  /\ staleSec = Copies \ {"cache"}
  /\ bpc = "idle" /\ bBoot = NoBoot /\ bNext = Primary
  /\ rpc = "idle" /\ rPol = NoPolicy /\ rSec = NoSecret /\ rBoot = NoBoot
  /\ rNew = NoKey
  /\ nextKey = 2
  /\ now = 1
  /\ disruptions = 0
  /\ rotations = 0
  /\ envelopes = {boot.key}
  /\ covered = {}

(***************************************************************************)
(* The API server and its client.                                          *)
(***************************************************************************)
Disrupt(kind) ==
  /\ kind \in Disruptions
  /\ disruptions < MaxDisruptions
  /\ disruptions' = disruptions + 1
CallFails == Disrupt("call")
Calm == UNCHANGED disruptions

\* Reading from the cache gives the reader a copy as current as the cache.
ReadBy(stale, who) == IF "cache" \in stale THEN stale \cup {who} ELSE stale \ {who}

\* A write by who: the other copies go stale if it changed the object, and
\* who drops its copy.
WrittenBy(stale, who, old, new) == IF new = old THEN stale \cup {who} ELSE Copies

\* client.Update: metadata and spec of the copy, the server's status.  An
\* object being deleted disappears with its last finalizer.
Updated(copy) ==
  [boot EXCEPT !.fin = copy.fin, !.key = copy.key,
               !.phase = IF boot.phase = "deleting" /\ ~copy.fin THEN "gone" ELSE @]

\* Status().Update: the copy's status, the server's metadata and spec.
UpdatedStatus(copy) ==
  [boot EXCEPT !.ready = copy.ready, !.attested = copy.attested,
               !.pub = copy.pub, !.at = copy.at]

\* The server accepts a write only with the current resourceVersion.
CurrentBoot(who) == who \notin staleBoot
CurrentPol(who) == who \notin stalePol
CurrentSec(who) == who \notin staleSec

WriteBoot(new, who) ==
  /\ boot' = new
  /\ staleBoot' = WrittenBy(staleBoot, who, boot, new)
  /\ UNCHANGED bootCache

DropBoot(who) ==
  /\ staleBoot' = staleBoot \cup {who}
  /\ UNCHANGED <<boot, bootCache>>

\* UreqSecretInjector::inject: POST, and on 409 a PUT with no
\* resourceVersion that replaces data, labels and annotations.
Injected(s, k) ==
  [key |-> k, born |-> IF s.key = NoKey THEN now ELSE s.born, ann |-> 0]

Inject(t, k) ==
  /\ sec' = [sec EXCEPT ![t] = Injected(sec[t], k)]
  /\ staleSec' = IF t = Primary /\ Injected(sec[t], k) # sec[t] THEN Copies ELSE staleSec
  /\ covered' = IF k = boot.key THEN covered \cup {t} ELSE covered
  /\ UNCHANGED secCache

NoInject == UNCHANGED <<secVars, covered>>

(***************************************************************************)
(* GenesisBootstrapReconciler.Reconcile, one worker.  A step ends where    *)
(* the reconciler calls the API server or has read a cache; attestation    *)
(* and decryption, which share no state with anyone, belong to the step    *)
(* before them.                                                            *)
(***************************************************************************)
BEnd == bpc' = "idle" /\ bBoot' = NoBoot /\ bNext' = Primary
BOnly == UNCHANGED <<polVars, rVars, keyVars, now>>

\* The CR in hand is the cache's.
BRead(step) ==
  /\ bpc = "idle"
  /\ bpc' = step /\ bBoot' = bootCache /\ UNCHANGED bNext
  /\ staleBoot' = ReadBy(staleBoot, "b")
  /\ UNCHANGED <<boot, bootCache>>
  /\ NoInject /\ BOnly

\* The Get, and the branches taken on the metadata; a CR that is not found
\* ends the reconcile at once and is no step.
BStart ==
  /\ \/ bootCache.phase = "deleting" /\ BRead("cleanup")
     \/ bootCache.phase = "live" /\ ~bootCache.fin /\ BRead("addFinalizer")
  /\ Calm

\* Bug: a CR whose cached copy is Ready is taken to need nothing.
BugBStartBootstrap ==
  /\ bootCache.phase = "live" /\ bootCache.fin /\ ~bootCache.ready
  /\ \/ BRead("inject") /\ Calm
     \/ (BRead("statusUnattested") \/ BRead("statusFailed")) /\ CallFails

\* Attestation, then New, Load and BeginBootstrap; each may fail.
BStartBootstrap ==
  /\ bootCache.phase = "live" /\ bootCache.fin
  /\ \/ BRead("inject") /\ Calm
     \/ (BRead("statusUnattested") \/ BRead("statusFailed")) /\ CallFails

\* Bug: the CR is written without its resourceVersion.
BugBLastWrite(new) ==
  /\ \/ WriteBoot(new, "b") /\ Calm
     \/ DropBoot("b") /\ CallFails
  /\ BEnd
  /\ NoInject /\ BOnly

\* A write that ends the reconcile: accepted, or refused (a conflict, or a
\* call that fails); the error only requeues the request.
BLastWrite(new) ==
  /\ \/ CurrentBoot("b") /\ WriteBoot(new, "b") /\ Calm
     \/ ~CurrentBoot("b") /\ DropBoot("b") /\ Calm
     \/ DropBoot("b") /\ CallFails
  /\ BEnd
  /\ NoInject /\ BOnly

BAddFinalizer ==
  /\ bpc = "addFinalizer"
  /\ BLastWrite(Updated([bBoot EXCEPT !.fin = TRUE]))

\* Bug: a failed request to an additional namespace is skipped over.
BugBInject ==
  /\ bpc = "inject"
  /\ \/ /\ Inject(bNext, bBoot.key) /\ Calm
        /\ bpc' = IF bNext = Targets THEN "statusReady" ELSE "inject"
        /\ bNext' = IF bNext = Targets THEN Primary ELSE bNext + 1
     \/ /\ Inject(bNext, bBoot.key) \/ NoInject
        /\ CallFails
        /\ bpc' = IF bNext = Primary THEN "statusFailed" ELSE "statusReady"
        /\ bNext' = Primary
  /\ UNCHANGED <<bBoot, bootVars>> /\ BOnly

\* InjectSecrets, one target after the other; a failed request may have
\* been applied, and the targets after it are skipped.
BInject ==
  /\ bpc = "inject"
  /\ \/ /\ Inject(bNext, bBoot.key) /\ Calm
        /\ bpc' = IF bNext = Targets THEN "statusReady" ELSE "inject"
        /\ bNext' = IF bNext = Targets THEN Primary ELSE bNext + 1
     \/ /\ Inject(bNext, bBoot.key) \/ NoInject
        /\ CallFails
        /\ bpc' = "statusFailed" /\ bNext' = Primary
  /\ UNCHANGED <<bBoot, bootVars>> /\ BOnly

\* updateSuccessStatus and the status write.
BStatusReady ==
  /\ bpc = "statusReady"
  /\ BLastWrite(UpdatedStatus([bBoot EXCEPT !.ready = TRUE, !.attested = TRUE,
                                            !.pub = bBoot.key, !.at = now]))

\* The error of these two status writes is only logged.
BStatusFailed ==
  /\ bpc = "statusFailed"
  /\ BLastWrite(UpdatedStatus([bBoot EXCEPT !.ready = FALSE]))

BStatusUnattested ==
  /\ bpc = "statusUnattested"
  /\ BLastWrite(UpdatedStatus([bBoot EXCEPT !.attested = FALSE]))

\* The labels the Rust injector puts on a Secret, and the one isOwnedBy reads.
SecretLabels == {"app.kubernetes.io/managed-by", "app.kubernetes.io/part-of",
                 "genesis.io/provider", "genesis.io/bootstrap-name",
                 "genesis.io/bootstrap-namespace"}
IsOwnedBy(s) == s.key # NoKey /\ "genesis.io/bootstrap" \in SecretLabels


\* handleDeletion up to the finalizer: the primary Secret goes if the cached
\* copy of it is owned.
BCleanup ==
  /\ bpc = "cleanup"
  /\ bpc' = "removeFinalizer" /\ UNCHANGED <<bBoot, bNext>>
  /\ IF IsOwnedBy(secCache)
       THEN /\ sec' = [sec EXCEPT ![Primary] = NoSecret]
            /\ staleSec' = Copies
            /\ UNCHANGED <<secCache, covered>>
       ELSE NoInject
  /\ UNCHANGED bootVars /\ BOnly /\ Calm

BRemoveFinalizer ==
  /\ bpc = "removeFinalizer"
  /\ BLastWrite(Updated([bBoot EXCEPT !.fin = FALSE]))

BNext ==
  \/ BStart \/ BStartBootstrap \/ BAddFinalizer \/ BInject
  \/ BStatusReady \/ BStatusFailed \/ BStatusUnattested
  \/ BCleanup \/ BRemoveFinalizer

(***************************************************************************)
(* GenesisRotationPolicyReconciler.Reconcile, one worker.  The reads of    *)
(* the policy, the source Secret and the CR are from the caches, whose lag *)
(* is arbitrary, so they happen in one step with the decisions they lead   *)
(* to.                                                                     *)
(***************************************************************************)
ROnly == UNCHANGED <<bVars, now>>

\* The policy in hand is the cache's, with the given reason on its Ready
\* condition ("" leaves it), and the next step is the one named.
RRead(step, reason) ==
  /\ rpc = "idle"
  /\ rpc' = step
  /\ rPol' = IF reason = "" THEN polCache ELSE [polCache EXCEPT !.cond = reason]
  /\ stalePol' = ReadBy(stalePol, "r")
  /\ UNCHANGED <<pol, polCache, rNew>>
  /\ UNCHANGED <<sec, secCache, boot, bootCache, covered, keyVars>> /\ ROnly

RReadPolicy(step, reason) ==
  /\ RRead(step, reason)
  /\ UNCHANGED <<rSec, staleSec, rBoot, staleBoot>>

\* Bug: the interval is counted from the creation of the Secret only.
BugDue(p, s) == now >= Interval + s.born

\* now.Before(nextRotation), negated: one interval after the last rotation,
\* or after the creation of the source Secret.
Due(p, s) == now >= Interval + (IF p.last # Never THEN p.last ELSE s.born)

\* Bug: a policy whose last rotation failed is not tried again.
BugEnabled == polCache.phase = "live" /\ polCache.fin /\ ~polCache.suspend
              /\ polCache.cond # "failed"
Enabled == polCache.phase = "live" /\ polCache.fin /\ ~polCache.suspend
DueNow == Enabled /\ secCache.key # NoKey /\ Due(polCache, secCache)

\* Everything short of a rotation: finalizer, suspension, a missing source
\* Secret, a rotation that is not due, and no CR that manages the Secret.
RStart ==
  /\ \/ polCache.phase = "deleting" /\ RReadPolicy("removeFinalizer", "")
     \/ polCache.phase = "live" /\ ~polCache.fin /\ RReadPolicy("addFinalizer", "")
     \/ /\ polCache.phase = "live" /\ polCache.fin /\ polCache.suspend
        /\ RReadPolicy("status", "suspended")
     \/ Enabled /\ secCache.key = NoKey /\ RReadPolicy("status", "failed")
     \/ Enabled /\ secCache.key # NoKey /\ ~DueNow /\ RReadPolicy("status", "scheduled")
     \/ DueNow /\ bootCache.phase = "gone" /\ RReadPolicy("status", "failed")
  /\ Calm

\* The rotation is due: findGenesisBootstrap lists the cached CRs (deleting
\* ones included), and New, Load and BeginBootstrap decrypt its envelope.
\* Bound: no rotation starts once MaxKey keys have been generated.
RStartRotation ==
  /\ DueNow /\ bootCache.phase # "gone" /\ nextKey <= MaxKey
  /\ \/ /\ RRead("injectOld", "")
        /\ rSec' = secCache /\ staleSec' = ReadBy(staleSec, "r")
        /\ rBoot' = bootCache /\ staleBoot' = ReadBy(staleBoot, "r")
        /\ Calm
     \/ RReadPolicy("status", "failed") /\ CallFails

\* Rotate or the CR update failed: the policy in hand reports it.
RFail ==
  /\ rpc' = "status"
  /\ rPol' = [rPol EXCEPT !.cond = "failed"]
  /\ rBoot' = NoBoot /\ rNew' = NoKey /\ UNCHANGED rSec

\* InjectSecret puts the key of the CR in hand into the Secret, to reach
\* Active; BeginRotation; CompleteRotation then generates the new key pair
\* and has the KMS wrap it.
RInjectOld ==
  /\ rpc = "injectOld"
  /\ \/ /\ Inject(Primary, rBoot.key)
        /\ rpc' = "injectNew"
        /\ rNew' = nextKey /\ nextKey' = nextKey + 1
        /\ UNCHANGED <<rPol, rSec, rBoot, bootVars>> /\ Calm
     \/ /\ Inject(Primary, rBoot.key) \/ NoInject
        /\ RFail /\ DropBoot("r") /\ UNCHANGED nextKey /\ CallFails
  /\ UNCHANGED <<polVars, rotations, envelopes>> /\ ROnly

\* Bug: a failed injection of the new key is only logged.
BugRInjectNew ==
  /\ rpc = "injectNew"
  /\ \/ Inject(Primary, rNew) /\ Calm
     \/ NoInject /\ CallFails
  /\ rpc' = "update"
  /\ UNCHANGED <<rPol, rSec, rBoot, rNew, bootVars, polVars, keyVars>> /\ ROnly

\* CompleteRotation injects the new key.
RInjectNew ==
  /\ rpc = "injectNew"
  /\ \/ /\ Inject(Primary, rNew)
        /\ rpc' = "update"
        /\ UNCHANGED <<rPol, rSec, rBoot, rNew, bootVars>> /\ Calm
     \/ /\ Inject(Primary, rNew) \/ NoInject
        /\ RFail /\ DropBoot("r") /\ CallFails
  /\ UNCHANGED <<polVars, keyVars>> /\ ROnly

\* The CR gets the new envelope; a failed call may have been applied.
RStore ==
  /\ CurrentBoot("r")
  /\ WriteBoot(Updated([rBoot EXCEPT !.key = rNew]), "r")
  /\ rotations' = rotations + 1
  /\ envelopes' = envelopes \cup {rNew}
  /\ covered' = {}

NotStored == DropBoot("r") /\ UNCHANGED <<rotations, envelopes, covered>>

\* Bug: the error of the CR update is only logged.
BugRUpdate ==
  /\ rpc = "update"
  /\ \/ RStore /\ Calm
     \/ ~CurrentBoot("r") /\ NotStored /\ Calm
     \/ NotStored /\ CallFails
  /\ rpc' = "annotate" /\ rBoot' = NoBoot /\ rNew' = NoKey
  /\ UNCHANGED <<rPol, rSec, polVars, secVars, nextKey>> /\ ROnly

RUpdate ==
  /\ rpc = "update"
  /\ \/ /\ RStore
        /\ rpc' = "annotate" /\ rBoot' = NoBoot /\ rNew' = NoKey
        /\ UNCHANGED <<rPol, rSec>> /\ Calm
     \/ ~CurrentBoot("r") /\ NotStored /\ RFail /\ Calm
     \/ NotStored /\ RFail /\ CallFails
     \/ RStore /\ RFail /\ CallFails
  /\ UNCHANGED <<polVars, secVars, nextKey>> /\ ROnly

\* Bug: the annotated Secret is written without its resourceVersion.
BugRAnnotate ==
  /\ rpc = "annotate"
  /\ sec' = [sec EXCEPT ![Primary] = [rSec EXCEPT !.ann = rPol.count + 1]]
  /\ staleSec' = Copies
  /\ rpc' = "status"
  /\ rPol' = [rPol EXCEPT !.last = now, !.count = @ + 1, !.cond = "succeeded"]
  /\ UNCHANGED <<rSec, rBoot, rNew, secCache, covered, bootVars, polVars, keyVars>>
  /\ ROnly /\ Calm

\* applyRotationAnnotations writes back the whole Secret read before the
\* rotation, its error is only logged; then the success status is prepared.
RAnnotate ==
  /\ rpc = "annotate"
  /\ IF CurrentSec("r")
       THEN /\ sec' = [sec EXCEPT ![Primary] = [rSec EXCEPT !.ann = rPol.count + 1]]
            /\ staleSec' = Copies
       ELSE UNCHANGED <<sec, staleSec>>
  /\ rpc' = "status"
  /\ rPol' = [rPol EXCEPT !.last = now, !.count = @ + 1, !.cond = "succeeded"]
  /\ UNCHANGED <<rSec, rBoot, rNew, secCache, covered, bootVars, polVars, keyVars>>
  /\ ROnly /\ Calm

\* Update or Status().Update of the policy, which ends the reconcile.
UpdatedPol(copy) ==
  [pol EXCEPT !.fin = copy.fin,
              !.phase = IF pol.phase = "deleting" /\ ~copy.fin THEN "gone" ELSE @]
UpdatedPolStatus(copy) ==
  [pol EXCEPT !.last = copy.last, !.count = copy.count, !.cond = copy.cond]

REnd ==
  /\ rpc' = "idle" /\ rPol' = NoPolicy /\ rSec' = NoSecret /\ rBoot' = NoBoot
  /\ rNew' = NoKey

RLastWrite(new) ==
  /\ \/ CurrentPol("r") /\ pol' = new /\ stalePol' = WrittenBy(stalePol, "r", pol, new) /\ Calm
     \/ ~CurrentPol("r") /\ UNCHANGED <<pol, stalePol>> /\ Calm
     \/ pol' = pol /\ stalePol' = stalePol \cup {"r"} /\ CallFails
  /\ REnd
  /\ staleSec' = staleSec \cup {"r"}
  /\ UNCHANGED <<polCache, bootVars, sec, secCache, covered, keyVars>> /\ ROnly

RAddFinalizer ==
  /\ rpc = "addFinalizer"
  /\ RLastWrite(UpdatedPol([rPol EXCEPT !.fin = TRUE]))

RRemoveFinalizer ==
  /\ rpc = "removeFinalizer"
  /\ RLastWrite(UpdatedPol([rPol EXCEPT !.fin = FALSE]))

RStatus ==
  /\ rpc = "status"
  /\ RLastWrite(UpdatedPolStatus(rPol))

RNext ==
  \/ RStart \/ RStartRotation \/ RInjectOld \/ RInjectNew \/ RUpdate \/ RAnnotate
  \/ RAddFinalizer \/ RRemoveFinalizer \/ RStatus

(***************************************************************************)
(* The environment: watch events, time, users and crashes.                 *)
(***************************************************************************)
Idle == UNCHANGED <<bVars, rVars, keyVars, now, covered>>

SyncBoot ==
  /\ "cache" \in staleBoot
  /\ bootCache' = boot /\ staleBoot' = staleBoot \ {"cache"}
  /\ UNCHANGED <<boot, polVars, secVars>> /\ Idle /\ Calm

SyncPol ==
  /\ "cache" \in stalePol
  /\ polCache' = pol /\ stalePol' = stalePol \ {"cache"}
  /\ UNCHANGED <<pol, bootVars, secVars>> /\ Idle /\ Calm

SyncSec ==
  /\ "cache" \in staleSec
  /\ secCache' = sec[Primary] /\ staleSec' = staleSec \ {"cache"}
  /\ UNCHANGED <<sec, bootVars, polVars>> /\ Idle /\ Calm

Tick ==
  /\ now < MaxTime
  /\ now' = now + 1
  /\ UNCHANGED <<bootVars, polVars, secVars, bVars, rVars, keyVars, covered>>
  /\ Calm

\* kubectl delete: with a finalizer the object only becomes "deleting".
Deleted(obj) == [obj EXCEPT !.phase = IF obj.fin THEN "deleting" ELSE "gone"]

DeleteBoot ==
  /\ boot.phase = "live" /\ Disrupt("deleteBoot")
  /\ boot' = Deleted(boot) /\ staleBoot' = Copies
  /\ UNCHANGED <<bootCache, polVars, secVars>> /\ Idle

DeletePol ==
  /\ pol.phase = "live" /\ Disrupt("deletePol")
  /\ pol' = Deleted(pol) /\ stalePol' = Copies
  /\ UNCHANGED <<polCache, bootVars, secVars>> /\ Idle

ToggleSuspend ==
  /\ pol.phase = "live" /\ Disrupt("suspend")
  /\ pol' = [pol EXCEPT !.suspend = ~@] /\ stalePol' = Copies
  /\ UNCHANGED <<polCache, bootVars, secVars>> /\ Idle

DeleteSecret(t) ==
  /\ sec[t].key # NoKey /\ Disrupt("deleteSecret")
  /\ sec' = [sec EXCEPT ![t] = NoSecret]
  /\ staleSec' = IF t = Primary THEN Copies ELSE staleSec
  /\ UNCHANGED <<secCache, bootVars, polVars>> /\ Idle

\* The process dies at any point; the next one lists everything afresh.
Crash ==
  /\ Disrupt("crash")
  /\ BEnd /\ REnd
  /\ bootCache' = boot /\ polCache' = pol /\ secCache' = sec[Primary]
  /\ staleBoot' = Copies \ {"cache"}
  /\ stalePol' = Copies \ {"cache"}
  /\ staleSec' = Copies \ {"cache"}
  /\ UNCHANGED <<boot, pol, sec, keyVars, now, covered>>

User == DeleteBoot \/ DeletePol \/ ToggleSuspend \/ \E t \in Target : DeleteSecret(t)
Sync == SyncBoot \/ SyncPol \/ SyncSec

Next == BNext \/ RNext \/ Sync \/ Tick \/ User \/ Crash

Spec == Init /\ [][Next]_vars

(***************************************************************************)
(* Workers keep reconciling (every outcome requeues the request, and a     *)
(* watch event enqueues it) and watch events arrive in the end.  Nothing   *)
(* is asked of the clock, of users or of failures.                         *)
(***************************************************************************)
Fairness ==
  /\ WF_vars(BNext)
  /\ WF_vars(RNext)
  /\ WF_vars(SyncBoot) /\ WF_vars(SyncPol) /\ WF_vars(SyncSec)

FairSpec == Spec /\ Fairness

-----------------------------------------------------------------------------
(***************************************************************************)
(* The inductive invariant: what the steps of the two reconcilers rely on. *)
(***************************************************************************)

\* A rotation that has started has a key number left, and then a key.
KeyInHand ==
  /\ rpc = "injectOld" => nextKey <= MaxKey
  /\ rpc \in {"injectNew", "update"} => rNew \in Key

\* A copy that carries the current resourceVersion equals the object, the
\* rotation holds one of the CR only while it rotates, and no copy carries an
\* envelope newer than the CR's.
CopiesFaithful ==
  /\ "cache" \notin staleBoot => bootCache = boot
  /\ "b" \notin staleBoot => bBoot = boot
  /\ "r" \notin staleBoot => rBoot = boot /\ rpc \in {"injectOld", "injectNew", "update"}
  /\ "cache" \notin stalePol => polCache = pol
  /\ \A copy \in {bootCache, bBoot, rBoot} : copy.key <= boot.key

\* The key of a rotation in flight is the newest of all: no envelope and no
\* Secret carries it until the rotation puts it there.
NewKeyIsNewest ==
  /\ boot.key < nextKey /\ boot.pub <= boot.key
  /\ \A t \in Target : sec[t].key < nextKey
  /\ rpc \in {"injectNew", "update"} => rNew = nextKey - 1 /\ boot.key < rNew
  /\ rpc = "injectNew" => \A t \in Target : sec[t].key < rNew

\* Whoever has a copy of the CR has an envelope that it has had.
EnvelopesKnown ==
  {NoBoot.key, boot.key, bootCache.key, bBoot.key, rBoot.key} \subseteq envelopes

\* Once the rotation has injected its key, the Secret it read beforehand can
\* no longer be written back.
SourceSecretStale == rpc \in {"update", "annotate"} => "r" \in staleSec

\* What the bootstrap reconciler has injected of the current envelope.
InjectionProgress ==
  /\ bpc # "inject" => bNext = Primary
  /\ bpc = "inject" /\ bBoot.key = boot.key => 1..bNext - 1 \subseteq covered
  /\ bpc = "statusReady" /\ bBoot.key = boot.key => covered = Target

\* A policy in hand that is still current is the server's policy, and on the
\* way to a success status it was due and its rotation is stored.
Rotating == {"injectOld", "injectNew", "update", "annotate"}
PolicyInHand ==
  "r" \notin stalePol =>
    /\ rpc # "idle"
    /\ rpc # "status" => rPol = pol
    /\ rpc \in Rotating /\ pol.last # Never => now >= pol.last + Interval
    /\ rpc = "annotate" => pol.count < rotations
    /\ rpc = "status" /\ rPol.cond # "succeeded" => rPol.count = pol.count
                                                   /\ rPol.last = pol.last
    /\ rpc = "status" /\ rPol.cond = "succeeded" =>
         /\ rPol.count = pol.count + 1
         /\ rPol.count <= rotations
         /\ pol.last # Never => rPol.last >= pol.last + Interval

-----------------------------------------------------------------------------
(***************************************************************************)
(* Safety.                                                                 *)
(***************************************************************************)

\* The envelope in the CR changes only to the one just generated: neither the
\* finalizer Updates of the bootstrap reconciler nor the rotation's own Update,
\* which write the whole object from a copy, can bring an older one back.
EnvelopeOnlyAdvances ==
  [][boot'.key # boot.key => boot'.key > boot.key /\ boot'.key = nextKey - 1]_vars

\* The keys a reconciler holds decrypted, and may therefore inject.
HeldKeys ==
  (IF bpc = "inject" THEN {bBoot.key} ELSE {}) \cup
  (IF rpc = "injectOld" THEN {rBoot.key} ELSE {}) \cup
  (IF rpc = "injectNew" THEN {rNew} ELSE {})

\* The private key in a Secret changes only to a key some reconciler holds
\* decrypted at that moment: the annotation write of the rotation, which puts
\* back a Secret read before the rotation, never restores the previous key.
OnlyHeldKeysInjected ==
  [][\A t \in Target : sec'[t].key \in {sec[t].key, NoKey} \cup HeldKeys]_vars

\* Ready=True with the public key of the current envelope means that the key
\* of that envelope has been injected into every target.
ReadyMeansInjected ==
  boot.ready /\ boot.pub = boot.key => covered = Target

\* The status never counts a rotation whose envelope did not reach the CR.
CountedRotationsStored == pol.count <= rotations

\* Counted rotations are at least one interval apart, whatever stale policy
\* or Secret the reconciler decided on.
CountedRotationsSpaced ==
  [][pol'.count # pol.count =>
       /\ pol'.count = pol.count + 1
       /\ pol.last # Never => pol'.last >= pol.last + Interval]_vars

\* The conjunction that every step preserves.
IInv ==
  /\ TypeOK /\ KeyInHand /\ CopiesFaithful /\ NewKeyIsNewest /\ EnvelopesKnown
  /\ SourceSecretStale
  /\ InjectionProgress /\ PolicyInHand
  /\ ReadyMeansInjected /\ CountedRotationsStored

(***************************************************************************)
(* The reconcilers keep the custody of the keys: KeyCustody with what each *)
(* of them has in hand.  A stale CR makes an old key, a failed rotation    *)
(* loses a new one; none appears in a Secret, an envelope or under         *)
(* Ready=True otherwise.                                                   *)
(***************************************************************************)
NoWork == [stage |-> "none", key |-> NoKey]
BWork == IF bpc = "inject" THEN [stage |-> "open", key |-> bBoot.key] ELSE NoWork
RWork == CASE rpc = "injectOld" -> [stage |-> "open", key |-> rBoot.key]
           [] rpc = "injectNew" -> [stage |-> "new", key |-> rNew]
           [] rpc = "update" -> [stage |-> "sent", key |-> rNew]
           [] OTHER -> NoWork
Work == [w \in {"b", "r"} |-> IF w = "b" THEN BWork ELSE RWork]
SecretKeys == [t \in Target |-> sec[t].key]
Vouched == boot.ready /\ boot.pub = boot.key

Custody == INSTANCE KeyCustody WITH
  Reconciler <- {"b", "r"}, envelope <- boot.key, drawn <- nextKey - 1, work <- Work,
  secret <- SecretKeys, served <- covered, vouched <- Vouched

KeysInCustody == Custody!Spec

(***************************************************************************)
(* Liveness.                                                               *)
(***************************************************************************)

\* Once failures, users and the clock have stopped, every Secret ends up with
\* the key of the envelope in the CR, and stays so, unless the CR is deleted.
Converges ==
  <>[](boot.phase # "gone" => \A t \in Target : sec[t].key = boot.key)


\* A rotation that is due on the server takes place, or the policy no longer
\* asks for it, or the CR or the source Secret is gone.
RotationDue ==
  /\ pol.phase = "live" /\ ~pol.suspend /\ boot.phase = "live"
  /\ sec[Primary].key # NoKey /\ Due(pol, sec[Primary])
DueRotationHappens == RotationDue ~> (~RotationDue \/ nextKey > MaxKey)

=============================================================================
