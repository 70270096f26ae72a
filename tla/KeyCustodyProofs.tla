-------------------------- MODULE KeyCustodyProofs --------------------------
(***************************************************************************)
(* GenesisOperator implements KeyCustody, for every number of targets,     *)
(* interval, bound and set of disruptions.                                 *)
(***************************************************************************)
EXTENDS GenesisOperatorProofs

CustodyStep == [Custody!Next]_(Custody!vars)

(***************************************************************************)
(* The mapping.                                                            *)
(***************************************************************************)
LEMMA WorkMaps ==
  /\ Work["b"] = BWork /\ Work["r"] = RWork
  /\ BWork' = BWork /\ RWork' = RWork => Work' = Work
  /\ \A x : BWork' = x /\ RWork' = RWork => Work' = [Work EXCEPT !["b"] = x]
  /\ \A x : BWork' = BWork /\ RWork' = x => Work' = [Work EXCEPT !["r"] = x]
<1>1. Work' = [w \in {"b", "r"} |-> IF w = "b" THEN BWork' ELSE RWork']
  BY DEF Work
<1>2. Work = [w \in {"b", "r"} |-> IF w = "b" THEN BWork ELSE RWork]
  BY DEF Work
<1>. QED  BY <1>1, <1>2

LEMMA SecretsMap ==
  ASSUME NEW t \in Target, NEW s, sec \in [Target -> Secret],
         sec' = [sec EXCEPT ![t] = s]
  PROVE  SecretKeys' = [SecretKeys EXCEPT ![t] = s.key]
<1>1. SecretKeys' = [u \in Target |-> sec'[u].key]
  BY DEF SecretKeys
<1>2. SecretKeys = [u \in Target |-> sec[u].key]
  BY DEF SecretKeys
<1>. QED  BY <1>1, <1>2

(***************************************************************************)
(* Steps that leave the keys where they are: at most what is vouched for   *)
(* changes, and ReadyMeansInjected says when it may.                       *)
(***************************************************************************)
LEMMA QuietMaps ==
  ASSUME IInv, IInv', boot'.key = boot.key,
         UNCHANGED <<envelopes, nextKey, Work, SecretKeys, covered>>
  PROVE  CustodyStep
<1>1. Vouched \in BOOLEAN /\ Vouched' \in BOOLEAN
  BY DEF Vouched, IInv, TypeOK, Boot
<1>2. Vouched' => covered = Target
  BY DEF Vouched, IInv, ReadyMeansInjected
<1>3. CASE Vouched'
  <2>1. Custody!Vouch
    BY <1>1, <1>2, <1>3 DEF Custody!Vouch
  <2>. QED  BY <2>1 DEF CustodyStep, Custody!Next
<1>4. CASE ~Vouched'
  <2>1. Custody!Retract
    BY <1>1, <1>4 DEF Custody!Retract
  <2>. QED  BY <2>1 DEF CustodyStep, Custody!Next
<1>. QED  BY <1>3, <1>4

\* A reconciler that fails forgets what it had.
LEMMA ForgetMaps ==
  ASSUME NEW R \in SUBSET {"b", "r"},
         UNCHANGED <<boot, envelopes, nextKey, SecretKeys, covered>>,
         BWork' = IF "b" \in R THEN NoWork ELSE BWork,
         RWork' = IF "r" \in R THEN NoWork ELSE RWork
  PROVE  CustodyStep
<1>1. Work' = [w \in {"b", "r"} |-> IF w \in R THEN NoWork ELSE Work[w]]
  <2>1. Work' = [w \in {"b", "r"} |-> IF w = "b" THEN BWork' ELSE RWork']
    BY DEF Work
  <2>. QED  BY <2>1, WorkMaps
<1>2. Custody!Forget
  BY <1>1 DEF Custody!Forget, Custody!Nothing, NoWork, Vouched
<1>. QED  BY <1>2 DEF CustodyStep, Custody!Next

LEMMA LoseMaps ==
  ASSUME IInv, NEW t \in Target, sec' = [sec EXCEPT ![t] = NoSecret],
         UNCHANGED <<boot, envelopes, nextKey, Work, covered>>
  PROVE  CustodyStep
<1>1. sec \in [Target -> Secret]
  BY DEF IInv, TypeOK
<1>2. SecretKeys' = [SecretKeys EXCEPT ![t] = NoSecret.key]
  BY <1>1, SecretsMap
<1>3. NoSecret.key = NoKey
  BY DEF NoSecret
<1>4. Custody!Lose(t)
  BY <1>2, <1>3 DEF Custody!Lose, Vouched
<1>. QED  BY <1>4 DEF CustodyStep, Custody!Next

\* A reconciler decrypts the envelope of the cached CR.
LEMMA OpenMaps ==
  ASSUME IInv, NEW w \in {"b", "r"}, Work[w] = NoWork,
         Work' = [Work EXCEPT ![w] = [stage |-> "open", key |-> bootCache.key]],
         UNCHANGED <<boot, envelopes, nextKey, SecretKeys, covered>>
  PROVE  CustodyStep
<1>1. bootCache.key \in envelopes
  BY DEF IInv, EnvelopesKnown
<1>2. Custody!Open(w)
  BY <1>1 DEF Custody!Open, Custody!Nothing, NoWork, Vouched
<1>. QED  BY <1>2 DEF CustodyStep, Custody!Next

\* The request of an injection.
LEMMA GiveMaps ==
  ASSUME IInv, NEW w \in {"b", "r"}, NEW t \in Target, Inject(t, Work[w].key),
         Work[w].stage \in {"open", "new"}, UNCHANGED <<boot, envelopes>>
  PROVE  Custody!Give(w, t)
<1>1. SecretKeys' = [SecretKeys EXCEPT ![t] = Work[w].key]
  <2>1. sec \in [Target -> Secret]
    BY DEF IInv, TypeOK
  <2>2. sec' = [sec EXCEPT ![t] = Injected(sec[t], Work[w].key)]
    BY DEF Inject
  <2>3. SecretKeys' = [SecretKeys EXCEPT ![t] = Injected(sec[t], Work[w].key).key]
    BY <2>1, <2>2, SecretsMap
  <2>4. \A s, k : Injected(s, k).key = k
    BY DEF Injected
  <2>. QED  BY <2>3, <2>4
<1>2. covered' = IF Work[w].key = boot.key THEN covered \cup {t} ELSE covered
  BY DEF Inject
<1>. QED  BY <1>1, <1>2 DEF Custody!Give, Vouched

LEMMA DeliverMaps ==
  ASSUME IInv, NEW w \in {"b", "r"}, NEW t \in Target, Inject(t, Work[w].key),
         Work[w].stage \in {"open", "new"}, UNCHANGED <<boot, envelopes, nextKey>>,
         Work' \in {Work, [Work EXCEPT ![w] = NoWork]}
  PROVE  CustodyStep
<1>1. Custody!Deliver(w, t)
  BY GiveMaps DEF Custody!Deliver, Custody!Nothing, NoWork
<1>. QED  BY <1>1 DEF CustodyStep, Custody!Next

(***************************************************************************)
(* The steps of the two reconcilers.                                       *)
(***************************************************************************)

\* Only the CR update of the rotation changes the envelope.
LEMMA EnvelopeSame ==
  ASSUME IInv, [Next]_vars, rpc # "update" \/ rpc' = rpc
  PROVE  boot'.key = boot.key
  BY EnvelopeStep DEF RUpdate, RFail

LEMMA BInjectMaps ==
  ASSUME IInv, BInject
  PROVE  CustodyStep
<1>1. BWork = [stage |-> "open", key |-> bBoot.key] /\ Work["b"] = BWork
  BY WorkMaps DEF BInject, BWork
<1>2. bNext \in Target
  BY DEF IInv, TypeOK
<1>3. RWork' = RWork /\ UNCHANGED <<boot, envelopes, nextKey>>
  BY DEF BInject, BOnly, rVars, keyVars, bootVars, RWork
<1>4. BWork' = BWork \/ BWork' = NoWork
  BY DEF BInject, BWork
<1>5. Work' \in {Work, [Work EXCEPT !["b"] = NoWork]}
  BY <1>3, <1>4, WorkMaps
<1>6. CASE Inject(bNext, bBoot.key)
  BY <1>1, <1>2, <1>3, <1>5, <1>6, DeliverMaps
<1>7. CASE NoInject /\ bpc' = "statusFailed"
  <2>1. BWork' = NoWork /\ SecretKeys' = SecretKeys /\ covered' = covered
    BY <1>7 DEF BWork, NoInject, secVars, SecretKeys
  <2>2. /\ BWork' = IF "b" \in {"b"} THEN NoWork ELSE BWork
        /\ RWork' = IF "r" \in {"b"} THEN NoWork ELSE RWork
    BY <2>1, <1>3
  <2>. QED  BY <2>1, <2>2, <1>3, ForgetMaps
<1>. QED  BY <1>6, <1>7 DEF BInject

\* The bootstrap reconciler reads a CR: it has its envelope, or nothing.
LEMMA BReadMaps ==
  ASSUME IInv, IInv', NEW step, BRead(step)
  PROVE  CustodyStep
<1>1. /\ RWork' = RWork /\ SecretKeys' = SecretKeys
      /\ UNCHANGED <<boot, envelopes, nextKey, covered>>
  BY DEF BRead, BOnly, NoInject, rVars, keyVars, secVars, RWork, SecretKeys
<1>2. Work["b"] = NoWork
  BY WorkMaps DEF BRead, BWork
<1>3. CASE step = "inject"
  <2>1. BWork' = [stage |-> "open", key |-> bootCache.key]
    BY <1>3 DEF BRead, BWork
  <2>2. Work' = [Work EXCEPT !["b"] = [stage |-> "open", key |-> bootCache.key]]
    BY <2>1, <1>1, WorkMaps
  <2>. QED  BY <1>1, <1>2, <2>2, OpenMaps
<1>4. CASE step # "inject"
  <2>1. BWork' = BWork
    BY <1>4 DEF BRead, BWork
  <2>. QED  BY <1>1, <2>1, WorkMaps, QuietMaps
<1>. QED  BY <1>3, <1>4

LEMMA BMaps ==
  ASSUME IInv, IInv', BNext
  PROVE  CustodyStep
<1>1. CASE BStart \/ BStartBootstrap
  BY <1>1, BReadMaps DEF BStart, BStartBootstrap
<1>2. CASE BInject
  BY <1>2, BInjectMaps
<1>3. CASE BAddFinalizer \/ BStatusReady \/ BStatusFailed \/ BStatusUnattested \/ BRemoveFinalizer
  <2>1. PICK new : BLastWrite(new)
    BY <1>3
    DEF BAddFinalizer, BStatusReady, BStatusFailed, BStatusUnattested, BRemoveFinalizer
  <2>2. bpc # "inject"
    BY <1>3
    DEF BAddFinalizer, BStatusReady, BStatusFailed, BStatusUnattested, BRemoveFinalizer
  <2>3. BWork' = BWork
    BY <2>1, <2>2 DEF BLastWrite, BEnd, BWork
  <2>4. /\ RWork' = RWork /\ SecretKeys' = SecretKeys /\ rpc' = rpc
        /\ UNCHANGED <<envelopes, nextKey, covered>>
    BY <2>1 DEF BLastWrite, BOnly, NoInject, rVars, keyVars, secVars, RWork, SecretKeys
  <2>5. boot'.key = boot.key
    BY <2>4, EnvelopeSame DEF Next
  <2>. QED  BY <2>3, <2>4, <2>5, WorkMaps, QuietMaps
<1>4. CASE BCleanup
  <2>1. /\ RWork' = RWork /\ BWork' = BWork
        /\ UNCHANGED <<boot, envelopes, nextKey, covered>>
    BY <1>4 DEF BCleanup, BOnly, NoInject, rVars, keyVars, bootVars, secVars, RWork, BWork
  <2>2. CASE sec' = [sec EXCEPT ![Primary] = NoSecret]
    <3>1. Primary \in Target
      BY BoundsAssumption DEF BoundsAssumption, Primary, Target
    <3>. QED  BY <2>1, <2>2, <3>1, WorkMaps, LoseMaps
  <2>3. CASE sec' = sec
    <3>1. SecretKeys' = SecretKeys
      BY <2>3 DEF SecretKeys
    <3>. QED  BY <2>1, <3>1, WorkMaps, QuietMaps
  <2>. QED  BY <1>4, <2>2, <2>3 DEF BCleanup, NoInject, secVars
<1>. QED  BY <1>1, <1>2, <1>3, <1>4 DEF BNext

\* A rotation that fails forgets both keys.
LEMMA RForgetMaps ==
  ASSUME IInv, RWork' = NoWork, BWork' = BWork,
         UNCHANGED <<boot, envelopes, nextKey, sec, covered>>
  PROVE  CustodyStep
<1>1. /\ BWork' = IF "b" \in {"r"} THEN NoWork ELSE BWork
      /\ RWork' = IF "r" \in {"r"} THEN NoWork ELSE RWork
  OBVIOUS
<1>2. SecretKeys' = SecretKeys
  BY DEF SecretKeys
<1>. QED  BY <1>1, <1>2, ForgetMaps

\* Its first injection makes the key that will replace the one injected.
LEMMA RInjectOldMaps ==
  ASSUME IInv, RInjectOld
  PROVE  CustodyStep
<1>1. RWork = [stage |-> "open", key |-> rBoot.key] /\ Work["r"] = RWork
  BY WorkMaps DEF RInjectOld, RWork
<1>2. Primary \in Target
  BY BoundsAssumption DEF BoundsAssumption, Primary, Target
<1>3. BWork' = BWork /\ UNCHANGED <<boot, envelopes>>
  BY DEF RInjectOld, ROnly, DropBoot, bootVars, bVars, BWork
<1>4. CASE Inject(Primary, rBoot.key) /\ rpc' = "injectNew" /\ rNew' = nextKey
           /\ nextKey' = nextKey + 1
  <2>1. nextKey \in Nat
    BY BootKeys DEF IInv, TypeInv
  <2>2. RWork' = [stage |-> "new", key |-> nextKey - 1 + 1] /\ nextKey' - 1 = nextKey - 1 + 1
    BY <1>4, <2>1 DEF RWork
  <2>3. Work' = [Work EXCEPT !["r"] = [stage |-> "new", key |-> nextKey - 1 + 1]]
    BY <1>3, <2>2, WorkMaps
  <2>4. Custody!Give("r", Primary)
    BY <1>1, <1>2, <1>3, <1>4, GiveMaps
  <2>5. Custody!Renew("r")
    BY <1>1, <2>2, <2>3, <2>4 DEF Custody!Renew
  <2>. QED  BY <2>5 DEF CustodyStep, Custody!Next
<1>5. CASE RFail /\ UNCHANGED nextKey
  <2>1. RWork' = NoWork
    BY <1>5 DEF RFail, RWork
  <2>2. Work' = [Work EXCEPT !["r"] = NoWork]
    BY <1>3, <2>1, WorkMaps
  <2>3. CASE Inject(Primary, rBoot.key)
    BY <1>1, <1>2, <1>3, <1>5, <2>2, <2>3, DeliverMaps
  <2>4. CASE NoInject
    BY <1>3, <1>5, <2>1, <2>4, RForgetMaps DEF NoInject, secVars
  <2>. QED  BY <2>3, <2>4 DEF RInjectOld
<1>. QED  BY <1>4, <1>5 DEF RInjectOld

LEMMA RInjectNewMaps ==
  ASSUME IInv, RInjectNew
  PROVE  CustodyStep
<1>1. RWork = [stage |-> "new", key |-> rNew] /\ Work["r"] = RWork
  BY WorkMaps DEF RInjectNew, RWork
<1>2. Primary \in Target
  BY BoundsAssumption DEF BoundsAssumption, Primary, Target
<1>3. BWork' = BWork /\ UNCHANGED <<boot, envelopes, nextKey>>
  BY DEF RInjectNew, ROnly, DropBoot, bootVars, bVars, keyVars, BWork
<1>4. CASE Inject(Primary, rNew) /\ rpc' = "update" /\ UNCHANGED rNew
  <2>1. RWork' = [stage |-> "sent", key |-> rNew]
    BY <1>4 DEF RWork
  <2>2. RWork' = [RWork EXCEPT !.stage = "sent"]
    BY <1>1, <2>1
  <2>3. Work' = [Work EXCEPT !["r"] = [Work["r"] EXCEPT !.stage = "sent"]]
    BY <1>1, <1>3, <2>2, WorkMaps
  <2>4. Custody!Give("r", Primary)
    BY <1>1, <1>2, <1>3, <1>4, GiveMaps
  <2>5. Custody!Present("r")
    BY <1>1, <1>3, <2>3, <2>4 DEF Custody!Present
  <2>. QED  BY <2>5 DEF CustodyStep, Custody!Next
<1>5. CASE RFail
  <2>1. RWork' = NoWork
    BY <1>5 DEF RFail, RWork
  <2>2. Work' = [Work EXCEPT !["r"] = NoWork]
    BY <1>3, <2>1, WorkMaps
  <2>3. CASE Inject(Primary, rNew)
    BY <1>1, <1>2, <1>3, <1>5, <2>2, <2>3, DeliverMaps
  <2>4. CASE NoInject
    BY <1>3, <1>5, <2>1, <2>4, RForgetMaps DEF NoInject, secVars
  <2>. QED  BY <1>5, <2>3, <2>4 DEF RInjectNew
<1>. QED  BY <1>4, <1>5 DEF RInjectNew

\* The CR update stores the envelope of the new key, which is the newest.
LEMMA RUpdateMaps ==
  ASSUME IInv, RUpdate
  PROVE  CustodyStep
<1>1. RWork = [stage |-> "sent", key |-> rNew] /\ Work["r"] = RWork /\ RWork' = NoWork
  BY WorkMaps DEF RUpdate, RFail, RWork
<1>2. /\ BWork' = BWork /\ SecretKeys' = SecretKeys
      /\ UNCHANGED <<nextKey, sec>>
  BY DEF RUpdate, ROnly, secVars, bVars, BWork, SecretKeys
<1>3. CASE RStore
  <2>1. rNew = nextKey - 1 /\ boot.key < rNew /\ boot.pub <= boot.key
    BY DEF IInv, NewKeyIsNewest, RUpdate
  <2>2. rNew \in Nat /\ boot.key \in Nat /\ boot.pub \in Nat
    BY <2>1, BootKeys DEF IInv, TypeInv
  <2>3. boot'.key = rNew /\ boot'.pub = boot.pub
    BY <1>3 DEF RStore, WriteBoot, Updated, IInv, TypeOK, Boot
  <2>4. Vouched' = FALSE
    BY <2>1, <2>2, <2>3 DEF Vouched
  <2>5. Work' = [Work EXCEPT !["r"] = NoWork]
    BY <1>1, <1>2, WorkMaps
  <2>6. envelopes' = envelopes \cup {rNew} /\ covered' = {}
    BY <1>3 DEF RStore
  <2>7. Custody!Store("r")
    BY <1>1, <1>2, <2>1, <2>3, <2>4, <2>5, <2>6 DEF Custody!Store, Custody!Nothing, NoWork
  <2>. QED  BY <2>7 DEF CustodyStep, Custody!Next
<1>4. CASE NotStored
  BY <1>1, <1>2, <1>4, RForgetMaps DEF NotStored, DropBoot
<1>. QED  BY <1>3, <1>4 DEF RUpdate

LEMMA RReadMaps ==
  ASSUME IInv, IInv', NEW step \in {"status", "addFinalizer", "removeFinalizer"},
         NEW reason, RReadPolicy(step, reason)
  PROVE  CustodyStep
<1>1. /\ BWork' = BWork /\ RWork' = RWork /\ SecretKeys' = SecretKeys
      /\ UNCHANGED <<boot, envelopes, nextKey, covered>>
  BY DEF RReadPolicy, RRead, ROnly, bVars, keyVars, BWork, RWork, SecretKeys
<1>. QED  BY <1>1, WorkMaps, QuietMaps

LEMMA RMaps ==
  ASSUME IInv, IInv', RNext
  PROVE  CustodyStep
<1>1. CASE RStart
  BY <1>1, RReadMaps DEF RStart
<1>2. CASE RStartRotation
  <2>1. CASE RReadPolicy("status", "failed")
    BY <2>1, RReadMaps
  <2>2. CASE RRead("injectOld", "") /\ rBoot' = bootCache
    <3>1. /\ BWork' = BWork /\ SecretKeys' = SecretKeys
          /\ UNCHANGED <<boot, envelopes, nextKey, covered>>
      BY <2>2 DEF RRead, ROnly, bVars, keyVars, BWork, SecretKeys
    <3>2. Work["r"] = NoWork
      BY <2>2, WorkMaps DEF RRead, RWork
    <3>3. RWork' = [stage |-> "open", key |-> bootCache.key]
      BY <2>2 DEF RRead, RWork
    <3>4. Work' = [Work EXCEPT !["r"] = [stage |-> "open", key |-> bootCache.key]]
      BY <3>1, <3>3, WorkMaps
    <3>. QED  BY <3>1, <3>2, <3>4, OpenMaps
  <2>. QED  BY <1>2, <2>1, <2>2 DEF RStartRotation
<1>3. CASE RInjectOld
  BY <1>3, RInjectOldMaps
<1>4. CASE RInjectNew
  BY <1>4, RInjectNewMaps
<1>5. CASE RUpdate
  BY <1>5, RUpdateMaps
<1>6. CASE RAnnotate
  <2>1. sec' = sec
    BY <1>6 DEF RAnnotate, CurrentSec, IInv, SourceSecretStale
  <2>2. /\ BWork' = BWork /\ RWork' = RWork /\ SecretKeys' = SecretKeys
        /\ UNCHANGED <<boot, envelopes, nextKey, covered>>
    BY <1>6, <2>1 DEF RAnnotate, ROnly, bVars, bootVars, keyVars, BWork, RWork, SecretKeys
  <2>. QED  BY <2>2, WorkMaps, QuietMaps
<1>7. CASE RAddFinalizer \/ RRemoveFinalizer \/ RStatus
  <2>1. PICK new : RLastWrite(new)
    BY <1>7 DEF RAddFinalizer, RRemoveFinalizer, RStatus
  <2>2. rpc \in {"addFinalizer", "removeFinalizer", "status"}
    BY <1>7 DEF RAddFinalizer, RRemoveFinalizer, RStatus
  <2>3. /\ BWork' = BWork /\ RWork' = RWork /\ SecretKeys' = SecretKeys
        /\ UNCHANGED <<boot, envelopes, nextKey, covered>>
    BY <2>1, <2>2
    DEF RLastWrite, REnd, ROnly, bVars, bootVars, keyVars, BWork, RWork, SecretKeys
  <2>. QED  BY <2>3, WorkMaps, QuietMaps
<1>. QED  BY <1>1, <1>2, <1>3, <1>4, <1>5, <1>6, <1>7 DEF RNext

(***************************************************************************)
(* The steps of the environment.                                           *)
(***************************************************************************)
LEMMA EnvMaps ==
  ASSUME IInv, IInv', Sync \/ Tick \/ User \/ Crash
  PROVE  CustodyStep
<1>1. CASE Sync \/ Tick \/ DeletePol \/ ToggleSuspend \/ DeleteBoot
  <2>1. /\ BWork' = BWork /\ RWork' = RWork /\ SecretKeys' = SecretKeys
        /\ UNCHANGED <<envelopes, nextKey, covered, rpc>>
    BY <1>1
    DEF Sync, SyncBoot, SyncPol, SyncSec, Tick, DeletePol, ToggleSuspend, DeleteBoot, Idle,
        bVars, rVars, keyVars, secVars, BWork, RWork, SecretKeys
  <2>2. boot'.key = boot.key
    BY <1>1, <2>1, EnvelopeSame DEF Next, User
  <2>. QED  BY <2>1, <2>2, WorkMaps, QuietMaps
<1>2. CASE \E t \in Target : DeleteSecret(t)
  <2>1. PICK t \in Target : DeleteSecret(t)
    BY <1>2
  <2>2. /\ BWork' = BWork /\ RWork' = RWork
        /\ UNCHANGED <<boot, envelopes, nextKey, covered>>
    BY <2>1 DEF DeleteSecret, Idle, bVars, rVars, bootVars, keyVars, BWork, RWork
  <2>3. sec' = [sec EXCEPT ![t] = NoSecret]
    BY <2>1 DEF DeleteSecret
  <2>. QED  BY <2>2, <2>3, WorkMaps, LoseMaps
<1>3. CASE Crash
  <2>1. /\ BWork' = IF "b" \in {"b", "r"} THEN NoWork ELSE BWork
        /\ RWork' = IF "r" \in {"b", "r"} THEN NoWork ELSE RWork
    BY <1>3 DEF Crash, BEnd, REnd, BWork, RWork
  <2>2. SecretKeys' = SecretKeys /\ UNCHANGED <<boot, envelopes, nextKey, covered>>
    BY <1>3 DEF Crash, SecretKeys, keyVars
  <2>. QED  BY <2>1, <2>2, ForgetMaps
<1>. QED  BY <1>1, <1>2, <1>3 DEF User

LEMMA InitMaps == Init => Custody!Init
<1> SUFFICES ASSUME Init PROVE Custody!Init
  OBVIOUS
<1>1. boot.key = 1 /\ boot.ready = FALSE
  BY EmptyObjects DEF Init, NoBoot, Boot
<1>2. SecretKeys = [t \in Target |-> NoKey]
  BY DEF Init, SecretKeys, NoSecret
<1>3. Work = [w \in {"b", "r"} |-> NoWork]
  BY DEF Init, Work, BWork, RWork
<1>. QED  BY <1>1, <1>2, <1>3 DEF Init, Custody!Init, Custody!Nothing, NoWork, Vouched

LEMMA StepMaps == IInv /\ IInv' /\ [Next]_vars => CustodyStep
<1> SUFFICES ASSUME IInv, IInv', [Next]_vars PROVE CustodyStep
  OBVIOUS
<1>1. CASE UNCHANGED vars
  <2>1. /\ BWork' = BWork /\ RWork' = RWork /\ SecretKeys' = SecretKeys
        /\ UNCHANGED <<boot, envelopes, nextKey, covered>>
    BY <1>1 DEF vars, bVars, rVars, bootVars, keyVars, secVars, BWork, RWork, SecretKeys
  <2>. QED  BY <2>1, WorkMaps, QuietMaps
<1>. QED  BY <1>1, BMaps, RMaps, EnvMaps DEF Next

\* The two reconcilers, whatever they read late, write in vain or leave half
\* done, keep the custody of the keys: what they put into a Secret comes from
\* an envelope of the CR or is the key of their own rotation, the envelope
\* stored is that of the newest key, which has been put into the source Secret,
\* and Ready=True is said of a key that every Secret has been given.
THEOREM OperatorKeepsCustody == Spec => KeysInCustody
<1>1. IInv /\ IInv' /\ [Next]_vars => [Custody!Next]_(Custody!vars)
  BY StepMaps DEF CustodyStep
<1>. QED
  BY InitMaps, InvariantHolds, <1>1, PTL DEF Spec, KeysInCustody, Custody!Spec
=============================================================================
