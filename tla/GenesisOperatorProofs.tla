----------------------- MODULE GenesisOperatorProofs -----------------------
(***************************************************************************)
(* Proofs about GenesisOperator, for every number of targets, interval,    *)
(* bound and set of disruptions.                                           *)
(***************************************************************************)
EXTENDS GenesisOperator, TLAPS

(***************************************************************************)
(* Type correctness.                                                       *)
(***************************************************************************)
TypeInv == TypeOK /\ KeyInHand

\* The canonical objects are typed.
LEMMA EmptyObjects ==
  /\ NoBoot \in Boot /\ [NoBoot EXCEPT !.phase = "live"] \in Boot
  /\ NoPolicy \in Policy /\ [NoPolicy EXCEPT !.phase = "live"] \in Policy
  /\ NoSecret \in Secret
<1>1. 1 \in Key /\ NoKey \in KeyOrNone /\ Never \in Time
  BY BoundsAssumption DEF BoundsAssumption, Key, KeyOrNone, NoKey, Time, Never
<1>2. NoBoot \in Boot
  BY <1>1 DEF Boot, NoBoot, Phase
<1>3. [NoBoot EXCEPT !.phase = "live"] \in Boot
  BY <1>2 DEF Boot, Phase
<1>4. NoPolicy \in Policy
  BY <1>1 DEF Policy, NoPolicy, Phase, Cond
<1>5. [NoPolicy EXCEPT !.phase = "live"] \in Policy
  BY <1>4 DEF Policy, Phase
<1>6. NoSecret \in Secret
  BY <1>1 DEF Secret, NoSecret
<1> QED
  BY <1>2, <1>3, <1>4, <1>5, <1>6

LEMMA InitTypeInv == Init => TypeInv
<1> SUFFICES ASSUME Init PROVE TypeInv
  OBVIOUS
<1> USE DEF Init
<1>1. boot \in Boot /\ bootCache \in Boot /\ staleBoot \in SUBSET Copies
  BY EmptyObjects
<1>2. pol \in Policy /\ polCache \in Policy /\ stalePol \in SUBSET Copies
  BY EmptyObjects
<1>3. sec \in [Target -> Secret] /\ secCache \in Secret /\ staleSec \in SUBSET Copies
  BY EmptyObjects
<1>4. bpc \in BPc /\ bBoot \in Boot /\ bNext \in Target
  BY EmptyObjects, BoundsAssumption DEF BoundsAssumption, BPc, Target, Primary
<1>5. /\ rpc \in RPc /\ rPol \in Policy /\ rSec \in Secret /\ rBoot \in Boot
      /\ rNew \in KeyOrNone
  BY EmptyObjects DEF RPc, KeyOrNone, NoKey
<1>6. /\ nextKey \in 2..MaxKey + 1 /\ now \in 1..MaxTime
      /\ disruptions \in 0..MaxDisruptions /\ rotations \in Nat /\ covered \in SUBSET Target
      /\ envelopes \in SUBSET Key
  BY BoundsAssumption, EmptyObjects DEF BoundsAssumption, Boot
<1> QED
  BY <1>1, <1>2, <1>3, <1>4, <1>5, <1>6 DEF TypeInv, TypeOK, KeyInHand

\* What the injector writes is a Secret.
LEMMA InjectedType ==
  ASSUME NEW s \in Secret, NEW k \in Key, now \in 1..MaxTime
  PROVE  Injected(s, k) \in Secret
  BY BoundsAssumption DEF BoundsAssumption, Injected, Secret, KeyOrNone, Key, Time

LEMMA InjectType ==
  ASSUME TypeOK, NEW t \in Target, NEW k \in Key, Inject(t, k)
  PROVE  /\ sec' \in [Target -> Secret] /\ secCache' \in Secret
         /\ staleSec' \in SUBSET Copies /\ covered' \in SUBSET Target
  BY InjectedType DEF Inject, TypeOK

\* A CR written from a typed copy is typed, and so are the staleness sets.
LEMMA WriteBootType ==
  ASSUME TypeOK, NEW copy \in Boot, NEW who \in Copies
  PROVE  /\ Updated(copy) \in Boot /\ UpdatedStatus(copy) \in Boot
         /\ WrittenBy(staleBoot, who, boot, boot') \in SUBSET Copies
         /\ staleBoot \cup {who} \in SUBSET Copies
         /\ ReadBy(staleBoot, who) \in SUBSET Copies
  BY DEF TypeOK, Boot, Updated, UpdatedStatus, WrittenBy, ReadBy, Phase

LEMMA BEndType ==
  ASSUME BEnd
  PROVE  bpc' \in BPc /\ bBoot' \in Boot /\ bNext' \in Target
  BY EmptyObjects, BoundsAssumption DEF BEnd, BPc, Target, Primary, BoundsAssumption

LEMMA BLastWriteType ==
  ASSUME TypeInv, NEW new \in Boot, BLastWrite(new)
  PROVE  TypeInv'
<1>1. boot' \in Boot /\ bootCache' \in Boot /\ staleBoot' \in SUBSET Copies
  BY DEF TypeInv, TypeOK, BLastWrite, WriteBoot, DropBoot, WrittenBy, Copies
<1>2. bpc' \in BPc /\ bBoot' \in Boot /\ bNext' \in Target
  BY BEndType DEF BLastWrite
<1>3. disruptions' \in 0..MaxDisruptions
  BY BoundsAssumption DEF BoundsAssumption, TypeInv, TypeOK, BLastWrite, Calm, CallFails, Disrupt
<1> QED
  BY <1>1, <1>2, <1>3
  DEF TypeInv, TypeOK, KeyInHand, BLastWrite, NoInject, BOnly, polVars, rVars, keyVars, secVars

LEMMA DisruptionsType ==
  ASSUME TypeInv, Calm \/ \E kind \in DisruptionKind : Disrupt(kind)
  PROVE  disruptions' \in 0..MaxDisruptions
  BY BoundsAssumption DEF BoundsAssumption, TypeInv, TypeOK, Calm, Disrupt

LEMMA CallDisrupts == CallFails => \E kind \in DisruptionKind : Disrupt(kind)
  BY DEF CallFails, DisruptionKind

LEMMA BReadType ==
  ASSUME TypeInv, NEW step \in BPc, BRead(step), Calm \/ CallFails
  PROVE  TypeInv'
  BY DisruptionsType, CallDisrupts
  DEF TypeInv, TypeOK, KeyInHand, BRead, ReadBy, NoInject, BOnly, polVars, rVars,
      keyVars, secVars, Copies

LEMMA BNextType == TypeInv /\ BNext => TypeInv'
<1> SUFFICES ASSUME TypeInv, BNext PROVE TypeInv'
  OBVIOUS
<1> USE DEF TypeInv
<1>0. bBoot \in Boot
  BY DEF TypeOK
<1>1. CASE BStart
  BY <1>1, BReadType DEF BStart, BPc
<1>2. CASE BStartBootstrap
  BY <1>2, BReadType DEF BStartBootstrap, BPc
<1>3. CASE BAddFinalizer
  <2>1. [bBoot EXCEPT !.fin = TRUE] \in Boot
    BY <1>0 DEF Boot
  <2> QED
    BY <2>1, <1>3, WriteBootType, BLastWriteType DEF BAddFinalizer, Copies
<1>4. CASE BInject
  <2>1. bBoot.key \in Key /\ bNext \in Target
    BY DEF TypeOK, Boot
  <2>2. /\ sec' \in [Target -> Secret] /\ secCache' \in Secret
        /\ staleSec' \in SUBSET Copies /\ covered' \in SUBSET Target
    BY <1>4, <2>1, InjectType DEF BInject, NoInject, secVars, TypeOK
  <2>3. bpc' \in BPc /\ bNext' \in Target
    BY <1>4, <2>1, BoundsAssumption DEF BInject, BPc, Target, Primary, BoundsAssumption
  <2>4. disruptions' \in 0..MaxDisruptions
    BY <1>4, DisruptionsType, CallDisrupts DEF BInject
  <2> QED
    BY <1>4, <2>2, <2>3, <2>4
    DEF BInject, TypeOK, KeyInHand, bootVars, BOnly, polVars, rVars, keyVars
<1>5. CASE BStatusReady
  <2>1. [bBoot EXCEPT !.ready = TRUE, !.attested = TRUE, !.pub = bBoot.key, !.at = now] \in Boot
    <3>1. now \in Time
      BY BoundsAssumption DEF BoundsAssumption, TypeOK, Time
    <3>2. bBoot.key \in KeyOrNone
      BY <1>0 DEF Boot, KeyOrNone
    <3> QED
      BY <1>0, <3>1, <3>2 DEF Boot
  <2> QED
    BY <2>1, <1>5, WriteBootType, BLastWriteType DEF BStatusReady, Copies
<1>6. CASE BStatusFailed
  <2>1. [bBoot EXCEPT !.ready = FALSE] \in Boot
    BY <1>0 DEF Boot
  <2> QED
    BY <2>1, <1>6, WriteBootType, BLastWriteType DEF BStatusFailed, Copies
<1>7. CASE BStatusUnattested
  <2>1. [bBoot EXCEPT !.attested = FALSE] \in Boot
    BY <1>0 DEF Boot
  <2> QED
    BY <2>1, <1>7, WriteBootType, BLastWriteType DEF BStatusUnattested, Copies
<1>8. CASE BCleanup
  <2>1. sec' \in [Target -> Secret] /\ staleSec' \in SUBSET Copies
    BY <1>8, EmptyObjects DEF BCleanup, NoInject, secVars, TypeOK
  <2> QED
    BY <1>8, <2>1 DEF BCleanup, NoInject, secVars, TypeOK, KeyInHand, BPc, bootVars, BOnly,
                      polVars, rVars, keyVars, Calm
<1>9. CASE BRemoveFinalizer
  <2>1. [bBoot EXCEPT !.fin = FALSE] \in Boot
    BY <1>0 DEF Boot
  <2> QED
    BY <2>1, <1>9, WriteBootType, BLastWriteType DEF BRemoveFinalizer, Copies
<1> QED
  BY <1>1, <1>2, <1>3, <1>4, <1>5, <1>6, <1>7, <1>8, <1>9 DEF BNext

LEMMA PolicyCopyType ==
  ASSUME TypeOK, NEW copy \in Policy, NEW who \in Copies
  PROVE  /\ UpdatedPol(copy) \in Policy /\ UpdatedPolStatus(copy) \in Policy
         /\ \A reason \in Cond : [copy EXCEPT !.cond = reason] \in Policy
         /\ \A new \in Policy : WrittenBy(stalePol, who, pol, new) \in SUBSET Copies
         /\ stalePol \cup {who} \in SUBSET Copies
         /\ ReadBy(stalePol, who) \in SUBSET Copies
  BY DEF TypeOK, Policy, UpdatedPol, UpdatedPolStatus, WrittenBy, ReadBy, Phase

LEMMA RReadType ==
  ASSUME TypeInv, NEW step \in {"status", "addFinalizer", "removeFinalizer"},
         NEW reason \in Cond \cup {""}, RReadPolicy(step, reason), Calm \/ CallFails
  PROVE  TypeInv'
<1>1. polCache \in Policy /\ "r" \in Copies
  BY DEF TypeInv, TypeOK, Copies
<1>2. rPol' \in Policy /\ stalePol' \in SUBSET Copies
  BY <1>1, PolicyCopyType DEF RReadPolicy, RRead, TypeInv
<1> QED
  BY <1>2, DisruptionsType, CallDisrupts
  DEF TypeInv, TypeOK, KeyInHand, RPc, RReadPolicy, RRead, ROnly, bVars, keyVars

\* A failed rotation leaves a typed policy in hand and no key.
LEMMA RFailType ==
  ASSUME TypeInv, RFail
  PROVE  /\ rpc' \in RPc /\ rPol' \in Policy /\ rSec' \in Secret /\ rBoot' \in Boot
         /\ rNew' \in KeyOrNone /\ KeyInHand'
<1>1. rPol' \in Policy
  BY PolicyCopyType DEF RFail, TypeInv, TypeOK, Cond, Copies
<1> QED
  BY <1>1, EmptyObjects DEF RFail, TypeInv, TypeOK, KeyInHand, RPc, KeyOrNone

LEMMA DropBootType ==
  ASSUME TypeInv, NEW who \in Copies, DropBoot(who)
  PROVE  boot' \in Boot /\ bootCache' \in Boot /\ staleBoot' \in SUBSET Copies
  BY DEF DropBoot, TypeInv, TypeOK

LEMMA RLastWriteType ==
  ASSUME TypeInv, NEW new \in Policy, RLastWrite(new)
  PROVE  TypeInv'
<1>1. pol' \in Policy /\ polCache' \in Policy /\ stalePol' \in SUBSET Copies
  BY DEF RLastWrite, TypeInv, TypeOK, WrittenBy, Copies
<1>2. /\ rpc' \in RPc /\ rPol' \in Policy /\ rSec' \in Secret /\ rBoot' \in Boot
      /\ rNew' \in KeyOrNone /\ KeyInHand'
  BY EmptyObjects DEF RLastWrite, REnd, RPc, KeyOrNone, KeyInHand
<1>3. disruptions' \in 0..MaxDisruptions
  BY DisruptionsType, CallDisrupts DEF RLastWrite
<1>4. staleSec' \in SUBSET Copies
  BY DEF RLastWrite, TypeInv, TypeOK, Copies
<1> QED
  BY <1>1, <1>2, <1>3, <1>4 DEF RLastWrite, TypeInv, TypeOK, bootVars, keyVars, ROnly, bVars

LEMMA RNextType == TypeInv /\ RNext => TypeInv'
<1> SUFFICES ASSUME TypeInv, RNext PROVE TypeInv'
  OBVIOUS
<1> USE DEF TypeInv
<1>0. /\ rPol \in Policy /\ rBoot.key \in Key /\ "r" \in Copies /\ Primary \in Target
      /\ rBoot \in Boot
  BY BoundsAssumption DEF TypeOK, Boot, Copies, Primary, Target, BoundsAssumption
<1>1. CASE RStart
  BY <1>1, RReadType DEF RStart, Cond
<1>2. CASE RStartRotation
  <2>1. CASE RReadPolicy("status", "failed") /\ CallFails
    BY <2>1, RReadType DEF Cond
  <2>2. CASE /\ RRead("injectOld", "")
             /\ rSec' = secCache /\ staleSec' = ReadBy(staleSec, "r")
             /\ rBoot' = bootCache /\ staleBoot' = ReadBy(staleBoot, "r")
             /\ Calm
    <3>1. nextKey <= MaxKey
      BY <1>2 DEF RStartRotation
    <3>2. staleSec' \in SUBSET Copies /\ staleBoot' \in SUBSET Copies
          /\ stalePol' \in SUBSET Copies
      BY <2>2 DEF RRead, ReadBy, TypeOK, Copies
    <3> QED
      BY <2>2, <3>1, <3>2
      DEF RRead, TypeOK, KeyInHand, RPc, ROnly, bVars, keyVars, Calm
  <2> QED
    BY <1>2, <2>1, <2>2 DEF RStartRotation
<1>3. CASE RInjectOld
  <2>1. disruptions' \in 0..MaxDisruptions
    BY <1>3, DisruptionsType, CallDisrupts DEF RInjectOld
  <2>2. /\ sec' \in [Target -> Secret] /\ secCache' \in Secret
        /\ staleSec' \in SUBSET Copies /\ covered' \in SUBSET Target
    BY <1>0, <1>3, InjectType DEF RInjectOld, NoInject, secVars, TypeOK
  <2>3. CASE Inject(Primary, rBoot.key) /\ rpc' = "injectNew" /\ rNew' = nextKey
             /\ nextKey' = nextKey + 1 /\ UNCHANGED <<rPol, rSec, rBoot, bootVars>>
    <3>1. nextKey <= MaxKey /\ nextKey \in 2..MaxKey + 1
      BY <1>3 DEF RInjectOld, KeyInHand, TypeOK
    <3>2. nextKey' \in 2..MaxKey + 1 /\ rNew' \in KeyOrNone /\ rNew' \in Key
      BY <2>3, <3>1, BoundsAssumption DEF KeyOrNone, Key, BoundsAssumption
    <3> QED
      BY <1>3, <2>1, <2>2, <2>3, <3>2
      DEF RInjectOld, TypeOK, KeyInHand, RPc, bootVars, polVars, ROnly, bVars
  <2>4. CASE RFail /\ DropBoot("r") /\ UNCHANGED nextKey
    BY <1>0, <1>3, <2>1, <2>2, <2>4, RFailType, DropBootType
    DEF RInjectOld, TypeOK, polVars, ROnly, bVars
  <2> QED
    BY <1>3, <2>3, <2>4 DEF RInjectOld
<1>4. CASE RInjectNew
  <2>1. rNew \in Key
    BY <1>4 DEF RInjectNew, KeyInHand
  <2>2. disruptions' \in 0..MaxDisruptions
    BY <1>4, DisruptionsType, CallDisrupts DEF RInjectNew
  <2>3. /\ sec' \in [Target -> Secret] /\ secCache' \in Secret
        /\ staleSec' \in SUBSET Copies /\ covered' \in SUBSET Target
    BY <1>0, <1>4, <2>1, InjectType DEF RInjectNew, NoInject, secVars, TypeOK
  <2>4. CASE rpc' = "update" /\ UNCHANGED <<rPol, rSec, rBoot, rNew, bootVars>>
    BY <1>4, <2>1, <2>2, <2>3, <2>4
    DEF RInjectNew, TypeOK, KeyInHand, RPc, bootVars, polVars, keyVars, ROnly, bVars
  <2>5. CASE RFail /\ DropBoot("r")
    BY <1>0, <1>4, <2>2, <2>3, <2>5, RFailType, DropBootType
    DEF RInjectNew, TypeOK, polVars, keyVars, ROnly, bVars
  <2> QED
    BY <1>4, <2>4, <2>5 DEF RInjectNew
<1>5. CASE RUpdate
  <2>1. disruptions' \in 0..MaxDisruptions
    BY <1>5, DisruptionsType, CallDisrupts DEF RUpdate
  <2>2. /\ boot' \in Boot /\ bootCache' \in Boot /\ staleBoot' \in SUBSET Copies
        /\ rotations' \in Nat /\ covered' \in SUBSET Target /\ envelopes' \in SUBSET Key
    <3>1. CASE RStore
      <4>1. [rBoot EXCEPT !.key = rNew] \in Boot
        BY <1>0, <1>5 DEF RUpdate, KeyInHand, Boot
      <4>2. Updated([rBoot EXCEPT !.key = rNew]) \in Boot
        BY <4>1, <1>0, WriteBootType
      <4> QED
        BY <1>0, <1>5, <4>2, <3>1
        DEF RStore, RUpdate, KeyInHand, WriteBoot, WrittenBy, Copies, TypeOK
    <3>2. CASE NotStored
      BY <1>0, <3>2, DropBootType DEF NotStored, TypeOK
    <3> QED
      BY <1>5, <3>1, <3>2 DEF RUpdate
  <2>3. /\ rpc' \in RPc /\ rPol' \in Policy /\ rSec' \in Secret /\ rBoot' \in Boot
        /\ rNew' \in KeyOrNone /\ KeyInHand'
    <3>1. CASE RFail
      BY <3>1, RFailType
    <3>2. CASE /\ rpc' = "annotate" /\ rBoot' = NoBoot /\ rNew' = NoKey
               /\ UNCHANGED <<rPol, rSec>>
      BY <3>2, EmptyObjects DEF TypeOK, KeyInHand, RPc, KeyOrNone
    <3> QED
      BY <1>5, <3>1, <3>2 DEF RUpdate
  <2> QED
    BY <1>5, <2>1, <2>2, <2>3 DEF RUpdate, TypeOK, polVars, secVars, ROnly, bVars
<1>6. CASE RAnnotate
  <2>1. [rPol EXCEPT !.last = now, !.count = @ + 1, !.cond = "succeeded"] \in Policy
    <3>1. now \in Time
      BY BoundsAssumption DEF BoundsAssumption, TypeOK, Time
    <3>2. rPol.count + 1 \in Nat /\ "succeeded" \in Cond
      BY <1>0 DEF Policy, Cond
    <3> QED
      BY <1>0, <3>1, <3>2 DEF Policy
  <2>2. sec' \in [Target -> Secret] /\ staleSec' \in SUBSET Copies
    <3>1. [rSec EXCEPT !.ann = rPol.count + 1] \in Secret
      BY <1>0 DEF TypeOK, Secret, Policy
    <3> QED
      BY <1>6, <3>1 DEF RAnnotate, TypeOK
  <2> QED
    BY <1>6, <2>1, <2>2
    DEF RAnnotate, TypeOK, KeyInHand, RPc, bootVars, polVars, keyVars, ROnly, bVars, Calm
<1>7. CASE RAddFinalizer
  <2>1. [rPol EXCEPT !.fin = TRUE] \in Policy
    BY <1>0 DEF Policy
  <2> QED
    BY <1>0, <1>7, <2>1, PolicyCopyType, RLastWriteType DEF RAddFinalizer
<1>8. CASE RRemoveFinalizer
  <2>1. [rPol EXCEPT !.fin = FALSE] \in Policy
    BY <1>0 DEF Policy
  <2> QED
    BY <1>0, <1>8, <2>1, PolicyCopyType, RLastWriteType DEF RRemoveFinalizer
<1>9. CASE RStatus
  BY <1>0, <1>9, PolicyCopyType, RLastWriteType DEF RStatus
<1> QED
  BY <1>1, <1>2, <1>3, <1>4, <1>5, <1>6, <1>7, <1>8, <1>9 DEF RNext

LEMMA EnvNextType == TypeInv /\ (Sync \/ Tick \/ User \/ Crash) => TypeInv'
<1> SUFFICES ASSUME TypeInv, Sync \/ Tick \/ User \/ Crash PROVE TypeInv'
  OBVIOUS
<1> USE DEF TypeInv, TypeOK, KeyInHand
<1>0. Primary \in Target
  BY BoundsAssumption DEF Primary, Target, BoundsAssumption
<1>1. CASE Sync
  <2>1. CASE SyncBoot
    BY <2>1 DEF SyncBoot, polVars, secVars, Idle, bVars, rVars, keyVars, Calm
  <2>2. CASE SyncPol
    BY <2>2 DEF SyncPol, bootVars, secVars, Idle, bVars, rVars, keyVars, Calm
  <2>3. CASE SyncSec
    BY <1>0, <2>3 DEF SyncSec, bootVars, polVars, Idle, bVars, rVars, keyVars, Calm
  <2> QED
    BY <1>1, <2>1, <2>2, <2>3 DEF Sync
<1>2. CASE Tick
  BY <1>2, BoundsAssumption
  DEF Tick, BoundsAssumption, bootVars, polVars, secVars, bVars, rVars, keyVars, Calm
<1>3. CASE User
  <2>1. disruptions' \in 0..MaxDisruptions
    BY <1>3, DisruptionsType
    DEF User, DeleteBoot, DeletePol, ToggleSuspend, DeleteSecret, DisruptionKind
  <2>2. CASE DeleteBoot
    <3>1. boot' \in Boot
      BY <2>2 DEF DeleteBoot, Deleted, Boot, Phase
    <3> QED
      BY <2>1, <2>2, <3>1 DEF DeleteBoot, polVars, secVars, Idle, bVars, rVars, keyVars
  <2>3. CASE DeletePol
    <3>1. pol' \in Policy
      BY <2>3 DEF DeletePol, Deleted, Policy, Phase
    <3> QED
      BY <2>1, <2>3, <3>1 DEF DeletePol, bootVars, secVars, Idle, bVars, rVars, keyVars
  <2>4. CASE ToggleSuspend
    <3>1. pol' \in Policy
      BY <2>4 DEF ToggleSuspend, Policy
    <3> QED
      BY <2>1, <2>4, <3>1 DEF ToggleSuspend, bootVars, secVars, Idle, bVars, rVars, keyVars
  <2>5. CASE \E t \in Target : DeleteSecret(t)
    BY <2>1, <2>5, EmptyObjects
    DEF DeleteSecret, bootVars, polVars, Idle, bVars, rVars, keyVars
  <2> QED
    BY <1>3, <2>2, <2>3, <2>4, <2>5 DEF User
<1>4. CASE Crash
  <2>1. disruptions' \in 0..MaxDisruptions
    BY <1>4, DisruptionsType DEF Crash, DisruptionKind
  <2>2. bpc' \in BPc /\ bBoot' \in Boot /\ bNext' \in Target
    BY <1>4, BEndType DEF Crash
  <2>3. /\ rpc' \in RPc /\ rPol' \in Policy /\ rSec' \in Secret /\ rBoot' \in Boot
        /\ rNew' \in KeyOrNone /\ KeyInHand'
    BY <1>4, EmptyObjects DEF Crash, REnd, RPc, KeyOrNone
  <2> QED
    BY <1>0, <1>4, <2>1, <2>2, <2>3 DEF Crash, keyVars
<1> QED
  BY <1>1, <1>2, <1>3, <1>4

LEMMA TypeStep == TypeInv /\ [Next]_vars => TypeInv'
<1> SUFFICES ASSUME TypeInv, [Next]_vars PROVE TypeInv'
  OBVIOUS
<1>1. CASE UNCHANGED vars
  BY <1>1 DEF vars, bootVars, polVars, secVars, bVars, rVars, keyVars, TypeInv, TypeOK, KeyInHand
<1> QED
  BY <1>1, BNextType, RNextType, EnvNextType DEF Next

\* Every variable keeps its type, and a rotation under way a key number.
THEOREM TypeCorrect == Spec => []TypeInv
  BY InitTypeInv, TypeStep, PTL DEF Spec

(***************************************************************************)
(* Copies.                                                                 *)
(***************************************************************************)
BootCopies ==
  /\ "cache" \notin staleBoot => bootCache = boot
  /\ "b" \notin staleBoot => bBoot = boot
  /\ "r" \notin staleBoot => rBoot = boot /\ rpc \in {"injectOld", "injectNew", "update"}
  /\ bootCache.key <= boot.key /\ bBoot.key <= boot.key /\ rBoot.key <= boot.key

PolCopies == "cache" \notin stalePol => polCache = pol

LEMMA CopiesSplit == CopiesFaithful <=> BootCopies /\ PolCopies
  BY DEF CopiesFaithful, BootCopies, PolCopies

\* The keys of CRs and of their copies are numbers from 1 on.
LEMMA BootKeys ==
  ASSUME TypeInv
  PROVE  /\ boot.key \in Nat \ {0} /\ bootCache.key \in Nat \ {0}
         /\ bBoot.key \in Nat \ {0} /\ rBoot.key \in Nat \ {0} /\ boot.pub \in Nat
         /\ NoBoot.key = 1 /\ nextKey \in Nat
  BY BoundsAssumption
  DEF BoundsAssumption, TypeInv, TypeOK, Boot, Key, KeyOrNone, NoKey, NoBoot

\* A write that does not go back to an older envelope keeps copies faithful,
\* provided the writer drops its copy and the other reconciler keeps its own.
LEMMA WriteKeepsCopies ==
  ASSUME TypeInv, BootCopies, NEW new, new.key \in Nat, new.key >= boot.key,
         NEW who \in {"b", "r"}, WriteBoot(new, who),
         IF who = "b" THEN bBoot' = NoBoot /\ rBoot' = rBoot /\ rpc' = rpc
                      ELSE rBoot' = NoBoot /\ bBoot' = bBoot
  PROVE  BootCopies'
<1>1. CASE who = "b"
  BY <1>1, BootKeys DEF WriteBoot, WrittenBy, BootCopies, Copies
<1>2. CASE who = "r"
  BY <1>2, BootKeys DEF WriteBoot, WrittenBy, BootCopies, Copies
<1> QED
  BY <1>1, <1>2

LEMMA DropKeepsCopies ==
  ASSUME TypeInv, BootCopies, NEW who \in {"b", "r"}, DropBoot(who),
         IF who = "b" THEN bBoot' = NoBoot /\ rBoot' = rBoot /\ rpc' = rpc
                      ELSE rBoot' = NoBoot /\ bBoot' = bBoot
  PROVE  BootCopies'
<1>1. CASE who = "b"
  BY <1>1, BootKeys DEF DropBoot, BootCopies
<1>2. CASE who = "r"
  BY <1>2, BootKeys DEF DropBoot, BootCopies
<1> QED
  BY <1>1, <1>2

LEMMA BLastWriteCopies ==
  ASSUME TypeInv, BootCopies, NEW new, CurrentBoot("b") => new.key = boot.key, BLastWrite(new)
  PROVE  BootCopies'
<1>1. bBoot' = NoBoot /\ rBoot' = rBoot /\ rpc' = rpc
  BY DEF BLastWrite, BEnd, BOnly, rVars
<1>2. CASE CurrentBoot("b") /\ WriteBoot(new, "b")
  BY <1>1, <1>2, BootKeys, WriteKeepsCopies
<1>3. CASE DropBoot("b")
  BY <1>1, <1>3, DropKeepsCopies
<1> QED
  BY <1>2, <1>3 DEF BLastWrite

\* What the bootstrap reconciler writes from a current copy keeps the key.
LEMMA BWritesKeepKey ==
  ASSUME TypeInv, BootCopies, CurrentBoot("b")
  PROVE  /\ \A f \in BOOLEAN : Updated([bBoot EXCEPT !.fin = f]).key = boot.key
         /\ \A copy : UpdatedStatus(copy).key = boot.key
  BY DEF TypeInv, TypeOK, Boot, BootCopies, CurrentBoot, Updated, UpdatedStatus

LEMMA BootCopiesStep ==
  ASSUME IInv, [Next]_vars
  PROVE  BootCopies'
<1>0. TypeInv /\ BootCopies /\ NewKeyIsNewest
  BY CopiesSplit DEF IInv, TypeInv
<1> USE DEF BOnly, ROnly, NoInject, bootVars, polVars, secVars, bVars, rVars, keyVars
<1>1. CASE BStart \/ BStartBootstrap
  BY <1>0, <1>1 DEF BStart, BStartBootstrap, BRead, ReadBy, BootCopies
<1>2. CASE BAddFinalizer \/ BRemoveFinalizer
  BY <1>0, <1>2, BWritesKeepKey, BLastWriteCopies DEF BAddFinalizer, BRemoveFinalizer
<1>3. CASE BStatusReady \/ BStatusFailed \/ BStatusUnattested
  BY <1>0, <1>3, BWritesKeepKey, BLastWriteCopies
  DEF BStatusReady, BStatusFailed, BStatusUnattested
<1>4. CASE BInject \/ BCleanup
  BY <1>0, <1>4 DEF BInject, BCleanup, BootCopies
<1>5. CASE RStart
  BY <1>0, <1>5 DEF RStart, RReadPolicy, RRead, BootCopies
<1>6. CASE RStartRotation
  BY <1>0, <1>6 DEF RStartRotation, RReadPolicy, RRead, ReadBy, BootCopies
<1>7. CASE RInjectOld
  <2>1. CASE DropBoot("r") /\ RFail
    BY <1>0, <1>7, <2>1, DropKeepsCopies DEF RInjectOld, RFail
  <2> QED
    BY <1>0, <1>7, <2>1 DEF RInjectOld, BootCopies
<1>8. CASE RInjectNew
  <2>1. CASE DropBoot("r") /\ RFail
    BY <1>0, <1>8, <2>1, DropKeepsCopies DEF RInjectNew, RFail
  <2> QED
    BY <1>0, <1>8, <2>1 DEF RInjectNew, BootCopies
<1>9. CASE RUpdate
  <2>1. rBoot' = NoBoot /\ bBoot' = bBoot
    BY <1>9 DEF RUpdate, RFail
  <2>2. CASE RStore
    <3>1. rNew \in Nat /\ rNew > boot.key
      BY <1>0, <1>9, BootKeys DEF RUpdate, NewKeyIsNewest
    <3>2. Updated([rBoot EXCEPT !.key = rNew]).key = rNew
      BY <1>0 DEF Updated, TypeInv, TypeOK, Boot
    <3> QED
      BY <1>0, <2>1, <2>2, <3>1, <3>2, BootKeys, WriteKeepsCopies DEF RStore
  <2>3. CASE DropBoot("r")
    BY <1>0, <2>1, <2>3, DropKeepsCopies
  <2> QED
    BY <1>9, <2>2, <2>3 DEF RUpdate, NotStored
<1>10. CASE RAnnotate
  BY <1>0, <1>10 DEF RAnnotate, BootCopies
<1>11. CASE RAddFinalizer \/ RRemoveFinalizer \/ RStatus
  <2>1. /\ rBoot' = NoBoot /\ UNCHANGED <<boot, bootCache, staleBoot, bBoot>>
        /\ rpc \notin {"injectOld", "injectNew", "update"}
    BY <1>11 DEF RAddFinalizer, RRemoveFinalizer, RStatus, RLastWrite, REnd
  <2> QED
    BY <1>0, <2>1, BootKeys DEF BootCopies
<1>12. CASE SyncBoot \/ SyncPol \/ SyncSec \/ Tick
  BY <1>0, <1>12, BootKeys DEF SyncBoot, SyncPol, SyncSec, Tick, Idle, BootCopies
<1>13. CASE DeleteBoot
  <2>1. boot'.key = boot.key
    BY <1>0, <1>13 DEF DeleteBoot, Deleted, TypeInv, TypeOK, Boot
  <2> QED
    BY <1>0, <1>13, <2>1 DEF DeleteBoot, Idle, BootCopies, Copies
<1>14. CASE DeletePol \/ ToggleSuspend \/ \E t \in Target : DeleteSecret(t)
  BY <1>0, <1>14 DEF DeletePol, ToggleSuspend, DeleteSecret, Idle, BootCopies
<1>15. CASE Crash
  BY <1>0, <1>15, BootKeys DEF Crash, BEnd, REnd, BootCopies, Copies
<1>16. CASE UNCHANGED vars
  BY <1>0, <1>16 DEF vars, BootCopies
<1> QED
  BY <1>1, <1>2, <1>3, <1>4, <1>5, <1>6, <1>7, <1>8, <1>9, <1>10, <1>11, <1>12, <1>13,
     <1>14, <1>15, <1>16
  DEF Next, BNext, RNext, Sync, User

LEMMA PolCopiesStep ==
  ASSUME IInv, [Next]_vars
  PROVE  PolCopies'
<1>0. PolCopies
  BY CopiesSplit DEF IInv
<1> USE DEF BOnly, bootVars, polVars, secVars, bVars, rVars, keyVars, PolCopies
<1>1. CASE BNext
  <2>1. \A new : BLastWrite(new) => UNCHANGED <<pol, polCache, stalePol>>
    BY DEF BLastWrite
  <2>2. \A step : BRead(step) => UNCHANGED <<pol, polCache, stalePol>>
    BY DEF BRead
  <2> QED
    BY <1>0, <1>1, <2>1, <2>2
    DEF BNext, BStart, BStartBootstrap, BAddFinalizer, BInject, BStatusReady, BStatusFailed,
        BStatusUnattested, BCleanup, BRemoveFinalizer
<1>2. CASE RStart \/ RStartRotation
  BY <1>0, <1>2 DEF RStart, RStartRotation, RReadPolicy, RRead, ReadBy
<1>3. CASE RInjectOld \/ RInjectNew \/ RUpdate \/ RAnnotate
  BY <1>0, <1>3 DEF RInjectOld, RInjectNew, RUpdate, RAnnotate
<1>4. CASE RAddFinalizer \/ RRemoveFinalizer \/ RStatus
  BY <1>0, <1>4 DEF RAddFinalizer, RRemoveFinalizer, RStatus, RLastWrite, WrittenBy, Copies
<1>5. CASE Sync \/ Tick \/ User \/ Crash
  BY <1>0, <1>5
  DEF Sync, SyncBoot, SyncPol, SyncSec, Tick, User, DeleteBoot, DeletePol, ToggleSuspend,
      DeleteSecret, Crash, Copies
<1>6. CASE UNCHANGED vars
  BY <1>0, <1>6 DEF vars
<1> QED
  BY <1>1, <1>2, <1>3, <1>4, <1>5, <1>6 DEF Next, RNext

(***************************************************************************)
(* What a step can do to the envelope, to the Secrets and to covered.      *)
(***************************************************************************)

\* Only the update of a rotation changes the envelope, to the new key; every
\* other step leaves the public key recorded in the status behind or at the
\* current envelope.
LEMMA EnvelopeStep ==
  ASSUME IInv, [Next]_vars
  PROVE  \/ rpc = "update" /\ RStore /\ RUpdate /\ boot'.key = rNew /\ boot'.pub = boot.pub
         \/ boot'.key = boot.key /\ (boot'.pub = boot.pub \/ boot'.pub = boot.key)
<1>0. TypeInv /\ BootCopies
  BY CopiesSplit DEF IInv, TypeInv
<1> USE DEF BOnly, ROnly, NoInject, bootVars, polVars, secVars, bVars, rVars, keyVars
<1>1. CASE BAddFinalizer \/ BRemoveFinalizer
  <2>1. \A f \in BOOLEAN : Updated([bBoot EXCEPT !.fin = f]).pub = boot.pub
    BY <1>0 DEF TypeInv, TypeOK, Boot, Updated
  <2>2. PICK f \in BOOLEAN : BLastWrite(Updated([bBoot EXCEPT !.fin = f]))
    BY <1>1 DEF BAddFinalizer, BRemoveFinalizer
  <2>3. CASE CurrentBoot("b") /\ boot' = Updated([bBoot EXCEPT !.fin = f])
    BY <1>0, <2>1, <2>3, BWritesKeepKey
  <2> QED
    BY <2>2, <2>3 DEF BLastWrite, WriteBoot, DropBoot
<1>2. CASE BStatusReady \/ BStatusFailed \/ BStatusUnattested
  <2>1. PICK copy \in {[bBoot EXCEPT !.ready = TRUE, !.attested = TRUE,
                                      !.pub = bBoot.key, !.at = now],
                        [bBoot EXCEPT !.ready = FALSE], [bBoot EXCEPT !.attested = FALSE]} :
            BLastWrite(UpdatedStatus(copy))
    BY <1>2 DEF BStatusReady, BStatusFailed, BStatusUnattested
  <2>2. copy.pub = bBoot.pub \/ copy.pub = bBoot.key
    BY <1>0, <2>1 DEF TypeInv, TypeOK, Boot
  <2>3. UpdatedStatus(copy).pub = copy.pub
    BY <1>0 DEF TypeInv, TypeOK, Boot, UpdatedStatus
  <2>4. CASE CurrentBoot("b") /\ boot' = UpdatedStatus(copy)
    BY <1>0, <2>2, <2>3, <2>4, BWritesKeepKey DEF CurrentBoot, BootCopies
  <2> QED
    BY <2>1, <2>4 DEF BLastWrite, WriteBoot, DropBoot
<1>3. CASE BStart \/ BStartBootstrap \/ BInject \/ BCleanup
  BY <1>3 DEF BStart, BStartBootstrap, BRead, BInject, BCleanup
<1>4. CASE RStart \/ RStartRotation \/ RInjectOld \/ RInjectNew \/ RAnnotate
  BY <1>4
  DEF RStart, RStartRotation, RReadPolicy, RRead, RInjectOld, RInjectNew, RAnnotate, DropBoot
<1>5. CASE RUpdate
  <2>1. CASE RStore
    <3>1. /\ Updated([rBoot EXCEPT !.key = rNew]).key = rNew
          /\ Updated([rBoot EXCEPT !.key = rNew]).pub = boot.pub
      BY <1>0 DEF Updated, TypeInv, TypeOK, Boot
    <3> QED
      BY <1>5, <2>1, <3>1 DEF RUpdate, RStore, WriteBoot
  <2> QED
    BY <1>5, <2>1 DEF RUpdate, NotStored, DropBoot
<1>6. CASE RAddFinalizer \/ RRemoveFinalizer \/ RStatus
  BY <1>6 DEF RAddFinalizer, RRemoveFinalizer, RStatus, RLastWrite
<1>7. CASE DeleteBoot
  BY <1>0, <1>7 DEF DeleteBoot, Deleted, TypeInv, TypeOK, Boot
<1>8. CASE Sync \/ Tick \/ DeletePol \/ ToggleSuspend \/ (\E t \in Target : DeleteSecret(t)) \/ Crash
  BY <1>8
  DEF Sync, SyncBoot, SyncPol, SyncSec, Tick, DeletePol, ToggleSuspend, DeleteSecret, Crash
<1>9. CASE UNCHANGED vars
  BY <1>9 DEF vars
<1> QED
  BY <1>1, <1>2, <1>3, <1>4, <1>5, <1>6, <1>7, <1>8, <1>9 DEF Next, BNext, RNext, User

\* The copies of the CR that are made.
LEMMA CopiesMade ==
  ASSUME [Next]_vars
  PROVE  /\ bootCache' \in {bootCache, boot} /\ bBoot' \in {bBoot, bootCache, NoBoot}
         /\ rBoot' \in {rBoot, bootCache, NoBoot}
         /\ envelopes' = envelopes \/ (RUpdate /\ RStore)
<1> USE DEF BOnly, ROnly, NoInject, bootVars, polVars, secVars, bVars, rVars, keyVars
<1>1. CASE BNext
  BY <1>1
  DEF BNext, BStart, BStartBootstrap, BRead, BAddFinalizer, BInject, BStatusReady, BStatusFailed,
      BStatusUnattested, BCleanup, BRemoveFinalizer, BLastWrite, BEnd, WriteBoot, DropBoot
<1>2. CASE RStart \/ RStartRotation
  BY <1>2 DEF RStart, RStartRotation, RReadPolicy, RRead
<1>3. CASE RInjectOld \/ RInjectNew \/ RAnnotate
  BY <1>3 DEF RInjectOld, RInjectNew, RAnnotate, RFail, DropBoot
<1>4. CASE RUpdate
  BY <1>4 DEF RUpdate, RStore, NotStored, RFail, WriteBoot, DropBoot
<1>5. CASE RAddFinalizer \/ RRemoveFinalizer \/ RStatus
  BY <1>5 DEF RAddFinalizer, RRemoveFinalizer, RStatus, RLastWrite, REnd
<1>6. CASE Sync \/ Tick \/ User \/ Crash
  BY <1>6
  DEF Sync, SyncBoot, SyncPol, SyncSec, Tick, User, DeleteBoot, DeletePol, ToggleSuspend,
      DeleteSecret, Idle, Crash, BEnd, REnd
<1>7. CASE UNCHANGED vars
  BY <1>7 DEF vars
<1> QED
  BY <1>1, <1>2, <1>3, <1>4, <1>5, <1>6, <1>7 DEF Next, RNext

LEMMA EnvelopesStep ==
  ASSUME IInv, [Next]_vars
  PROVE  EnvelopesKnown'
<1>1. envelopes \subseteq envelopes' /\ boot'.key \in envelopes'
  BY EnvelopeStep, CopiesMade DEF IInv, EnvelopesKnown, RStore
<1> QED
  BY <1>1, CopiesMade DEF IInv, EnvelopesKnown

\* A target's key changes only to one held decrypted, or is deleted; a
\* rotation that injects moves on.
LEMMA SecretStep ==
  ASSUME IInv, [Next]_vars, NEW t \in Target
  PROVE  \/ sec'[t].key \in {sec[t].key, NoKey}
         \/ bpc = "inject" /\ sec'[t].key = bBoot.key
         \/ rpc = "injectOld" /\ rpc' # rpc /\ sec'[t].key = rBoot.key
         \/ rpc = "injectNew" /\ rpc' # rpc /\ sec'[t].key = rNew
<1>0. TypeInv
  BY DEF IInv, TypeInv
<1> USE DEF BOnly, ROnly, NoInject, bootVars, polVars, secVars, bVars, rVars, keyVars
<1>1. \A u, k : Inject(u, k) => sec'[t].key \in {sec[t].key, k}
  BY <1>0 DEF Inject, Injected, TypeInv, TypeOK
<1>2. CASE BInject
  BY <1>1, <1>2 DEF BInject
<1>3. CASE RInjectOld \/ RInjectNew
  BY <1>1, <1>3 DEF RInjectOld, RInjectNew, RFail
<1>4. CASE BCleanup \/ \E u \in Target : DeleteSecret(u)
  BY <1>0, <1>4 DEF BCleanup, DeleteSecret, NoSecret, TypeInv, TypeOK
<1>5. CASE RAnnotate
  BY <1>5 DEF IInv, SourceSecretStale, RAnnotate, CurrentSec
<1>6. CASE BNext /\ ~BInject /\ ~BCleanup
  BY <1>6
  DEF BNext, BStart, BStartBootstrap, BRead, BAddFinalizer, BStatusReady, BStatusFailed,
      BStatusUnattested, BRemoveFinalizer, BLastWrite
<1>7. CASE RStart \/ RStartRotation \/ RUpdate \/ RAddFinalizer \/ RRemoveFinalizer \/ RStatus
  BY <1>7
  DEF RStart, RStartRotation, RReadPolicy, RRead, RUpdate, RAddFinalizer, RRemoveFinalizer,
      RStatus, RLastWrite
<1>8. CASE Sync \/ Tick \/ DeleteBoot \/ DeletePol \/ ToggleSuspend \/ Crash
  BY <1>8
  DEF Sync, SyncBoot, SyncPol, SyncSec, Tick, DeleteBoot, DeletePol, ToggleSuspend, Crash
<1>9. CASE UNCHANGED vars
  BY <1>9 DEF vars
<1> QED
  BY <1>2, <1>3, <1>4, <1>5, <1>6, <1>7, <1>8, <1>9 DEF Next, RNext, User

\* How a rotation gets its key.
LEMMA RotationStep ==
  ASSUME [Next]_vars
  PROVE  \/ rpc = "injectOld" /\ rpc' = "injectNew" /\ rNew' = nextKey /\ nextKey' = nextKey + 1
            /\ UNCHANGED boot
         \/ rpc = "injectNew" /\ rpc' = "update" /\ UNCHANGED <<rNew, nextKey, boot>>
         \/ rpc' \notin {"injectNew", "update"} /\ UNCHANGED nextKey
         \/ ~RNext /\ UNCHANGED <<rpc, rNew, nextKey>>
<1> USE DEF BOnly, ROnly, NoInject, bootVars, polVars, secVars, bVars, rVars, keyVars
<1>1. CASE BNext /\ ~RNext
  BY <1>1
  DEF BNext, BStart, BStartBootstrap, BRead, BAddFinalizer, BInject, BStatusReady, BStatusFailed,
      BStatusUnattested, BCleanup, BRemoveFinalizer, BLastWrite
<1>2. CASE RStart
  BY <1>2 DEF RStart, RReadPolicy, RRead
<1>3. CASE RStartRotation
  BY <1>3 DEF RStartRotation, RReadPolicy, RRead
<1>4. CASE RInjectOld
  BY <1>4 DEF RInjectOld, RFail
<1>5. CASE RInjectNew
  BY <1>5 DEF RInjectNew, RFail
<1>6. CASE RUpdate
  BY <1>6 DEF RUpdate, RFail
<1>7. CASE RAnnotate
  BY <1>7 DEF RAnnotate
<1>8. CASE RAddFinalizer \/ RRemoveFinalizer \/ RStatus
  BY <1>8 DEF RAddFinalizer, RRemoveFinalizer, RStatus, RLastWrite, REnd
<1>9. CASE (Sync \/ Tick \/ User) /\ ~RNext
  BY <1>9
  DEF Sync, SyncBoot, SyncPol, SyncSec, Tick, User, DeleteBoot, DeletePol, ToggleSuspend,
      DeleteSecret, Idle
<1>10. CASE Crash
  BY <1>10 DEF Crash, REnd
<1>11. CASE (UNCHANGED vars) /\ ~RNext
  BY <1>11 DEF vars
<1> QED
  BY <1>1, <1>2, <1>3, <1>4, <1>5, <1>6, <1>7, <1>8, <1>9, <1>10, <1>11 DEF Next, RNext

LEMMA NewKeyStep ==
  ASSUME IInv, [Next]_vars
  PROVE  NewKeyIsNewest'
<1>0. TypeInv /\ BootCopies /\ NewKeyIsNewest
  BY CopiesSplit DEF IInv, TypeInv
<1>1. \A t \in Target : sec[t].key \in Nat
  BY <1>0, BoundsAssumption
  DEF BoundsAssumption, TypeInv, TypeOK, Secret, Key, KeyOrNone, NoKey
<1>2. bBoot.key < nextKey /\ rBoot.key < nextKey
  BY <1>0, BootKeys DEF BootCopies, NewKeyIsNewest
<1>3. \A t \in Target : sec'[t].key < nextKey
  BY <1>0, <1>1, <1>2, SecretStep, BootKeys DEF NewKeyIsNewest, NoKey
<1>4. nextKey' \in Nat /\ nextKey <= nextKey' /\ \A t \in Target : sec'[t].key \in Nat
  BY <1>0, <1>1, RotationStep, SecretStep, BootKeys, BoundsAssumption
  DEF NewKeyIsNewest, NoKey
<1>5. boot'.key < nextKey' /\ boot'.pub <= boot'.key
  BY <1>0, <1>4, EnvelopeStep, BootKeys DEF NewKeyIsNewest
<1>6. ASSUME rpc' \in {"injectNew", "update"}
      PROVE  rNew' = nextKey' - 1 /\ boot'.key < rNew'
  <2>1. CASE UNCHANGED boot
    BY <1>0, <1>6, <2>1, RotationStep, BootKeys DEF NewKeyIsNewest
  <2>2. CASE ~RNext /\ UNCHANGED <<rpc, rNew, nextKey>>
    <3>1. ~RUpdate
      BY <2>2 DEF RNext
    <3> QED
      BY <1>0, <1>6, <2>2, <3>1, EnvelopeStep, BootKeys DEF NewKeyIsNewest
  <2> QED
    BY <1>6, <2>1, <2>2, RotationStep
<1>7. ASSUME rpc' = "injectNew", NEW t \in Target
      PROVE  sec'[t].key < rNew'
  <2>1. CASE rNew' = nextKey
    BY <1>3, <2>1
  <2>2. CASE rpc = "injectNew" /\ UNCHANGED <<rpc, rNew, nextKey>>
    BY <1>0, <1>1, <1>7, <2>2, SecretStep, BootKeys DEF NewKeyIsNewest, BootCopies, NoKey
  <2> QED
    BY <1>7, <2>1, <2>2, RotationStep
<1> QED
  BY <1>3, <1>4, <1>5, <1>6, <1>7, BootKeys, <1>0 DEF NewKeyIsNewest

LEMMA SourceSecretStep ==
  ASSUME IInv, [Next]_vars
  PROVE  SourceSecretStale'
<1>0. TypeInv /\ NewKeyIsNewest /\ SourceSecretStale
  BY DEF IInv, TypeInv
<1> USE DEF BOnly, ROnly, NoInject, bootVars, polVars, secVars, bVars, rVars, keyVars
<1>1. CASE RInjectNew
  <2>1. CASE Inject(Primary, rNew)
    <3>1. Primary \in Target /\ sec[Primary].key < rNew /\ rNew \in Nat
      BY <1>0, <1>1, BoundsAssumption
      DEF RInjectNew, NewKeyIsNewest, BoundsAssumption, Target, Primary, TypeInv, KeyInHand, Key
    <3>2. sec[Primary].key \in Nat
      BY <1>0, <3>1, BoundsAssumption
      DEF BoundsAssumption, TypeInv, TypeOK, Secret, Key, KeyOrNone, NoKey
    <3>3. Injected(sec[Primary], rNew) # sec[Primary]
      BY <3>1, <3>2 DEF Injected
    <3> QED
      BY <2>1, <3>3 DEF Inject, SourceSecretStale, Copies
  <2> QED
    BY <1>1, <2>1 DEF RInjectNew, RFail, SourceSecretStale
<1>2. CASE BInject
  <2>1. \A t, k : Inject(t, k) => staleSec' \in {staleSec, Copies}
    BY DEF Inject
  <2> QED
    BY <1>0, <1>2, <2>1 DEF BInject, SourceSecretStale, Copies
<1>3. CASE BCleanup
  BY <1>0, <1>3 DEF BCleanup, SourceSecretStale, Copies
<1>4. CASE BNext /\ ~BInject /\ ~BCleanup
  BY <1>0, <1>4
  DEF BNext, BStart, BStartBootstrap, BRead, BAddFinalizer, BStatusReady, BStatusFailed,
      BStatusUnattested, BRemoveFinalizer, BLastWrite, SourceSecretStale
<1>5. CASE RStart
  BY <1>5 DEF RStart, RReadPolicy, RRead, SourceSecretStale
<1>6. CASE RStartRotation
  BY <1>6 DEF RStartRotation, RReadPolicy, RRead, SourceSecretStale
<1>7. CASE RInjectOld
  BY <1>7 DEF RInjectOld, RFail, SourceSecretStale
<1>8. CASE RUpdate
  BY <1>0, <1>8 DEF RUpdate, RFail, SourceSecretStale
<1>9. CASE RAnnotate \/ RAddFinalizer \/ RRemoveFinalizer \/ RStatus
  BY <1>9
  DEF RAnnotate, RAddFinalizer, RRemoveFinalizer, RStatus, RLastWrite, REnd, SourceSecretStale
<1>10. CASE Sync \/ Tick \/ User
  BY <1>0, <1>10
  DEF Sync, SyncBoot, SyncPol, SyncSec, Tick, User, DeleteBoot, DeletePol, ToggleSuspend,
      DeleteSecret, Idle, SourceSecretStale, Copies
<1>11. CASE Crash
  BY <1>11 DEF Crash, REnd, SourceSecretStale
<1>12. CASE UNCHANGED vars
  BY <1>0, <1>12 DEF vars, SourceSecretStale
<1> QED
  BY <1>1, <1>2, <1>3, <1>4, <1>5, <1>6, <1>7, <1>8, <1>9, <1>10, <1>11, <1>12
  DEF Next, RNext

\* covered loses a target only with the update of a rotation, and gains the
\* bootstrap reconciler's target if its envelope is the current one.
LEMMA CoveredStep ==
  ASSUME [Next]_vars
  PROVE  \/ RUpdate /\ RStore
         \/ covered \subseteq covered'
<1> USE DEF BOnly, ROnly, NoInject, bootVars, polVars, secVars, bVars, rVars, keyVars
<1>1. \A t, k : Inject(t, k) => covered \subseteq covered'
  BY DEF Inject
<1>2. CASE BInject \/ RInjectOld \/ RInjectNew
  BY <1>1, <1>2 DEF BInject, RInjectOld, RInjectNew
<1>3. CASE BNext /\ ~BInject
  BY <1>3
  DEF BNext, BStart, BStartBootstrap, BRead, BAddFinalizer, BStatusReady, BStatusFailed,
      BStatusUnattested, BCleanup, BRemoveFinalizer, BLastWrite
<1>4. CASE RStart \/ RStartRotation \/ RAnnotate \/ RAddFinalizer \/ RRemoveFinalizer \/ RStatus
  BY <1>4
  DEF RStart, RStartRotation, RReadPolicy, RRead, RAnnotate, RAddFinalizer, RRemoveFinalizer,
      RStatus, RLastWrite
<1>5. CASE RUpdate
  BY <1>5 DEF RUpdate, NotStored
<1>6. CASE Sync \/ Tick \/ User \/ Crash
  BY <1>6
  DEF Sync, SyncBoot, SyncPol, SyncSec, Tick, User, DeleteBoot, DeletePol, ToggleSuspend,
      DeleteSecret, Idle, Crash
<1>7. CASE UNCHANGED vars
  BY <1>7 DEF vars
<1> QED
  BY <1>2, <1>3, <1>4, <1>5, <1>6, <1>7 DEF Next, RNext

LEMMA InjectionStep ==
  ASSUME IInv, [Next]_vars
  PROVE  InjectionProgress'
<1>0. TypeInv /\ BootCopies /\ NewKeyIsNewest /\ InjectionProgress
  BY CopiesSplit DEF IInv, TypeInv
<1> USE DEF BOnly, ROnly, NoInject, bootVars, polVars, secVars, bVars, rVars, keyVars
<1>1. covered' \in SUBSET Target
  BY <1>0, TypeStep DEF TypeInv, TypeOK
<1>2. CASE BInject
  <2>1. bNext \in 1..Targets /\ Targets \in Nat /\ boot' = boot /\ bBoot' = bBoot
    BY <1>0, <1>2, BoundsAssumption DEF BoundsAssumption, BInject, TypeInv, TypeOK, Target
  <2>2. CASE bpc' = "statusFailed"
    BY <1>2, <2>2 DEF BInject, InjectionProgress
  <2>3. CASE Inject(bNext, bBoot.key)
    <3>1. bBoot.key = boot.key => 1..bNext \subseteq covered'
      BY <1>0, <1>2, <2>1, <2>3 DEF BInject, Inject, InjectionProgress
    <3>2. CASE bNext = Targets /\ bpc' = "statusReady" /\ bNext' = Primary
      BY <1>1, <2>1, <3>1, <3>2 DEF InjectionProgress, Target
    <3>3. CASE bNext # Targets /\ bpc' = "inject" /\ bNext' = bNext + 1
      BY <2>1, <3>1, <3>3 DEF InjectionProgress
    <3> QED
      BY <1>2, <2>2, <3>2, <3>3 DEF BInject
  <2> QED
    BY <1>2, <2>2, <2>3 DEF BInject
<1>3. CASE BStart \/ BStartBootstrap
  BY <1>0, <1>3, BoundsAssumption
  DEF BStart, BStartBootstrap, BRead, InjectionProgress, Primary
<1>4. CASE BNext /\ ~BInject /\ ~BStart /\ ~BStartBootstrap
  BY <1>0, <1>4
  DEF BNext, BAddFinalizer, BStatusReady, BStatusFailed, BStatusUnattested, BCleanup,
      BRemoveFinalizer, BLastWrite, BEnd, InjectionProgress
<1>5. CASE RUpdate /\ RStore
  <2>1. boot'.key = rNew /\ bBoot' = bBoot /\ bNext' = bNext /\ bpc' = bpc
    BY <1>0, <1>5, BootKeys
    DEF RUpdate, RStore, WriteBoot, Updated, TypeInv, TypeOK, Boot
  <2>2. bBoot.key # boot'.key
    BY <1>0, <1>5, <2>1, BootKeys DEF RUpdate, NewKeyIsNewest, BootCopies
  <2> QED
    BY <1>0, <2>1, <2>2 DEF InjectionProgress
<1>6. CASE Crash
  BY <1>6 DEF Crash, BEnd, InjectionProgress
<1>7. CASE /\ ~BNext /\ ~(RUpdate /\ RStore) /\ ~Crash
  <2>1. UNCHANGED <<bpc, bBoot, bNext>>
    BY <1>7
    DEF Next, RNext, RStart, RStartRotation, RReadPolicy, RRead, RInjectOld, RInjectNew, RUpdate,
        RAnnotate, RAddFinalizer, RRemoveFinalizer, RStatus, RLastWrite,
        Sync, SyncBoot, SyncPol, SyncSec, Tick, User, DeleteBoot, DeletePol, ToggleSuspend,
        DeleteSecret, Idle, vars
  <2>2. covered \subseteq covered'
    BY <1>7, CoveredStep
  <2>3. boot'.key = boot.key
    BY <1>7, EnvelopeStep
  <2> QED
    BY <1>0, <1>1, <2>1, <2>2, <2>3 DEF InjectionProgress, TypeInv, TypeOK
<1> QED
  BY <1>2, <1>3, <1>4, <1>5, <1>6, <1>7

(***************************************************************************)
(* Policies.                                                               *)
(***************************************************************************)
LEMMA PolicyNumbers ==
  ASSUME TypeInv
  PROVE  /\ pol.count \in Nat /\ pol.last \in Nat /\ polCache.count \in Nat
         /\ polCache.last \in Nat /\ rPol.count \in Nat /\ rPol.last \in Nat
         /\ rotations \in Nat /\ now \in Nat /\ Interval \in Nat
  BY BoundsAssumption DEF BoundsAssumption, TypeInv, TypeOK, Policy, Time

\* A step of anyone but the rotation reconciler that leaves the policy alone.
LEMMA PolicyKept ==
  ASSUME TypeInv, PolicyInHand, UNCHANGED <<pol, stalePol, rPol, rpc, rotations>>,
         now <= now', now' \in Nat
  PROVE  PolicyInHand'
  BY PolicyNumbers DEF PolicyInHand

\* The read that starts a reconcile, with the reason it leads to.
LEMMA PolicyRead ==
  ASSUME TypeInv, PolCopies, NEW step, NEW reason, RRead(step, reason),
         \/ reason = "" /\ step \notin Rotating /\ step \notin {"status", "idle"}
         \/ reason \in {"suspended", "failed", "scheduled"} /\ step = "status"
  PROVE  PolicyInHand'
<1>1. "r" \notin stalePol' => polCache = pol
  BY DEF RRead, ReadBy, PolCopies
<1>2. rpc' = step /\ pol' = pol
  BY DEF RRead
<1>3. CASE reason = "" /\ step \notin Rotating /\ step \notin {"status", "idle"}
  <2>1. rPol' = polCache
    BY <1>3 DEF RRead
  <2> QED
    BY <1>1, <1>2, <1>3, <2>1 DEF PolicyInHand, Rotating
<1>4. CASE reason \in {"suspended", "failed", "scheduled"} /\ step = "status"
  <2>1. rPol' = [polCache EXCEPT !.cond = reason]
    BY <1>4 DEF RRead
  <2>2. rPol'.cond = reason /\ rPol'.count = polCache.count /\ rPol'.last = polCache.last
    BY <2>1 DEF TypeInv, TypeOK, Policy
  <2> QED
    BY <1>1, <1>2, <1>4, <2>2 DEF PolicyInHand, Rotating
<1> QED
  BY <1>3, <1>4

LEMMA PolicyFail ==
  ASSUME TypeInv, PolicyInHand, rpc \in Rotating, RFail, UNCHANGED <<pol, stalePol>>
  PROVE  PolicyInHand'
<1>1. rPol'.cond = "failed" /\ rPol'.count = rPol.count /\ rPol'.last = rPol.last
  BY DEF RFail, TypeInv, TypeOK, Policy
<1> QED
  BY <1>1 DEF PolicyInHand, RFail, Rotating

LEMMA PolicyStep ==
  ASSUME IInv, [Next]_vars
  PROVE  PolicyInHand'
<1>0. TypeInv /\ PolCopies /\ PolicyInHand /\ CountedRotationsStored
  BY CopiesSplit DEF IInv, TypeInv
<1> USE DEF BOnly, ROnly, NoInject, bootVars, polVars, secVars, bVars, rVars, keyVars
<1>1. CASE BNext
  <2>1. \A step : BRead(step) => UNCHANGED <<pol, stalePol, rPol, rpc, rotations, now>>
    BY DEF BRead
  <2>2. \A new : BLastWrite(new) => UNCHANGED <<pol, stalePol, rPol, rpc, rotations, now>>
    BY DEF BLastWrite
  <2>3. UNCHANGED <<pol, stalePol, rPol, rpc, rotations, now>>
    BY <1>1, <2>1, <2>2
    DEF BNext, BStart, BStartBootstrap, BAddFinalizer, BInject, BStatusReady, BStatusFailed,
        BStatusUnattested, BCleanup, BRemoveFinalizer
  <2> QED
    BY <1>0, <2>3, PolicyKept, PolicyNumbers
<1>2. CASE RStart
  BY <1>0, <1>2, PolicyRead DEF RStart, RReadPolicy, Rotating
<1>3. CASE RStartRotation
  <2>1. CASE RReadPolicy("status", "failed")
    BY <1>0, <2>1, PolicyRead DEF RReadPolicy
  <2>2. CASE RRead("injectOld", "")
    <3>1. "r" \notin stalePol' => polCache = pol
      BY <1>0, <2>2 DEF RRead, ReadBy, PolCopies
    <3>2. polCache.last # Never => now >= polCache.last + Interval
      <4>1. Due(polCache, secCache)
        BY <1>3 DEF RStartRotation, DueNow
      <4> QED
        BY <1>0, <4>1, PolicyNumbers DEF Due, Never
    <3>3. rpc' = "injectOld" /\ rPol' = polCache /\ pol' = pol /\ now' = now
      BY <2>2 DEF RRead
    <3> QED
      BY <3>1, <3>2, <3>3 DEF PolicyInHand
  <2> QED
    BY <1>3, <2>1, <2>2 DEF RStartRotation
<1>4. CASE RInjectOld
  <2>1. CASE RFail
    BY <1>0, <1>4, <2>1, PolicyFail DEF RInjectOld, Rotating
  <2> QED
    BY <1>0, <1>4, <2>1 DEF RInjectOld, PolicyInHand, Rotating
<1>5. CASE RInjectNew
  <2>1. CASE RFail
    BY <1>0, <1>5, <2>1, PolicyFail DEF RInjectNew, Rotating
  <2> QED
    BY <1>0, <1>5, <2>1 DEF RInjectNew, PolicyInHand, Rotating
<1>6. CASE RUpdate
  <2>1. CASE RFail
    BY <1>0, <1>6, <2>1, PolicyFail DEF RUpdate, Rotating
  <2>2. CASE RStore /\ rpc' = "annotate" /\ rPol' = rPol
    <3>1. rotations' = rotations + 1 /\ UNCHANGED <<pol, stalePol, now>> /\ rpc = "update"
      BY <1>6, <2>2 DEF RUpdate, RStore
    <3>2. pol.count < rotations'
      BY <1>0, <3>1, PolicyNumbers DEF CountedRotationsStored
    <3> QED
      BY <1>0, <2>2, <3>1, <3>2 DEF PolicyInHand, Rotating
  <2> QED
    BY <1>6, <2>1, <2>2 DEF RUpdate
<1>7. CASE RAnnotate
  <2>1. /\ rPol'.cond = "succeeded" /\ rPol'.count = rPol.count + 1 /\ rPol'.last = now
        /\ rpc' = "status" /\ rpc = "annotate" /\ UNCHANGED <<pol, stalePol, rotations>>
    BY <1>0, <1>7 DEF RAnnotate, TypeInv, TypeOK, Policy
  <2> QED
    BY <1>0, <2>1, PolicyNumbers DEF PolicyInHand, Rotating
<1>8. CASE RAddFinalizer \/ RRemoveFinalizer \/ RStatus
  <2>1. \A new : RLastWrite(new) => "r" \in stalePol'
    BY DEF RLastWrite, CurrentPol, WrittenBy, Copies
  <2> QED
    BY <1>8, <2>1 DEF RAddFinalizer, RRemoveFinalizer, RStatus, PolicyInHand
<1>9. CASE SyncBoot \/ SyncSec \/ Tick \/ DeleteBoot \/ \E t \in Target : DeleteSecret(t)
  BY <1>0, <1>9, PolicyKept, PolicyNumbers
  DEF SyncBoot, SyncSec, Tick, DeleteBoot, DeleteSecret, Idle
<1>10. CASE SyncPol
  <2>1. "r" \in stalePol' <=> "r" \in stalePol
    BY <1>10 DEF SyncPol
  <2> QED
    BY <1>0, <1>10, <2>1 DEF SyncPol, Idle, PolicyInHand
<1>11. CASE DeletePol \/ ToggleSuspend \/ Crash
  BY <1>11 DEF DeletePol, ToggleSuspend, Crash, Copies, PolicyInHand
<1>12. CASE UNCHANGED vars
  BY <1>0, <1>12, PolicyKept, PolicyNumbers DEF vars
<1> QED
  BY <1>1, <1>2, <1>3, <1>4, <1>5, <1>6, <1>7, <1>8, <1>9, <1>10, <1>11, <1>12
  DEF Next, RNext, Sync, User

\* The status of the policy counts one more rotation, an interval later, or
\* keeps what it says of rotations.
LEMMA CountStep ==
  ASSUME IInv, [Next]_vars
  PROVE  /\ rotations \in Nat /\ rotations' \in Nat /\ rotations <= rotations'
         /\ \/ pol'.count = pol.count
            \/ /\ pol'.count = pol.count + 1 /\ pol'.count <= rotations
               /\ pol.last # Never => pol'.last >= pol.last + Interval
<1>0. TypeInv /\ PolicyInHand
  BY DEF IInv, TypeInv
<1> USE DEF BOnly, ROnly, NoInject, bootVars, polVars, secVars, bVars, rVars, keyVars
<1>1. CASE RStatus
  <2>1. UpdatedPolStatus(rPol).count = rPol.count /\ UpdatedPolStatus(rPol).last = rPol.last
    BY <1>0 DEF UpdatedPolStatus, TypeInv, TypeOK, Policy
  <2>2. UNCHANGED rotations /\ rpc = "status"
    BY <1>1 DEF RStatus, RLastWrite
  <2>3. CASE CurrentPol("r") /\ pol' = UpdatedPolStatus(rPol)
    BY <1>0, <2>1, <2>2, <2>3, PolicyNumbers DEF CurrentPol, PolicyInHand
  <2>4. CASE pol' = pol
    BY <1>0, <2>2, <2>4, PolicyNumbers
  <2> QED
    BY <1>1, <2>3, <2>4 DEF RStatus, RLastWrite
<1>2. CASE RAddFinalizer \/ RRemoveFinalizer
  <2>1. \A copy : UpdatedPol(copy).count = pol.count
    BY <1>0 DEF UpdatedPol, TypeInv, TypeOK, Policy
  <2>2. UNCHANGED rotations
    BY <1>2 DEF RAddFinalizer, RRemoveFinalizer, RLastWrite
  <2> QED
    BY <1>0, <1>2, <2>1, <2>2, PolicyNumbers DEF RAddFinalizer, RRemoveFinalizer, RLastWrite
<1>3. CASE DeletePol \/ ToggleSuspend
  BY <1>0, <1>3, PolicyNumbers
  DEF DeletePol, ToggleSuspend, Deleted, Idle, TypeInv, TypeOK, Policy
<1>4. CASE RUpdate
  BY <1>0, <1>4, PolicyNumbers DEF RUpdate, RStore, NotStored
<1>5. CASE BNext
  BY <1>0, <1>5, PolicyNumbers
  DEF BNext, BStart, BStartBootstrap, BRead, BAddFinalizer, BInject, BStatusReady, BStatusFailed,
      BStatusUnattested, BCleanup, BRemoveFinalizer, BLastWrite
<1>6. CASE RStart \/ RStartRotation \/ RInjectOld \/ RInjectNew \/ RAnnotate
  BY <1>0, <1>6, PolicyNumbers
  DEF RStart, RStartRotation, RReadPolicy, RRead, RInjectOld, RInjectNew, RAnnotate
<1>7. CASE Sync \/ Tick \/ DeleteBoot \/ (\E t \in Target : DeleteSecret(t)) \/ Crash
  BY <1>0, <1>7, PolicyNumbers
  DEF Sync, SyncBoot, SyncPol, SyncSec, Tick, DeleteBoot, DeleteSecret, Idle, Crash
<1>8. CASE UNCHANGED vars
  BY <1>0, <1>8, PolicyNumbers DEF vars
<1> QED
  BY <1>1, <1>2, <1>3, <1>4, <1>5, <1>6, <1>7, <1>8 DEF Next, RNext, User

(***************************************************************************)
(* The status of the CR.                                                   *)
(***************************************************************************)

\* Only the success status of the bootstrap reconciler, from a current copy,
\* makes the CR ready or records a public key.
LEMMA ReadyStep ==
  ASSUME IInv, [Next]_vars
  PROVE  \/ bpc = "statusReady" /\ bBoot = boot /\ UNCHANGED covered /\ boot'.key = boot.key
         \/ (boot'.ready => boot.ready) /\ boot'.pub = boot.pub
<1>0. TypeInv /\ BootCopies
  BY CopiesSplit DEF IInv, TypeInv
<1> USE DEF BOnly, ROnly, NoInject, bootVars, polVars, secVars, bVars, rVars, keyVars
<1>1. CASE BAddFinalizer \/ BRemoveFinalizer
  <2>1. \A copy : Updated(copy).ready = boot.ready /\ Updated(copy).pub = boot.pub
    BY <1>0 DEF TypeInv, TypeOK, Boot, Updated
  <2>2. PICK new : BLastWrite(new) /\ new.ready = boot.ready /\ new.pub = boot.pub
    BY <1>1, <2>1 DEF BAddFinalizer, BRemoveFinalizer
  <2> QED
    BY <2>2 DEF BLastWrite, WriteBoot, DropBoot
<1>2. CASE BStatusReady
  <2>1. CASE CurrentBoot("b")
    <3>1. boot'.key = boot.key
      BY <1>0, <1>2, <2>1, BWritesKeepKey DEF BStatusReady, BLastWrite, WriteBoot, DropBoot
    <3> QED
      BY <1>0, <1>2, <2>1, <3>1 DEF BStatusReady, BLastWrite, CurrentBoot, BootCopies
  <2> QED
    BY <1>2, <2>1 DEF BStatusReady, BLastWrite, DropBoot
<1>3. CASE BStatusFailed \/ BStatusUnattested
  <2>1. PICK copy \in {[bBoot EXCEPT !.ready = FALSE], [bBoot EXCEPT !.attested = FALSE]} :
            BLastWrite(UpdatedStatus(copy))
    BY <1>3 DEF BStatusFailed, BStatusUnattested
  <2>2. (copy.ready => bBoot.ready) /\ copy.pub = bBoot.pub
    BY <1>0, <2>1 DEF TypeInv, TypeOK, Boot
  <2>3. UpdatedStatus(copy).ready = copy.ready /\ UpdatedStatus(copy).pub = copy.pub
    BY <1>0 DEF TypeInv, TypeOK, Boot, UpdatedStatus
  <2>4. CASE CurrentBoot("b") /\ boot' = UpdatedStatus(copy)
    BY <1>0, <2>2, <2>3, <2>4 DEF CurrentBoot, BootCopies
  <2> QED
    BY <2>1, <2>4 DEF BLastWrite, WriteBoot, DropBoot
<1>4. CASE BStart \/ BStartBootstrap \/ BInject \/ BCleanup
  BY <1>4 DEF BStart, BStartBootstrap, BRead, BInject, BCleanup
<1>5. CASE RStart \/ RStartRotation \/ RInjectOld \/ RInjectNew \/ RAnnotate
  BY <1>5
  DEF RStart, RStartRotation, RReadPolicy, RRead, RInjectOld, RInjectNew, RAnnotate, DropBoot
<1>6. CASE RUpdate
  <2>1. \A copy : Updated(copy).ready = boot.ready /\ Updated(copy).pub = boot.pub
    BY <1>0 DEF TypeInv, TypeOK, Boot, Updated
  <2> QED
    BY <1>6, <2>1 DEF RUpdate, RStore, NotStored, WriteBoot, DropBoot
<1>7. CASE RAddFinalizer \/ RRemoveFinalizer \/ RStatus
  BY <1>7 DEF RAddFinalizer, RRemoveFinalizer, RStatus, RLastWrite
<1>8. CASE DeleteBoot
  BY <1>0, <1>8 DEF DeleteBoot, Deleted, TypeInv, TypeOK, Boot
<1>9. CASE Sync \/ Tick \/ DeletePol \/ ToggleSuspend \/ (\E t \in Target : DeleteSecret(t)) \/ Crash
  BY <1>9
  DEF Sync, SyncBoot, SyncPol, SyncSec, Tick, DeletePol, ToggleSuspend, DeleteSecret, Crash
<1>10. CASE UNCHANGED vars
  BY <1>10 DEF vars
<1> QED
  BY <1>1, <1>2, <1>3, <1>4, <1>5, <1>6, <1>7, <1>8, <1>9, <1>10 DEF Next, BNext, RNext, User

LEMMA ReadyInjectedStep ==
  ASSUME IInv, [Next]_vars
  PROVE  ReadyMeansInjected'
<1>0. TypeInv /\ NewKeyIsNewest /\ InjectionProgress /\ ReadyMeansInjected /\ TypeInv'
  BY TypeStep DEF IInv, TypeInv
<1>1. CASE RUpdate /\ RStore
  <2>1. /\ Updated([rBoot EXCEPT !.key = rNew]).key = rNew
        /\ Updated([rBoot EXCEPT !.key = rNew]).pub = boot.pub
    BY <1>0 DEF Updated, TypeInv, TypeOK, Boot
  <2>2. rNew \in Nat /\ boot.pub < rNew
    BY <1>0, <1>1, BootKeys DEF RUpdate, NewKeyIsNewest
  <2>3. boot'.pub # boot'.key
    BY <1>0, <1>1, <2>1, <2>2, BootKeys DEF RStore, WriteBoot
  <2> QED
    BY <2>3 DEF ReadyMeansInjected
<1>2. CASE bpc = "statusReady" /\ bBoot = boot /\ UNCHANGED covered /\ boot'.key = boot.key
  BY <1>0, <1>2 DEF InjectionProgress, ReadyMeansInjected
<1>3. CASE ~(RUpdate /\ RStore) /\ (boot'.ready => boot.ready) /\ boot'.pub = boot.pub
  <2>1. boot'.key = boot.key /\ covered \subseteq covered'
    BY <1>3, EnvelopeStep, CoveredStep
  <2> QED
    BY <1>0, <1>3, <2>1 DEF ReadyMeansInjected, TypeInv, TypeOK
<1> QED
  BY <1>1, <1>2, <1>3, ReadyStep

(***************************************************************************)
(* The invariant, and what follows from it.                                *)
(***************************************************************************)
LEMMA InitIInv == Init => IInv
<1> SUFFICES ASSUME Init PROVE IInv
  OBVIOUS
<1>1. TypeInv
  BY InitTypeInv
<1>2. boot.key = 1 /\ boot.pub = 0 /\ boot.ready = FALSE /\ pol.count = 0
  BY EmptyObjects DEF Init, NoBoot, NoPolicy, Boot, Policy, NoKey
<1>3. \A t \in Target : sec[t].key = 0
  BY DEF Init, NoSecret, NoKey
<1>4. CopiesFaithful
  BY <1>2 DEF Init, CopiesFaithful, Copies, NoBoot
<1>5. NewKeyIsNewest /\ SourceSecretStale
  BY <1>2, <1>3 DEF Init, NewKeyIsNewest, SourceSecretStale
<1>6. InjectionProgress /\ PolicyInHand
  BY DEF Init, InjectionProgress, PolicyInHand, Copies
<1>8. EnvelopesKnown
  BY <1>2 DEF Init, EnvelopesKnown, NoBoot
<1>7. ReadyMeansInjected /\ CountedRotationsStored
  BY <1>2 DEF Init, ReadyMeansInjected, CountedRotationsStored
<1> QED
  BY <1>1, <1>4, <1>5, <1>6, <1>7, <1>8 DEF IInv, TypeInv

LEMMA IInvStep == IInv /\ [Next]_vars => IInv'
<1> SUFFICES ASSUME IInv, [Next]_vars PROVE IInv'
  OBVIOUS
<1>1. TypeInv'
  BY TypeStep DEF IInv, TypeInv
<1>2. CopiesFaithful'
  BY BootCopiesStep, PolCopiesStep DEF CopiesFaithful, BootCopies, PolCopies
<1>3. CountedRotationsStored'
  <2>1. pol.count \in Nat /\ pol.count <= rotations
    BY PolicyNumbers DEF IInv, TypeInv, CountedRotationsStored
  <2> QED
    BY <2>1, CountStep DEF CountedRotationsStored
<1> QED
  BY <1>1, <1>2, <1>3, NewKeyStep, EnvelopesStep, SourceSecretStep, InjectionStep, PolicyStep, ReadyInjectedStep
  DEF IInv, TypeInv

\* The inductive invariant holds of every state.
THEOREM InvariantHolds == Spec => []IInv
  BY InitIInv, IInvStep, PTL DEF Spec

\* Ready=True with the current public key means every target has been given
\* the current key.
THEOREM ReadyIsTruthful == Spec => []ReadyMeansInjected
<1>1. IInv => ReadyMeansInjected
  BY DEF IInv
<1> QED
  BY <1>1, InvariantHolds, PTL

\* The status never counts a rotation whose envelope did not reach the CR.
THEOREM NothingCountedInVain == Spec => []CountedRotationsStored
<1>1. IInv => CountedRotationsStored
  BY DEF IInv
<1> QED
  BY <1>1, InvariantHolds, PTL

\* No write from a stale copy brings back an older envelope.
THEOREM EnvelopeNeverGoesBack == Spec => EnvelopeOnlyAdvances
<1>1. IInv /\ [Next]_vars =>
        [boot'.key # boot.key => boot'.key > boot.key /\ boot'.key = nextKey - 1]_vars
  BY EnvelopeStep DEF IInv, NewKeyIsNewest
<1> QED
  BY <1>1, InvariantHolds, PTL DEF Spec, EnvelopeOnlyAdvances

\* Only a key held decrypted by a reconciler gets into a Secret.
THEOREM NoKeyComesBack == Spec => OnlyHeldKeysInjected
<1>1. IInv /\ [Next]_vars =>
        [\A t \in Target : sec'[t].key \in {sec[t].key, NoKey} \cup HeldKeys]_vars
  BY SecretStep DEF HeldKeys
<1> QED
  BY <1>1, InvariantHolds, PTL DEF Spec, OnlyHeldKeysInjected

\* Counted rotations are one interval apart.
THEOREM RotationsAreSpaced == Spec => CountedRotationsSpaced
<1>1. IInv /\ [Next]_vars =>
        [pol'.count # pol.count =>
           /\ pol'.count = pol.count + 1
           /\ pol.last # Never => pol'.last >= pol.last + Interval]_vars
  BY CountStep
<1> QED
  BY <1>1, InvariantHolds, PTL DEF Spec, CountedRotationsSpaced
=============================================================================
