------------------------- MODULE GenesisCoreProofs -------------------------
(***************************************************************************)
(* The invariant of the core for every set of keys, targets and requests,  *)
(* the safety properties that follow from it, and the proof that the core  *)
(* implements the lifecycle of GenesisLifecycle.                           *)
(***************************************************************************)
EXTENDS GenesisCore, SequenceTheorems, TLAPS

\* What a reader of the trail learns has the type of a view of it.
LEMMA HearType ==
  ASSUME NEW a \in Auditor, NEW kind, NEW k \in Stored,
         NEW ts \in SUBSET Target, NEW f \in BOOLEAN, NEW p
  PROVE  Hear(a, Event(kind, k, ts, f), p) \in Auditor
<1> DEFINE e == Event(kind, k, ts, f)
<1>1. PhaseTold(a, e) \in StateTag \cup {"Gone"}
  BY DEF PhaseTold, Event, Auditor, StateTag
<1>2. (IF e.kind \in {"Init", "CompleteRotation"} THEN e.key ELSE a.public_key) \in Stored
  BY DEF Event, Auditor
<1>3. (IF e.kind = "BeginBootstrap" THEN {} ELSE a.told \cup e.targets) \in SUBSET Target
  BY DEF Event, Auditor
<1>4. Hear(a, e, p).window \in BOOLEAN
  BY DEF Hear, Event, Auditor
<1> QED
  BY <1>1, <1>2, <1>3, <1>4 DEF Hear, Auditor

LEMMA PlainType ==
  ASSUME NEW a \in Auditor, NEW kind, NEW p
  PROVE  Hear(a, Plain(kind), p) \in Auditor
<1>1. None \in Stored /\ {} \in SUBSET Target /\ FALSE \in BOOLEAN
  BY DEF Stored
<1> QED
  BY <1>1, HearType DEF Plain

LEMMA Returned ==
  ASSUME NEW STATE m, NEW STATE e, NEW STATE p, Return({Outcome(m, e, p)})
  PROVE  machine' = m /\ auditor' = Hear(auditor, e, p)
BY DEF Return, Outcome

\* Silence tells nothing.
LEMMA HearSilence ==
  ASSUME NEW a \in Auditor, NEW p
  PROVE  Hear(a, Silence, p) = a
BY DEF Hear, PhaseTold, Silence, Plain, Event, Auditor

\* The machine changes its state, and the trail says so.
LEMMA genesis_begin_rotationKeeps == IInv /\ genesis_begin_rotation => IInv'
<1> SUFFICES ASSUME IInv, genesis_begin_rotation PROVE IInv'
  OBVIOUS
<1>1. /\ machine.state = "Active" /\ call.op = "none"
      /\ Return(begin_rotation(machine))
      /\ UNCHANGED <<call, secrets, used, host, written>>
  BY DEF genesis_begin_rotation, Enter
<1>2. /\ machine' = [machine EXCEPT !.state = "Rotating"]
      /\ auditor' = Hear(auditor, Plain("BeginRotation"), None)
  BY <1>1, Returned DEF begin_rotation
<1>3. /\ auditor'.phase = "Rotating" /\ auditor'.window = auditor.window
      /\ auditor'.vouched = auditor.vouched /\ auditor'.told = auditor.told
  BY <1>2 DEF Hear, PhaseTold, Plain, Event, Silence, IInv, TypeOK, Auditor
<1>4. machine' \in Machine
  BY <1>2 DEF IInv, TypeOK, Machine, StateTag
<1>5. Hear(auditor, Plain("BeginRotation"), None) \in Auditor
  BY PlainType DEF IInv, TypeOK
<1>6. TypeOK'
  BY <1>1, <1>2, <1>4, <1>5 DEF IInv, TypeOK
<1> QED
  BY <1>1, <1>2, <1>3, <1>6
  DEF IInv, TypeOK, CallInOrder, MaterialInOrder, TrailInOrder, TellsWritten,
     VouchedPairMatches, FingerprintTrue, Alive, Machine, Idle, Gone

\* The machine takes its old state back.
LEMMA genesis_abort_rotationKeeps == IInv /\ genesis_abort_rotation => IInv'
<1> SUFFICES ASSUME IInv, genesis_abort_rotation PROVE IInv'
  OBVIOUS
<1>1. /\ machine.state = "Rotating" /\ call.op = "none"
      /\ Return(abort_rotation(machine))
      /\ UNCHANGED <<call, secrets, used, host, written>>
  BY DEF genesis_abort_rotation, Enter
<1>2. /\ machine' = [machine EXCEPT !.state = "Active"]
      /\ auditor' = Hear(auditor, Plain("AbortRotation"), None)
  BY <1>1, Returned DEF abort_rotation
<1>3. /\ auditor'.phase = "Active" /\ auditor'.window = auditor.window
      /\ auditor'.vouched = auditor.vouched /\ auditor'.told = auditor.told
  BY <1>2 DEF Hear, PhaseTold, Plain, Event, Silence, IInv, TypeOK, Auditor
<1>4. machine' \in Machine
  BY <1>2 DEF IInv, TypeOK, Machine, StateTag
<1>5. Hear(auditor, Plain("AbortRotation"), None) \in Auditor
  BY PlainType DEF IInv, TypeOK
<1>6. TypeOK'
  BY <1>1, <1>2, <1>4, <1>5 DEF IInv, TypeOK
<1> QED
  BY <1>1, <1>2, <1>3, <1>6
  DEF IInv, TypeOK, CallInOrder, MaterialInOrder, TrailInOrder, TellsWritten,
     VouchedPairMatches, FingerprintTrue, Alive, Machine, Idle, Gone

\* A machine that is asked something stays as it is; a successful Verify
\* vouches for its pair.
LEMMA genesis_verifyKeeps == IInv /\ genesis_verify => IInv'
<1> SUFFICES ASSUME IInv, genesis_verify PROVE IInv'
  OBVIOUS
<1>1. /\ machine.state = "Initialized" /\ call.op = "none"
      /\ Return(verify(machine))
      /\ UNCHANGED <<call, secrets, used, host, written>>
  BY DEF genesis_verify, Enter
<1>2. auditor \in Auditor /\ None \in Stored
  BY DEF IInv, TypeOK, Stored
<1>3. PICK k \in Decrypt(machine.envelope) :
        Return({IF k = None THEN Outcome(machine, Silence, None)
                ELSE Outcome(machine, Event("Verify", None, {}, k = machine.public_key), k)})
  BY <1>1 DEF Return, verify
<1>4. CASE k = None
  <2>1. machine' = machine /\ auditor' = auditor
    BY <1>2, <1>3, <1>4, HearSilence, Returned
  <2> QED
    BY <1>1, <2>1
    DEF IInv, TypeOK, CallInOrder, MaterialInOrder, TrailInOrder, TellsWritten,
     VouchedPairMatches, FingerprintTrue, Alive, Machine, Idle, Gone
<1>5. CASE k # None
  <2>1. /\ machine' = machine
        /\ auditor' = Hear(auditor, Event("Verify", None, {}, k = machine.public_key), k)
    BY <1>3, <1>5, Returned
  <2>2. /\ auditor'.phase = "Initialized" /\ auditor'.window = auditor.window
        /\ auditor'.told = auditor.told
        /\ auditor'.vouched = (auditor.vouched \/ k = machine.public_key)
    BY <1>2, <2>1 DEF Hear, PhaseTold, Event, Auditor
  <2>3. k = machine.envelope
    BY <1>3, <1>5 DEF Decrypt
  <2>4. Hear(auditor, Event("Verify", None, {}, k = machine.public_key), k) \in Auditor
    BY <1>2, HearType
  <2>5. TypeOK'
    BY <1>1, <2>1, <2>4 DEF IInv, TypeOK
  <2> QED
    BY <1>1, <2>1, <2>2, <2>3, <2>5
    DEF IInv, TypeOK, CallInOrder, MaterialInOrder, TrailInOrder, TellsWritten,
     VouchedPairMatches, FingerprintTrue, Alive, Machine, Idle, Gone
<1> QED
  BY <1>4, <1>5

\* A new machine begins a new trail.
LEMMA genesis_newKeeps == IInv /\ genesis_new => IInv'
<1> SUFFICES ASSUME IInv, genesis_new PROVE IInv'
  OBVIOUS
<1>1. /\ call.op = "none" /\ machine' = Uninitialized(Gone) /\ auditor' = NewTrail
      /\ host' = None /\ written' = {}
      /\ UNCHANGED <<call, secrets, used>>
  BY DEF genesis_new, Enter
<1>2. machine' \in Machine /\ auditor' \in Auditor /\ host' \in Stored
  BY <1>1 DEF Uninitialized, Gone, Machine, StateTag, Stored, KeyOrNone, NewTrail, Auditor
<1>3. TypeOK'
  BY <1>1, <1>2 DEF IInv, TypeOK
<1> QED
  BY <1>1, <1>3
  DEF IInv, TypeOK, CallInOrder, MaterialInOrder, TrailInOrder, TellsWritten,
     VouchedPairMatches, FingerprintTrue, Alive, Machine, Idle, Gone, Uninitialized, NewTrail

\* A generated pair matches, and the host has its public key.
LEMMA genesis_initKeeps == IInv /\ genesis_init => IInv'
<1> SUFFICES ASSUME IInv, genesis_init PROVE IInv'
  OBVIOUS
<1>1. PICK k \in Key \ used :
        /\ machine.state = "Uninitialized" /\ call.op = "none"
        /\ Return(init(machine, k))
        /\ used' = used \cup {k} /\ host' = machine'.public_key
        /\ UNCHANGED <<call, secrets, written>>
  BY DEF genesis_init, Enter
<1>2. auditor \in Auditor /\ k \in Stored /\ None \in Stored
  BY DEF IInv, TypeOK, Stored
<1> DEFINE m == [machine EXCEPT !.state = "Initialized", !.public_key = k, !.envelope = k]
<1>3. CASE Return({Outcome(m, Event("Init", k, {}, FALSE), k)})
  <2>1. machine' = m /\ auditor' = Hear(auditor, Event("Init", k, {}, FALSE), k)
    BY <1>3, Returned
  <2>2. /\ auditor'.phase = "Initialized" /\ auditor'.window = auditor.window
        /\ auditor'.told = auditor.told
    BY <1>2, <2>1 DEF Hear, PhaseTold, Event, Auditor
  <2>3. Hear(auditor, Event("Init", k, {}, FALSE), k) \in Auditor
    BY <1>2, HearType
  <2>4. machine' \in Machine /\ host' \in Stored
    BY <1>1, <1>2, <2>1 DEF IInv, TypeOK, Machine, StateTag, Stored
  <2>5. TypeOK'
    BY <1>1, <2>1, <2>3, <2>4 DEF IInv, TypeOK
  <2> QED
    BY <1>1, <2>1, <2>2, <2>5
    DEF IInv, TypeOK, CallInOrder, MaterialInOrder, TrailInOrder, TellsWritten,
     VouchedPairMatches, FingerprintTrue, Alive, Machine, Idle, Gone
<1>4. CASE Return({Outcome(Gone, Silence, k)})
  <2>1. machine' = Gone /\ auditor' = auditor
    BY <1>2, <1>4, HearSilence, Returned
  <2>2. machine' \in Machine /\ host' \in Stored
    BY <1>1, <2>1 DEF Gone, Machine, StateTag, Stored, KeyOrNone
  <2>3. TypeOK'
    BY <1>1, <2>1, <2>2 DEF IInv, TypeOK
  <2> QED
    BY <1>1, <2>1, <2>3
    DEF IInv, TypeOK, CallInOrder, MaterialInOrder, TrailInOrder, TellsWritten,
     VouchedPairMatches, FingerprintTrue, Alive, Machine, Idle, Gone
<1> QED
  BY <1>1, <1>3, <1>4 DEF Return, init

\* A loaded pair need not match, and nobody vouches for it.
LEMMA genesis_loadKeeps == IInv /\ genesis_load => IInv'
<1> SUFFICES ASSUME IInv, genesis_load PROVE IInv'
  OBVIOUS
<1>1. PICK p \in Key \cup {Garbage}, e \in Key \cup {Garbage} :
        /\ machine.state = "Uninitialized" /\ call.op = "none"
        /\ Return(load(machine, p, e))
        /\ used' = used \cup ({p, e} \cap Key)
        /\ UNCHANGED <<call, secrets, host, written>>
  BY DEF genesis_load, Enter
<1>2. /\ machine' = [machine EXCEPT !.state = "Initialized", !.public_key = p, !.envelope = e]
      /\ auditor' = Hear(auditor, Silence, None)
  BY <1>1, Returned DEF load
<1>3. auditor' = auditor
  BY <1>2, HearSilence DEF IInv, TypeOK
<1>4. machine' \in Machine /\ used' \in SUBSET Key
  BY <1>1, <1>2 DEF IInv, TypeOK, Machine, StateTag, Stored
<1>5. TypeOK'
  BY <1>1, <1>3, <1>4 DEF IInv, TypeOK
<1>6. auditor.vouched = FALSE /\ host = None /\ auditor.phase = "Uninitialized"
  BY <1>1 DEF IInv, TrailInOrder
<1> QED
  BY <1>1, <1>2, <1>3, <1>5, <1>6
  DEF IInv, TypeOK, CallInOrder, MaterialInOrder, TrailInOrder, TellsWritten,
     VouchedPairMatches, FingerprintTrue, Alive, Machine, Idle, Gone

\* Sealing and unsealing change nothing but the trail.
LEMMA SealKeeps == IInv /\ Seal => IInv'
<1> SUFFICES ASSUME IInv, Seal PROVE IInv'
  OBVIOUS
<1>1. /\ machine.state = "Initialized" /\ call.op = "none"
      /\ Return(seal(machine)) \/ Return(unseal(machine))
      /\ UNCHANGED <<call, secrets, used, host, written>>
  BY DEF Seal, Enter
<1>2. auditor \in Auditor
  BY DEF IInv, TypeOK
<1>3. ASSUME NEW kind \in {"Seal", "Unseal"}, NEW STATE p,
             Return({Outcome(machine, Plain(kind), p)})
      PROVE  IInv'
  <2>1. machine' = machine /\ auditor' = Hear(auditor, Plain(kind), p)
    BY <1>3, Returned
  <2>2. /\ auditor'.phase = "Initialized" /\ auditor'.window = auditor.window
        /\ auditor'.told = auditor.told /\ auditor'.vouched = auditor.vouched
    BY <1>2, <2>1, <1>3 DEF Hear, PhaseTold, Plain, Event, Auditor
  <2>3. Hear(auditor, Plain(kind), p) \in Auditor
    BY <1>2, PlainType
  <2>4. TypeOK'
    BY <1>1, <2>1, <2>3 DEF IInv, TypeOK
  <2> QED
    BY <1>1, <2>1, <2>2, <2>4
    DEF IInv, TypeOK, CallInOrder, MaterialInOrder, TrailInOrder, TellsWritten,
     VouchedPairMatches, FingerprintTrue, Alive, Machine, Idle, Gone
<1>4. CASE Return(seal(machine))
  BY <1>3, <1>4 DEF seal
<1>5. CASE Return(unseal(machine))
  <2>1. PICK k \in Decrypt(machine.envelope) :
          Return({IF k = None THEN Outcome(machine, Silence, None)
                  ELSE Outcome(machine, Plain("Unseal"), k)})
    BY <1>5 DEF Return, unseal
  <2>2. CASE k = None
    <3>1. machine' = machine /\ auditor' = auditor
      BY <1>2, <2>1, <2>2, HearSilence, Returned
    <3> QED
      BY <1>1, <3>1
      DEF IInv, TypeOK, CallInOrder, MaterialInOrder, TrailInOrder, TellsWritten,
     VouchedPairMatches, FingerprintTrue, Alive, Machine, Idle, Gone
  <2>3. CASE k # None
    BY <1>3, <2>1, <2>3
  <2> QED
    BY <2>2, <2>3
<1> QED
  BY <1>1, <1>4, <1>5

\* A machine that is lost, with or without a last word in its trail, has
\* nothing left to be wrong about.
LEMMA GoneKeeps ==
  ASSUME IInv, machine' = Gone, call' = Idle, auditor' \in Auditor,
         host' \in Stored, used' \in SUBSET Key, written' \in SUBSET Target,
         secrets' \in [Target -> Secret \cup {None}], FingerprintTrue'
  PROVE  IInv'
<1>1. machine' \in Machine /\ call' \in Call
  BY DEF Gone, Machine, StateTag, Stored, KeyOrNone, Idle, Call
<1>2. TypeOK'
  BY <1>1 DEF TypeOK
<1> QED
  BY <1>2
  DEF IInv, TypeOK, CallInOrder, MaterialInOrder, TrailInOrder, TellsWritten,
     VouchedPairMatches, FingerprintTrue, Alive, Machine, Idle, Gone

\* The key of the envelope comes into memory.
LEMMA genesis_begin_bootstrapKeeps == IInv /\ genesis_begin_bootstrap => IInv'
<1> SUFFICES ASSUME IInv, genesis_begin_bootstrap PROVE IInv'
  OBVIOUS
<1>1. /\ machine.state = "Initialized" /\ call.op = "none"
      /\ Return(begin_bootstrap(machine)) /\ written' = {}
      /\ UNCHANGED <<call, secrets, used, host>>
  BY DEF genesis_begin_bootstrap, Enter
<1>2. auditor \in Auditor /\ None \in Stored
  BY DEF IInv, TypeOK, Stored
<1>3. PICK k \in Decrypt(machine.envelope) :
        Return({IF k = None THEN Outcome(Gone, Silence, None)
                ELSE Outcome([machine EXCEPT !.state = "Bootstrapping", !.key_material = k],
                             Event("BeginBootstrap", None, {}, TRUE), k)})
  BY <1>1 DEF Return, begin_bootstrap
<1>4. CASE k = None
  <2>1. machine' = Gone /\ auditor' = auditor
    BY <1>2, <1>3, <1>4, HearSilence, Returned
  <2>2. call' = Idle
    BY <1>1 DEF IInv, CallInOrder
  <2> QED
    BY <1>1, <1>2, <2>1, <2>2, GoneKeeps DEF IInv, TypeOK, FingerprintTrue
<1>5. CASE k # None
  <2>1. /\ machine' = [machine EXCEPT !.state = "Bootstrapping", !.key_material = k]
        /\ auditor' = Hear(auditor, Event("BeginBootstrap", None, {}, TRUE), k)
    BY <1>3, <1>5, Returned
  <2>2. /\ auditor'.phase = "Bootstrapping" /\ auditor'.window = TRUE
        /\ auditor'.told = {} /\ auditor'.vouched = auditor.vouched
    BY <1>2, <2>1 DEF Hear, PhaseTold, Event, Auditor
  <2>3. k = machine.envelope /\ k \in Key
    BY <1>3, <1>5 DEF Decrypt
  <2>4. Hear(auditor, Event("BeginBootstrap", None, {}, TRUE), k) \in Auditor
    BY <1>2, HearType
  <2>5. machine' \in Machine
    BY <2>1, <2>3 DEF IInv, TypeOK, Machine, StateTag, KeyOrNone
  <2>6. TypeOK'
    BY <1>1, <2>1, <2>4, <2>5 DEF IInv, TypeOK
  <2> QED
    BY <1>1, <2>1, <2>2, <2>3, <2>6, KeyAssumption
    DEF IInv, TypeOK, CallInOrder, MaterialInOrder, TrailInOrder, TellsWritten,
     VouchedPairMatches, FingerprintTrue, Alive, Machine, Idle, Gone
<1> QED
  BY <1>4, <1>5

\* The key is given up, and the trail says so.
LEMMA AbortBootstrapKeeps == IInv /\ AbortBootstrap => IInv'
<1> SUFFICES ASSUME IInv, AbortBootstrap PROVE IInv'
  OBVIOUS
<1>1. /\ machine.state = "Bootstrapping" /\ call.op = "none"
      /\ Return(abort(machine))
      /\ UNCHANGED <<call, secrets, used, host, written>>
  BY DEF AbortBootstrap, Enter
<1>2. /\ machine' = [machine EXCEPT !.state = "Initialized", !.key_material = None]
      /\ auditor' = Hear(auditor, Plain("AbortBootstrap"), machine.key_material)
  BY <1>1, Returned DEF abort
<1>3. /\ auditor'.phase = "Initialized" /\ auditor'.window = FALSE
      /\ auditor'.vouched = auditor.vouched /\ auditor'.told = auditor.told
  BY <1>2 DEF Hear, PhaseTold, Plain, Event, IInv, TypeOK, Auditor
<1>4. machine' \in Machine
  BY <1>2 DEF IInv, TypeOK, Machine, StateTag, KeyOrNone
<1>5. Hear(auditor, Plain("AbortBootstrap"), machine.key_material) \in Auditor
  BY PlainType DEF IInv, TypeOK
<1>6. TypeOK'
  BY <1>1, <1>2, <1>4, <1>5 DEF IInv, TypeOK
<1> QED
  BY <1>1, <1>2, <1>3, <1>6
  DEF IInv, TypeOK, CallInOrder, MaterialInOrder, TrailInOrder, TellsWritten,
     VouchedPairMatches, FingerprintTrue, Alive, Machine, Idle, Gone

\* Drop leaves no machine, whether or not it has to say something.
LEMMA DropKeeps ==
  ASSUME IInv, call.op = "none", Return(drop(machine)),
         UNCHANGED <<call, secrets, used, host, written>>
  PROVE  IInv'
<1>1. auditor \in Auditor
  BY DEF IInv, TypeOK
<1>2. machine' = Gone /\ auditor' \in Auditor
  <2>1. CASE machine.key_material = None
    <3>1. Return({Outcome(Gone, Silence, None)})
      BY <2>1 DEF Return, drop
    <3> QED
      BY <1>1, <3>1, Returned, HearSilence
  <2>2. CASE machine.key_material # None
    <3>1. Return({Outcome(Gone, Plain("BootstrappingDropped"), machine.key_material)})
      BY <2>2 DEF Return, drop
    <3>2. Hear(auditor, Plain("BootstrappingDropped"), machine.key_material) \in Auditor
      BY <1>1, PlainType
    <3> QED
      BY <3>1, <3>2, Returned
  <2> QED
    BY <2>1, <2>2
<1>3. call' = Idle
  BY DEF IInv, CallInOrder
<1> QED
  BY <1>2, <1>3, GoneKeeps DEF IInv, TypeOK, FingerprintTrue

LEMMA genesis_freeKeeps == IInv /\ genesis_free => IInv'
BY DropKeeps DEF genesis_free

\* The key material moves from the machine into the call.
LEMMA genesis_inject_secretsKeeps == IInv /\ genesis_inject_secrets => IInv'
<1> SUFFICES ASSUME IInv, genesis_inject_secrets PROVE IInv'
  OBVIOUS
<1>1. PICK targets \in Requests :
        /\ machine.state = "Bootstrapping" /\ call.op = "none"
        /\ IF targets = <<>>
             THEN Return(drop(machine)) /\ UNCHANGED call
             ELSE /\ call' = [op |-> "inject", key |-> machine.key_material, todo |-> targets,
                              sent |-> {}, request |-> "POST"]
                  /\ machine' = [machine EXCEPT !.key_material = None]
                  /\ UNCHANGED auditor
        /\ UNCHANGED <<secrets, used, host, written>>
  BY DEF genesis_inject_secrets, Enter
<1>2. CASE targets = <<>>
  BY <1>1, <1>2, DropKeeps
<1>3. CASE targets # <<>>
  <2>1. targets \in Seq(Target)
    BY <1>1, RequestsAssumption
  <2>2. machine' \in Machine
    BY <1>1, <1>3 DEF IInv, TypeOK, Machine, KeyOrNone
  <2>3. call' \in Call
    BY <1>1, <1>3, <2>1 DEF IInv, TypeOK, Machine, Call
  <2>4. TypeOK'
    BY <1>1, <1>3, <2>2, <2>3 DEF IInv, TypeOK
  <2>5. machine.key_material = machine.envelope /\ machine.key_material \in Key
    BY <1>1, KeyAssumption DEF IInv, TypeOK, Machine, KeyOrNone, MaterialInOrder, TrailInOrder
  <2>6. /\ call'.op = "inject" /\ call'.key = machine.envelope /\ call'.todo # <<>> /\ call'.sent = {}
        /\ machine'.state = "Bootstrapping" /\ machine'.key_material = None
        /\ machine'.envelope = machine.envelope /\ machine'.public_key = machine.public_key
    BY <1>1, <1>3, <2>5 DEF IInv, TypeOK, Machine
  <2>7. CallInOrder' /\ MaterialInOrder'
    BY <2>5, <2>6, KeyAssumption DEF CallInOrder, MaterialInOrder
  <2>8. TrailInOrder' /\ TellsWritten'
    BY <1>1, <1>3, <2>5, <2>6, KeyAssumption DEF IInv, TrailInOrder, TellsWritten
  <2>9. VouchedPairMatches' /\ FingerprintTrue'
    BY <1>1, <1>3, <2>6 DEF IInv, VouchedPairMatches, FingerprintTrue, Alive
  <2> QED
    BY <2>4, <2>7, <2>8, <2>9 DEF IInv
<1> QED
  BY <1>1, <1>2, <1>3

LEMMA genesis_statusKeeps == IInv /\ genesis_status => IInv'
BY DEF genesis_status, status, Enter, IInv, TypeOK, CallInOrder, MaterialInOrder, TrailInOrder, TellsWritten,
     VouchedPairMatches, FingerprintTrue, Alive, Machine, Idle, Gone

\* A new keypair, and the request for it.
LEMMA genesis_complete_rotationKeeps == IInv /\ genesis_complete_rotation => IInv'
<1> SUFFICES ASSUME IInv, genesis_complete_rotation PROVE IInv'
  OBVIOUS
<1>1. PICK k \in Key \ used, t \in Target :
        /\ machine.state = "Rotating" /\ call.op = "none"
        /\ used' = used \cup {k}
        /\ \/ call' = [op |-> "rotate", key |-> k, todo |-> <<t>>, sent |-> {}, request |-> "POST"]
              /\ UNCHANGED machine
           \/ machine' = Gone /\ UNCHANGED call
        /\ UNCHANGED <<secrets, host, auditor, written>>
  BY DEF genesis_complete_rotation, Enter
<1>2. used' \in SUBSET Key
  BY <1>1 DEF IInv, TypeOK
<1>3. CASE machine' = Gone /\ UNCHANGED call
  <2>1. call' = Idle
    BY <1>1, <1>3 DEF IInv, CallInOrder
  <2> QED
    BY <1>1, <1>2, <1>3, <2>1, GoneKeeps DEF IInv, TypeOK, FingerprintTrue
<1>4. CASE /\ call' = [op |-> "rotate", key |-> k, todo |-> <<t>>, sent |-> {}, request |-> "POST"]
           /\ UNCHANGED machine
  <2>1. call' \in Call /\ <<t>> # <<>>
    BY <1>1, <1>4 DEF Call, KeyOrNone
  <2>2. TypeOK'
    BY <1>1, <1>2, <1>4, <2>1 DEF IInv, TypeOK
  <2> QED
    BY <1>1, <1>4, <2>1, <2>2
    DEF IInv, TypeOK, CallInOrder, MaterialInOrder, TrailInOrder, TellsWritten,
     VouchedPairMatches, FingerprintTrue, Alive, Machine, Idle, Gone
<1> QED
  BY <1>1, <1>3, <1>4

\* A request writes the key of the call, and only a pair that somebody
\* vouched for is called so in the Secret.
LEMMA BodyTrue ==
  ASSUME IInv, call.op # "none"
  PROVE  /\ secret_body \in Secret
         /\ secret_body.vouched => secret_body.fingerprint = secret_body.key
<1>1. call.op \in {"inject", "rotate"} /\ call.key \in Key /\ machine.public_key \in Stored
      /\ auditor.vouched \in BOOLEAN
  BY DEF IInv, TypeOK, Call, Machine, CallInOrder, Auditor
<1>2. CASE call.op = "rotate"
  BY <1>1, <1>2 DEF secret_body, Secret, KeyOrNone, Stored
<1>3. CASE call.op = "inject"
  <2>1. auditor.vouched => call.key = machine.public_key
    BY <1>3 DEF IInv, VouchedPairMatches, CallInOrder, MaterialInOrder
  <2> QED
    BY <1>1, <1>3, <2>1 DEF secret_body, Secret, KeyOrNone, Stored
<1> QED
  BY <1>1, <1>2, <1>3

LEMMA WriteKeeps ==
  ASSUME IInv, call.op # "none", NEW t \in Target, Write(t)
  PROVE  /\ secrets' \in [Target -> Secret \cup {None}] /\ FingerprintTrue'
         /\ written' = (IF call.op = "inject" THEN written \cup {t} ELSE written)
         /\ written' \in SUBSET Target
BY BodyTrue DEF Write, IInv, TypeOK, FingerprintTrue

\* The answer to a request for t: on to the next target.
LEMMA AnsweredKeeps ==
  ASSUME IInv, call.op # "none", call.todo # <<>>, NEW t \in Target, t = Head(call.todo),
         Write(t), Answered(t), UNCHANGED <<used, host, auditor>>
  PROVE  IInv'
<1>1. call \in Call /\ Tail(call.todo) \in Seq(Target)
  BY DEF IInv, TypeOK, Call
<1>2. /\ call' = [call EXCEPT !.todo = Tail(call.todo), !.sent = call.sent \cup {t}, !.request = "POST"]
      /\ machine' = machine
  BY DEF Answered
<1>3. /\ call' \in Call /\ call'.op = call.op /\ call'.key = call.key
      /\ call'.sent = call.sent \cup {t}
  BY <1>1, <1>2 DEF Call
<1>4. TypeOK'
  BY <1>2, <1>3, WriteKeeps DEF IInv, TypeOK
<1>5. CallInOrder' /\ MaterialInOrder' /\ TrailInOrder'
  BY <1>2, <1>3 DEF IInv, CallInOrder, MaterialInOrder, TrailInOrder, Gone
<1>6. TellsWritten' /\ VouchedPairMatches'
  BY <1>2, <1>3, WriteKeeps DEF IInv, TellsWritten, VouchedPairMatches, Alive
<1> QED
  BY <1>4, <1>5, <1>6, WriteKeeps DEF IInv

LEMMA InjectKeeps == IInv /\ Inject => IInv'
<1> SUFFICES ASSUME IInv, Inject PROVE IInv'
  OBVIOUS
<1>1. /\ call.op # "none" /\ call.todo # <<>>
      /\ Post \/ Put
      /\ UNCHANGED <<used, host, auditor>>
  BY DEF Inject
<1>0. call.todo \in Seq(Target) /\ call.todo # <<>>
  BY <1>1 DEF IInv, TypeOK, Call
<1>2. PICK t \in Target : t = Head(call.todo)
  BY <1>0
<1>3. CASE Answered(t) /\ Write(t)
  BY <1>1, <1>2, <1>3, AnsweredKeeps
<1>4. CASE Failed /\ Write(t)
  BY <1>1, <1>2, <1>4, WriteKeeps, GoneKeeps DEF Failed, IInv, TypeOK
<1>5. CASE Failed /\ UNCHANGED <<secrets, written>>
  BY <1>1, <1>5, GoneKeeps DEF Failed, IInv, TypeOK, FingerprintTrue
<1>6. CASE call' = [call EXCEPT !.request = "PUT"] /\ UNCHANGED <<machine, secrets, written>>
  <2>1. /\ call' \in Call /\ call'.op = call.op /\ call'.key = call.key
        /\ call'.sent = call.sent /\ call'.todo = call.todo
    BY <1>6 DEF IInv, TypeOK, Call
  <2>2. TypeOK'
    BY <1>1, <1>6, <2>1 DEF IInv, TypeOK
  <2> QED
    BY <1>1, <1>6, <2>1, <2>2
    DEF IInv, TypeOK, CallInOrder, MaterialInOrder, TrailInOrder, TellsWritten,
     VouchedPairMatches, FingerprintTrue, Alive, Machine, Idle, Gone
<1> QED
  BY <1>1, <1>2, <1>3, <1>4, <1>5, <1>6 DEF Post, Put

\* The end of a delivery.
LEMMA InjectedKeeps == IInv /\ Injected => IInv'
<1> SUFFICES ASSUME IInv, Injected PROVE IInv'
  OBVIOUS
<1>1. /\ call.op = "inject" /\ call.todo = <<>> /\ call' = Idle
      /\ UNCHANGED <<secrets, used, host, written>>
  BY DEF Injected, Done
<1>2. /\ machine' = [machine EXCEPT !.state = "Active"]
      /\ auditor' = Hear(auditor, Event("InjectSecret", None, call.sent, TRUE), call.key)
  BY Returned DEF Injected
<1>3. auditor \in Auditor /\ None \in Stored /\ call.sent \in SUBSET Target
  BY DEF IInv, TypeOK, Stored, Call
<1>4. /\ auditor'.phase = "Active" /\ auditor'.window = FALSE
      /\ auditor'.told = auditor.told \cup call.sent /\ auditor'.vouched = auditor.vouched
  BY <1>2, <1>3 DEF Hear, PhaseTold, Event, Auditor
<1>5. Hear(auditor, Event("InjectSecret", None, call.sent, TRUE), call.key) \in Auditor
  BY <1>3, HearType
<1>6. machine' \in Machine /\ call' \in Call
  BY <1>1, <1>2 DEF IInv, TypeOK, Machine, StateTag, Idle, Call, KeyOrNone
<1>7. TypeOK'
  BY <1>1, <1>2, <1>5, <1>6 DEF IInv, TypeOK
<1> QED
  BY <1>1, <1>2, <1>4, <1>7
  DEF IInv, TypeOK, CallInOrder, MaterialInOrder, TrailInOrder, TellsWritten,
     VouchedPairMatches, FingerprintTrue, Alive, Machine, Idle, Gone

LEMMA RotatedKeeps == IInv /\ Rotated => IInv'
<1> SUFFICES ASSUME IInv, Rotated PROVE IInv'
  OBVIOUS
<1>1. /\ call.op = "rotate" /\ call.todo = <<>> /\ call' = Idle /\ host' = call.key
      /\ UNCHANGED <<secrets, used, written>>
  BY DEF Rotated, Done
<1>2. /\ machine' = [machine EXCEPT !.state = "Active", !.public_key = call.key, !.envelope = call.key]
      /\ auditor' = Hear(auditor, Event("CompleteRotation", call.key, {}, FALSE), call.key)
  BY Returned DEF Rotated
<1>3. auditor \in Auditor /\ call.key \in Key /\ call.key \in Stored
  BY <1>1 DEF IInv, TypeOK, Stored, CallInOrder
<1>4. /\ auditor'.phase = "Active" /\ auditor'.window = auditor.window
      /\ auditor'.told = auditor.told
  BY <1>2, <1>3 DEF Hear, PhaseTold, Event, Auditor
<1>5. Hear(auditor, Event("CompleteRotation", call.key, {}, FALSE), call.key) \in Auditor
  BY <1>3, HearType
<1>6. machine' \in Machine /\ call' \in Call
  BY <1>1, <1>2, <1>3 DEF IInv, TypeOK, Machine, StateTag, Idle, Call, KeyOrNone
<1>7. TypeOK'
  BY <1>1, <1>2, <1>3, <1>5, <1>6 DEF IInv, TypeOK
<1> QED
  BY <1>1, <1>2, <1>3, <1>4, <1>7
  DEF IInv, TypeOK, CallInOrder, MaterialInOrder, TrailInOrder, TellsWritten,
     VouchedPairMatches, FingerprintTrue, Alive, Machine, Idle, Gone

LEMMA CrashKeeps == IInv /\ Crash => IInv'
<1> SUFFICES ASSUME IInv, Crash PROVE IInv'
  OBVIOUS
<1>1. host' \in Stored
  BY DEF Crash, Stored
<1> QED
  BY <1>1, GoneKeeps DEF Crash, IInv, TypeOK, FingerprintTrue

LEMMA MeddleKeeps == ASSUME IInv, NEW t \in Target, Meddle(t) PROVE IInv'
<1>1. Foreign \in Secret /\ Foreign.vouched = FALSE
  BY DEF Foreign, Secret, KeyOrNone, Stored
<1>2. /\ secrets' = [secrets EXCEPT ![t] = IF secrets[t] = None THEN Foreign ELSE None]
      /\ UNCHANGED <<machine, call, used, host, auditor, written>>
  BY DEF Meddle
<1>3. TypeOK' /\ FingerprintTrue'
  BY <1>1, <1>2 DEF IInv, TypeOK, FingerprintTrue
<1> QED
  BY <1>2, <1>3
  DEF IInv, TypeOK, CallInOrder, MaterialInOrder, TrailInOrder, TellsWritten,
     VouchedPairMatches, FingerprintTrue, Alive, Machine, Idle, Gone

\* The invariant holds in every reachable state.
LEMMA InitIInv == Init => IInv
<1> SUFFICES ASSUME Init PROVE IInv
  OBVIOUS
<1>1. TypeOK
  BY DEF Init, TypeOK, Gone, Machine, StateTag, Stored, KeyOrNone, Idle, Call, NewTrail, Auditor
<1> QED
  BY <1>1 DEF Init, NewTrail, IInv, TypeOK, CallInOrder, MaterialInOrder, TrailInOrder, TellsWritten,
     VouchedPairMatches, FingerprintTrue, Alive, Machine, Idle, Gone

LEMMA NextKeepsIInv == IInv /\ [Next]_vars => IInv'
<1> SUFFICES ASSUME IInv, [Next]_vars PROVE IInv'
  OBVIOUS
<1>1. CASE Entry
  BY <1>1, genesis_newKeeps, genesis_initKeeps, genesis_loadKeeps, genesis_verifyKeeps,
     genesis_begin_bootstrapKeeps, genesis_inject_secretsKeeps, genesis_statusKeeps,
     genesis_begin_rotationKeeps, genesis_abort_rotationKeeps,
     genesis_complete_rotationKeeps, genesis_freeKeeps DEF Entry
<1>2. CASE Seal \/ AbortBootstrap
  BY <1>2, SealKeeps, AbortBootstrapKeeps
<1>3. CASE Inject \/ Injected \/ Rotated
  BY <1>3, InjectKeeps, InjectedKeeps, RotatedKeeps
<1>4. CASE Crash \/ \E t \in Target : Meddle(t)
  BY <1>4, CrashKeeps, MeddleKeeps
<1>5. CASE UNCHANGED vars
  BY <1>5 DEF vars, IInv, TypeOK, CallInOrder, MaterialInOrder, TrailInOrder, TellsWritten,
     VouchedPairMatches, FingerprintTrue, Alive, Machine, Idle, Gone
<1> QED
  BY <1>1, <1>2, <1>3, <1>4, <1>5 DEF Next

\* The core's invariant: the trail, the pair and the Secrets agree, whatever
\* fails and in whatever order the host calls.
THEOREM CoreInvariant == Spec => []IInv
<1> QED
  BY InitIInv, NextKeepsIInv, PTL DEF Spec

\* The trail of a waiting machine tells its state and its key window
\* (audit.rs events of state.rs), whatever the host and the API server do.
THEOREM TrailIsRight == Spec => []TrailTellsState
<1>1. IInv => TrailTellsState
  BY DEF IInv, TrailInOrder, TrailTellsState, Alive
<1> QED
  BY <1>1, CoreInvariant, PTL

\* A pair that the trail has vouched for stays a pair, and the host's public
\* key is the machine's.
THEOREM PairsMatch == Spec => []VouchedPairMatches
<1>1. IInv => VouchedPairMatches
  BY DEF IInv
<1> QED
  BY <1>1, CoreInvariant, PTL

\* The fingerprint annotation of a Secret that a vouched-for pair has
\* written is that of the key in it.
THEOREM FingerprintsTrue == Spec => []FingerprintTrue
<1>1. IInv => FingerprintTrue
  BY DEF IInv
<1> QED
  BY <1>1, CoreInvariant, PTL

\* The trail of a waiting machine names the Secrets of its bootstrap, all
\* of them and no other.
THEOREM SecretsNamed == Spec => []TrailNamesSecrets
<1>1. IInv => TrailNamesSecrets
  BY DEF IInv, TellsWritten, CallInOrder, TrailNamesSecrets, Alive
<1> QED
  BY <1>1, CoreInvariant, PTL

-----------------------------------------------------------------------------
(***************************************************************************)
(* The refinement.                                                         *)
(***************************************************************************)
LEMMA LoseStep ==
  ASSUME machine' = Gone, call' = Idle
  PROVE  Lifecycle!Lose
BY DEF Lifecycle!Lose, Gone, Idle

\* A step that changes no more than the state of the machine.
LEMMA MoveStep ==
  ASSUME NEW from, NEW to, IInv, call.op = "none", UNCHANGED call,
         machine.state = from, machine.key_material = None,
         machine'.state = to, machine'.key_material = None
  PROVE  Lifecycle!Move(from, to)
BY DEF Lifecycle!Move

LEMMA SameStep ==
  ASSUME UNCHANGED <<machine, call>>
  PROVE  UNCHANGED Lifecycle!vars
BY DEF Lifecycle!vars

\* A machine with no key material and no call exposes nothing; a
\* waiting machine that is not bootstrapping has none.
LEMMA NoMaterial ==
  ASSUME IInv, machine.state # "Bootstrapping"
  PROVE  machine.key_material = None
BY DEF IInv, MaterialInOrder

\* The elements of a request before and after its first target is served.
LEMMA Wanted ==
  ASSUME NEW s \in Seq(Target), s # <<>>
  PROVE  {s[i] : i \in DOMAIN s} = {Head(s)} \cup {Tail(s)[i] : i \in DOMAIN Tail(s)}
<1>1. /\ Head(s) = s[1] /\ Len(s) \in Nat /\ Len(s) # 0 /\ DOMAIN s = 1..Len(s)
      /\ Tail(s) \in Seq(Target) /\ Len(Tail(s)) = Len(s) - 1
      /\ DOMAIN Tail(s) = 1..(Len(s) - 1)
  BY HeadTailProperties
<1>2. \A i \in 1..(Len(s) - 1) : Tail(s)[i] = s[i + 1]
  BY HeadTailProperties
<1>3. ASSUME NEW i \in 1..Len(s)
      PROVE  s[i] \in {Head(s)} \cup {Tail(s)[j] : j \in DOMAIN Tail(s)}
  <2>1. CASE i = 1
    BY <1>1, <2>1
  <2>2. CASE i # 1
    <3>1. i - 1 \in 1..(Len(s) - 1) /\ (i - 1) + 1 = i
      BY <1>1, <2>2
    <3> QED
      BY <1>1, <1>2, <3>1
  <2> QED
    BY <2>1, <2>2
<1>4. ASSUME NEW i \in 1..(Len(s) - 1)
      PROVE  Tail(s)[i] \in {s[j] : j \in DOMAIN s}
  BY <1>1, <1>2
<1>5. Head(s) \in {s[j] : j \in DOMAIN s}
  BY <1>1
<1> QED
  BY <1>1, <1>3, <1>4, <1>5

LEMMA InitMaps == Init => Lifecycle!Init
BY DEF Init, Lifecycle!Init, Gone, Idle

LEMMA EntryMaps == IInv /\ Entry => [Lifecycle!Next]_(Lifecycle!vars)
<1> SUFFICES ASSUME IInv, Entry PROVE [Lifecycle!Next]_(Lifecycle!vars)
  OBVIOUS
<1>1. CASE genesis_new
  <2>1. Lifecycle!Move("Gone", "Uninitialized")
    BY <1>1, NoMaterial, MoveStep DEF genesis_new, Enter, Uninitialized, Gone
  <2> QED
    BY <2>1 DEF Lifecycle!Create, Lifecycle!Next
<1>2. CASE genesis_init \/ genesis_load
  <2>1. /\ machine.state = "Uninitialized" /\ call.op = "none" /\ call' = call
        /\ machine.key_material = None /\ machine \in Machine
    BY <1>2, NoMaterial DEF genesis_init, genesis_load, Enter, IInv, TypeOK
  <2>2. (\E p, e \in Stored : machine' = [machine EXCEPT !.state = "Initialized",
                                           !.public_key = p, !.envelope = e])
        \/ machine' = Gone
    <3>1. CASE genesis_init
      <4>1. PICK k \in Key : Return(init(machine, k))
        BY <3>1 DEF genesis_init
      <4> DEFINE m == [machine EXCEPT !.state = "Initialized", !.public_key = k, !.envelope = k]
      <4>4. \/ Return({Outcome(m, Event("Init", k, {}, FALSE), k)})
            \/ Return({Outcome(Gone, Silence, k)})
        BY <4>1 DEF init, Return
      <4>2. \/ machine' = [machine EXCEPT !.state = "Initialized", !.public_key = k, !.envelope = k]
            \/ machine' = Gone
        BY <4>4, Returned
      <4>3. k \in Stored
        BY DEF Stored
      <4> QED
        BY <4>2, <4>3
    <3>2. CASE genesis_load
      <4>1. PICK p, e \in Key \cup {Garbage} : Return(load(machine, p, e))
        BY <3>2 DEF genesis_load
      <4>2. machine' = [machine EXCEPT !.state = "Initialized", !.public_key = p, !.envelope = e]
        BY <4>1, Returned DEF load
      <4> QED
        BY <4>1, <4>2 DEF Stored
    <3> QED
      BY <1>2, <3>1, <3>2
  <2>3. CASE machine' = Gone
    BY <2>1, <2>3, LoseStep DEF Lifecycle!Next, IInv, CallInOrder
  <2>4. CASE \E p, e \in Stored : machine' = [machine EXCEPT !.state = "Initialized",
                                                !.public_key = p, !.envelope = e]
    <3>1. machine'.state = "Initialized" /\ machine'.key_material = None
      BY <2>1, <2>4 DEF Machine
    <3>2. Lifecycle!Move("Uninitialized", "Initialized")
      BY <2>1, <3>1, MoveStep
    <3> QED
      BY <3>2 DEF Lifecycle!Adopt, Lifecycle!Next
  <2> QED
    BY <2>2, <2>3, <2>4
<1>3. CASE genesis_verify \/ genesis_status
  <2>1. UNCHANGED <<machine, call>>
    BY <1>3 DEF genesis_verify, genesis_status, Return, Outcome, verify
  <2> QED
    BY <2>1, SameStep
<1>4. CASE genesis_begin_bootstrap
  <2>1. PICK k \in Decrypt(machine.envelope) :
          Return({IF k = None THEN Outcome(Gone, Silence, None)
                  ELSE Outcome([machine EXCEPT !.state = "Bootstrapping", !.key_material = k],
                               Event("BeginBootstrap", None, {}, TRUE), k)})
    BY <1>4 DEF genesis_begin_bootstrap, Return, begin_bootstrap
  <2>2. machine.state = "Initialized" /\ call.op = "none" /\ call' = call /\ call = Idle
    BY <1>4 DEF genesis_begin_bootstrap, Enter, IInv, CallInOrder
  <2>3. CASE k = None
    BY <2>1, <2>2, <2>3, Returned, LoseStep DEF Lifecycle!Next
  <2>4. CASE k # None
    <3>1. machine' = [machine EXCEPT !.state = "Bootstrapping", !.key_material = k]
      BY <2>1, <2>4, Returned
    <3>2. Lifecycle!Open
      BY <2>2, <2>4, <3>1, NoMaterial DEF Lifecycle!Open, IInv, TypeOK, Machine
    <3> QED
      BY <3>2 DEF Lifecycle!Next
  <2> QED
    BY <2>3, <2>4
<1>5. CASE genesis_inject_secrets
  <2>1. PICK targets \in Requests :
          /\ machine.state = "Bootstrapping" /\ call.op = "none"
          /\ IF targets = <<>>
               THEN Return(drop(machine)) /\ UNCHANGED call
               ELSE /\ call' = [op |-> "inject", key |-> machine.key_material, todo |-> targets,
                                sent |-> {}, request |-> "POST"]
                    /\ machine' = [machine EXCEPT !.key_material = None]
    BY <1>5 DEF genesis_inject_secrets, Enter
  <2>2. call = Idle /\ machine.key_material # None
    BY <2>1, KeyAssumption DEF IInv, CallInOrder, MaterialInOrder
  <2>3. CASE targets = <<>>
    <3>1. machine' = Gone
      BY <2>1, <2>3 DEF Return, drop, Outcome
    <3> QED
      BY <2>1, <2>2, <2>3, <3>1, LoseStep DEF Lifecycle!Next
  <2>4. CASE targets # <<>>
    <3>1. targets \in Seq(Target)
      BY RequestsAssumption
    <3>2. {targets[i] : i \in DOMAIN targets} \in (SUBSET Target) \ {{}}
      <4>1. Head(targets) \in {targets[i] : i \in DOMAIN targets}
        BY <2>4, <3>1, Wanted
      <4>2. \A i \in DOMAIN targets : targets[i] \in Target
        BY <3>1
      <4>3. {targets[i] : i \in DOMAIN targets} # {}
        BY <4>1
      <4>4. {targets[i] : i \in DOMAIN targets} \subseteq Target
        BY <4>2
      <4> QED
        BY <4>3, <4>4
    <3>3. Lifecycle!Deliver
      BY <2>1, <2>2, <2>4, <3>2 DEF Lifecycle!Deliver, Idle, IInv, TypeOK, Machine
    <3> QED
      BY <3>3 DEF Lifecycle!Next
  <2> QED
    BY <2>3, <2>4
<1>6. CASE genesis_begin_rotation
  <2>1. Lifecycle!Move("Active", "Rotating")
    BY <1>6, NoMaterial, MoveStep DEF genesis_begin_rotation, Enter, Return, Outcome, begin_rotation,
       IInv, TypeOK, Machine
  <2> QED
    BY <2>1 DEF Lifecycle!BeginRotation, Lifecycle!Next
<1>7. CASE genesis_abort_rotation
  <2>1. Lifecycle!Move("Rotating", "Active")
    BY <1>7, NoMaterial, MoveStep DEF genesis_abort_rotation, Enter, Return, Outcome, abort_rotation,
       IInv, TypeOK, Machine
  <2> QED
    BY <2>1 DEF Lifecycle!AbortRotation, Lifecycle!Next
<1>8. CASE genesis_complete_rotation
  <2>1. PICK k \in Key \ used, t \in Target :
          /\ machine.state = "Rotating" /\ call.op = "none"
          /\ \/ call' = [op |-> "rotate", key |-> k, todo |-> <<t>>, sent |-> {}, request |-> "POST"]
                /\ UNCHANGED machine
             \/ machine' = Gone /\ UNCHANGED call
    BY <1>8 DEF genesis_complete_rotation, Enter
  <2>2. call = Idle /\ machine.key_material = None
    BY <2>1, NoMaterial DEF IInv, CallInOrder
  <2>3. CASE machine' = Gone /\ UNCHANGED call
    BY <2>2, <2>3, LoseStep DEF Lifecycle!Next
  <2>4. CASE /\ call' = [op |-> "rotate", key |-> k, todo |-> <<t>>, sent |-> {}, request |-> "POST"]
             /\ UNCHANGED machine
    <3>1. {call'.todo[i] : i \in DOMAIN call'.todo} = {t}
      <4>1. call'.todo = <<t>> /\ DOMAIN <<t>> = {1} /\ <<t>>[1] = t
        BY <2>4
      <4> QED
        BY <4>1
    <3>2. /\ {call.todo[i] : i \in DOMAIN call.todo} = {} /\ call.sent = {} /\ call'.sent = {}
          /\ call'.op # "none" /\ machine' = machine
      BY <2>2, <2>4 DEF Idle
    <3>3. Lifecycle!Deliver
      <4>1. {t} \in (SUBSET Target) \ {{}}
        BY <2>1
      <4> QED
        BY <2>1, <2>2, <3>1, <3>2, <4>1 DEF Lifecycle!Deliver
    <3> QED
      BY <3>3 DEF Lifecycle!Next
  <2> QED
    BY <2>1, <2>3, <2>4
<1>9. CASE genesis_free
  <2>1. machine' = Gone /\ call' = Idle
    BY <1>9 DEF genesis_free, Return, drop, Outcome, IInv, CallInOrder
  <2> QED
    BY <2>1, LoseStep DEF Lifecycle!Next
<1> QED
  BY <1>1, <1>2, <1>3, <1>4, <1>5, <1>6, <1>7, <1>8, <1>9 DEF Entry

LEMMA InjectMaps == IInv /\ Inject => [Lifecycle!Next]_(Lifecycle!vars)
<1> SUFFICES ASSUME IInv, Inject PROVE [Lifecycle!Next]_(Lifecycle!vars)
  OBVIOUS
<1>1. /\ call.op # "none" /\ call.todo # <<>> /\ call \in Call
      /\ call.todo \in Seq(Target)
  BY DEF Inject, IInv, TypeOK, Call
<1>2. PICK t \in Target : t = Head(call.todo)
  BY <1>1
<1>3. \/ Answered(t)
      \/ Failed
      \/ call' = [call EXCEPT !.request = "PUT"] /\ UNCHANGED machine
  BY <1>2 DEF Inject, Post, Put
<1>4. CASE Answered(t)
  <2>1. /\ call'.op = call.op /\ call'.sent = call.sent \cup {t} /\ call'.todo = Tail(call.todo)
        /\ machine' = machine
    BY <1>1, <1>4 DEF Answered, Call
  <2>2. {call.todo[i] : i \in DOMAIN call.todo}
          = {t} \cup {Tail(call.todo)[i] : i \in DOMAIN Tail(call.todo)}
    BY <1>1, <1>2, Wanted
  <2>3. Lifecycle!Serve
    BY <1>1, <2>1, <2>2 DEF Lifecycle!Serve
  <2> QED
    BY <2>3 DEF Lifecycle!Next
<1>5. CASE Failed
  BY <1>5, LoseStep DEF Failed, Lifecycle!Next
<1>6. CASE call' = [call EXCEPT !.request = "PUT"] /\ UNCHANGED machine
  <2>1. /\ call'.op = call.op /\ call'.sent = call.sent /\ call'.todo = call.todo
    BY <1>1, <1>6 DEF Call
  <2> QED
    BY <1>6, <2>1 DEF Lifecycle!vars
<1> QED
  BY <1>3, <1>4, <1>5, <1>6

\* The end of a delivery finds every wanted Secret served.
LEMMA DoneMaps == IInv /\ (Injected \/ Rotated) => Lifecycle!Activate
<1> SUFFICES ASSUME IInv, Injected \/ Rotated PROVE Lifecycle!Activate
  OBVIOUS
<1>1. /\ call.op # "none" /\ call.todo = <<>> /\ call' = Idle
      /\ call.sent # {} /\ machine.key_material = None
  BY DEF Injected, Rotated, Done, IInv, CallInOrder
<1>2. machine'.state = "Active" /\ machine'.key_material = None
  <2>1. CASE Injected
    <3>1. machine' = [machine EXCEPT !.state = "Active"]
      BY <2>1, Returned DEF Injected
    <3> QED
      BY <1>1, <3>1 DEF IInv, TypeOK, Machine
  <2>2. CASE Rotated
    <3>1. machine' = [machine EXCEPT !.state = "Active", !.public_key = call.key,
                                     !.envelope = call.key]
      BY <2>2, Returned DEF Rotated
    <3> QED
      BY <1>1, <3>1 DEF IInv, TypeOK, Machine
  <2> QED
    BY <2>1, <2>2
<1> QED
  BY <1>1, <1>2 DEF Lifecycle!Activate, Idle

LEMMA StepMaps == IInv /\ [Next]_vars => [Lifecycle!Next]_(Lifecycle!vars)
<1> SUFFICES ASSUME IInv, [Next]_vars PROVE [Lifecycle!Next]_(Lifecycle!vars)
  OBVIOUS
<1>1. CASE Seal
  <2>1. UNCHANGED <<machine, call>>
    BY <1>1 DEF Seal, Return, Outcome, seal, unseal
  <2> QED
    BY <2>1, SameStep
<1>2. CASE AbortBootstrap
  <2>1. /\ machine.state = "Bootstrapping" /\ call = Idle /\ call' = Idle
        /\ machine.key_material # None
    BY <1>2, KeyAssumption DEF AbortBootstrap, Enter, IInv, CallInOrder, MaterialInOrder, Idle
  <2>2. machine'.state = "Initialized" /\ machine'.key_material = None
    <3>1. machine' = [machine EXCEPT !.state = "Initialized", !.key_material = None]
      BY <1>2, Returned DEF AbortBootstrap, abort
    <3> QED
      BY <3>1 DEF IInv, TypeOK, Machine
  <2>3. Lifecycle!Abort
    BY <2>1, <2>2 DEF Lifecycle!Abort, Idle
  <2> QED
    BY <2>3 DEF Lifecycle!Next
<1>3. CASE Crash
  BY <1>3, LoseStep DEF Crash, Lifecycle!Next
<1>4. CASE (\E t \in Target : Meddle(t)) \/ UNCHANGED vars
  BY <1>4, SameStep DEF Meddle, vars
<1> QED
  BY <1>1, <1>2, <1>3, <1>4, EntryMaps, InjectMaps, DoneMaps DEF Next, Lifecycle!Next

\* The machine of genesis-core implements the lifecycle: a private key is in
\* memory only from Open or Deliver to Activate, Abort or Lose, and a machine
\* is Active only once every Secret of the delivery has the key.
THEOREM CoreImplementsLifecycle == Spec => ImplementsLifecycle
<1> QED
  BY CoreInvariant, InitMaps, StepMaps, PTL DEF Spec, ImplementsLifecycle, Lifecycle!Spec
=============================================================================
