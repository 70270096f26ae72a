---------------------------- MODULE GenesisCore ----------------------------
(***************************************************************************)
(* The core library from the inside (genesis-core/src/state.rs, audit.rs,  *)
(* the entry points of ffi.rs, the requests of k8s/inject.rs): one         *)
(* machine, its age keypair and envelope, its private key in memory, the   *)
(* Secrets it writes, and what its audit trail tells of all that.          *)
(*                                                                         *)
(* A method of state.rs is an operator on the machine that gives its       *)
(* possible outcomes, and an entry point an action that takes one of them. *)
(* A call in a wrong state or with a bad argument hands the machine back   *)
(* unchanged (GenesisHandle): here it is no step.  A keypair is named by   *)
(* one Key: its public key, its private key, and the envelope of it.       *)
(***************************************************************************)
EXTENDS Sequences

CONSTANTS
  Key,       \* keypairs; a generated one has never been used before
  Target,    \* (namespace, name) of the Secrets
  Requests,  \* the target lists of the host's calls
  Garbage,   \* a public key or an envelope that is none
  None

ASSUME KeyAssumption == Garbage \notin Key /\ None \notin Key \cup {Garbage}
ASSUME RequestsAssumption == Requests \subseteq Seq(Target)

\* StateTag, and Gone: consumed by an error, or freed.  Degraded is not
\* there: no code outside the tests makes a machine Degraded.
StateTag == {"Uninitialized", "Initialized", "Bootstrapping", "Active", "Rotating"}
KeyOrNone == Key \cup {None}
Stored == Key \cup {Garbage, None}

\* Genesis<S> with its GenesisConfig, and the KeyMaterial of GenesisBootstrapping.
Machine == [state : StateTag \cup {"Gone"}, public_key : Stored,
            envelope : Stored, key_material : KeyOrNone]
Gone == [state |-> "Gone", public_key |-> None, envelope |-> None, key_material |-> None]

\* A Secret: the private key it holds, its public-key-fingerprint
\* annotation, and whether the trail had vouched for the pair by then.
Secret == [key : KeyOrNone, fingerprint : Stored, vouched : BOOLEAN]
Foreign == [key |-> None, fingerprint |-> None, vouched |-> FALSE]

Call == [op : {"none", "inject", "rotate"}, key : KeyOrNone, todo : Seq(Target),
         sent : SUBSET Target, request : {"POST", "PUT"}]
Idle == [op |-> "none", key |-> None, todo |-> <<>>, sent |-> {}, request |-> "POST"]

VARIABLES
  machine,   \* the machine, while no call has consumed it
  call,      \* the call that is talking to the API server
  secrets,   \* the Secrets in the cluster
  used,      \* keypairs that exist
  host,      \* the public key in the last artifacts or status the host got
  auditor,   \* what the trail of this machine tells its reader
  written    \* history: the Secrets that a bootstrap of the machine has written

vars == <<machine, call, secrets, used, host, auditor, written>>

Auditor == [phase : StateTag \cup {"Gone"}, public_key : Stored, window : BOOLEAN,
            vouched : BOOLEAN, told : SUBSET Target, unflagged : BOOLEAN]
NewTrail ==
  [phase |-> "Uninitialized", public_key |-> None, window |-> FALSE,
   vouched |-> FALSE, told |-> {}, unflagged |-> FALSE]

TypeOK ==
  /\ machine \in Machine
  /\ call \in Call
  /\ secrets \in [Target -> Secret \cup {None}]
  /\ used \in SUBSET Key
  /\ host \in Stored
  /\ auditor \in Auditor
  /\ written \in SUBSET Target

Init ==
  /\ machine = Gone /\ call = Idle
  /\ secrets = [t \in Target |-> None]
  /\ used = {} /\ host = None
  /\ auditor = NewTrail /\ written = {}

-----------------------------------------------------------------------------
(***************************************************************************)
(* audit.rs.  An event has its kind, the key it names, its targets and its *)
(* flag; the InjectSecret events of one call come together, and only the   *)
(* last says that the key material is zeroed.                              *)
(***************************************************************************)
Event(kind, key, targets, flag) ==
  [kind |-> kind, key |-> key, targets |-> targets, flag |-> flag]
Plain(kind) == Event(kind, None, {}, FALSE)
Silence == Plain("none")

key_material_present(e) ==
  \/ e.kind = "BeginBootstrap" /\ e.flag
  \/ e.kind \in {"Seal", "Unseal", "InjectSecret", "BeginRotation", "CompleteRotation"}

PhaseTold(a, e) ==
  CASE e.kind \in {"Init", "Verify", "Seal", "Unseal", "AbortBootstrap"} -> "Initialized"
    [] e.kind = "BeginBootstrap" -> "Bootstrapping"
    [] e.kind \in {"InjectSecret", "CompleteRotation", "AbortRotation"} -> "Active"
    [] e.kind = "BeginRotation" -> "Rotating"
    [] e.kind = "BootstrappingDropped" -> "Gone"
    [] OTHER -> a.phase

\* What a reader of the trail knows after one more event.  plain is
\* the private key that the call which emitted it had in memory, or None.
Hear(a, e, plain) ==
  [phase |-> PhaseTold(a, e),
   public_key |-> IF e.kind \in {"Init", "CompleteRotation"} THEN e.key ELSE a.public_key,
   window |-> IF e.kind = "BeginBootstrap" THEN TRUE
              ELSE IF e.kind \in {"InjectSecret", "AbortBootstrap", "BootstrappingDropped"}
                THEN a.window /\ e.kind = "InjectSecret" /\ ~e.flag
              ELSE a.window,
   vouched |-> \/ a.vouched
               \/ e.kind \in {"Init", "CompleteRotation"}
               \/ e.kind = "Verify" /\ e.flag,
   told |-> IF e.kind = "BeginBootstrap" THEN {} ELSE a.told \cup e.targets,
   unflagged |-> \/ a.unflagged
                 \/ e # Silence /\ plain # None /\ ~key_material_present(e)]

-----------------------------------------------------------------------------
(***************************************************************************)
(* state.rs: each method gives the set of its outcomes.                    *)
(***************************************************************************)
Outcome(m, event, plain) == [machine |-> m, event |-> event, plain |-> plain]

\* kms.decrypt: the key of the envelope, or an error (None).
Decrypt(envelope) == {None} \cup ({envelope} \cap Key)

Uninitialized(m) == [m EXCEPT !.state = "Uninitialized"]

\* age::generate_keypair and kms.encrypt; an error consumes the machine.
init(m, k) ==
  {Outcome([m EXCEPT !.state = "Initialized", !.public_key = k, !.envelope = k],
           Event("Init", k, {}, FALSE), k),
   Outcome(Gone, Silence, k)}

load(m, p, e) ==
  {Outcome([m EXCEPT !.state = "Initialized", !.public_key = p, !.envelope = e], Silence, None)}

\* Bug: Verify compares nothing.
Bugverify(m) ==
  {IF k = None THEN Outcome(m, Silence, None)
   ELSE Outcome(m, Event("Verify", None, {}, TRUE), k) : k \in Decrypt(m.envelope)}

verify(m) ==
  {IF k = None THEN Outcome(m, Silence, None)
   ELSE Outcome(m, Event("Verify", None, {}, k = m.public_key), k) : k \in Decrypt(m.envelope)}

\* The event comes first, whatever the encryption does.
seal(m) == {Outcome(m, Plain("Seal"), None)}

unseal(m) ==
  {IF k = None THEN Outcome(m, Silence, None)
   ELSE Outcome(m, Plain("Unseal"), k) : k \in Decrypt(m.envelope)}

begin_bootstrap(m) ==
  {IF k = None THEN Outcome(Gone, Silence, None)
   ELSE Outcome([m EXCEPT !.state = "Bootstrapping", !.key_material = k],
                Event("BeginBootstrap", None, {}, TRUE), k) : k \in Decrypt(m.envelope)}

\* Bug: abort forgets the event.
Bugabort(m) ==
  {Outcome([m EXCEPT !.state = "Initialized", !.key_material = None], Silence, m.key_material)}

abort(m) ==
  {Outcome([m EXCEPT !.state = "Initialized", !.key_material = None],
           Plain("AbortBootstrap"), m.key_material)}

\* Drop: only a machine that still has its key material says so.
drop(m) ==
  {IF m.key_material = None THEN Outcome(Gone, Silence, None)
   ELSE Outcome(Gone, Plain("BootstrappingDropped"), m.key_material)}

status(m) == m.public_key
begin_rotation(m) == {Outcome([m EXCEPT !.state = "Rotating"], Plain("BeginRotation"), None)}
abort_rotation(m) == {Outcome([m EXCEPT !.state = "Active"], Plain("AbortRotation"), None)}

-----------------------------------------------------------------------------
(***************************************************************************)
(* ffi.rs: the entry points.                                               *)
(***************************************************************************)
Enter(state) == call.op = "none" /\ machine.state = state

Return(outcomes) ==
  \E o \in outcomes :
    /\ machine' = o.machine
    /\ auditor' = Hear(auditor, o.event, o.plain)

genesis_new ==
  /\ Enter("Gone")
  /\ machine' = Uninitialized(Gone)
  /\ auditor' = NewTrail
  /\ host' = None /\ written' = {}
  /\ UNCHANGED <<call, secrets, used>>

\* The artifacts of the new key are the host's.
genesis_init ==
  /\ Enter("Uninitialized")
  /\ \E k \in Key \ used :
       /\ Return(init(machine, k))
       /\ used' = used \cup {k}
       /\ host' = machine'.public_key
  /\ UNCHANGED <<call, secrets, written>>

\* Nothing checks that the envelope is that of the public key.
genesis_load ==
  /\ Enter("Uninitialized")
  /\ \E p, e \in Key \cup {Garbage} :
       /\ Return(load(machine, p, e))
       /\ used' = used \cup ({p, e} \cap Key)
  /\ UNCHANGED <<call, secrets, host, written>>

genesis_verify ==
  /\ Enter("Initialized")
  /\ Return(verify(machine))
  /\ UNCHANGED <<call, secrets, used, host, written>>

genesis_begin_bootstrap ==
  /\ Enter("Initialized")
  /\ Return(begin_bootstrap(machine))
  /\ written' = {}
  /\ UNCHANGED <<call, secrets, used, host>>

\* A Rust host only: the C interface has no such calls.
Seal ==
  /\ Enter("Initialized")
  /\ Return(seal(machine)) \/ Return(unseal(machine))
  /\ UNCHANGED <<call, secrets, used, host, written>>

AbortBootstrap ==
  /\ Enter("Bootstrapping")
  /\ Return(abort(machine))
  /\ UNCHANGED <<call, secrets, used, host, written>>

\* inject_secret(s): with no target the machine is dropped with its key;
\* else the key material is taken out of it and the requests begin.
genesis_inject_secrets ==
  /\ Enter("Bootstrapping")
  /\ \E targets \in Requests :
       IF targets = <<>>
         THEN Return(drop(machine)) /\ UNCHANGED call
         ELSE /\ call' = [op |-> "inject", key |-> machine.key_material, todo |-> targets,
                          sent |-> {}, request |-> "POST"]
              /\ machine' = [machine EXCEPT !.key_material = None]
              /\ UNCHANGED auditor
  /\ UNCHANGED <<secrets, used, host, written>>

\* The snapshot of an Active machine.
genesis_status ==
  /\ Enter("Active")
  /\ host' = status(machine)
  /\ UNCHANGED <<machine, call, secrets, used, auditor, written>>

genesis_begin_rotation ==
  /\ Enter("Active")
  /\ Return(begin_rotation(machine))
  /\ UNCHANGED <<call, secrets, used, host, written>>

genesis_abort_rotation ==
  /\ Enter("Rotating")
  /\ Return(abort_rotation(machine))
  /\ UNCHANGED <<call, secrets, used, host, written>>

\* complete_rotation up to the request: a new keypair, and its envelope.
genesis_complete_rotation ==
  /\ Enter("Rotating")
  /\ \E k \in Key \ used, t \in Target :
       /\ used' = used \cup {k}
       /\ \/ call' = [op |-> "rotate", key |-> k, todo |-> <<t>>, sent |-> {}, request |-> "POST"]
             /\ UNCHANGED machine
          \/ machine' = Gone /\ UNCHANGED call
  /\ UNCHANGED <<secrets, host, auditor, written>>

genesis_free ==
  /\ call.op = "none"
  /\ machine # Gone
  /\ Return(drop(machine))
  /\ UNCHANGED <<call, secrets, used, host, written>>

-----------------------------------------------------------------------------
(***************************************************************************)
(* k8s/inject.rs: POST, and PUT when the Secret is there already.  A       *)
(* request that fails may have been carried out, its answer lost.          *)
(***************************************************************************)
\* Bug: the metadata of a rotation has the old public key.
Bugsecret_body == [key |-> call.key, fingerprint |-> machine.public_key, vouched |-> auditor.vouched]

\* secret_body with the metadata of the call; a rotation's has the new key.
secret_body ==
  [key |-> call.key,
   fingerprint |-> IF call.op = "rotate" THEN call.key ELSE machine.public_key,
   vouched |-> call.op = "rotate" \/ auditor.vouched]

Write(t) ==
  /\ secrets' = [secrets EXCEPT ![t] = secret_body]
  /\ written' = IF call.op = "inject" THEN written \cup {t} ELSE written

Answered(t) ==
  /\ call' = [call EXCEPT !.todo = Tail(call.todo), !.sent = call.sent \cup {t}, !.request = "POST"]
  /\ UNCHANGED machine

\* Bug: the machine is handed back, without the key material it had.
BugFailed == call' = Idle /\ UNCHANGED machine

\* The error leaves no machine and no event: Drop finds no key material.
Failed == call' = Idle /\ machine' = Gone

\* Bug: a target that fails is skipped.
BugPost ==
  LET t == Head(call.todo) IN
  /\ call.request = "POST"
  /\ \/ secrets[t] = None /\ Write(t) /\ Answered(t)
     \/ /\ secrets[t] # None
        /\ call' = [call EXCEPT !.request = "PUT"]
        /\ UNCHANGED <<machine, secrets, written>>
     \/ Answered(t) /\ UNCHANGED <<secrets, written>>

Post ==
  LET t == Head(call.todo) IN
  /\ call.request = "POST"
  /\ \/ secrets[t] = None /\ Write(t) /\ Answered(t)
     \/ /\ secrets[t] # None
        /\ call' = [call EXCEPT !.request = "PUT"]
        /\ UNCHANGED <<machine, secrets, written>>
     \/ Failed /\ UNCHANGED <<secrets, written>>
     \/ Failed /\ secrets[t] = None /\ Write(t)

\* A Secret deleted in between is not there to be updated.
Put ==
  LET t == Head(call.todo) IN
  /\ call.request = "PUT"
  /\ \/ secrets[t] # None /\ Write(t) /\ Answered(t)
     \/ Failed /\ UNCHANGED <<secrets, written>>
     \/ Failed /\ secrets[t] # None /\ Write(t)

Inject ==
  /\ call.op # "none" /\ call.todo # <<>>
  /\ Post \/ Put
  /\ UNCHANGED <<used, host, auditor>>

Done(op) == call.op = op /\ call.todo = <<>> /\ call' = Idle

\* The end of inject_secret(s): the machine is Active.
Injected ==
  /\ Done("inject")
  /\ Return({Outcome([machine EXCEPT !.state = "Active"],
                     Event("InjectSecret", None, call.sent, TRUE), call.key)})
  /\ UNCHANGED <<secrets, used, host, written>>

\* Bug: the machine keeps its old public key.
BugRotated ==
  /\ Done("rotate")
  /\ Return({Outcome([machine EXCEPT !.state = "Active", !.envelope = call.key],
                     Event("CompleteRotation", call.key, {}, FALSE), call.key)})
  /\ host' = call.key
  /\ UNCHANGED <<secrets, used, written>>

\* The end of complete_rotation: the new pair is the machine's, and the
\* artifacts go to the host.
Rotated ==
  /\ Done("rotate")
  /\ Return({Outcome([machine EXCEPT !.state = "Active", !.public_key = call.key,
                                     !.envelope = call.key],
                     Event("CompleteRotation", call.key, {}, FALSE), call.key)})
  /\ host' = call.key
  /\ UNCHANGED <<secrets, used, written>>

-----------------------------------------------------------------------------
\* The process is killed; the trail stays where it was written.
Crash ==
  /\ machine # Gone
  /\ machine' = Gone /\ call' = Idle /\ host' = None
  /\ UNCHANGED <<secrets, used, auditor, written>>

\* Somebody else deletes a Secret, or creates it.
Meddle(t) ==
  /\ secrets' = [secrets EXCEPT ![t] = IF @ = None THEN Foreign ELSE None]
  /\ UNCHANGED <<machine, call, used, host, auditor, written>>

Entry ==
  \/ genesis_new \/ genesis_init \/ genesis_load \/ genesis_verify
  \/ genesis_begin_bootstrap \/ genesis_inject_secrets \/ genesis_status
  \/ genesis_begin_rotation \/ genesis_abort_rotation \/ genesis_complete_rotation
  \/ genesis_free

Next ==
  \/ Entry \/ Seal \/ AbortBootstrap
  \/ Inject \/ Injected \/ Rotated
  \/ Crash
  \/ \E t \in Target : Meddle(t)

Spec == Init /\ [][Next]_vars

-----------------------------------------------------------------------------
(***************************************************************************)
(* Safety.                                                                 *)
(***************************************************************************)
Alive == machine.state # "Gone" /\ call.op = "none"

\* A reader of the trail knows the state of a machine that waits for a call
\* (Load is the one step that leaves no event), and whether it has a private
\* key in its memory.
TrailTellsState ==
  Alive => /\ auditor.phase \in {machine.state} \cup
                (IF machine.state = "Initialized" THEN {"Uninitialized"} ELSE {})
           /\ auditor.window <=> machine.key_material # None

\* Once the trail has vouched for the pair (Init, a successful Verify,
\* CompleteRotation), the machine's envelope is that of its public key, for
\* as long as the machine lives, and the public key the host was last given
\* is the machine's.
VouchedPairMatches ==
  /\ machine.state # "Gone" /\ auditor.vouched => machine.envelope = machine.public_key
  /\ Alive /\ host # None => host = machine.public_key

\* A Secret written by a machine whose pair the trail had vouched for says
\* the truth about the key it holds.
FingerprintTrue ==
  \A t \in Target : secrets[t] # None /\ secrets[t].vouched =>
                      secrets[t].fingerprint = secrets[t].key

\* The trail of a machine that waits for a call names exactly the Secrets
\* that its bootstrap has written: none before it has had its answer, and none
\* that was skipped.
TrailNamesSecrets == Alive => auditor.told = written

\* The abstract lifecycle: a machine that a call has consumed is still in
\* its phase while the call runs.
Lifecycle == INSTANCE GenesisLifecycle WITH
  phase <- machine.state,
  exposed <- machine.key_material # None \/ call.op # "none",
  wanted <- call.sent \cup {call.todo[i] : i \in DOMAIN call.todo},
  served <- call.sent

ImplementsLifecycle == Lifecycle!Spec

-----------------------------------------------------------------------------
(***************************************************************************)
(* The inductive invariant.                                                *)
(***************************************************************************)
CallInOrder ==
  /\ call.op = "none" => call = Idle
  /\ call.op = "inject" => machine.state = "Bootstrapping" /\ machine.key_material = None
  /\ call.op = "rotate" => machine.state = "Rotating" /\ machine.key_material = None
  /\ call.op # "none" => call.key \in Key /\ \/ call.todo # <<>>
                                             \/ call.sent # {}

MaterialInOrder ==
  /\ machine.state = "Gone" => machine = Gone
  /\ machine.key_material # None => machine.state = "Bootstrapping"
  /\ machine.state = "Bootstrapping" => machine.envelope \in Key /\
       IF call.op = "none" THEN machine.key_material = machine.envelope
                           ELSE call.op = "inject" /\ call.key = machine.envelope

TrailInOrder ==
  /\ machine.state # "Gone" =>
       /\ auditor.phase \in {machine.state} \cup
            (IF machine.state = "Initialized" THEN {"Uninitialized"} ELSE {})
       /\ auditor.window <=> machine.key_material # None \/ call.op = "inject"
       /\ host # None => host = machine.public_key
       /\ machine.state = "Uninitialized" =>
            auditor.phase = "Uninitialized" /\ ~auditor.vouched /\ host = None

TellsWritten ==
  machine.state # "Gone" =>
    written = auditor.told \cup (IF call.op = "inject" THEN call.sent ELSE {})

IInv ==
  /\ TypeOK
  /\ CallInOrder /\ MaterialInOrder /\ TrailInOrder /\ TellsWritten
  /\ VouchedPairMatches /\ FingerprintTrue
=============================================================================
