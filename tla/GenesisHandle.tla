--------------------------- MODULE GenesisHandle ---------------------------
(***************************************************************************)
(* The state machine of genesis-core behind its C interface, and the Go    *)
(* handles to it (genesis-core/src/ffi.rs, state.rs, internal/bridge), as  *)
(* the two reconcilers of one operator process use them.                   *)
(*                                                                         *)
(* A machine lives in a heap block.  Every call moves it out of its block, *)
(* which is freed at once, onto the stack of the calling worker, and puts  *)
(* the machine it leaves into a new block, wherever the allocator finds    *)
(* one.  Rust tells Go the new address in the result; on some errors there *)
(* is no machine left, the result carries a null pointer, and Go keeps the *)
(* address it had.                                                         *)
(***************************************************************************)
EXTENDS Integers

CONSTANTS
  Addr,   \* heap addresses; an allocation waits for a free one
  Null    \* the null pointer

ASSUME NullAssumption == Null \notin Addr

Worker == {"boot", "rot"}                \* the two reconcilers
Handle == Worker \cup {"tracked"}        \* their local handles; r.genesisHandle

\* GenesisInner.  No call builds a Degraded machine.
Machine == {"Uninitialized", "Initialized", "Bootstrapping", "Active", "Rotating"}
Free == "free"                           \* a block that holds no machine
None == "none"                           \* no machine on the stack

\* What a worker does next: the names of the calls, and "idle", "track", "assign".
BootPc == {"idle", "load", "begin", "inject", "track", "assign", "free"}
RotPc == {"idle", "load", "begin", "inject", "rotate", "complete", "abort", "free"}

VARIABLES
  heap,      \* the machine in each block, or Free
  ptr,       \* Handle.inner.ptr
  tag,       \* Handle.inner.state
  pc,        \* what each worker does next
  hand,      \* the machine a call of the handle has moved to the stack
  dangling,  \* history: handles whose block is freed for good
  ub         \* history: a dangling handle has been used, and the process lives

vars == <<heap, ptr, tag, pc, hand, dangling, ub>>

TypeOK ==
  /\ heap \in [Addr -> Machine \cup {Free}]
  /\ ptr \in [Handle -> Addr \cup {Null}]
  /\ tag \in [Handle -> Machine]
  /\ pc \in [Worker -> BootPc \cup RotPc] /\ pc["boot"] \in BootPc /\ pc["rot"] \in RotPc
  /\ hand \in [Handle -> Machine \cup {None}]
  /\ dangling \in SUBSET Handle
  /\ ub \in BOOLEAN

Start ==
  [heap |-> [a \in Addr |-> Free], ptr |-> [h \in Handle |-> Null],
   tag |-> [h \in Handle |-> "Uninitialized"], pc |-> [w \in Worker |-> "idle"],
   hand |-> [h \in Handle |-> None]]

Init ==
  /\ heap = Start.heap /\ ptr = Start.ptr /\ tag = Start.tag
  /\ pc = Start.pc /\ hand = Start.hand
  /\ dangling = {} /\ ub = FALSE

-----------------------------------------------------------------------------
Goto(w, step) == pc' = [pc EXCEPT ![w] = step]

\* Bug: the pointer is taken over but not the state.
BugBox(h, m) ==
  \E a \in Addr :
    /\ heap[a] = Free
    /\ heap' = [heap EXCEPT ![a] = m]
    /\ ptr' = [ptr EXCEPT ![h] = a]
    /\ UNCHANGED tag

\* inner_to_handle, and recoverHandle with the pointer it returned.
Box(h, m) ==
  \E a \in Addr :
    /\ heap[a] = Free
    /\ heap' = [heap EXCEPT ![a] = m]
    /\ ptr' = [ptr EXCEPT ![h] = a]
    /\ tag' = [tag EXCEPT ![h] = m]

\* Using the pointer of a dangling handle hits the block that has been
\* allocated at that address since, if any: its owner dangles from then on.
Victims(h) ==
  {g \in Handle \ dangling : g # h /\ ptr[g] = ptr[h] /\ hand[g] = None}

UsePtr(h) ==
  /\ heap' = [heap EXCEPT ![ptr[h]] = Free]
  /\ dangling' = (dangling \ {h}) \cup (IF h \in dangling THEN Victims(h) ELSE {})
  /\ ub' = (ub \/ h \in dangling)

\* Bug: Free leaves the pointer in the handle.
BugRelease(h) == UsePtr(h) /\ UNCHANGED <<ptr, tag, hand>>

\* genesis_free, and Free, which sets the pointer to nil.
Release(h) ==
  /\ UsePtr(h)
  /\ ptr' = [ptr EXCEPT ![h] = Null]
  /\ UNCHANGED <<tag, hand>>

\* genesis_new and New; an error leaves no handle and nothing to do.
New(w) ==
  /\ pc[w] = "idle"
  /\ Box(w, "Uninitialized")
  /\ Goto(w, "load")
  /\ UNCHANGED <<hand, dangling, ub>>

\* take_inner, at the start of every call.  A freed block that nobody has
\* reused yields whatever it held last.
Take(w) ==
  /\ pc[w] \in {"load", "begin", "inject", "rotate", "complete", "abort"}
  /\ hand[w] = None /\ ptr[w] # Null
  /\ \E m \in IF heap[ptr[w]] = Free THEN Machine ELSE {heap[ptr[w]]} :
       hand' = [hand EXCEPT ![w] = m]
  /\ UsePtr(w)
  /\ UNCHANGED <<ptr, tag, pc>>

\* The call goes well: the machine gives its next state.
Succeed(w, need, give, next) ==
  /\ hand[w] = need
  /\ Box(w, give)
  /\ Goto(w, next)
  /\ UNCHANGED dangling

\* An error found before the machine is given away (the wrong state, a bad
\* argument, no provider, no service account) hands it back.
Refuse(w, next) ==
  /\ Box(w, hand[w])
  /\ Goto(w, next)
  /\ UNCHANGED dangling

\* An error of the operation that consumed the machine.
Lose(w, need, next) ==
  /\ hand[w] = need
  /\ dangling' = dangling \cup {w}
  /\ Goto(w, next)
  /\ UNCHANGED <<heap, ptr, tag>>

Return(w, call) ==
  /\ pc[w] = call /\ hand[w] # None
  /\ hand' = [hand EXCEPT ![w] = None]
  /\ UNCHANGED ub

\* Load; a ciphertext that is not base64 or is empty never gets to it.
Load(w) ==
  /\ Return(w, "load")
  /\ \/ Succeed(w, "Uninitialized", "Initialized", "begin")
     \/ Refuse(w, "free")

\* BeginBootstrap: the KMS decrypts the envelope.
BeginBootstrap(w) ==
  /\ Return(w, "begin")
  /\ \/ Succeed(w, "Initialized", "Bootstrapping", "inject")
     \/ Refuse(w, "free")
     \/ Lose(w, "Initialized", "free")

\* Bug: the rotation goes on when InjectSecret hands its machine back.
BugInjectSecret(w) ==
  /\ Return(w, "inject")
  /\ \/ Succeed(w, "Bootstrapping", "Active", IF w = "boot" THEN "track" ELSE "rotate")
     \/ Refuse(w, IF w = "boot" THEN "free" ELSE "rotate")
     \/ Lose(w, "Bootstrapping", "free")

\* InjectSecrets of the bootstrap, InjectSecret of the rotation.
InjectSecret(w) ==
  /\ Return(w, "inject")
  /\ \/ Succeed(w, "Bootstrapping", "Active", IF w = "boot" THEN "track" ELSE "rotate")
     \/ Refuse(w, "free")
     \/ Lose(w, "Bootstrapping", "free")

\* BeginRotation fails only in a wrong state.
BeginRotation(w) ==
  /\ Return(w, "rotate")
  /\ \/ Succeed(w, "Active", "Rotating", "complete")
     \/ hand[w] # "Active" /\ Refuse(w, "free")

\* CompleteRotation; Rotate aborts the rotation after any error of it.
CompleteRotation(w) ==
  /\ Return(w, "complete")
  /\ \/ Succeed(w, "Rotating", "Active", "free")
     \/ Refuse(w, "abort")
     \/ Lose(w, "Rotating", "abort")

AbortRotation(w) ==
  /\ Return(w, "abort")
  /\ \/ Succeed(w, "Rotating", "Active", "free")
     \/ hand[w] # "Rotating" /\ Refuse(w, "free")

\* Bug: an error path returns without Free.
BugFreeLocal(w) ==
  /\ pc[w] = "free"
  /\ ptr' = [ptr EXCEPT ![w] = Null]
  /\ Goto(w, "idle")
  /\ UNCHANGED <<heap, tag, hand, dangling, ub>>

\* The error paths of Bootstrap, and the deferred Free of Rotate.
FreeLocal(w) ==
  /\ pc[w] = "free"
  /\ IF ptr[w] = Null THEN UNCHANGED <<heap, ptr, tag, hand, dangling, ub>> ELSE Release(w)
  /\ Goto(w, "idle")

\* Bug: the handle tracked so far is dropped without Free.
BugTrack ==
  /\ pc["boot"] = "track"
  /\ ptr' = [ptr EXCEPT !["tracked"] = Null]
  /\ Goto("boot", "assign")
  /\ UNCHANGED <<heap, tag, hand, dangling, ub>>

\* Reconcile frees the tracked handle and then tracks the new one.
Track ==
  /\ pc["boot"] = "track"
  /\ IF ptr["tracked"] = Null
       THEN UNCHANGED <<heap, ptr, tag, hand, dangling, ub>>
       ELSE Release("tracked")
  /\ Goto("boot", "assign")

Assign ==
  /\ pc["boot"] = "assign"
  /\ ptr' = [ptr EXCEPT !["tracked"] = ptr["boot"], !["boot"] = Null]
  /\ tag' = [tag EXCEPT !["tracked"] = tag["boot"]]
  /\ dangling' = IF "boot" \in dangling THEN (dangling \ {"boot"}) \cup {"tracked"} ELSE dangling
  /\ Goto("boot", "idle")
  /\ UNCHANGED <<heap, hand, ub>>

\* handleDeletion of any CR frees the one tracked handle.
Deletion ==
  /\ pc["boot"] = "idle" /\ ptr["tracked"] # Null
  /\ Release("tracked")
  /\ UNCHANGED pc

\* The process is killed, or dies of what a dangling handle did to it.
Restart ==
  /\ heap' = Start.heap /\ ptr' = Start.ptr /\ tag' = Start.tag
  /\ pc' = Start.pc /\ hand' = Start.hand
  /\ dangling' = {} /\ ub' = FALSE

WorkerNext(w) ==
  \/ New(w) \/ Take(w) \/ Load(w) \/ BeginBootstrap(w) \/ InjectSecret(w)
  \/ FreeLocal(w)

RotationNext == BeginRotation("rot") \/ CompleteRotation("rot") \/ AbortRotation("rot")

Next ==
  \/ \E w \in Worker : WorkerNext(w)
  \/ RotationNext
  \/ Track \/ Assign \/ Deletion \/ Restart

Spec == Init /\ [][Next]_vars

-----------------------------------------------------------------------------
(***************************************************************************)
(* Safety, as long as no dangling handle has been used.                    *)
(***************************************************************************)
Owns(h, a) == ptr[h] = a /\ h \notin dangling /\ hand[h] = None

\* Every machine has exactly one handle: none is leaked by an error path, and
\* none is shared by the two reconcilers.
OneOwner ==
  ~ub => \A a \in Addr : heap[a] # Free =>
           \E h \in Handle : Owns(h, a) /\ \A g \in Handle : Owns(g, a) => g = h

\* Go's idea of the state, which goes into the CR's status, is the machine's.
TagsFaithful ==
  ~ub => \A h \in Handle : ptr[h] # Null /\ Owns(h, ptr[h]) => heap[ptr[h]] = tag[h]

\* Neither reconciler ever makes a call in a state that refuses it.
Needs ==
  [load |-> "Uninitialized", begin |-> "Initialized", inject |-> "Bootstrapping",
   rotate |-> "Active", complete |-> "Rotating", abort |-> "Rotating"]
CallsInOrder ==
  ~ub => \A w \in Worker : hand[w] # None => pc[w] \in DOMAIN Needs /\ hand[w] = Needs[pc[w]]

\* Between reconciles one machine is left at most, the tracked one, and it
\* is Active: no decrypted key stays in memory, whatever failed before.
NothingLeftBehind ==
  ~ub /\ (\A w \in Worker : pc[w] = "idle") =>
    \A a \in Addr : heap[a] # Free => heap[a] = "Active" /\ ptr["tracked"] = a

(***************************************************************************)
(* The inductive invariant.                                                *)
(***************************************************************************)

\* What a worker's handle is like at each of its steps.
HandleAtStep(w) ==
  /\ pc[w] \in {"idle"} => ptr[w] = Null
  /\ pc[w] \notin {"idle"} => ptr[w] # Null
  /\ hand[w] # None => pc[w] \in DOMAIN Needs /\ hand[w] = Needs[pc[w]] /\ w \notin dangling
  /\ hand[w] = None /\ w \notin dangling /\ pc[w] \in DOMAIN Needs => tag[w] = Needs[pc[w]]
  /\ pc[w] \in {"track", "assign"} => tag[w] = "Active"
  /\ w \in dangling => pc[w] \in {"abort", "free"}

IInv ==
  /\ TypeOK
  /\ OneOwner /\ TagsFaithful
  /\ ~ub =>
       /\ \A w \in Worker : HandleAtStep(w)
       /\ hand["tracked"] = None /\ "tracked" \notin dangling
       /\ ptr["tracked"] # Null => tag["tracked"] = "Active"
       /\ pc["boot"] = "assign" => ptr["tracked"] = Null
       /\ \A g, h \in Handle : ptr[g] # Null /\ Owns(g, ptr[g]) /\ Owns(h, ptr[g]) => g = h
=============================================================================
