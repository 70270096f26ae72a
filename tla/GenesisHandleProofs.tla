------------------------ MODULE GenesisHandleProofs ------------------------
(***************************************************************************)
(* Proofs about GenesisHandle, for every set of addresses: as long as no   *)
(* dangling handle is used, the ownership discipline of bridge and ffi.rs  *)
(* holds in every interleaving of the two reconcilers.                     *)
(*                                                                         *)
(* The ownership part of the invariant is stated again in the form the     *)
(* steps preserve: owners have a block each, with the machine their tag    *)
(* names, and every block has an owner.                                    *)
(***************************************************************************)
EXTENDS GenesisHandle, TLAPS

Owner(h) == ptr[h] # Null /\ h \notin dangling /\ hand[h] = None

Ownership ==
  /\ \A h \in Handle : Owner(h) => heap[ptr[h]] = tag[h]
  /\ \A g, h \in Handle : Owner(g) /\ Owner(h) /\ ptr[g] = ptr[h] => g = h
  /\ \A a \in Addr : heap[a] # Free => \E h \in Handle : Owner(h) /\ ptr[h] = a

Protocol ==
  /\ \A w \in Worker : HandleAtStep(w)
  /\ hand["tracked"] = None /\ "tracked" \notin dangling
  /\ ptr["tracked"] # Null => tag["tracked"] = "Active"
  /\ pc["boot"] = "assign" => ptr["tracked"] = Null

Good == TypeOK /\ (~ub => Ownership /\ Protocol)

\* The two forms of the invariant are the same.
LEMMA GoodIsIInv == Good <=> IInv
<1>1. TypeOK => \A h \in Handle : ptr[h] \in Addr \cup {Null}
  BY DEF TypeOK
<1>2. ASSUME Good PROVE IInv
  BY <1>1, <1>2, NullAssumption
  DEF Good, Ownership, Protocol, IInv, OneOwner, TagsFaithful, Owns, Owner
<1>3. ASSUME IInv PROVE Good
  BY <1>1, <1>3, NullAssumption
  DEF Good, Ownership, Protocol, IInv, OneOwner, TagsFaithful, Owns, Owner
<1> QED
  BY <1>2, <1>3

\* A process that has just started.
Fresh ==
  /\ heap = Start.heap /\ ptr = Start.ptr /\ tag = Start.tag /\ pc = Start.pc
  /\ hand = Start.hand /\ dangling = {}

LEMMA FreshIsGood == Fresh => Ownership /\ Protocol
<1> SUFFICES ASSUME Fresh PROVE Ownership /\ Protocol
  OBVIOUS
<1>1. /\ \A a \in Addr : heap[a] = Free
      /\ \A h \in Handle : ptr[h] = Null /\ hand[h] = None
      /\ \A w \in Worker : pc[w] = "idle"
  BY DEF Fresh, Start
<1>2. Ownership
  BY <1>1 DEF Ownership, Owner
<1>3. ASSUME NEW w \in Worker PROVE HandleAtStep(w)
  BY <1>1, <1>3 DEF HandleAtStep, Needs, Handle, Fresh
<1> QED
  BY <1>1, <1>2, <1>3 DEF Protocol, Handle, Worker, Fresh

LEMMA InitGood == Init => Good
<1> SUFFICES ASSUME Init PROVE Good
  OBVIOUS
<1>1. TypeOK
  BY DEF Init, Start, TypeOK, Machine, BootPc, RotPc, Worker
<1> QED
  BY <1>1, FreshIsGood DEF Init, Fresh, Good

\* Boxing a machine types the handle and its block.
LEMMA BoxType ==
  ASSUME TypeOK, NEW h \in Handle, NEW m \in Machine, Box(h, m)
  PROVE  /\ heap' \in [Addr -> Machine \cup {Free}] /\ ptr' \in [Handle -> Addr \cup {Null}]
         /\ tag' \in [Handle -> Machine]
  BY DEF TypeOK, Box

LEMMA TypeStep == TypeOK /\ [Next]_vars => TypeOK'
<1> SUFFICES ASSUME TypeOK, [Next]_vars PROVE TypeOK'
  OBVIOUS
<1>0. /\ \A w \in Worker : w \in Handle /\ w \in {"boot", "rot"}
      /\ "boot" \in Handle /\ "tracked" \in Handle /\ "rot" \in Worker /\ "boot" \in Worker
  BY DEF Handle, Worker
<1>1. ASSUME NEW w \in Worker, WorkerNext(w) \/ (w = "rot" /\ RotationNext) PROVE TypeOK'
  <2>1. CASE New(w)
    BY <1>0, <1>1, <2>1, BoxType DEF New, Goto, TypeOK, Machine, BootPc, RotPc
  <2>2. CASE Take(w)
    BY <1>0, <1>1, <2>2 DEF Take, UsePtr, Victims, TypeOK, Free
  <2>3. CASE FreeLocal(w)
    BY <1>0, <1>1, <2>3 DEF FreeLocal, Release, UsePtr, Victims, Goto, TypeOK, BootPc, RotPc
  <2>4. CASE \/ Load(w) \/ BeginBootstrap(w) \/ InjectSecret(w)
             \/ w = "rot" /\ RotationNext
    <3>1. /\ hand[w] \in Machine /\ hand' \in [Handle -> Machine \cup {None}] /\ ub' \in BOOLEAN
      BY <1>0, <2>4
      DEF TypeOK, Load, BeginBootstrap, InjectSecret, RotationNext, BeginRotation,
          CompleteRotation, AbortRotation, Return, None
    <3>2. \/ (\E m \in Machine : Box(w, m)) /\ UNCHANGED dangling
          \/ dangling' = dangling \cup {w} /\ UNCHANGED <<heap, ptr, tag>>
      BY <2>4, <3>1
      DEF Load, BeginBootstrap, InjectSecret, RotationNext, BeginRotation, CompleteRotation,
          AbortRotation, Succeed, Refuse, Lose, Machine
    <3>3. /\ heap' \in [Addr -> Machine \cup {Free}] /\ ptr' \in [Handle -> Addr \cup {Null}]
          /\ tag' \in [Handle -> Machine] /\ dangling' \in SUBSET Handle
      BY <1>0, <3>2, BoxType DEF TypeOK
    <3>4. \E step : /\ pc' = [pc EXCEPT ![w] = step]
                    /\ step \in {"begin", "free", "inject", "rotate", "complete", "abort", "track"}
                    /\ step = "track" => w = "boot"
                    /\ step \in {"rotate", "complete", "abort"} => w = "rot"
      BY <1>0, <2>4
      DEF Load, BeginBootstrap, InjectSecret, RotationNext, BeginRotation, CompleteRotation,
          AbortRotation, Succeed, Refuse, Lose, Goto
    <3>5. pc' \in [Worker -> BootPc \cup RotPc] /\ pc'["boot"] \in BootPc /\ pc'["rot"] \in RotPc
      BY <1>0, <3>4 DEF TypeOK, BootPc, RotPc
    <3> QED
      BY <3>1, <3>3, <3>5 DEF TypeOK
  <2> QED
    BY <1>1, <2>1, <2>2, <2>3, <2>4 DEF WorkerNext
<1>2. CASE Track
  BY <1>0, <1>2 DEF Track, Release, UsePtr, Victims, Goto, TypeOK, BootPc, RotPc
<1>3. CASE Assign
  BY <1>0, <1>3 DEF Assign, Goto, TypeOK, BootPc, RotPc
<1>4. CASE Deletion
  BY <1>0, <1>4 DEF Deletion, Release, UsePtr, Victims, TypeOK
<1>5. CASE Restart
  BY <1>0, <1>5 DEF Restart, Start, TypeOK, Machine, BootPc, RotPc
<1>6. CASE UNCHANGED vars
  BY <1>6 DEF vars, TypeOK
<1> QED
  BY <1>0, <1>1, <1>2, <1>3, <1>4, <1>5, <1>6 DEF Next

(***************************************************************************)
(* Ownership: what each use of a handle does to it.                        *)
(***************************************************************************)

\* A machine put in a block by a handle that owned none.
LEMMA BoxOwnership ==
  ASSUME TypeOK, Ownership, NEW h \in Handle, NEW m \in Machine, Box(h, m),
         ~Owner(h), h \notin dangling, dangling' = dangling,
         \A g \in Handle : g # h => hand'[g] = hand[g], hand'[h] = None
  PROVE  Ownership' /\ ptr'[h] # Null /\ tag'[h] = m
<1>1. PICK a \in Addr : /\ heap[a] = Free
                        /\ heap' = [heap EXCEPT ![a] = m]
                        /\ ptr' = [ptr EXCEPT ![h] = a]
                        /\ tag' = [tag EXCEPT ![h] = m]
  BY DEF Box
<1>2. ptr'[h] = a /\ tag'[h] = m /\ heap'[a] = m /\ Owner(h)'
  BY <1>1, NullAssumption DEF TypeOK, Owner
<1>3. \A g \in Handle : g # h => /\ ptr'[g] = ptr[g] /\ tag'[g] = tag[g]
                                 /\ (Owner(g)' <=> Owner(g))
                                 /\ Owner(g) => ptr[g] # a /\ heap'[ptr[g]] = heap[ptr[g]]
  BY <1>1 DEF TypeOK, Owner, Ownership, Machine, Free
<1>4. \A g \in Handle : Owner(g)' => heap'[ptr'[g]] = tag'[g]
  BY <1>2, <1>3 DEF Ownership
<1>5. \A g, k \in Handle : Owner(g)' /\ Owner(k)' /\ ptr'[g] = ptr'[k] => g = k
  BY <1>2, <1>3 DEF Ownership
<1>6. ASSUME NEW b \in Addr, heap'[b] # Free
      PROVE  \E g \in Handle : Owner(g)' /\ ptr'[g] = b
  <2>1. CASE b = a
    BY <1>2, <2>1
  <2>2. CASE b # a
    <3>1. heap[b] # Free
      BY <1>1, <1>6, <2>2 DEF TypeOK
    <3>2. PICK g \in Handle : Owner(g) /\ ptr[g] = b
      BY <3>1 DEF Ownership
    <3>3. g # h
      BY <3>2
    <3> QED
      BY <1>3, <3>2, <3>3
  <2> QED
    BY <2>1, <2>2
<1> QED
  BY <1>2, <1>4, <1>5, <1>6, NullAssumption DEF Ownership

\* An owner that gives up its block, by freeing it or by a call.
LEMMA UseOwnership ==
  ASSUME TypeOK, Ownership, NEW h \in Handle, Owner(h), UsePtr(h), tag' = tag,
         \A g \in Handle : g # h => ptr'[g] = ptr[g] /\ hand'[g] = hand[g],
         ptr'[h] = Null \/ hand'[h] # None
  PROVE  Ownership' /\ dangling' = dangling
<1>1. dangling' = dangling /\ ptr[h] \in Addr
  BY DEF UsePtr, Owner, TypeOK
<1>2. ~Owner(h)' /\ \A g \in Handle : g # h => (Owner(g)' <=> Owner(g))
  BY <1>1 DEF Owner
<1>3. \A g \in Handle : g # h /\ Owner(g) => ptr[g] # ptr[h] /\ heap'[ptr[g]] = heap[ptr[g]]
  BY <1>1 DEF UsePtr, TypeOK, Ownership, Owner
<1>4. ASSUME NEW b \in Addr, heap'[b] # Free
      PROVE  \E g \in Handle : Owner(g)' /\ ptr'[g] = b
  <2>1. heap[b] # Free /\ b # ptr[h]
    BY <1>1, <1>4 DEF UsePtr, TypeOK
  <2>2. PICK g \in Handle : Owner(g) /\ ptr[g] = b
    BY <2>1 DEF Ownership
  <2> QED
    BY <1>2, <2>1, <2>2
<1>5. \A g \in Handle : Owner(g)' => heap'[ptr'[g]] = tag'[g]
  BY <1>2, <1>3 DEF Ownership
<1>6. \A g, k \in Handle : Owner(g)' /\ Owner(k)' /\ ptr'[g] = ptr'[k] => g = k
  BY <1>2 DEF Ownership
<1> QED
  BY <1>1, <1>4, <1>5, <1>6 DEF Ownership

(***************************************************************************)
(* The steps of the calls, all of which leave the other worker alone.      *)
(***************************************************************************)

\* At every step but "idle", a worker that is in no call and whose handle
\* does not dangle owns a block.
LEMMA WorkerOwns ==
  ASSUME Protocol, NEW w \in Worker, pc[w] # "idle", hand[w] = None, w \notin dangling
  PROVE  Owner(w)
  BY DEF Protocol, HandleAtStep, Owner

\* Protocol, when only the variables of worker w change.
LEMMA OnlyWorker ==
  ASSUME TypeOK, Protocol, NEW w \in Worker, HandleAtStep(w)',
         \A g \in Handle : g # w => /\ ptr'[g] = ptr[g] /\ tag'[g] = tag[g] /\ hand'[g] = hand[g]
                                   /\ (g \in dangling' <=> g \in dangling),
         \A v \in Worker : v # w => pc'[v] = pc[v],
         pc'[w] # "assign"
  PROVE  Protocol'
<1>1. w \in Handle /\ w # "tracked" /\ "tracked" \in Handle /\ "boot" \in Worker
      /\ \A v \in Worker : v \in Handle
  BY DEF Handle, Worker
<1>2. ASSUME NEW v \in Worker, v # w PROVE HandleAtStep(v)'
  BY <1>1, <1>2 DEF Protocol, HandleAtStep
<1>3. pc'["boot"] = "assign" => pc["boot"] = "assign"
  BY <1>1
<1> QED
  BY <1>1, <1>2, <1>3 DEF Protocol

LEMMA NewStep ==
  ASSUME TypeOK, Ownership, Protocol, NEW w \in Worker, New(w)
  PROVE  Ownership' /\ Protocol'
<1>0. w \in Handle /\ w # "tracked" /\ "Uninitialized" \in Machine
  BY DEF Handle, Worker, Machine
<1>1. ptr[w] = Null /\ hand[w] = None /\ w \notin dangling
  BY DEF New, Protocol, HandleAtStep, Needs
<1>2. Ownership' /\ ptr'[w] # Null /\ tag'[w] = "Uninitialized"
  BY <1>0, <1>1, BoxOwnership DEF New, Owner
<1>3. pc'[w] = "load" /\ \A v \in Worker : v # w => pc'[v] = pc[v]
  BY DEF New, Goto, TypeOK
<1>4. HandleAtStep(w)'
  BY <1>1, <1>2, <1>3 DEF New, HandleAtStep, Needs
<1>5. \A g \in Handle : g # w => ptr'[g] = ptr[g] /\ tag'[g] = tag[g] /\ hand'[g] = hand[g]
  BY <1>0 DEF New, Box, TypeOK
<1> QED
  BY <1>2, <1>3, <1>4, <1>5, OnlyWorker DEF New

\* Taking the machine of an owner; of a dangling handle, it sets ub.
LEMMA TakeStep ==
  ASSUME TypeOK, Ownership, Protocol, NEW w \in Worker, Take(w), ~ub'
  PROVE  Ownership' /\ Protocol'
<1>0. w \in Handle /\ w # "tracked"
  BY DEF Handle, Worker
<1>1. w \notin dangling
  BY DEF Take, UsePtr
<1>2. Owner(w) /\ pc[w] \in DOMAIN Needs /\ tag[w] = Needs[pc[w]]
  BY <1>1 DEF Take, Owner, Protocol, HandleAtStep, Needs
<1>3. heap[ptr[w]] = tag[w] /\ tag[w] \in Machine
  BY <1>0, <1>2 DEF Ownership, TypeOK
<1>4. PICK m \in Machine \cup {Free} : m = tag[w] /\ hand' = [hand EXCEPT ![w] = m]
  BY <1>3 DEF Take, Machine, Free
<1>5. hand'[w] = tag[w] /\ hand'[w] # None /\ \A g \in Handle : g # w => hand'[g] = hand[g]
  BY <1>0, <1>3, <1>4 DEF TypeOK, Machine, None
<1>6. Ownership' /\ dangling' = dangling
  BY <1>0, <1>2, <1>5, UseOwnership DEF Take
<1>7. HandleAtStep(w)'
  BY <1>1, <1>2, <1>5, <1>6 DEF Take, Protocol, HandleAtStep, Needs
<1>8. pc' = pc /\ ptr' = ptr /\ tag' = tag /\ pc[w] # "assign"
  BY DEF Take
<1> QED
  BY <1>5, <1>6, <1>7, <1>8, OnlyWorker

\* The three ways a call returns, when it goes to a step that fits.
LEMMA ReturnStep ==
  ASSUME TypeOK, Ownership, Protocol, NEW w \in Worker, NEW call, Return(w, call),
         NEW step, Goto(w, step), step \notin {"idle", "assign"},
         \/ /\ dangling' = dangling
            /\ \E m \in Machine : /\ Box(w, m)
                                  /\ step \in DOMAIN Needs => m = Needs[step]
                                  /\ step = "track" => m = "Active"
         \/ /\ dangling' = dangling \cup {w} /\ UNCHANGED <<heap, ptr, tag>>
            /\ step \in {"abort", "free"}
  PROVE  Ownership' /\ Protocol'
<1>0. w \in Handle /\ w # "tracked"
  BY DEF Handle, Worker
<1>1. /\ hand[w] # None /\ hand'[w] = None /\ w \notin dangling /\ ptr[w] # Null
      /\ \A g \in Handle : g # w => hand'[g] = hand[g]
  BY <1>0 DEF Return, TypeOK, Protocol, HandleAtStep, Needs
<1>2. pc'[w] = step /\ \A v \in Worker : v # w => pc'[v] = pc[v]
  BY DEF Goto, TypeOK
<1>3. CASE /\ dangling' = dangling
           /\ \E m \in Machine : /\ Box(w, m)
                                 /\ step \in DOMAIN Needs => m = Needs[step]
                                 /\ step = "track" => m = "Active"
  <2>1. PICK m \in Machine : /\ Box(w, m)
                             /\ step \in DOMAIN Needs => m = Needs[step]
                             /\ step = "track" => m = "Active"
    BY <1>3
  <2>2. Ownership' /\ ptr'[w] # Null /\ tag'[w] = m
    BY <1>0, <1>1, <1>3, <2>1, BoxOwnership DEF Owner
  <2>3. \A g \in Handle : g # w => ptr'[g] = ptr[g] /\ tag'[g] = tag[g]
    BY <1>0, <2>1 DEF Box, TypeOK
  <2>4. HandleAtStep(w)'
    BY <1>1, <1>2, <1>3, <2>1, <2>2 DEF HandleAtStep
  <2> QED
    BY <1>1, <1>2, <1>3, <2>2, <2>3, <2>4, OnlyWorker
<1>4. CASE /\ dangling' = dangling \cup {w} /\ UNCHANGED <<heap, ptr, tag>>
           /\ step \in {"abort", "free"}
  <2>1. \A g \in Handle : Owner(g)' <=> Owner(g)
    BY <1>1, <1>4 DEF Owner
  <2>2. Ownership'
    BY <1>4, <2>1 DEF Ownership
  <2>3. HandleAtStep(w)'
    BY <1>1, <1>2, <1>4 DEF HandleAtStep, Needs
  <2> QED
    BY <1>1, <1>2, <1>4, <2>2, <2>3, OnlyWorker
<1> QED
  BY <1>3, <1>4

\* The machine a returning call has in hand is the one it needs, so that a
\* refusal is never for a wrong state.
LEMMA InHand ==
  ASSUME TypeOK, Protocol, NEW w \in Worker, NEW call, Return(w, call)
  PROVE  /\ pc[w] = call /\ call \in DOMAIN Needs /\ hand[w] = Needs[call]
         /\ hand[w] \in Machine
  BY DEF Return, Protocol, HandleAtStep, TypeOK, Handle, None

LEMMA CallStep ==
  ASSUME TypeOK, Ownership, Protocol, NEW w \in Worker,
         \/ Load(w) \/ BeginBootstrap(w) \/ InjectSecret(w)
         \/ BeginRotation(w) \/ CompleteRotation(w) \/ AbortRotation(w)
  PROVE  Ownership' /\ Protocol'
<1> USE DEF Succeed, Refuse, Lose
<1>1. CASE Load(w)
  <2>1. hand[w] = "Uninitialized" /\ hand[w] \in Machine
    BY <1>1, InHand DEF Load, Needs
  <2> QED
    BY <1>1, <2>1, ReturnStep DEF Load, Needs, Machine
<1>2. CASE BeginBootstrap(w)
  <2>1. hand[w] = "Initialized" /\ hand[w] \in Machine
    BY <1>2, InHand DEF BeginBootstrap, Needs
  <2> QED
    BY <1>2, <2>1, ReturnStep DEF BeginBootstrap, Needs, Machine
<1>3. CASE InjectSecret(w)
  <2>1. hand[w] = "Bootstrapping" /\ hand[w] \in Machine
    BY <1>3, InHand DEF InjectSecret, Needs
  <2> QED
    BY <1>3, <2>1, ReturnStep DEF InjectSecret, Needs, Machine
<1>4. CASE BeginRotation(w)
  <2>1. hand[w] = "Active" /\ hand[w] \in Machine
    BY <1>4, InHand DEF BeginRotation, Needs
  <2> QED
    BY <1>4, <2>1, ReturnStep DEF BeginRotation, Needs, Machine
<1>5. CASE CompleteRotation(w)
  <2>1. hand[w] = "Rotating" /\ hand[w] \in Machine
    BY <1>5, InHand DEF CompleteRotation, Needs
  <2> QED
    BY <1>5, <2>1, ReturnStep DEF CompleteRotation, Needs, Machine
<1>6. CASE AbortRotation(w)
  <2>1. hand[w] = "Rotating" /\ hand[w] \in Machine
    BY <1>6, InHand DEF AbortRotation, Needs
  <2> QED
    BY <1>6, <2>1, ReturnStep DEF AbortRotation, Needs, Machine
<1> QED
  BY <1>1, <1>2, <1>3, <1>4, <1>5, <1>6

LEMMA FreeStep ==
  ASSUME TypeOK, Ownership, Protocol, ~ub',
         (\E w \in Worker : FreeLocal(w)) \/ Track \/ Deletion
  PROVE  Ownership' /\ Protocol'
<1>0. /\ "boot" \in Worker /\ "tracked" \in Handle /\ "boot" \in Handle
      /\ \A w \in Worker : w \in Handle /\ w # "tracked"
  BY DEF Handle, Worker
<1>1. ASSUME NEW w \in Worker, FreeLocal(w)
      PROVE  Ownership' /\ Protocol'
  <2>1. pc[w] = "free" /\ ptr[w] # Null /\ Release(w)
    BY <1>1 DEF FreeLocal, Protocol, HandleAtStep
  <2>2. w \notin dangling /\ hand[w] = None /\ ptr'[w] = Null /\ UNCHANGED <<tag, hand>>
    BY <1>0, <2>1 DEF Release, UsePtr, Protocol, HandleAtStep, Needs, TypeOK
  <2>3. \A g \in Handle : g # w => ptr'[g] = ptr[g]
    BY <2>1 DEF Release, TypeOK
  <2>4. Ownership' /\ dangling' = dangling
    BY <1>0, <2>1, <2>2, <2>3, UseOwnership DEF Release, Owner
  <2>5. pc'[w] = "idle" /\ \A v \in Worker : v # w => pc'[v] = pc[v]
    BY <1>1 DEF FreeLocal, Goto, TypeOK
  <2>6. HandleAtStep(w)'
    BY <2>2, <2>4, <2>5 DEF HandleAtStep, Needs
  <2> QED
    BY <2>2, <2>3, <2>4, <2>5, <2>6, OnlyWorker
<1>2. ASSUME ptr["tracked"] # Null, Release("tracked"),
             \/ pc' = pc /\ pc["boot"] # "assign"
             \/ pc["boot"] = "track" /\ Goto("boot", "assign")
      PROVE  Ownership' /\ Protocol'
  <2>1. /\ ptr'["tracked"] = Null /\ UNCHANGED <<tag, hand>>
        /\ \A g \in Handle : g # "tracked" => ptr'[g] = ptr[g]
    BY <1>0, <1>2 DEF Release, TypeOK
  <2>2. Ownership' /\ dangling' = dangling
    BY <1>0, <1>2, <2>1, UseOwnership DEF Release, Owner, Protocol
  <2>3. \A w \in Worker : pc'[w] = pc[w] \/ (pc[w] = "track" /\ pc'[w] = "assign")
    BY <1>0, <1>2 DEF Goto, TypeOK
  <2>4. ASSUME NEW w \in Worker PROVE HandleAtStep(w)'
    BY <1>0, <2>1, <2>2, <2>3 DEF Protocol, HandleAtStep, Needs
  <2> QED
    BY <1>0, <2>1, <2>2, <2>4 DEF Protocol
<1>3. CASE Track
  <2>1. CASE ptr["tracked"] = Null
    <3>1. /\ UNCHANGED <<heap, ptr, tag, hand, dangling>>
          /\ \A w \in Worker : pc'[w] = pc[w] \/ (pc[w] = "track" /\ pc'[w] = "assign")
      BY <1>0, <1>3, <2>1 DEF Track, Goto, TypeOK
    <3>2. Ownership'
      BY <3>1 DEF Ownership, Owner
    <3>3. ASSUME NEW w \in Worker PROVE HandleAtStep(w)'
      BY <3>1 DEF Protocol, HandleAtStep, Needs
    <3> QED
      BY <2>1, <3>1, <3>2, <3>3 DEF Protocol
  <2> QED
    BY <1>2, <1>3, <2>1 DEF Track
<1>4. CASE Deletion
  BY <1>2, <1>4 DEF Deletion
<1> QED
  BY <1>1, <1>3, <1>4

\* The tracked handle takes over the block of the local one.
LEMMA AssignStep ==
  ASSUME TypeOK, Ownership, Protocol, Assign
  PROVE  Ownership' /\ Protocol'
<1>0. "boot" \in Worker /\ "boot" \in Handle /\ "tracked" \in Handle
      /\ \A w \in Worker : w \in Handle /\ w # "tracked"
  BY DEF Handle, Worker
<1>1. /\ hand["boot"] = None /\ "boot" \notin dangling /\ tag["boot"] = "Active"
      /\ ptr["boot"] # Null /\ ptr["tracked"] = Null
      /\ hand["tracked"] = None /\ "tracked" \notin dangling
  BY <1>0 DEF Assign, Protocol, HandleAtStep, Needs
<1>2. /\ ptr'["tracked"] = ptr["boot"] /\ ptr'["boot"] = Null /\ tag'["tracked"] = tag["boot"]
      /\ \A g \in Handle \ {"boot", "tracked"} : ptr'[g] = ptr[g] /\ tag'[g] = tag[g]
      /\ UNCHANGED <<heap, hand, dangling>>
  BY <1>0, <1>1 DEF Assign, TypeOK
<1>3. /\ Owner("boot") /\ ~Owner("tracked") /\ ~Owner("boot")' /\ Owner("tracked")'
      /\ \A g \in Handle \ {"boot", "tracked"} : Owner(g)' <=> Owner(g)
  BY <1>0, <1>1, <1>2 DEF Owner
<1>4. Ownership'
  <2>1. \A h \in Handle : Owner(h)' => heap'[ptr'[h]] = tag'[h]
    BY <1>0, <1>2, <1>3 DEF Ownership
  <2>2. \A g, h \in Handle : Owner(g)' /\ Owner(h)' /\ ptr'[g] = ptr'[h] => g = h
    BY <1>0, <1>2, <1>3 DEF Ownership
  <2>3. ASSUME NEW a \in Addr, heap'[a] # Free PROVE \E h \in Handle : Owner(h)' /\ ptr'[h] = a
    <3>1. PICK h \in Handle : Owner(h) /\ ptr[h] = a
      BY <1>2, <2>3 DEF Ownership
    <3> QED
      BY <1>0, <1>2, <1>3, <3>1
  <2> QED
    BY <2>1, <2>2, <2>3 DEF Ownership
<1>5. pc'["boot"] = "idle" /\ \A v \in Worker : v # "boot" => pc'[v] = pc[v]
  BY <1>0 DEF Assign, Goto, TypeOK
<1>6. ASSUME NEW w \in Worker PROVE HandleAtStep(w)'
  BY <1>0, <1>1, <1>2, <1>5 DEF Protocol, HandleAtStep, Needs
<1> QED
  BY <1>0, <1>1, <1>2, <1>4, <1>5, <1>6 DEF Protocol

(***************************************************************************)
(* The invariant, and what follows from it.                                *)
(***************************************************************************)
LEMMA GoodStep == Good /\ [Next]_vars => Good'
<1> SUFFICES ASSUME Good, [Next]_vars PROVE Good'
  OBVIOUS
<1>1. TypeOK'
  BY TypeStep DEF Good
<1>2. ASSUME ~ub' PROVE Ownership' /\ Protocol'
  <2>1. CASE Restart
    <3>1. Fresh'
      BY <2>1 DEF Restart, Fresh, Start
    <3> QED
      BY <3>1, FreshIsGood, PTL
  <2>2. CASE ~Restart
    <3>1. ub \in BOOLEAN /\ (ub => ub')
      BY <2>2
      DEF Good, TypeOK, Next, WorkerNext, RotationNext, New, Take, Load, BeginBootstrap,
          InjectSecret, BeginRotation, CompleteRotation, AbortRotation, FreeLocal, Track, Assign,
          Deletion, Release, UsePtr, Return, vars
    <3>2. TypeOK /\ Ownership /\ Protocol
      BY <1>2, <3>1 DEF Good
    <3>3. CASE UNCHANGED vars
      BY <3>2, <3>3
      DEF vars, Ownership, Owner, Protocol, HandleAtStep, Needs
    <3>4. "rot" \in Worker
      BY DEF Worker
    <3> QED
      BY <1>2, <2>2, <3>2, <3>3, <3>4, NewStep, TakeStep, CallStep, FreeStep, AssignStep
      DEF Next, WorkerNext, RotationNext
  <2> QED
    BY <2>1, <2>2
<1> QED
  BY <1>1, <1>2 DEF Good

\* The inductive invariant holds of every state.
THEOREM InvariantHolds == Spec => []IInv
<1>1. Spec => []Good
  BY InitGood, GoodStep, PTL DEF Spec
<1> QED
  BY <1>1, GoodIsIInv, PTL

\* Every machine has exactly one handle, as long as no dangling one is used.
THEOREM MachinesHaveOneOwner == Spec => []OneOwner
<1>1. IInv => OneOwner
  BY DEF IInv
<1> QED
  BY <1>1, InvariantHolds, PTL

\* The state Go believes a machine to be in is the state it is in.
THEOREM TagsAreFaithful == Spec => []TagsFaithful
<1>1. IInv => TagsFaithful
  BY DEF IInv
<1> QED
  BY <1>1, InvariantHolds, PTL

\* No call of the two reconcilers finds its machine in a wrong state.
THEOREM CallsAreInOrder == Spec => []CallsInOrder
<1>1. IInv => CallsInOrder
  BY DEF IInv, CallsInOrder, HandleAtStep
<1> QED
  BY <1>1, InvariantHolds, PTL

\* Between reconciles only the tracked machine is left, and it is Active.
THEOREM NoKeyLeftBehind == Spec => []NothingLeftBehind
<1>1. ASSUME Good PROVE NothingLeftBehind
  <2> SUFFICES ASSUME ~ub, \A w \in Worker : pc[w] = "idle",
                      NEW a \in Addr, heap[a] # Free
               PROVE  heap[a] = "Active" /\ ptr["tracked"] = a
    BY DEF NothingLeftBehind
  <2>1. PICK h \in Handle : Owner(h) /\ ptr[h] = a
    BY <1>1 DEF Good, Ownership
  <2>2. h = "tracked"
    BY <1>1, <2>1 DEF Good, Protocol, HandleAtStep, Owner, Handle
  <2> QED
    BY <1>1, <2>1, <2>2 DEF Good, Ownership, Protocol, Owner
<1> QED
  BY <1>1, GoodIsIInv, InvariantHolds, PTL
=============================================================================
