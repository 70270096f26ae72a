------------------------- MODULE GenesisLifecycle -------------------------
(***************************************************************************)
(* What the typestate machine of genesis-core promises, told without its   *)
(* requests, errors and events (the state graph at the head of             *)
(* genesis-core/src/state.rs): a private key is in memory from one moment  *)
(* to another only while it is delivered to the Secrets that were asked    *)
(* for, and a machine is Active again only when all of them have it.       *)
(***************************************************************************)
CONSTANT Target   \* the Secrets a private key can be delivered to

Phases == {"Gone", "Uninitialized", "Initialized", "Bootstrapping", "Active", "Rotating"}

VARIABLES
  phase,     \* where the machine is in its life; Gone: there is none
  exposed,   \* a private key is in memory
  wanted,    \* the Secrets of the delivery in progress
  served     \* those that have got the key

vars == <<phase, exposed, wanted, served>>

Init == phase = "Gone" /\ exposed = FALSE /\ wanted = {} /\ served = {}

\* From one phase to the next, with no key in memory at either end.
Move(from, to) ==
  /\ phase = from /\ ~exposed
  /\ phase' = to
  /\ UNCHANGED <<exposed, wanted, served>>

Create == Move("Gone", "Uninitialized")
Adopt == Move("Uninitialized", "Initialized")
BeginRotation == Move("Active", "Rotating")
AbortRotation == Move("Rotating", "Active")

\* The key of the envelope, or a new one, comes into memory.
Open ==
  /\ phase = "Initialized" /\ ~exposed
  /\ phase' = "Bootstrapping" /\ exposed' = TRUE
  /\ UNCHANGED <<wanted, served>>

Deliver ==
  /\ \/ phase = "Bootstrapping" /\ exposed
     \/ phase = "Rotating" /\ ~exposed
  /\ wanted = {} /\ wanted' \in (SUBSET Target) \ {{}}
  /\ exposed' = TRUE
  /\ UNCHANGED <<phase, served>>

Serve ==
  /\ exposed
  /\ \E t \in wanted : served' = served \cup {t}
  /\ UNCHANGED <<phase, exposed, wanted>>

\* The delivery is complete.
Activate ==
  /\ exposed /\ wanted # {} /\ served = wanted
  /\ phase' = "Active" /\ exposed' = FALSE /\ wanted' = {} /\ served' = {}

\* The key is given up before anything is delivered.
Abort ==
  /\ phase = "Bootstrapping" /\ exposed /\ wanted = {}
  /\ phase' = "Initialized" /\ exposed' = FALSE
  /\ UNCHANGED <<wanted, served>>

\* An error, a crash or Free takes the machine, and its key, away.
Lose ==
  /\ phase' = "Gone" /\ exposed' = FALSE /\ wanted' = {} /\ served' = {}

Next ==
  \/ Create \/ Adopt \/ BeginRotation \/ AbortRotation
  \/ Open \/ Deliver \/ Serve \/ Activate \/ Abort \/ Lose

Spec == Init /\ [][Next]_vars
=============================================================================
