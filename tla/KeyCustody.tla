----------------------------- MODULE KeyCustody -----------------------------
(***************************************************************************)
(* What the operator promises about the age private keys it handles, told  *)
(* without caches, resource versions, policies and failures: whoever puts  *)
(* a key into a Secret has it from an envelope of the CR or has just made  *)
(* it; a new key is made by one who has delivered the old one, is put into *)
(* the source Secret before its envelope is stored, and is then the        *)
(* newest; the CR vouches only for a key that every Secret has been given. *)
(***************************************************************************)
EXTENDS Naturals

CONSTANTS
  Target,      \* the Secrets
  Primary,     \* the one that rotations use
  Reconciler,  \* those who handle keys
  NoKey        \* what an absent Secret has

VARIABLES
  envelope,   \* the key in the envelope of the CR
  envelopes,  \* all those it has had
  drawn,      \* the newest key
  work,       \* the key each reconciler has, and what it does with it
  secret,     \* the key in each Secret
  served,     \* the Secrets that have been given the key of the envelope
  vouched     \* the status says that the key of the envelope is in place

vars == <<envelope, envelopes, drawn, work, secret, served, vouched>>

Nothing == [stage |-> "none", key |-> NoKey]

Init ==
  /\ envelope = 1 /\ envelopes = {1} /\ drawn = 1
  /\ work = [r \in Reconciler |-> Nothing]
  /\ secret = [t \in Target |-> NoKey]
  /\ served = {} /\ vouched = FALSE

\* An envelope is decrypted, an old one perhaps.
Open(r) ==
  /\ work[r] = Nothing
  /\ \E k \in envelopes : work' = [work EXCEPT ![r] = [stage |-> "open", key |-> k]]
  /\ UNCHANGED <<envelope, envelopes, drawn, secret, served, vouched>>

\* A Secret is given the private key.
Give(r, t) ==
  /\ work[r].stage \in {"open", "new"}
  /\ secret' = [secret EXCEPT ![t] = work[r].key]
  /\ served' = IF work[r].key = envelope THEN served \cup {t} ELSE served
  /\ UNCHANGED <<envelope, envelopes, vouched>>

\* After it the reconciler goes on, or it is done with the key.
Deliver(r, t) ==
  /\ Give(r, t)
  /\ work' \in {work, [work EXCEPT ![r] = Nothing]} /\ UNCHANGED drawn

\* After it a key is made that will replace the one delivered ...
Renew(r) ==
  /\ work[r].stage = "open" /\ Give(r, Primary)
  /\ drawn' = drawn + 1
  /\ work' = [work EXCEPT ![r] = [stage |-> "new", key |-> drawn + 1]]

\* ... and given to the source Secret, which leaves its envelope ...
Present(r) ==
  /\ work[r].stage = "new" /\ Give(r, Primary)
  /\ work' = [work EXCEPT ![r].stage = "sent"]
  /\ UNCHANGED drawn

\* ... that becomes the CR's.
Store(r) ==
  /\ work[r].stage = "sent" /\ work[r].key = drawn /\ drawn > envelope
  /\ envelope' = drawn /\ envelopes' = envelopes \cup {drawn}
  /\ served' = {} /\ vouched' = FALSE
  /\ work' = [work EXCEPT ![r] = Nothing]
  /\ UNCHANGED <<drawn, secret>>

\* A failure or a crash: keys and envelopes are forgotten.
Forget ==
  /\ \E R \in SUBSET Reconciler :
       work' = [r \in Reconciler |-> IF r \in R THEN Nothing ELSE work[r]]
  /\ UNCHANGED <<envelope, envelopes, drawn, secret, served, vouched>>

\* A Secret is deleted.
Lose(t) ==
  /\ secret' = [secret EXCEPT ![t] = NoKey]
  /\ UNCHANGED <<envelope, envelopes, drawn, work, served, vouched>>

Vouch ==
  /\ served = Target /\ vouched' = TRUE
  /\ UNCHANGED <<envelope, envelopes, drawn, work, secret, served>>

Retract ==
  /\ vouched' = FALSE
  /\ UNCHANGED <<envelope, envelopes, drawn, work, secret, served>>

Next ==
  \/ \E r \in Reconciler :
       \/ Open(r) \/ Renew(r) \/ Present(r) \/ Store(r)
       \/ \E t \in Target : Deliver(r, t)
  \/ \E t \in Target : Lose(t)
  \/ Forget \/ Vouch \/ Retract

Spec == Init /\ [][Next]_vars
=============================================================================
