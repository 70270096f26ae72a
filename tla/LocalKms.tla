------------------------------ MODULE LocalKms ------------------------------
(***************************************************************************)
(* The standalone mode of genesis: a keyset in the memory of a process     *)
(* (GenesisKeySet), a master key in another handle (LocalKmsProvider) and  *)
(* on disk, in a hybrid envelope sealed for that keyset, and envelopes a   *)
(* process seals for itself or upgrades from the age-only format.  Hosts   *)
(* are processes that use the C interface of ffi.rs (genesis init, tests,  *)
(* embedders); they share the envelope path and one blob of their own      *)
(* data, kept for instance in a Secret.                                    *)
(*                                                                         *)
(* A call that fails changes nothing unless an action says otherwise.      *)
(***************************************************************************)
EXTENDS HybridEnvelope

CONSTANTS
  Host,      \* processes
  Sizes,     \* the lengths an age ciphertext may have
  MaxSeals   \* bound on the seals of a behaviour

ASSUME LocalKmsAssumption == Sizes \subseteq Nat \ {0} /\ MaxSeals \in Nat

VARIABLES
  keyset,     \* host -> the keyset it holds, or None
  provider,   \* host -> the master key in its LocalKmsProvider, or None
  writing,    \* host -> the std::fs::write in progress, or None
  file,       \* the bytes at envelope_path, or None
  blob,       \* the bytes of the last envelope of data, or None
  exported,   \* keysets whose age identity has been exported
  made,       \* history: the keyset each seal was for
  kept,       \* history: the master key that generate put at envelope_path, if
              \* it returned and nobody wrote there since; else None
  contents    \* history: what blob was made from and for whom, or None

vars == <<keyset, provider, writing, file, blob, exported, made, kept, contents>>
handles == <<keyset, provider, writing>>

SealNo == Len(made) + 1
\* The keysets that left a trace; keys are random, so no two are the same.
Used == {made[i] : i \in DOMAIN made} \cup exported \cup {keyset[h] : h \in Host}

Init ==
  /\ keyset = [h \in Host |-> None]
  /\ provider = [h \in Host |-> None]
  /\ writing = [h \in Host |-> None]
  /\ file = None /\ blob = None
  /\ exported = {} /\ made = <<>> /\ kept = None /\ contents = None

Idle(h) == keyset[h] # None /\ writing[h] = None

-----------------------------------------------------------------------------
(***************************************************************************)
(* The keyset handle.                                                      *)
(***************************************************************************)
genesis_generate_keyset(h) ==
  /\ keyset[h] = None
  /\ \E k \in Keyset \ Used : keyset' = [keyset EXCEPT ![h] = k]
  /\ UNCHANGED <<provider, writing, file, blob, exported, made, kept, contents>>

genesis_free_keyset(h) ==
  /\ Idle(h)
  /\ keyset' = [keyset EXCEPT ![h] = None]
  /\ UNCHANGED <<provider, writing, file, blob, exported, made, kept, contents>>

\* Bug: the null pointer check is missing.
Buggenesis_export_age_identity(h) ==
  /\ writing[h] = None
  /\ exported' = exported \cup {keyset[h]}
  /\ UNCHANGED <<handles, file, blob, made, kept, contents>>

\* The one private key that can leave the process.
genesis_export_age_identity(h) ==
  /\ Idle(h)
  /\ exported' = exported \cup {generate(keyset[h]).age_identity}
  /\ UNCHANGED <<handles, file, blob, made, kept, contents>>

\* What a host tells the others; the handle is not consumed.
genesis_get_public_keys(h) == public_keys_json(generate(keyset[h]))

-----------------------------------------------------------------------------
(***************************************************************************)
(* Envelopes of data.                                                      *)
(***************************************************************************)
genesis_seal_hybrid(h) ==
  LET ks == generate(keyset[h]) IN
  /\ Idle(h) /\ SealNo <= MaxSeals
  /\ \E size \in Sizes :
       blob' = to_bytes(seal(SealNo, ks.age_recipient, ks.mlkem_public_key, ks.signing_key,
                             SealNo, size))
  /\ made' = Append(made, keyset[h])
  /\ contents' = [plaintext |-> SealNo, for |-> keyset[h], version |-> "V2Hybrid"]
  /\ UNCHANGED <<handles, file, exported, kept>>

genesis_open_hybrid(h, data) == Opened(data, keyset[h], keyset[h])

\* An envelope of the format before the hybrid one.
SealV1(h) ==
  /\ Idle(h) /\ SealNo <= MaxSeals
  /\ \E size \in Sizes :
       blob' = v1_to_bytes(encrypt_with_public_key(generate(keyset[h]).age_recipient,
                                                   SealNo, size))
  /\ made' = Append(made, keyset[h])
  /\ contents' = [plaintext |-> SealNo, for |-> keyset[h], version |-> "V1Age"]
  /\ UNCHANGED <<handles, file, exported, kept>>

\* h opens the V1 envelope with an identity it holds or was given, and seals
\* it for the public keys of another host, or for its own.
Upgrade(h) ==
  /\ Idle(h) /\ SealNo <= MaxSeals
  /\ blob # None /\ detect_envelope_version(blob) = "V1Age"
  /\ \E to \in Host, identity \in exported \cup {keyset[h]}, size \in Sizes :
       /\ keyset[to] # None
       /\ LET keys == genesis_get_public_keys(to)
              e == upgrade_envelope(blob, identity, keys.age_recipient, keys.mlkem_public_key,
                                    generate(keyset[h]).signing_key, SealNo, size)
          IN /\ e # None
             /\ blob' = to_bytes(e)
             /\ made' = Append(made, keyset[to])
             /\ contents' = [contents EXCEPT !.for = keyset[to], !.version = "V2Hybrid"]
  /\ UNCHANGED <<handles, file, exported, kept>>

-----------------------------------------------------------------------------
(***************************************************************************)
(* The master key.  LocalKmsProvider::generate seals it and calls          *)
(* std::fs::write, which truncates the file and then writes at its own     *)
(* position, in as many pieces as the system takes.  alone: no other host  *)
(* had the file open for writing in the meantime.                          *)
(***************************************************************************)
Generate_create(h) ==
  LET ks == generate(keyset[h])
      Writers == {o \in Host : writing[o] # None}
  IN
  /\ Idle(h) /\ SealNo <= MaxSeals /\ provider[h] = None
  /\ \E size \in Sizes :
       writing' = [o \in Host |->
         IF o = h THEN [n |-> SealNo, done |-> 0, alone |-> Writers = {},
                        bytes |-> to_bytes(seal(SealNo, ks.age_recipient, ks.mlkem_public_key,
                                                ks.signing_key, SealNo, size))]
         ELSE IF o \in Writers THEN [writing[o] EXCEPT !.alone = FALSE]
         ELSE None]
  /\ made' = Append(made, keyset[h])
  /\ file' = <<>> /\ kept' = None
  /\ UNCHANGED <<keyset, provider, blob, exported, contents>>

\* The bytes of a file with more written at a position of a writer's own: what
\* another writer truncated reads as zeros.
WriteAt(data, done, bytes) ==
  [i \in 1..(IF done + Len(bytes) > Len(data) THEN done + Len(bytes) ELSE Len(data)) |->
     IF i \in done + 1..done + Len(bytes) THEN bytes[i - done]
     ELSE IF i <= Len(data) THEN data[i] ELSE Zero]

Generate_write(h) ==
  /\ writing[h] # None
  /\ LET w == writing[h] IN
     /\ w.done < Len(w.bytes)
     /\ \E upto \in w.done + 1..Len(w.bytes) :
          /\ file' = WriteAt(file, w.done, SubSeq(w.bytes, w.done + 1, upto))
          /\ writing' = [writing EXCEPT ![h].done = upto]
  /\ kept' = None
  /\ UNCHANGED <<keyset, provider, blob, exported, made, contents>>

\* Bug: the result of the write is not looked at.
BugGenerate_return(h) ==
  /\ writing[h] # None
  /\ provider' = [provider EXCEPT ![h] = writing[h].n]
  /\ writing' = [writing EXCEPT ![h] = None]
  /\ kept' = IF writing[h].alone THEN writing[h].n ELSE kept
  /\ UNCHANGED <<keyset, file, blob, exported, made, contents>>

Generate_return(h) ==
  /\ writing[h] # None
  /\ writing[h].done = Len(writing[h].bytes)
  /\ provider' = [provider EXCEPT ![h] = writing[h].n]
  /\ writing' = [writing EXCEPT ![h] = None]
  /\ kept' = IF writing[h].alone THEN writing[h].n ELSE kept
  /\ UNCHANGED <<keyset, file, blob, exported, made, contents>>

\* The disk is full, or an I/O error: what was written stays.
Generate_fail(h) ==
  /\ writing[h] # None
  /\ writing' = [writing EXCEPT ![h] = None]
  /\ UNCHANGED <<keyset, provider, file, blob, exported, made, kept, contents>>

\* std::fs::read, from_bytes and open.
genesis_init_local(h) ==
  /\ Idle(h) /\ provider[h] = None /\ file # None
  /\ Opened(file, keyset[h], keyset[h]) # None
  /\ provider' = [provider EXCEPT ![h] = Opened(file, keyset[h], keyset[h])]
  /\ UNCHANGED <<keyset, writing, file, blob, exported, made, kept, contents>>

genesis_free_local_kms(h) ==
  /\ provider[h] # None /\ writing[h] = None
  /\ provider' = [provider EXCEPT ![h] = None]
  /\ UNCHANGED <<keyset, writing, file, blob, exported, made, kept, contents>>

\* The provider is a KmsProvider for Rust callers: its envelopes of data.
encrypt(master_key, plaintext) == chacha_encrypt(master_key, plaintext)
decrypt(master_key, ciphertext) == chacha_decrypt(master_key, ciphertext)

\* The process ends: the handles go, a write that began stays as it is.
Crash(h) ==
  /\ keyset[h] # None \/ provider[h] # None
  /\ keyset' = [keyset EXCEPT ![h] = None]
  /\ provider' = [provider EXCEPT ![h] = None]
  /\ writing' = [writing EXCEPT ![h] = None]
  /\ UNCHANGED <<file, blob, exported, made, kept, contents>>

-----------------------------------------------------------------------------
Next ==
  \E h \in Host :
    \/ genesis_generate_keyset(h)
    \/ genesis_free_keyset(h)
    \/ genesis_export_age_identity(h)
    \/ genesis_seal_hybrid(h)
    \/ SealV1(h)
    \/ Upgrade(h)
    \/ Generate_create(h)
    \/ Generate_write(h)
    \/ Generate_return(h)
    \/ Generate_fail(h)
    \/ genesis_init_local(h)
    \/ genesis_free_local_kms(h)
    \/ Crash(h)

Spec == Init /\ [][Next]_vars

-----------------------------------------------------------------------------
(***************************************************************************)
(* What the envelopes promise.                                             *)
(***************************************************************************)
Seals == DOMAIN made
SomeKeyset == Keyset \cup {None}
TypeOK ==
  /\ keyset \in [Host -> SomeKeyset]
  /\ provider \in [Host -> Seals \cup {None}]
  /\ \A h \in Host : writing[h] # None =>
       /\ keyset[h] # None
       /\ writing[h].n \in Seals /\ writing[h].done \in 0..Len(writing[h].bytes)
  /\ exported \subseteq Keyset
  /\ made \in Seq(Keyset) /\ Len(made) <= MaxSeals
  /\ kept \in Seals \cup {None}

(***************************************************************************)
(* Whatever the writers, short writes, failures and crashes left at        *)
(* envelope_path, a pair of private keys gets nothing out of it or the     *)
(* master key that one generate call made for the keyset they both belong  *)
(* to: never a mixture, never on the age identity alone (envelope.rs:      *)
(* from_bytes, open; hybrid.rs: combine_shared_secrets).                   *)
(***************************************************************************)
FileNeverMixed ==
  file # None =>
    \A a, q \in Keyset : LET m == Opened(file, a, q) IN
      m # None => m \in Seals /\ a = made[m] /\ q = made[m]

(***************************************************************************)
(* Once generate has returned and until somebody writes again, the file    *)
(* gives its master key to the keyset it was made for, across restarts,    *)
(* and to nobody else: a provider loaded from it decrypts what the one     *)
(* generate returned encrypted (local.rs: generate, from_envelope).        *)
(***************************************************************************)
KeptMasterReloads ==
  kept # None =>
    /\ \A a, q \in Keyset :
         Opened(file, a, q) = IF a = made[kept] /\ q = made[kept] THEN kept ELSE None
    /\ \A h \in Host :
         provider[h] = kept =>
           decrypt(Opened(file, made[kept], made[kept]), encrypt(provider[h], "data")) = "data"

(***************************************************************************)
(* An envelope of data gives what was put in it to its owner only, before  *)
(* and after the upgrade, and its first bytes tell its format              *)
(* (envelope.rs: upgrade_envelope, detect_envelope_version).               *)
(***************************************************************************)
BlobOpensForOwner ==
  blob # None =>
    /\ detect_envelope_version(blob) = contents.version
    /\ \A a, q \in Keyset :
         LET owner == a = contents.for /\ (contents.version = "V2Hybrid" => q = contents.for)
             got == IF contents.version = "V1Age" THEN decrypt_with_private_key(a, FieldOf(blob))
                    ELSE Opened(blob, a, q)
         IN got = IF owner THEN contents.plaintext ELSE None

(***************************************************************************)
(* local.rs:4: "The master key is stored on-disk as a hybrid envelope      *)
(* (V2), encrypted to the operator's identity keys. On init, the operator  *)
(* provides their identity; the provider decrypts the master key into      *)
(* memory": while the identity that was exported is there, so is a way to  *)
(* load the master key that generate stored.                               *)
(***************************************************************************)
MasterRecoverable ==
  kept # None /\ made[kept] \in exported =>
    \E h \in Host, a \in exported : keyset[h] # None /\ Opened(file, a, keyset[h]) = kept
=============================================================================
