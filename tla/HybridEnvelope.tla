-------------------------- MODULE HybridEnvelope --------------------------
(***************************************************************************)
(* The hybrid envelope of genesis-core (envelope.rs, crypto/age.rs,        *)
(* crypto/pq.rs, crypto/hybrid.rs): what it is sealed with, its bytes, and *)
(* what opens it.  Cryptography is symbolic: a key is the name of its      *)
(* keyset, a ciphertext tells what is needed to undo it, and a signature   *)
(* or a ciphertext that nobody made is not there.                          *)
(*                                                                         *)
(* Bytes are words: the magic, a length, or a piece of a field.  A         *)
(* plaintext, or a secret derived from one seal, is named by a number.     *)
(***************************************************************************)
EXTENDS Naturals, Sequences

CONSTANTS
  Keyset,  \* the keysets: an age, an ML-KEM and an ML-DSA keypair each
  None     \* an error, or nothing

\* Nothing is not a secret.
ASSUME NoneAssumption == None \notin [kind : {"classical", "pq"}, n : Nat]

-----------------------------------------------------------------------------
(***************************************************************************)
(* crypto/: the primitives.  size is the number of words of a value; age   *)
(* adds stanzas of any length to its header, so its ciphertexts differ.    *)
(***************************************************************************)
encrypt_with_public_key(recipient, plaintext, size) ==
  [scheme |-> "age", to |-> recipient, plaintext |-> plaintext, size |-> size]

decrypt_with_private_key(identity, c) ==
  IF c.scheme = "age" /\ c.to = identity THEN c.plaintext ELSE None

mlkem_encapsulate(public_key, secret) ==
  [scheme |-> "mlkem", to |-> public_key, secret |-> secret, size |-> 1]

\* Implicit rejection: the wrong key yields a secret too, of no use.
mlkem_decapsulate(private_key, c) ==
  IF c.scheme # "mlkem" THEN None
  ELSE IF c.to = private_key THEN c.secret
  ELSE [kind |-> "rejected", n |-> c.secret.n, key |-> private_key]

mldsa_sign(private_key, message) ==
  [scheme |-> "mldsa", by |-> private_key, message |-> message, size |-> 1]

\* What is not a key or not a signature is an error, and verifies nothing.
mldsa_verify(public_key, message, signature) ==
  /\ public_key.scheme = "key" /\ signature.scheme = "mldsa"
  /\ signature.by = public_key.of /\ signature.message = message

verifying_key(signing_key) == [scheme |-> "key", of |-> signing_key, size |-> 1]

\* Bug: the derived key depends on the classical secret only.
Bugcombine_shared_secrets(x25519_secret, mlkem_secret) == <<x25519_secret, x25519_secret>>

combine_shared_secrets(x25519_secret, mlkem_secret) == <<x25519_secret, mlkem_secret>>

\* ChaCha20-Poly1305 with the nonce in front.
chacha_encrypt(key, plaintext) ==
  [scheme |-> "chacha", key |-> key, plaintext |-> plaintext, size |-> 1]
chacha_decrypt(key, c) ==
  IF c.scheme = "chacha" /\ c.key = key THEN c.plaintext ELSE None

-----------------------------------------------------------------------------
(***************************************************************************)
(* GenesisKeySet::generate: every key carries the name of its keyset.      *)
(* public_keys_json is the half of it that leaves the process.             *)
(***************************************************************************)
generate(k) ==
  [age_identity |-> k, age_recipient |-> k, mlkem_private_key |-> k,
   mlkem_public_key |-> k, signing_key |-> k, signing_public_key |-> k]

public_keys_json(keyset) ==
  [age_recipient |-> keyset.age_recipient, mlkem_public_key |-> keyset.mlkem_public_key,
   signing_public_key |-> keyset.signing_public_key]

-----------------------------------------------------------------------------
(***************************************************************************)
(* HybridEnvelope::seal and open.  The random secrets of a seal are named  *)
(* by its number n.                                                        *)
(***************************************************************************)
digest(e) == <<e.mlkem_ciphertext, e.age_ciphertext, e.encrypted_secret>>

seal(plaintext, age_recipient, mlkem_public_key, signing_key, n, size) ==
  LET ss_classical == [kind |-> "classical", n |-> n]
      ss_pq == [kind |-> "pq", n |-> n]
      e == [mlkem_ciphertext |-> mlkem_encapsulate(mlkem_public_key, ss_pq),
            age_ciphertext |-> encrypt_with_public_key(age_recipient, ss_classical, size),
            encrypted_secret |->
              chacha_encrypt(combine_shared_secrets(ss_classical, ss_pq), plaintext)]
  IN [mlkem_ciphertext |-> e.mlkem_ciphertext, age_ciphertext |-> e.age_ciphertext,
      encrypted_secret |-> e.encrypted_secret,
      signature |-> mldsa_sign(signing_key, digest(e)),
      signing_public_key |-> verifying_key(signing_key)]

\* The signature is checked against the key in the envelope itself.
open(e, age_identity, mlkem_private_key) ==
  LET ss_classical == decrypt_with_private_key(age_identity, e.age_ciphertext)
      ss_pq == mlkem_decapsulate(mlkem_private_key, e.mlkem_ciphertext)
  IN IF ~mldsa_verify(e.signing_public_key, digest(e), e.signature) THEN None
     ELSE IF ss_classical = None \/ ss_pq = None THEN None
     ELSE chacha_decrypt(combine_shared_secrets(ss_classical, ss_pq), e.encrypted_secret)

-----------------------------------------------------------------------------
(***************************************************************************)
(* The wire format.                                                        *)
(***************************************************************************)
Magic == [word |-> "magic"]
LengthWord(n) == [word |-> "length", n |-> n]
FieldWords(x) == [i \in 1..x.size |-> [word |-> "data", of |-> x, part |-> i]]

write_length_prefixed(x) == <<LengthWord(x.size)>> \o FieldWords(x)

\* Bug: two fields are written in the order of the struct's comment.
Bugto_bytes(e) ==
  LET body == write_length_prefixed(e.mlkem_ciphertext)
              \o write_length_prefixed(e.age_ciphertext)
              \o write_length_prefixed(e.encrypted_secret)
              \o write_length_prefixed(e.signing_public_key)
              \o write_length_prefixed(e.signature)
  IN <<Magic, LengthWord(Len(body))>> \o body

to_bytes(e) ==
  LET body == write_length_prefixed(e.mlkem_ciphertext)
              \o write_length_prefixed(e.age_ciphertext)
              \o write_length_prefixed(e.encrypted_secret)
              \o write_length_prefixed(e.signature)
              \o write_length_prefixed(e.signing_public_key)
  IN <<Magic, LengthWord(Len(body))>> \o body

\* What a field is, once read: pieces of different values are none.
Damaged == [scheme |-> "damaged"]
FieldOf(words) ==
  IF words # <<>> /\ words[1].word = "data" /\ words = FieldWords(words[1].of)
    THEN words[1].of ELSE Damaged

\* Zero: a hole in a file.  Any other word, read as a length, is past the end.
Zero == [word |-> "zero", n |-> 0]

\* The field at a cursor and the cursor behind it; a failed read leaves no
\* cursor to read on from.
Failed == [field |-> Damaged, cursor |-> 0]
read_length_prefixed(data, cursor) ==
  IF cursor \notin 1..Len(data) \/ data[cursor].word \notin {"length", "zero"} THEN Failed
  ELSE LET end == cursor + data[cursor].n IN
       IF end > Len(data) THEN Failed
       ELSE [field |-> FieldOf(SubSeq(data, cursor + 1, end)), cursor |-> end + 1]

\* What nothing is read from, and nobody opens.
Unparsed ==
  [mlkem_ciphertext |-> Damaged, age_ciphertext |-> Damaged, encrypted_secret |-> Damaged,
   signature |-> Damaged, signing_public_key |-> Damaged]

\* The total length is not looked at, nor is what follows the last field.
from_bytes(data) ==
  LET mlkem == read_length_prefixed(data, 3)
      age == read_length_prefixed(data, mlkem.cursor)
      secret == read_length_prefixed(data, age.cursor)
      signature == read_length_prefixed(data, secret.cursor)
      key == read_length_prefixed(data, signature.cursor)
  IN IF Len(data) < 2 \/ data[1] # Magic \/ key = Failed THEN Unparsed
     ELSE [mlkem_ciphertext |-> mlkem.field, age_ciphertext |-> age.field,
           encrypted_secret |-> secret.field, signature |-> signature.field,
           signing_public_key |-> key.field]

detect_envelope_version(data) ==
  IF data # <<>> /\ data[1] = Magic THEN "V2Hybrid" ELSE "V1Age"

\* A V1 envelope is an age ciphertext and nothing else.
v1_to_bytes(c) == FieldWords(c)

\* Bug: sealed for the identity that opened the V1 envelope.
Bugupgrade_envelope(v1_data, age_identity, recipient, mlkem_public, signing_key, n, size) ==
  LET plaintext == decrypt_with_private_key(age_identity, FieldOf(v1_data))
  IN IF plaintext = None THEN None
     ELSE seal(plaintext, age_identity, mlkem_public, signing_key, n, size)

\* The plaintext of the V1 envelope is sealed for another keyset.
upgrade_envelope(v1_data, age_identity, recipient, mlkem_public, signing_key, n, size) ==
  LET plaintext == decrypt_with_private_key(age_identity, FieldOf(v1_data))
  IN IF plaintext = None THEN None
     ELSE seal(plaintext, recipient, mlkem_public, signing_key, n, size)

-----------------------------------------------------------------------------
\* What anybody who has the two private keys gets out of some bytes.
Opened(data, age_identity, mlkem_private_key) ==
  open(from_bytes(data), age_identity, mlkem_private_key)
=============================================================================
