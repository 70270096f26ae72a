--------------------------- MODULE LocalKmsProofs ---------------------------
(***************************************************************************)
(* The standalone mode, for any hosts, keysets, lengths and number of      *)
(* seals: what the words at envelope_path can be, whoever writes there,    *)
(* and therefore who gets what out of the file and out of the blob.        *)
(***************************************************************************)
EXTENDS LocalKms, HybridEnvelopeProofs

\* The envelope of the n-th seal, with the seals of a log of keysets; its fields.
SealFor(log, n, size) == seal(n, log[n], log[n], log[n], n, size)

FieldsMade(log) == UNION {FieldsOf(SealFor(log, n, size)) : n \in DOMAIN log, size \in Sizes}

\* The words a file can have.
WordsMade(log) == Words(FieldsMade(log))

\* data is the n-th seal, written.
EnvelopeFor(log, n, data) == \E size \in Sizes : data = to_bytes(SealFor(log, n, size))

FileInv == file # None => file \in Seq(WordsMade(made))

\* A writer that was alone from the start has written what it meant to, so far.
WriterInv ==
  /\ DOMAIN writing = Host
  /\ \A h \in Host : writing[h] # None =>
       /\ writing[h] \in [n : Seals, done : Nat, alone : BOOLEAN, bytes : Seq(WordsMade(made))]
       /\ EnvelopeFor(made, writing[h].n, writing[h].bytes)
       /\ file \in Seq(WordsMade(made))
       /\ writing[h].alone =>
            /\ \A o \in Host \ {h} : writing[o] = None
            /\ file = SubSeq(writing[h].bytes, 1, writing[h].done)

KeptInv == kept # None => EnvelopeFor(made, kept, file)

BlobInv ==
  blob # None =>
    /\ contents \in [plaintext : Nat, for : Keyset, version : {"V1Age", "V2Hybrid"}]
    /\ contents.version = "V1Age" =>
         \E size \in Sizes :
           blob = v1_to_bytes(encrypt_with_public_key(contents.for, contents.plaintext, size))
    /\ contents.version = "V2Hybrid" =>
         \E sk \in Keyset, n \in Nat, size \in Sizes :
           blob = to_bytes(seal(contents.plaintext, contents.for, contents.for, sk, n, size))

IInv == TypeOK /\ FileInv /\ WriterInv /\ KeptInv /\ BlobInv

-----------------------------------------------------------------------------
(***************************************************************************)
(* The log of seals: it grows, and what was sealed stays sealed.           *)
(***************************************************************************)
LEMMA SealForFields ==
  ASSUME NEW log, NEW n \in DOMAIN log, NEW size \in Sizes
  PROVE  /\ FieldsOf(SealFor(log, n, size)) \subseteq FieldsMade(log)
         /\ \A x \in FieldsOf(SealFor(log, n, size)) : Sized(x)
<1>1. size \in Nat \ {0}
  BY LocalKmsAssumption
<1>2. \A x \in FieldsOf(SealFor(log, n, size)) : Sized(x)
  BY <1>1, SealFields DEF SealFor
<1>3. FieldsOf(SealFor(log, n, size)) \subseteq FieldsMade(log)
  BY DEF FieldsMade
<1>. QED  BY <1>2, <1>3

LEMMA EnvelopeType ==
  ASSUME NEW log, NEW n \in DOMAIN log, NEW data, EnvelopeFor(log, n, data)
  PROVE  data \in Seq(WordsMade(log))
<1>1. PICK size \in Sizes : data = to_bytes(SealFor(log, n, size))
  BY DEF EnvelopeFor
<1>2. /\ FieldsOf(SealFor(log, n, size)) \subseteq FieldsMade(log)
      /\ \A x \in FieldsOf(SealFor(log, n, size)) : Sized(x)
  BY SealForFields
<1>3. to_bytes(SealFor(log, n, size)) \in Seq(Words(FieldsMade(log)))
  BY <1>2, ToBytesHolds
<1>. QED  BY <1>1, <1>3 DEF WordsMade

LEMMA WordsGrow ==
  ASSUME NEW F, NEW G, F \subseteq G
  PROVE  Seq(Words(F)) \subseteq Seq(Words(G))
<1>1. Words(F) \subseteq Words(G)
  BY DEF Words
<1>. HIDE DEF Words
<1>. QED  BY <1>1, SeqMonotonic

LEMMA LogGrows ==
  ASSUME NEW log \in Seq(Keyset), NEW k \in Keyset
  PROVE  /\ Append(log, k) \in Seq(Keyset) /\ Len(Append(log, k)) = Len(log) + 1
         /\ DOMAIN log \subseteq DOMAIN Append(log, k)
         /\ Len(log) + 1 \in DOMAIN Append(log, k)
         /\ Append(log, k)[Len(log) + 1] = k
         /\ \A n \in DOMAIN log : Append(log, k)[n] = log[n]
         /\ \A n \in DOMAIN log : \A data :
              EnvelopeFor(log, n, data) => EnvelopeFor(Append(log, k), n, data)
         /\ Seq(WordsMade(log)) \subseteq Seq(WordsMade(Append(log, k)))
<1>. DEFINE more == Append(log, k)
<1>1. /\ more \in Seq(Keyset) /\ Len(more) = Len(log) + 1 /\ Len(log) \in Nat
      /\ \A i \in 1..Len(log) : more[i] = log[i]
      /\ more[Len(log) + 1] = k
  BY AppendProperties, LenProperties
<1>2. DOMAIN log = 1..Len(log) /\ DOMAIN more = 1..Len(log) + 1
  BY <1>1, LenProperties
<1>. HIDE DEF more
<1>3. DOMAIN log \subseteq DOMAIN more /\ Len(log) + 1 \in DOMAIN more
  BY <1>1, <1>2
<1>4. \A n \in DOMAIN log : more[n] = log[n]
  BY <1>1, <1>2
<1>5. \A n \in DOMAIN log : \A size : SealFor(more, n, size) = SealFor(log, n, size)
  BY <1>4 DEF SealFor
<1>6. FieldsMade(log) \subseteq FieldsMade(more)
  BY <1>3, <1>5 DEF FieldsMade
<1>7. Seq(WordsMade(log)) \subseteq Seq(WordsMade(more))
  BY <1>6, WordsGrow DEF WordsMade
<1>8. \A n \in DOMAIN log : \A data : EnvelopeFor(log, n, data) => EnvelopeFor(more, n, data)
  BY <1>5 DEF EnvelopeFor
<1>. QED  BY <1>1, <1>3, <1>4, <1>7, <1>8 DEF more

(***************************************************************************)
(* What a seal gives, and what any words of seals can give: the signature  *)
(* names one seal, and the envelope opens as that seal does.               *)
(***************************************************************************)
LEMMA EnvelopeOpens ==
  ASSUME NEW log, NEW n \in DOMAIN log, n \in Nat, NEW data, EnvelopeFor(log, n, data), NEW a, NEW q
  PROVE  Opened(data, a, q) = IF a = log[n] /\ q = log[n] THEN n ELSE None
<1>1. PICK size \in Sizes : data = to_bytes(SealFor(log, n, size))
  BY DEF EnvelopeFor
<1>2. size \in Nat \ {0}
  BY LocalKmsAssumption
<1>. QED  BY <1>1, <1>2, SealedBytesOpen DEF SealFor

LEMMA WordsOpen ==
  ASSUME NEW log \in Seq(Keyset), NEW data \in Seq(WordsMade(log)), NEW a, NEW q,
         Opened(data, a, q) # None
  PROVE  LET n == Opened(data, a, q) IN n \in DOMAIN log /\ a = log[n] /\ q = log[n]
<1>. DEFINE e == from_bytes(data)
<1>1. FieldsOf(e) \subseteq FieldsMade(log) \cup {Damaged}
  BY FromBytesType DEF WordsMade
<1>2. open(e, a, q) # None
  BY DEF Opened
<1>. HIDE DEF e
<1>3. e.signature.scheme = "mldsa"
  BY <1>2 DEF open, mldsa_verify
<1>4. e.signature \in FieldsMade(log)
  BY <1>1, <1>3 DEF FieldsOf, Damaged
<1>5. PICK n \in DOMAIN log, size \in Sizes : e.signature \in FieldsOf(SealFor(log, n, size))
  BY <1>4 DEF FieldsMade
<1>6. e.signature = SealFor(log, n, size).signature
  BY <1>3, <1>5 DEF FieldsOf, SealFor, seal, mlkem_encapsulate, encrypt_with_public_key,
     chacha_encrypt, verifying_key
<1>7. n \in Nat
  BY LenProperties
<1>8. a = log[n] /\ q = log[n] /\ open(e, a, q) = n
  BY <1>2, <1>6, <1>7, OpenedIsOfTheSignedSeal DEF SealFor
<1>. QED  BY <1>8 DEF Opened, e

-----------------------------------------------------------------------------
(***************************************************************************)
(* Writing at a position of one's own.                                     *)
(***************************************************************************)
LEMMA WriteAtType ==
  ASSUME NEW F, NEW data \in Seq(Words(F)), NEW bytes \in Seq(Words(F)), NEW done \in Nat
  PROVE  /\ WriteAt(data, done, bytes) \in Seq(Words(F))
         /\ Len(WriteAt(data, done, bytes)) =
              IF done + Len(bytes) > Len(data) THEN done + Len(bytes) ELSE Len(data)
<1>. DEFINE N == IF done + Len(bytes) > Len(data) THEN done + Len(bytes) ELSE Len(data)
            W == Words(F)
<1>1. Len(data) \in Nat /\ Len(bytes) \in Nat /\ N \in Nat
  BY LenProperties
<1>2. Zero \in W
  BY DEF Words
<1>3. /\ \A i \in 1..Len(data) : data[i] \in W
      /\ \A i \in 1..Len(bytes) : bytes[i] \in W
  BY ElementOfSeq
<1>. HIDE DEF W
<1>4. ASSUME NEW i \in 1..N
      PROVE  (IF i \in done + 1..done + Len(bytes) THEN bytes[i - done]
              ELSE IF i <= Len(data) THEN data[i] ELSE Zero) \in W
  <2>1. CASE i \in done + 1..done + Len(bytes)
    <3>1. i - done \in 1..Len(bytes)
      BY <1>1, <2>1
    <3>. QED  BY <1>3, <2>1, <3>1
  <2>2. CASE i \notin done + 1..done + Len(bytes) /\ i <= Len(data)
    BY <1>1, <1>3, <2>2
  <2>3. CASE i \notin done + 1..done + Len(bytes) /\ ~(i <= Len(data))
    BY <1>2, <2>3
  <2>. QED  BY <2>1, <2>2, <2>3
<1>5. WriteAt(data, done, bytes) \in [1..N -> W]
  BY <1>4 DEF WriteAt
<1>. HIDE DEF N
<1>6. WriteAt(data, done, bytes) \in Seq(W)
  BY <1>1, <1>5, SeqDef
<1>7. Len(WriteAt(data, done, bytes)) = N
  BY <1>1, <1>5, <1>6, LenProperties
<1>. QED  BY <1>6, <1>7 DEF W, N

\* What a lone writer has written is what it meant to write, so far.
LEMMA WriteAtExtends ==
  ASSUME NEW F, NEW bytes \in Seq(Words(F)), NEW done \in Nat, NEW upto \in Nat,
         done < upto, upto <= Len(bytes)
  PROVE  WriteAt(SubSeq(bytes, 1, done), done, SubSeq(bytes, done + 1, upto))
           = SubSeq(bytes, 1, upto)
<1>. DEFINE data == SubSeq(bytes, 1, done)
            more == SubSeq(bytes, done + 1, upto)
            all == SubSeq(bytes, 1, upto)
            file1 == WriteAt(data, done, more)
<1>1. Len(bytes) \in Nat /\ \A i \in 1..Len(bytes) : bytes[i] \in Words(F)
  BY ElementOfSeq, LenProperties
<1>2. /\ data \in Seq(Words(F)) /\ Len(data) = done
      /\ \A i \in 1..done : data[i] = bytes[i]
  <2>1. \A i \in 1..done : bytes[i] \in Words(F)
    BY <1>1
  <2>. HIDE DEF Words
  <2>2. /\ data \in Seq(Words(F)) /\ Len(data) = IF 1 <= done THEN done - 1 + 1 ELSE 0
        /\ \A i \in 1..done - 1 + 1 : data[i] = bytes[1 + i - 1]
    BY <2>1, SubSeqProperties
  <2>. HIDE DEF data
  <2>. QED  BY <2>2
<1>3. /\ more \in Seq(Words(F)) /\ Len(more) = upto - done
      /\ \A i \in 1..upto - done : more[i] = bytes[done + i]
  <2>1. \A i \in done + 1..upto : bytes[i] \in Words(F)
    BY <1>1
  <2>. HIDE DEF Words
  <2>2. /\ more \in Seq(Words(F))
        /\ Len(more) = IF done + 1 <= upto THEN upto - (done + 1) + 1 ELSE 0
        /\ \A i \in 1..upto - (done + 1) + 1 : more[i] = bytes[(done + 1) + i - 1]
    BY <2>1, SubSeqProperties
  <2>. HIDE DEF more
  <2>. QED  BY <2>2
<1>4. /\ all \in Seq(Words(F)) /\ Len(all) = upto
      /\ \A i \in 1..upto : all[i] = bytes[i]
  <2>1. \A i \in 1..upto : bytes[i] \in Words(F)
    BY <1>1
  <2>. HIDE DEF Words
  <2>2. /\ all \in Seq(Words(F)) /\ Len(all) = IF 1 <= upto THEN upto - 1 + 1 ELSE 0
        /\ \A i \in 1..upto - 1 + 1 : all[i] = bytes[1 + i - 1]
    BY <2>1, SubSeqProperties
  <2>. HIDE DEF all
  <2>. QED  BY <2>2
<1>. HIDE DEF data, more, all
<1>5. file1 \in Seq(Words(F)) /\ Len(file1) = upto
  <2>1. /\ file1 \in Seq(Words(F))
        /\ Len(file1) = IF done + Len(more) > Len(data) THEN done + Len(more) ELSE Len(data)
    BY <1>2, <1>3, WriteAtType
  <2>. QED  BY <1>2, <1>3, <2>1
<1>6. ASSUME NEW i \in 1..upto
      PROVE  file1[i] = all[i]
  <2>1. file1[i] = IF i \in done + 1..done + Len(more) THEN more[i - done]
                   ELSE IF i <= Len(data) THEN data[i] ELSE Zero
    BY <1>2, <1>3 DEF WriteAt
  <2>2. CASE i <= done
    BY <1>2, <1>4, <2>1, <2>2
  <2>3. CASE i > done
    <3>1. i - done \in 1..upto - done /\ done + (i - done) = i
      BY <2>3
    <3>2. more[i - done] = bytes[i]
      BY <1>3, <3>1
    <3>. QED  BY <1>3, <1>4, <2>1, <2>3, <3>2
  <2>. QED  BY <2>2, <2>3
<1>. HIDE DEF file1
<1>7. file1 = all
  BY <1>4, <1>5, <1>6, SeqEqual
<1>. QED  BY <1>7 DEF file1, data, more, all

-----------------------------------------------------------------------------
(***************************************************************************)
(* The invariant, action by action.                                        *)
(***************************************************************************)
Shared == FileInv /\ WriterInv /\ KeptInv /\ BlobInv

LEMMA InitIInv == Init => IInv
BY EmptySeq, LocalKmsAssumption DEF Init, IInv, TypeOK, SomeKeyset, Seals, FileInv, WriterInv,
   KeptInv, BlobInv

\* An action on the handles alone.
LEMMA SharedUnchanged ==
  ASSUME Shared, UNCHANGED <<writing, file, blob, made, kept, contents>>
  PROVE  Shared'
BY DEF Shared, FileInv, WriterInv, KeptInv, BlobInv, Seals

LEMMA StutterKeeps == IInv /\ UNCHANGED vars => IInv'
<1>. SUFFICES ASSUME IInv, UNCHANGED vars PROVE IInv'
  OBVIOUS
<1>1. Shared'
  BY SharedUnchanged DEF IInv, Shared, vars
<1>2. TypeOK'
  BY DEF IInv, TypeOK, SomeKeyset, Seals, vars
<1>. QED  BY <1>1, <1>2 DEF IInv, Shared

LEMMA GenerateKeysetKeeps ==
  ASSUME IInv, NEW h \in Host, genesis_generate_keyset(h) PROVE IInv'
<1>1. Shared'
  BY SharedUnchanged DEF IInv, Shared, genesis_generate_keyset
<1>2. TypeOK'
  BY DEF IInv, TypeOK, SomeKeyset, Seals, genesis_generate_keyset, Used
<1>. QED  BY <1>1, <1>2 DEF IInv, Shared

LEMMA FreeKeysetKeeps ==
  ASSUME IInv, NEW h \in Host, genesis_free_keyset(h) PROVE IInv'
<1>1. Shared'
  BY SharedUnchanged DEF IInv, Shared, genesis_free_keyset
<1>2. TypeOK'
  BY DEF IInv, TypeOK, SomeKeyset, Seals, genesis_free_keyset, Idle
<1>. QED  BY <1>1, <1>2 DEF IInv, Shared

LEMMA ExportKeeps ==
  ASSUME IInv, NEW h \in Host, genesis_export_age_identity(h) PROVE IInv'
<1>1. Shared'
  BY SharedUnchanged DEF IInv, Shared, genesis_export_age_identity, handles
<1>2. TypeOK'
  BY DEF IInv, TypeOK, SomeKeyset, Seals, genesis_export_age_identity, handles, Idle, generate
<1>. QED  BY <1>1, <1>2 DEF IInv, Shared

LEMMA FreeLocalKmsKeeps ==
  ASSUME IInv, NEW h \in Host, genesis_free_local_kms(h) PROVE IInv'
<1>1. Shared'
  BY SharedUnchanged DEF IInv, Shared, genesis_free_local_kms
<1>2. TypeOK'
  BY DEF IInv, TypeOK, SomeKeyset, Seals, genesis_free_local_kms
<1>. QED  BY <1>1, <1>2 DEF IInv, Shared

LEMMA InitLocalKeeps ==
  ASSUME IInv, NEW h \in Host, genesis_init_local(h) PROVE IInv'
<1>1. Shared'
  BY SharedUnchanged DEF IInv, Shared, genesis_init_local
<1>2. Opened(file, keyset[h], keyset[h]) \in Seals
  <2>1. made \in Seq(Keyset) /\ file \in Seq(WordsMade(made))
    BY DEF IInv, TypeOK, FileInv, genesis_init_local
  <2>. QED  BY <2>1, WordsOpen DEF genesis_init_local, Seals
<1>3. TypeOK'
  BY <1>2 DEF IInv, TypeOK, SomeKeyset, Seals, genesis_init_local
<1>. QED  BY <1>1, <1>3 DEF IInv, Shared

LEMMA CrashKeeps ==
  ASSUME IInv, NEW h \in Host, Crash(h) PROVE IInv'
<1>1. WriterInv'
  BY DEF IInv, WriterInv, Crash, Seals
<1>2. FileInv' /\ KeptInv' /\ BlobInv'
  BY DEF IInv, FileInv, KeptInv, BlobInv, Crash
<1>3. TypeOK'
  BY DEF IInv, TypeOK, SomeKeyset, Seals, WriterInv, Crash
<1>. QED  BY <1>1, <1>2, <1>3 DEF IInv

LEMMA FailKeeps ==
  ASSUME IInv, NEW h \in Host, Generate_fail(h) PROVE IInv'
<1>1. WriterInv'
  BY DEF IInv, WriterInv, Generate_fail, Seals
<1>2. FileInv' /\ KeptInv' /\ BlobInv'
  BY DEF IInv, FileInv, KeptInv, BlobInv, Generate_fail
<1>3. TypeOK'
  BY DEF IInv, TypeOK, SomeKeyset, Seals, WriterInv, Generate_fail
<1>. QED  BY <1>1, <1>2, <1>3 DEF IInv

LEMMA ReturnKeeps ==
  ASSUME IInv, NEW h \in Host, Generate_return(h) PROVE IInv'
<1>1. WriterInv'
  BY DEF IInv, WriterInv, Generate_return, Seals
<1>2. FileInv' /\ BlobInv'
  BY DEF IInv, FileInv, BlobInv, Generate_return
<1>3. KeptInv'
  <2>1. CASE writing[h].alone
    <3>1. /\ writing[h].bytes \in Seq(WordsMade(made))
          /\ EnvelopeFor(made, writing[h].n, writing[h].bytes)
          /\ file = SubSeq(writing[h].bytes, 1, Len(writing[h].bytes))
      BY <2>1 DEF IInv, WriterInv, Generate_return
    <3>2. file = writing[h].bytes
      BY <3>1, SubSeqFull
    <3>. QED  BY <2>1, <3>1, <3>2 DEF KeptInv, Generate_return
  <2>2. CASE ~writing[h].alone
    BY <2>2 DEF IInv, KeptInv, Generate_return
  <2>. QED  BY <2>1, <2>2
<1>4. TypeOK'
  BY DEF IInv, TypeOK, SomeKeyset, Seals, WriterInv, Generate_return
<1>. QED  BY <1>1, <1>2, <1>3, <1>4 DEF IInv

LEMMA WriteKeeps ==
  ASSUME IInv, NEW h \in Host, Generate_write(h) PROVE IInv'
<1>. DEFINE w == writing[h]
            W == Seq(WordsMade(made))
<1>1. PICK upto \in w.done + 1..Len(w.bytes) :
        /\ file' = WriteAt(file, w.done, SubSeq(w.bytes, w.done + 1, upto))
        /\ writing' = [writing EXCEPT ![h].done = upto]
  BY DEF Generate_write
<1>2. /\ writing[h] # None /\ w.done < Len(w.bytes)
      /\ UNCHANGED <<keyset, provider, blob, exported, made, contents>> /\ kept' = None
  BY DEF Generate_write
<1>3. /\ w \in [n : Seals, done : Nat, alone : BOOLEAN, bytes : W]
      /\ EnvelopeFor(made, w.n, w.bytes) /\ file \in W
      /\ w.alone => /\ \A o \in Host \ {h} : writing[o] = None
                    /\ file = SubSeq(w.bytes, 1, w.done)
  BY <1>2 DEF IInv, WriterInv
<1>4. upto \in Nat /\ w.done < upto /\ upto <= Len(w.bytes) /\ Len(w.bytes) \in Nat
  BY <1>1, <1>3, LenProperties
<1>5. file' \in W
  <2>1. \A i \in w.done + 1..upto : w.bytes[i] \in WordsMade(made)
    BY <1>3, <1>4, ElementOfSeq
  <2>2. w.done \in Nat /\ w.done + 1 \in Int
    BY <1>3
  <2>3. SubSeq(w.bytes, w.done + 1, upto) \in W
    <3>. HIDE DEF w
    <3>. QED  BY <1>4, <2>1, <2>2, SubSeqProperties
  <2>. QED  BY <1>1, <1>3, <2>2, <2>3, WriteAtType DEF WordsMade
<1>6. DOMAIN writing = Host
  BY DEF IInv, WriterInv
<1>7. writing'[h] = [w EXCEPT !.done = upto] /\ \A o \in Host \ {h} : writing'[o] = writing[o]
  BY <1>1, <1>6
<1>8. WriterInv'
  <2>1. DOMAIN writing' = Host
    BY <1>1, <1>6
  <2>2. ASSUME NEW o \in Host, writing'[o] # None
        PROVE  /\ writing'[o] \in [n : Seals', done : Nat, alone : BOOLEAN, bytes : W]
               /\ EnvelopeFor(made, writing'[o].n, writing'[o].bytes)
               /\ writing'[o].alone =>
                    /\ \A i \in Host \ {o} : writing'[i] = None
                    /\ file' = SubSeq(writing'[o].bytes, 1, writing'[o].done)
    <3>1. CASE o = h
      <4>1. /\ writing'[h] \in [n : Seals, done : Nat, alone : BOOLEAN, bytes : W]
            /\ writing'[h].n = w.n /\ writing'[h].alone = w.alone
            /\ writing'[h].bytes = w.bytes /\ writing'[h].done = upto
        BY <1>3, <1>4, <1>7
      <4>2. ASSUME w.alone
            PROVE  file' = SubSeq(w.bytes, 1, upto)
        BY <1>1, <1>3, <1>4, <4>2, WriteAtExtends DEF WordsMade
      <4>. HIDE DEF w, W
      <4>. QED  BY <1>2, <1>3, <1>7, <3>1, <4>1, <4>2 DEF Seals
    <3>2. CASE o # h
      <4>1. writing'[o] = writing[o] /\ writing[o] # None
        BY <1>7, <2>2, <3>2
      <4>2. /\ writing[o] \in [n : Seals, done : Nat, alone : BOOLEAN, bytes : W]
            /\ EnvelopeFor(made, writing[o].n, writing[o].bytes)
            /\ ~writing[o].alone
        BY <1>2, <3>2, <4>1 DEF IInv, WriterInv
      <4>. QED  BY <1>2, <4>1, <4>2 DEF Seals
    <3>. QED  BY <3>1, <3>2
  <2>3. W' = W /\ made' = made
    BY <1>2
  <2>. HIDE DEF w, W
  <2>4. \A o \in Host : writing'[o] # None =>
          /\ writing'[o] \in [n : Seals', done : Nat, alone : BOOLEAN, bytes : W']
          /\ EnvelopeFor(made', writing'[o].n, writing'[o].bytes)
          /\ file' \in W'
          /\ writing'[o].alone =>
               /\ \A i \in Host \ {o} : writing'[i] = None
               /\ file' = SubSeq(writing'[o].bytes, 1, writing'[o].done)
    BY <1>5, <2>2, <2>3
  <2>. QED  BY <2>1, <2>4 DEF WriterInv, W
<1>9. FileInv' /\ KeptInv' /\ BlobInv'
  BY <1>2, <1>5 DEF IInv, FileInv, KeptInv, BlobInv
<1>10. TypeOK'
  <2>1. ASSUME NEW o \in Host, writing'[o] # None
        PROVE  keyset[o] # None /\ writing'[o].n \in Seals
               /\ writing'[o].done \in 0..Len(writing'[o].bytes)
    <3>1. CASE o = h
      BY <1>2, <1>3, <1>4, <1>7, <3>1 DEF IInv, TypeOK
    <3>2. CASE o # h
      BY <1>7, <2>1, <3>2 DEF IInv, TypeOK
    <3>. QED  BY <3>1, <3>2
  <2>. QED  BY <1>2, <2>1 DEF IInv, TypeOK, SomeKeyset, Seals
<1>. QED  BY <1>8, <1>9, <1>10 DEF IInv

\* A seal of data: the log grows, and the file is not touched.
LEMMA SealGrows ==
  ASSUME IInv, NEW k \in Keyset, made' = Append(made, k), Len(made) < MaxSeals,
         UNCHANGED <<handles, file, exported, kept>>
  PROVE  TypeOK' /\ FileInv' /\ WriterInv' /\ KeptInv'
<1>1. /\ made \in Seq(Keyset) /\ made' \in Seq(Keyset) /\ Len(made') = Len(made) + 1
      /\ DOMAIN made \subseteq DOMAIN made'
      /\ \A n \in DOMAIN made : \A data :
           EnvelopeFor(made, n, data) => EnvelopeFor(made', n, data)
      /\ Seq(WordsMade(made)) \subseteq Seq(WordsMade(made'))
  BY LogGrows DEF IInv, TypeOK
<1>2. UNCHANGED <<keyset, provider, writing, file, exported, kept>>
  BY DEF handles
<1>3. TypeOK'
  <2>1. Len(made') <= MaxSeals
    BY <1>1, LenProperties, LocalKmsAssumption
  <2>. QED  BY <1>1, <1>2, <2>1 DEF IInv, TypeOK, SomeKeyset, Seals
<1>. DEFINE W == Seq(WordsMade(made))
<1>4. FileInv'
  BY <1>1, <1>2 DEF IInv, FileInv
<1>5. KeptInv'
  BY <1>1, <1>2 DEF IInv, TypeOK, KeptInv, Seals
<1>6. WriterInv'
  <2>1. ASSUME NEW h \in Host, writing[h] # None
        PROVE  /\ writing[h] \in [n : DOMAIN made', done : Nat, alone : BOOLEAN,
                                  bytes : Seq(WordsMade(made'))]
               /\ EnvelopeFor(made', writing[h].n, writing[h].bytes)
               /\ file \in Seq(WordsMade(made'))
    <3>1. /\ writing[h] \in [n : DOMAIN made, done : Nat, alone : BOOLEAN, bytes : W]
          /\ EnvelopeFor(made, writing[h].n, writing[h].bytes)
          /\ file \in W
      BY <2>1 DEF IInv, WriterInv, Seals
    <3>. QED  BY <1>1, <3>1
  <2>. QED  BY <1>2, <2>1 DEF IInv, WriterInv, Seals
<1>. QED  BY <1>3, <1>4, <1>5, <1>6

LEMMA IdleKeyset ==
  ASSUME IInv, NEW h \in Host, keyset[h] # None
  PROVE  keyset[h] \in Keyset /\ SealNo \in Nat /\ (SealNo <= MaxSeals => Len(made) < MaxSeals)
<1>1. keyset[h] \in Keyset /\ made \in Seq(Keyset)
  BY DEF IInv, TypeOK, SomeKeyset
<1>2. Len(made) \in Nat
  BY <1>1, LenProperties
<1>. QED  BY <1>1, <1>2, LocalKmsAssumption DEF SealNo

LEMMA SealHybridKeeps ==
  ASSUME IInv, NEW h \in Host, genesis_seal_hybrid(h) PROVE IInv'
<1>. DEFINE k == keyset[h]
<1>1. k \in Keyset /\ SealNo \in Nat /\ Len(made) < MaxSeals
  BY IdleKeyset DEF genesis_seal_hybrid, Idle
<1>2. TypeOK' /\ FileInv' /\ WriterInv' /\ KeptInv'
  BY <1>1, SealGrows DEF genesis_seal_hybrid
<1>3. PICK size \in Sizes : blob' = to_bytes(seal(SealNo, k, k, k, SealNo, size))
  BY DEF genesis_seal_hybrid, generate
<1>4. contents' = [plaintext |-> SealNo, for |-> k, version |-> "V2Hybrid"]
  BY DEF genesis_seal_hybrid
<1>5. BlobInv'
  BY <1>1, <1>3, <1>4 DEF BlobInv
<1>. QED  BY <1>2, <1>5 DEF IInv

LEMMA SealV1Keeps ==
  ASSUME IInv, NEW h \in Host, SealV1(h) PROVE IInv'
<1>. DEFINE k == keyset[h]
<1>1. k \in Keyset /\ SealNo \in Nat /\ Len(made) < MaxSeals
  BY IdleKeyset DEF SealV1, Idle
<1>2. TypeOK' /\ FileInv' /\ WriterInv' /\ KeptInv'
  BY <1>1, SealGrows DEF SealV1
<1>3. PICK size \in Sizes : blob' = v1_to_bytes(encrypt_with_public_key(k, SealNo, size))
  BY DEF SealV1, generate
<1>4. contents' = [plaintext |-> SealNo, for |-> k, version |-> "V1Age"]
  BY DEF SealV1
<1>5. BlobInv'
  BY <1>1, <1>3, <1>4 DEF BlobInv
<1>. QED  BY <1>2, <1>5 DEF IInv

\* The first word tells the formats apart.
LEMMA FormatOfV1 ==
  ASSUME NEW k, NEW p, NEW size \in Sizes
  PROVE  LET data == v1_to_bytes(encrypt_with_public_key(k, p, size)) IN
         /\ detect_envelope_version(data) = "V1Age"
         /\ FieldOf(data) = encrypt_with_public_key(k, p, size)
<1>. DEFINE c == encrypt_with_public_key(k, p, size)
<1>1. Sized(c)
  BY LocalKmsAssumption DEF Sized, encrypt_with_public_key
<1>2. FieldWords(c)[1] # Magic
  BY <1>1 DEF FieldWords, Sized, Magic
<1>. HIDE DEF c
<1>3. FieldOf(v1_to_bytes(c)) = c
  BY <1>1, FieldIsBack DEF v1_to_bytes
<1>. QED  BY <1>2, <1>3 DEF detect_envelope_version, v1_to_bytes, c

LEMMA FormatOfV2 ==
  ASSUME NEW p, NEW r, NEW m, NEW sk, NEW n, NEW size \in Sizes
  PROVE  detect_envelope_version(to_bytes(seal(p, r, m, sk, n, size))) = "V2Hybrid"
<1>. DEFINE e == seal(p, r, m, sk, n, size)
            data == to_bytes(e)
<1>1. \A x \in FieldsOf(e) : Sized(x)
  BY SealFields, LocalKmsAssumption
<1>. HIDE DEF e
<1>2. /\ data \in Seq(Words(FieldsOf(e))) /\ Len(data) >= 2 /\ data[1] = Magic
  BY <1>1, ToBytesHolds
<1>. HIDE DEF data
<1>3. data # <<>>
  BY <1>2, EmptySeq
<1>. QED  BY <1>2, <1>3 DEF detect_envelope_version, data, e

LEMMA UpgradeKeeps ==
  ASSUME IInv, NEW h \in Host, Upgrade(h) PROVE IInv'
<1>1. SealNo \in Nat /\ Len(made) < MaxSeals
  BY IdleKeyset DEF Upgrade, Idle
<1>2. blob # None /\ detect_envelope_version(blob) = "V1Age"
  BY DEF Upgrade
<1>. DEFINE up(to, identity, size) ==
       LET keys == genesis_get_public_keys(to) IN
       upgrade_envelope(blob, identity, keys.age_recipient, keys.mlkem_public_key,
                        generate(keyset[h]).signing_key, SealNo, size)
<1>3. PICK to \in Host, identity \in exported \cup {keyset[h]}, size \in Sizes :
        /\ keyset[to] # None
        /\ up(to, identity, size) # None
        /\ blob' = to_bytes(up(to, identity, size))
        /\ made' = Append(made, keyset[to])
        /\ contents' = [contents EXCEPT !.for = keyset[to], !.version = "V2Hybrid"]
  BY DEF Upgrade
<1>. DEFINE k == keyset[to]
            sk == keyset[h]
<1>4. k \in Keyset /\ sk \in Keyset
  BY <1>3, IdleKeyset DEF Upgrade, Idle
<1>5. TypeOK' /\ FileInv' /\ WriterInv' /\ KeptInv'
  BY <1>1, <1>3, <1>4, SealGrows DEF Upgrade
<1>6. contents \in [plaintext : Nat, for : Keyset, version : {"V1Age", "V2Hybrid"}]
  BY <1>2 DEF IInv, BlobInv
<1>7. contents.version = "V1Age"
  <2>1. ASSUME contents.version = "V2Hybrid" PROVE FALSE
    BY <1>2, <2>1, FormatOfV2 DEF IInv, BlobInv
  <2>. QED  BY <1>6, <2>1
<1>8. PICK size1 \in Sizes :
        blob = v1_to_bytes(encrypt_with_public_key(contents.for, contents.plaintext, size1))
  BY <1>2, <1>7 DEF IInv, BlobInv
<1>9. FieldOf(blob) = encrypt_with_public_key(contents.for, contents.plaintext, size1)
  BY <1>8, FormatOfV1
<1>10. up(to, identity, size) = seal(contents.plaintext, k, k, sk, SealNo, size)
  BY <1>3, <1>9 DEF upgrade_envelope, decrypt_with_private_key, encrypt_with_public_key,
     genesis_get_public_keys, public_keys_json, generate
<1>. HIDE DEF up, k, sk
<1>11. contents' = [plaintext |-> contents.plaintext, for |-> k, version |-> "V2Hybrid"]
  BY <1>3, <1>6 DEF k
<1>12. /\ contents' \in [plaintext : Nat, for : Keyset, version : {"V1Age", "V2Hybrid"}]
       /\ contents'.plaintext = contents.plaintext /\ contents'.for = k
       /\ contents'.version = "V2Hybrid"
  BY <1>4, <1>6, <1>11
<1>13. blob' = to_bytes(seal(contents'.plaintext, contents'.for, contents'.for, sk, SealNo, size))
  BY <1>3, <1>10, <1>12
<1>14. BlobInv'
  BY <1>1, <1>4, <1>12, <1>13 DEF BlobInv
<1>. QED  BY <1>5, <1>14 DEF IInv

LEMMA CreateKeeps ==
  ASSUME IInv, NEW h \in Host, Generate_create(h) PROVE IInv'
<1>. DEFINE k == keyset[h]
            Writers == {o \in Host : writing[o] # None}
            W == Seq(WordsMade(made))
            W1 == Seq(WordsMade(made'))
<1>1. k \in Keyset /\ SealNo \in Nat /\ Len(made) < MaxSeals
  BY IdleKeyset DEF Generate_create, Idle
<1>2. /\ made' = Append(made, k) /\ file' = <<>> /\ kept' = None
      /\ writing[h] = None /\ keyset[h] # None
      /\ UNCHANGED <<keyset, provider, blob, exported, contents>>
  BY DEF Generate_create, Idle
<1>3. PICK size \in Sizes :
        writing' = [o \in Host |->
          IF o = h THEN [n |-> SealNo, done |-> 0, alone |-> Writers = {},
                         bytes |-> to_bytes(seal(SealNo, k, k, k, SealNo, size))]
          ELSE IF o \in Writers THEN [writing[o] EXCEPT !.alone = FALSE]
          ELSE None]
  BY DEF Generate_create, generate
<1>4. /\ made \in Seq(Keyset) /\ made' \in Seq(Keyset) /\ Len(made') = Len(made) + 1
      /\ DOMAIN made \subseteq DOMAIN made'
      /\ SealNo \in DOMAIN made' /\ made'[SealNo] = k
      /\ \A n \in DOMAIN made : \A data :
           EnvelopeFor(made, n, data) => EnvelopeFor(made', n, data)
      /\ W \subseteq W1
  BY <1>1, <1>2, LogGrows DEF IInv, TypeOK, SealNo
<1>. DEFINE bytes == to_bytes(seal(SealNo, k, k, k, SealNo, size))
<1>5. EnvelopeFor(made', SealNo, bytes)
  BY <1>4 DEF EnvelopeFor, SealFor
<1>6. bytes \in W1
  BY <1>4, <1>5, EnvelopeType
<1>. HIDE DEF bytes, W1
<1>7. <<>> \in W1
  BY EmptySeq DEF W1
<1>8. SubSeq(bytes, 1, 0) = <<>>
  BY SubSeqEmpty
<1>9. ASSUME NEW o \in Host, writing'[o] # None
      PROVE  /\ writing'[o] \in [n : DOMAIN made', done : Nat, alone : BOOLEAN, bytes : W1]
             /\ EnvelopeFor(made', writing'[o].n, writing'[o].bytes)
             /\ writing'[o].done \in 0..Len(writing'[o].bytes)
             /\ keyset[o] # None
             /\ writing'[o].alone =>
                  /\ \A i \in Host \ {o} : writing'[i] = None
                  /\ SubSeq(writing'[o].bytes, 1, writing'[o].done) = <<>>
  <2>1. CASE o = h
    <3>1. writing'[h] = [n |-> SealNo, done |-> 0, alone |-> Writers = {}, bytes |-> bytes]
      BY <1>3 DEF bytes
    <3>2. Len(bytes) \in Nat
      BY <1>6, LenProperties DEF W1
    <3>3. Writers = {} => \A i \in Host \ {h} : writing'[i] = None
      BY <1>3
    <3>. DEFINE lone == Writers = {}
    <3>4. lone \in BOOLEAN
      OBVIOUS
    <3>. HIDE DEF lone
    <3>5. /\ writing'[h].n = SealNo /\ writing'[h].done = 0
          /\ writing'[h].bytes = bytes /\ writing'[h].alone = lone
      BY <3>1 DEF lone
    <3>6. writing'[h] \in [n : DOMAIN made', done : Nat, alone : BOOLEAN, bytes : W1]
      BY <1>4, <1>6, <3>1, <3>4 DEF lone
    <3>7. writing'[h].alone => \A i \in Host \ {h} : writing'[i] = None
      BY <3>3, <3>5 DEF lone
    <3>. QED  BY <1>2, <1>5, <1>8, <2>1, <3>2, <3>5, <3>6, <3>7
  <2>2. CASE o # h
    <3>1. writing[o] # None /\ writing'[o] = [writing[o] EXCEPT !.alone = FALSE]
      BY <1>3, <1>9, <2>2
    <3>2. /\ writing[o] \in [n : DOMAIN made, done : Nat, alone : BOOLEAN, bytes : W]
          /\ EnvelopeFor(made, writing[o].n, writing[o].bytes)
          /\ writing[o].done \in 0..Len(writing[o].bytes) /\ keyset[o] # None
      BY <3>1 DEF IInv, WriterInv, TypeOK, Seals
    <3>. HIDE DEF W
    <3>3. /\ writing'[o] \in [n : DOMAIN made, done : Nat, alone : BOOLEAN, bytes : W]
          /\ writing'[o].n = writing[o].n /\ writing'[o].bytes = writing[o].bytes
          /\ writing'[o].done = writing[o].done /\ writing'[o].alone = FALSE
      BY <3>1, <3>2
    <3>. QED  BY <1>4, <3>2, <3>3
  <2>. QED  BY <2>1, <2>2
<1>10. DOMAIN writing' = Host
  BY <1>3
<1>11. WriterInv'
  BY <1>2, <1>7, <1>9, <1>10 DEF WriterInv, Seals, W1
<1>12. FileInv' /\ KeptInv' /\ BlobInv'
  BY <1>2, <1>7 DEF IInv, FileInv, KeptInv, BlobInv, W1
<1>13. TypeOK'
  <2>1. Len(made') <= MaxSeals
    BY <1>1, <1>4, LenProperties, LocalKmsAssumption
  <2>2. \A o \in Host : writing'[o] # None =>
          /\ keyset[o] # None
          /\ writing'[o].n \in DOMAIN made' /\ writing'[o].done \in 0..Len(writing'[o].bytes)
    BY <1>9
  <2>. QED  BY <1>2, <1>4, <2>1, <2>2 DEF IInv, TypeOK, SomeKeyset, Seals
<1>. QED  BY <1>11, <1>12, <1>13 DEF IInv

LEMMA NextKeepsIInv == IInv /\ [Next]_vars => IInv'
<1>. SUFFICES ASSUME IInv, [Next]_vars PROVE IInv'
  OBVIOUS
<1>1. CASE UNCHANGED vars
  BY <1>1, StutterKeeps
<1>2. ASSUME NEW h \in Host,
             \/ genesis_generate_keyset(h) \/ genesis_free_keyset(h)
             \/ genesis_export_age_identity(h) \/ genesis_seal_hybrid(h)
             \/ SealV1(h) \/ Upgrade(h) \/ Generate_create(h) \/ Generate_write(h)
             \/ Generate_return(h) \/ Generate_fail(h) \/ genesis_init_local(h)
             \/ genesis_free_local_kms(h) \/ Crash(h)
      PROVE  IInv'
  BY <1>2, GenerateKeysetKeeps, FreeKeysetKeeps, ExportKeeps, SealHybridKeeps, SealV1Keeps,
     UpgradeKeeps, CreateKeeps, WriteKeeps, ReturnKeeps, FailKeeps, InitLocalKeeps,
     FreeLocalKmsKeeps, CrashKeeps
<1>. QED  BY <1>1, <1>2 DEF Next

\* The file, the writers and the blob are at any time what the seals made them.
THEOREM Invariance == Spec => []IInv
BY InitIInv, NextKeepsIInv, PTL DEF Spec

-----------------------------------------------------------------------------
(***************************************************************************)
(* What the handles, the file and the log are.                             *)
(***************************************************************************)
THEOREM TypeCorrect == Spec => []TypeOK
<1>1. IInv => TypeOK
  BY DEF IInv
<1>. QED  BY <1>1, Invariance, PTL

(***************************************************************************)
(* Whatever is at envelope_path, in whatever order however many hosts      *)
(* wrote, stopped and failed there, opens for nobody, or for the keyset    *)
(* and as the master key of one seal.                                      *)
(***************************************************************************)
THEOREM FileIsNeverMixed == Spec => []FileNeverMixed
<1>1. IInv => FileNeverMixed
  <2>. SUFFICES ASSUME IInv, file # None, NEW a \in Keyset, NEW q \in Keyset,
                       Opened(file, a, q) # None
                PROVE  LET m == Opened(file, a, q) IN m \in Seals /\ a = made[m] /\ q = made[m]
    BY DEF FileNeverMixed
  <2>1. made \in Seq(Keyset) /\ file \in Seq(WordsMade(made))
    BY DEF IInv, TypeOK, FileInv
  <2>. QED  BY <2>1, WordsOpen DEF Seals
<1>. QED  BY <1>1, Invariance, PTL

(***************************************************************************)
(* A master key whose generate returned, and which nobody wrote over, is   *)
(* what the file gives to its keyset, and to no other pair of keys.        *)
(***************************************************************************)
THEOREM KeptMasterIsReloaded == Spec => []KeptMasterReloads
<1>1. IInv => KeptMasterReloads
  <2>. SUFFICES ASSUME IInv, kept # None
                PROVE  /\ \A a, q \in Keyset :
                            Opened(file, a, q) = IF a = made[kept] /\ q = made[kept] THEN kept
                                                 ELSE None
                       /\ \A h \in Host : provider[h] = kept =>
                            decrypt(Opened(file, made[kept], made[kept]),
                                    encrypt(provider[h], "data")) = "data"
    BY DEF KeptMasterReloads
  <2>1. kept \in DOMAIN made /\ kept \in Nat
    BY LenProperties DEF IInv, TypeOK, Seals
  <2>2. EnvelopeFor(made, kept, file)
    BY DEF IInv, KeptInv
  <2>3. \A a, q : Opened(file, a, q) = IF a = made[kept] /\ q = made[kept] THEN kept ELSE None
    BY <2>1, <2>2, EnvelopeOpens
  <2>. QED  BY <2>3 DEF decrypt, encrypt, chacha_decrypt, chacha_encrypt
<1>. QED  BY <1>1, Invariance, PTL

(***************************************************************************)
(* An envelope of data opens for the keyset it is for and for no other,    *)
(* before and after its upgrade, and its first word tells its format.      *)
(***************************************************************************)
THEOREM BlobIsForItsOwner == Spec => []BlobOpensForOwner
<1>1. IInv => BlobOpensForOwner
  <2>. SUFFICES ASSUME IInv, blob # None
                PROVE  /\ detect_envelope_version(blob) = contents.version
                       /\ \A a, q \in Keyset :
                            LET owner == /\ a = contents.for
                                         /\ contents.version = "V2Hybrid" => q = contents.for
                                got == IF contents.version = "V1Age"
                                         THEN decrypt_with_private_key(a, FieldOf(blob))
                                         ELSE Opened(blob, a, q)
                            IN got = IF owner THEN contents.plaintext ELSE None
    BY DEF BlobOpensForOwner
  <2>1. CASE contents.version = "V1Age"
    <3>1. PICK size \in Sizes :
            blob = v1_to_bytes(encrypt_with_public_key(contents.for, contents.plaintext, size))
      BY <2>1 DEF IInv, BlobInv
    <3>2. /\ detect_envelope_version(blob) = "V1Age"
          /\ FieldOf(blob) = encrypt_with_public_key(contents.for, contents.plaintext, size)
      BY <3>1, FormatOfV1
    <3>. QED  BY <2>1, <3>2 DEF decrypt_with_private_key, encrypt_with_public_key
  <2>2. CASE contents.version = "V2Hybrid"
    <3>1. PICK sk \in Keyset, n \in Nat, size \in Sizes :
            blob = to_bytes(seal(contents.plaintext, contents.for, contents.for, sk, n, size))
      BY <2>2 DEF IInv, BlobInv
    <3>2. detect_envelope_version(blob) = "V2Hybrid"
      BY <3>1, FormatOfV2
    <3>3. \A a, q : Opened(blob, a, q) =
            IF a = contents.for /\ q = contents.for THEN contents.plaintext ELSE None
      BY <3>1, SealedBytesOpen, LocalKmsAssumption
    <3>. QED  BY <2>2, <3>2, <3>3
  <2>. QED  BY <2>1, <2>2 DEF IInv, BlobInv
<1>. QED  BY <1>1, Invariance, PTL
=============================================================================
