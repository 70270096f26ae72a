------------------------ MODULE HybridEnvelopeProofs ------------------------
(***************************************************************************)
(* The hybrid envelope, for every keyset, every length of its fields and   *)
(* every string of words: what is written is read back, what is read was   *)
(* written, and what opens a seal.                                         *)
(***************************************************************************)
EXTENDS HybridEnvelope, SequenceTheorems, TLAPS

\* The words of the fields in F, of lengths and of holes.
Words(F) ==
  {Magic, Zero} \cup [word : {"length"}, n : Nat]
    \cup [word : {"data"}, of : F, part : Nat]

\* A value that takes up at least one word.
Sized(x) == x.size \in Nat \ {0}

\* The five fields of an envelope.
FieldsOf(e) ==
  {e.mlkem_ciphertext, e.age_ciphertext, e.encrypted_secret, e.signature,
   e.signing_public_key}

\* x is in data, with its length in front, at c.
Holds(data, c, x) ==
  /\ c \in Nat \ {0} /\ c + x.size <= Len(data)
  /\ data[c] = LengthWord(x.size)
  /\ \A i \in 1..x.size : data[c + i] = [word |-> "data", of |-> x, part |-> i]

-----------------------------------------------------------------------------
(***************************************************************************)
(* The words of a field, and the field of these words.                     *)
(***************************************************************************)
LEMMA FieldWordsType ==
  ASSUME NEW F, NEW x \in F, Sized(x)
  PROVE  /\ FieldWords(x) \in Seq(Words(F))
         /\ Len(FieldWords(x)) = x.size
         /\ \A i \in 1..x.size : FieldWords(x)[i] = [word |-> "data", of |-> x, part |-> i]
<1>1. FieldWords(x) \in [1..x.size -> Words(F)]
  BY DEF FieldWords, Words, Sized
<1>2. FieldWords(x) \in Seq(Words(F))
  BY <1>1, SeqDef DEF Sized
<1>3. Len(FieldWords(x)) = x.size
  BY <1>1, <1>2, LenProperties DEF Sized
<1>. QED  BY <1>2, <1>3 DEF FieldWords

LEMMA FieldIsBack == ASSUME NEW x, Sized(x) PROVE FieldOf(FieldWords(x)) = x
<1>1. FieldWords(x) # <<>>
  BY FieldWordsType, EmptySeq DEF Sized
<1>2. FieldWords(x)[1] = [word |-> "data", of |-> x, part |-> 1]
  BY DEF FieldWords, Sized
<1>. QED  BY <1>1, <1>2 DEF FieldOf

\* A field that is read was in the words, or is damaged.
LEMMA FieldOfType ==
  ASSUME NEW F, NEW words \in Seq(Words(F))
  PROVE  FieldOf(words) \in F \cup {Damaged}
<1>1. CASE words # <<>> /\ words[1].word = "data"
  <2>1. words[1] \in Words(F)
    BY <1>1, EmptySeq, ElementOfSeq
  <2>2. words[1].of \in F
    BY <1>1, <2>1 DEF Words, Magic, Zero
  <2>. QED  BY <2>2 DEF FieldOf
<1>2. CASE ~(words # <<>> /\ words[1].word = "data")
  BY <1>2 DEF FieldOf
<1>. QED  BY <1>1, <1>2

-----------------------------------------------------------------------------
(***************************************************************************)
(* Fields one after the other.                                             *)
(***************************************************************************)
LEMMA WriteType ==
  ASSUME NEW F, NEW x \in F, Sized(x)
  PROVE  /\ write_length_prefixed(x) \in Seq(Words(F))
         /\ Len(write_length_prefixed(x)) = 1 + x.size
         /\ Holds(write_length_prefixed(x), 1, x)
<1>. DEFINE l == <<LengthWord(x.size)>>
            w == write_length_prefixed(x)
<1>1. LengthWord(x.size) \in Words(F)
  BY DEF LengthWord, Words, Sized
<1>2. l \in Seq(Words(F)) /\ Len(l) = 1 /\ l[1] = LengthWord(x.size)
  BY <1>1
<1>3. /\ FieldWords(x) \in Seq(Words(F)) /\ Len(FieldWords(x)) = x.size
      /\ \A i \in 1..x.size : FieldWords(x)[i] = [word |-> "data", of |-> x, part |-> i]
  BY FieldWordsType
<1>4. w = l \o FieldWords(x)
  BY DEF write_length_prefixed
<1>. HIDE DEF l, w
<1>5. /\ w \in Seq(Words(F))
      /\ Len(w) = 1 + x.size
      /\ \A i \in 1..1 + x.size : w[i] = IF i <= 1 THEN l[i] ELSE FieldWords(x)[i - 1]
  BY <1>2, <1>3, <1>4, ConcatProperties
<1>6. Holds(w, 1, x)
  <2>1. w[1] = LengthWord(x.size)
    BY <1>2, <1>5 DEF Sized
  <2>2. ASSUME NEW i \in 1..x.size
        PROVE  w[1 + i] = [word |-> "data", of |-> x, part |-> i]
    <3>1. w[1 + i] = FieldWords(x)[i]
      BY <1>5 DEF Sized
    <3>. QED  BY <1>3, <3>1
  <2>. QED  BY <1>5, <2>1, <2>2 DEF Holds, Sized
<1>. QED  BY <1>5, <1>6 DEF w

\* What is in a part of the words is in the whole.
LEMMA HoldsInConcat ==
  ASSUME NEW W, NEW s \in Seq(W), NEW t \in Seq(W), NEW x, Sized(x), NEW c
  PROVE  /\ Holds(s, c, x) => Holds(s \o t, c, x)
         /\ Holds(t, c, x) => Holds(s \o t, Len(s) + c, x)
<1>1. /\ Len(s) \in Nat /\ Len(t) \in Nat
      /\ Len(s \o t) = Len(s) + Len(t)
      /\ \A i \in 1..Len(s) + Len(t) : (s \o t)[i] = IF i <= Len(s) THEN s[i] ELSE t[i - Len(s)]
  BY ConcatProperties, LenProperties
<1>. DEFINE st == s \o t
<1>. HIDE DEF st
<1>2. ASSUME Holds(s, c, x)
      PROVE  Holds(st, c, x)
  <2>1. c \in Nat \ {0} /\ c + x.size <= Len(st)
    BY <1>1, <1>2 DEF Holds, Sized, st
  <2>2. st[c] = LengthWord(x.size)
    BY <1>1, <1>2 DEF Holds, Sized, st
  <2>3. ASSUME NEW i \in 1..x.size
        PROVE  st[c + i] = [word |-> "data", of |-> x, part |-> i]
    <3>1. st[c + i] = s[c + i]
      BY <1>1, <1>2 DEF Holds, Sized, st
    <3>. QED  BY <1>2, <3>1 DEF Holds
  <2>. QED  BY <2>1, <2>2, <2>3 DEF Holds
<1>3. ASSUME Holds(t, c, x)
      PROVE  Holds(st, Len(s) + c, x)
  <2>1. Len(s) + c \in Nat \ {0} /\ (Len(s) + c) + x.size <= Len(st)
    BY <1>1, <1>3 DEF Holds, Sized, st
  <2>2. st[Len(s) + c] = LengthWord(x.size)
    BY <1>1, <1>3 DEF Holds, Sized, st
  <2>3. ASSUME NEW i \in 1..x.size
        PROVE  st[(Len(s) + c) + i] = [word |-> "data", of |-> x, part |-> i]
    <3>1. st[(Len(s) + c) + i] = t[c + i]
      BY <1>1, <1>3 DEF Holds, Sized, st
    <3>. QED  BY <1>3, <3>1 DEF Holds
  <2>. QED  BY <2>1, <2>2, <2>3 DEF Holds
<1>. QED  BY <1>2, <1>3 DEF st

\* One more field behind some words.
LEMMA HoldsWritten ==
  ASSUME NEW F, NEW s \in Seq(Words(F)), NEW x \in F, Sized(x)
  PROVE  LET st == s \o write_length_prefixed(x) IN
         /\ st \in Seq(Words(F)) /\ Len(st) = Len(s) + 1 + x.size
         /\ Holds(st, Len(s) + 1, x)
         /\ \A c : \A y \in F : Sized(y) /\ Holds(s, c, y) => Holds(st, c, y)
<1>. DEFINE w == write_length_prefixed(x)
<1>1. w \in Seq(Words(F)) /\ Len(w) = 1 + x.size /\ Holds(w, 1, x)
  BY WriteType
<1>. HIDE DEF w
<1>2. s \o w \in Seq(Words(F)) /\ Len(s \o w) = Len(s) + 1 + x.size
  BY <1>1, ConcatProperties, LenProperties DEF Sized
<1>3. Holds(s \o w, Len(s) + 1, x)
  BY <1>1, HoldsInConcat
<1>4. \A c : \A y \in F : Sized(y) /\ Holds(s, c, y) => Holds(s \o w, c, y)
  BY <1>1, HoldsInConcat
<1>. QED  BY <1>2, <1>3, <1>4 DEF w

(***************************************************************************)
(* A field that is there is read, and the cursor is then behind it.        *)
(***************************************************************************)
LEMMA ReadHeld ==
  ASSUME NEW F, NEW data \in Seq(Words(F)), NEW x \in F, Sized(x), NEW c, Holds(data, c, x)
  PROVE  read_length_prefixed(data, c) = [field |-> x, cursor |-> c + x.size + 1]
<1>1. /\ c \in 1..Len(data) /\ c \in Nat /\ Len(data) \in Nat
      /\ data[c].word = "length" /\ data[c].n = x.size
  BY LenProperties DEF Holds, Sized, LengthWord
<1>. DEFINE part == SubSeq(data, c + 1, c + x.size)
<1>2. part = FieldWords(x)
  <2>1. \A i \in c + 1..c + x.size : data[i] \in Words(F)
    BY <1>1, ElementOfSeq DEF Holds, Sized
  <2>2. c + 1 \in Int /\ c + x.size \in Int /\ c + 1 <= c + x.size
    BY <1>1 DEF Sized
  <2>3. /\ part \in Seq(Words(F))
        /\ Len(part) = (c + x.size) - (c + 1) + 1
        /\ \A i \in 1..(c + x.size) - (c + 1) + 1 : part[i] = data[(c + 1) + i - 1]
    <3>. HIDE DEF Words
    <3>. QED  BY <2>1, <2>2, SubSeqProperties
  <2>. HIDE DEF part
  <2>4. (c + x.size) - (c + 1) + 1 = x.size
    BY <1>1 DEF Sized
  <2>5. Len(part) = x.size
    BY <2>3, <2>4
  <2>6. ASSUME NEW i \in 1..x.size
        PROVE  part[i] = FieldWords(x)[i]
    <3>1. part[i] = data[(c + 1) + i - 1]
      BY <2>3, <2>4
    <3>3. (c + 1) + i - 1 = c + i
      BY <1>1 DEF Sized
    <3>2. data[c + i] = [word |-> "data", of |-> x, part |-> i]
      BY DEF Holds
    <3>. QED  BY <3>1, <3>2, <3>3, FieldWordsType
  <2>7. FieldWords(x) \in Seq(Words(F)) /\ Len(FieldWords(x)) = x.size
    BY FieldWordsType
  <2>. QED  BY <2>3, <2>5, <2>6, <2>7, SeqEqual
<1>3. FieldOf(part) = x
  BY <1>2, FieldIsBack
<1>. HIDE DEF part
<1>4. c + data[c].n <= Len(data) /\ c + data[c].n \in Nat
  BY <1>1 DEF Holds, Sized
<1>5. read_length_prefixed(data, c) = [field |-> FieldOf(part), cursor |-> c + x.size + 1]
  BY <1>1, <1>4 DEF read_length_prefixed, part
<1>. QED  BY <1>3, <1>5

\* Whatever is read was in the words, or is damaged.
LEMMA ReadType ==
  ASSUME NEW F, NEW data \in Seq(Words(F)), NEW c
  PROVE  read_length_prefixed(data, c).field \in F \cup {Damaged}
<1>1. CASE c \in 1..Len(data) /\ data[c].word \in {"length", "zero"}
           /\ c + data[c].n <= Len(data)
  <2>1. c \in Nat /\ data[c] \in Words(F) /\ Len(data) \in Nat
    BY <1>1, ElementOfSeq, LenProperties
  <2>2. data[c].n \in Nat
    BY <1>1, <2>1 DEF Words, Magic, Zero
  <2>3. SubSeq(data, c + 1, c + data[c].n) \in Seq(Words(F))
    <3>1. \A i \in c + 1..c + data[c].n : data[i] \in Words(F)
      BY <1>1, <2>1, <2>2, ElementOfSeq
    <3>. QED  BY <2>1, <2>2, <3>1, SubSeqProperties
  <2>4. FieldOf(SubSeq(data, c + 1, c + data[c].n)) \in F \cup {Damaged}
    BY <2>3, FieldOfType
  <2>5. ~(c + data[c].n > Len(data))
    BY <1>1, <2>1, <2>2
  <2>. QED  BY <1>1, <2>4, <2>5 DEF read_length_prefixed
<1>2. CASE ~(c \in 1..Len(data) /\ data[c].word \in {"length", "zero"})
  BY <1>2 DEF read_length_prefixed, Failed
<1>3. CASE c \in 1..Len(data) /\ data[c].word \in {"length", "zero"}
           /\ ~(c + data[c].n <= Len(data))
  <2>1. c \in Nat /\ data[c] \in Words(F) /\ Len(data) \in Nat
    BY <1>3, ElementOfSeq, LenProperties
  <2>2. data[c].n \in Nat
    BY <1>3, <2>1 DEF Words, Magic, Zero
  <2>3. c + data[c].n > Len(data)
    BY <1>3, <2>1, <2>2
  <2>. QED  BY <1>3, <2>3 DEF read_length_prefixed, Failed
<1>. QED  BY <1>1, <1>2, <1>3

-----------------------------------------------------------------------------
(***************************************************************************)
(* to_bytes writes the five fields where from_bytes reads them, whatever   *)
(* their lengths are (envelope.rs: to_bytes, from_bytes).                  *)
(***************************************************************************)
LEMMA ToBytesHolds ==
  ASSUME NEW F, NEW e, FieldsOf(e) \subseteq F, \A x \in FieldsOf(e) : Sized(x)
  PROVE  LET c2 == 3 + e.mlkem_ciphertext.size + 1
             c3 == c2 + e.age_ciphertext.size + 1
             c4 == c3 + e.encrypted_secret.size + 1
             c5 == c4 + e.signature.size + 1
             data == to_bytes(e)
         IN /\ data \in Seq(Words(F)) /\ Len(data) >= 2 /\ data[1] = Magic
            /\ Holds(data, 3, e.mlkem_ciphertext)
            /\ Holds(data, c2, e.age_ciphertext)
            /\ Holds(data, c3, e.encrypted_secret)
            /\ Holds(data, c4, e.signature)
            /\ Holds(data, c5, e.signing_public_key)
<1>. DEFINE x1 == e.mlkem_ciphertext
            x2 == e.age_ciphertext
            x3 == e.encrypted_secret
            x4 == e.signature
            x5 == e.signing_public_key
            b1 == write_length_prefixed(x1)
            b2 == b1 \o write_length_prefixed(x2)
            b3 == b2 \o write_length_prefixed(x3)
            b4 == b3 \o write_length_prefixed(x4)
            b5 == b4 \o write_length_prefixed(x5)
            head == <<Magic, LengthWord(Len(b5))>>
<1>1. /\ x1 \in F /\ x2 \in F /\ x3 \in F /\ x4 \in F /\ x5 \in F
      /\ Sized(x1) /\ Sized(x2) /\ Sized(x3) /\ Sized(x4) /\ Sized(x5)
  BY DEF FieldsOf
<1>2. to_bytes(e) = head \o b5
  BY DEF to_bytes
<1>. HIDE DEF x1, x2, x3, x4, x5
<1>3. b1 \in Seq(Words(F)) /\ Len(b1) = 1 + x1.size /\ Holds(b1, 1, x1)
  BY <1>1, WriteType
<1>. HIDE DEF b1
<1>4. /\ b2 \in Seq(Words(F)) /\ Len(b2) = Len(b1) + 1 + x2.size
      /\ Holds(b2, 1, x1) /\ Holds(b2, Len(b1) + 1, x2)
  BY <1>1, <1>3, HoldsWritten
<1>. HIDE DEF b2
<1>5. /\ b3 \in Seq(Words(F)) /\ Len(b3) = Len(b2) + 1 + x3.size
      /\ Holds(b3, 1, x1) /\ Holds(b3, Len(b1) + 1, x2) /\ Holds(b3, Len(b2) + 1, x3)
  BY <1>1, <1>4, HoldsWritten
<1>. HIDE DEF b3
<1>6. /\ b4 \in Seq(Words(F)) /\ Len(b4) = Len(b3) + 1 + x4.size
      /\ Holds(b4, 1, x1) /\ Holds(b4, Len(b1) + 1, x2) /\ Holds(b4, Len(b2) + 1, x3)
      /\ Holds(b4, Len(b3) + 1, x4)
  BY <1>1, <1>5, HoldsWritten
<1>. HIDE DEF b4
<1>7. /\ b5 \in Seq(Words(F)) /\ Len(b5) = Len(b4) + 1 + x5.size
      /\ Holds(b5, 1, x1) /\ Holds(b5, Len(b1) + 1, x2) /\ Holds(b5, Len(b2) + 1, x3)
      /\ Holds(b5, Len(b3) + 1, x4) /\ Holds(b5, Len(b4) + 1, x5)
  BY <1>1, <1>6, HoldsWritten
<1>. HIDE DEF b5
<1>8. head \in Seq(Words(F)) /\ Len(head) = 2 /\ head[1] = Magic
  <2>1. Len(b5) \in Nat
    BY <1>7, LenProperties
  <2>2. Magic \in Words(F) /\ LengthWord(Len(b5)) \in Words(F)
    BY <2>1 DEF Words, LengthWord
  <2>. QED  BY <2>2
<1>. HIDE DEF head
<1>. DEFINE data == head \o b5
<1>9. /\ data \in Seq(Words(F)) /\ Len(data) >= 2 /\ data[1] = Magic
  <2>1. b5 \in Seq(Words(F)) /\ Len(b5) \in Nat
    BY <1>7, LenProperties
  <2>2. /\ data \in Seq(Words(F)) /\ Len(data) = Len(head) + Len(b5)
        /\ \A i \in 1..Len(head) + Len(b5) :
             data[i] = IF i <= Len(head) THEN head[i] ELSE b5[i - Len(head)]
    BY <1>8, <2>1, ConcatProperties
  <2>. HIDE DEF data
  <2>3. data[1] = head[1]
    BY <1>8, <2>1, <2>2
  <2>. QED  BY <1>8, <2>1, <2>2, <2>3
<1>10. /\ Holds(data, 2 + 1, x1) /\ Holds(data, 2 + (Len(b1) + 1), x2)
       /\ Holds(data, 2 + (Len(b2) + 1), x3) /\ Holds(data, 2 + (Len(b3) + 1), x4)
       /\ Holds(data, 2 + (Len(b4) + 1), x5)
  <2>. HIDE DEF data
  <2>1. \A c, x : Sized(x) /\ Holds(b5, c, x) => Holds(data, 2 + c, x)
    BY <1>7, <1>8, HoldsInConcat DEF data
  <2>. QED  BY <1>1, <1>7, <2>1
<1>. HIDE DEF data
<1>. DEFINE c2 == 3 + x1.size + 1
            c3 == c2 + x2.size + 1
            c4 == c3 + x3.size + 1
            c5 == c4 + x4.size + 1
<1>11. /\ 2 + 1 = 3 /\ 2 + (Len(b1) + 1) = c2 /\ 2 + (Len(b2) + 1) = c3
       /\ 2 + (Len(b3) + 1) = c4 /\ 2 + (Len(b4) + 1) = c5
  <2>. DEFINE s1 == x1.size
              s2 == x2.size
              s3 == x3.size
              s4 == x4.size
  <2>1. /\ Len(b1) = 1 + s1 /\ Len(b2) = Len(b1) + 1 + s2
        /\ Len(b3) = Len(b2) + 1 + s3 /\ Len(b4) = Len(b3) + 1 + s4
    BY <1>3, <1>4, <1>5, <1>6
  <2>2. s1 \in Nat /\ s2 \in Nat /\ s3 \in Nat /\ s4 \in Nat
    BY <1>1 DEF Sized
  <2>. HIDE DEF s1, s2, s3, s4
  <2>3. /\ 2 + (Len(b1) + 1) = 3 + s1 + 1
        /\ 2 + (Len(b2) + 1) = 3 + s1 + 1 + s2 + 1
        /\ 2 + (Len(b3) + 1) = 3 + s1 + 1 + s2 + 1 + s3 + 1
        /\ 2 + (Len(b4) + 1) = 3 + s1 + 1 + s2 + 1 + s3 + 1 + s4 + 1
    BY <2>1, <2>2
  <2>. QED  BY <2>3 DEF s1, s2, s3, s4
<1>12. /\ Holds(data, 3, x1) /\ Holds(data, c2, x2) /\ Holds(data, c3, x3)
       /\ Holds(data, c4, x4) /\ Holds(data, c5, x5)
  BY <1>10, <1>11
<1>. QED  BY <1>2, <1>9, <1>12 DEF x1, x2, x3, x4, x5, data

(***************************************************************************)
(* from_bytes finds in what to_bytes wrote the five fields, of any lengths *)
(* (envelope.rs: to_bytes, from_bytes).                                    *)
(***************************************************************************)
THEOREM RoundTrip ==
  ASSUME NEW e, \A x \in FieldsOf(e) : Sized(x)
  PROVE  from_bytes(to_bytes(e)) =
           [mlkem_ciphertext |-> e.mlkem_ciphertext, age_ciphertext |-> e.age_ciphertext,
            encrypted_secret |-> e.encrypted_secret, signature |-> e.signature,
            signing_public_key |-> e.signing_public_key]
<1>. DEFINE F == FieldsOf(e)
            data == to_bytes(e)
            c2 == 3 + e.mlkem_ciphertext.size + 1
            c3 == c2 + e.age_ciphertext.size + 1
            c4 == c3 + e.encrypted_secret.size + 1
            c5 == c4 + e.signature.size + 1
            c6 == c5 + e.signing_public_key.size + 1
<1>1. /\ data \in Seq(Words(F)) /\ Len(data) >= 2 /\ data[1] = Magic
      /\ Holds(data, 3, e.mlkem_ciphertext)
      /\ Holds(data, c2, e.age_ciphertext)
      /\ Holds(data, c3, e.encrypted_secret)
      /\ Holds(data, c4, e.signature)
      /\ Holds(data, c5, e.signing_public_key)
  BY ToBytesHolds
<1>2. /\ e.mlkem_ciphertext \in F /\ e.age_ciphertext \in F /\ e.encrypted_secret \in F
      /\ e.signature \in F /\ e.signing_public_key \in F
  BY DEF FieldsOf
<1>3. \A x \in F : Sized(x)
  OBVIOUS
<1>. HIDE DEF F, data
<1>4. /\ read_length_prefixed(data, 3) = [field |-> e.mlkem_ciphertext, cursor |-> c2]
      /\ read_length_prefixed(data, c2) = [field |-> e.age_ciphertext, cursor |-> c3]
      /\ read_length_prefixed(data, c3) = [field |-> e.encrypted_secret, cursor |-> c4]
      /\ read_length_prefixed(data, c4) = [field |-> e.signature, cursor |-> c5]
      /\ read_length_prefixed(data, c5) = [field |-> e.signing_public_key, cursor |-> c6]
  BY <1>1, <1>2, <1>3, ReadHeld
<1>5. c6 # 0
  BY <1>2, <1>3 DEF Sized
<1>. HIDE DEF c2, c3, c4, c5, c6
<1>6. Len(data) \in Nat
  BY <1>1, LenProperties
<1>7. ~(Len(data) < 2 \/ data[1] # Magic \/ [field |-> e.signing_public_key, cursor |-> c6] = Failed)
  BY <1>1, <1>5, <1>6 DEF Failed
<1>. QED  BY <1>4, <1>7 DEF from_bytes, data

\* What is parsed out of any words was in them, or is damaged.
LEMMA FromBytesType ==
  ASSUME NEW F, NEW data \in Seq(Words(F))
  PROVE  FieldsOf(from_bytes(data)) \subseteq F \cup {Damaged}
<1>1. \A c : read_length_prefixed(data, c).field \in F \cup {Damaged}
  BY ReadType
<1>. HIDE DEF Words
<1>. QED  BY <1>1 DEF from_bytes, FieldsOf, Unparsed

-----------------------------------------------------------------------------
\* Each field of a seal has a length.
LEMMA SealFields ==
  ASSUME NEW p, NEW r, NEW m, NEW sk, NEW n, NEW size \in Nat \ {0}
  PROVE  \A x \in FieldsOf(seal(p, r, m, sk, n, size)) : Sized(x)
BY DEF FieldsOf, seal, Sized, mlkem_encapsulate, encrypt_with_public_key, chacha_encrypt,
       mldsa_sign, verifying_key

(***************************************************************************)
(* Who has both private keys opens a seal and gets its plaintext; one of   *)
(* them is not enough, nor is another key in place of either.              *)
(***************************************************************************)
THEOREM SealOpens ==
  ASSUME NEW p, NEW r, NEW m, NEW sk, NEW n \in Nat, NEW size, NEW a, NEW q
  PROVE  open(seal(p, r, m, sk, n, size), a, q) = IF a = r /\ q = m THEN p ELSE None
<1>. DEFINE e == seal(p, r, m, sk, n, size)
            c == [kind |-> "classical", n |-> n]
            s == [kind |-> "pq", n |-> n]
<1>1. mldsa_verify(e.signing_public_key, digest(e), e.signature)
  BY DEF mldsa_verify, mldsa_sign, verifying_key, digest, seal
<1>2. /\ decrypt_with_private_key(a, e.age_ciphertext) = IF r = a THEN c ELSE None
      /\ q = m => mlkem_decapsulate(q, e.mlkem_ciphertext) = s
      /\ q # m => mlkem_decapsulate(q, e.mlkem_ciphertext).kind = "rejected"
      /\ e.encrypted_secret.scheme = "chacha" /\ e.encrypted_secret.plaintext = p
      /\ e.encrypted_secret.key = <<c, s>>
  BY DEF seal, decrypt_with_private_key, encrypt_with_public_key, mlkem_decapsulate,
         mlkem_encapsulate, chacha_encrypt, combine_shared_secrets
<1>3. c # None /\ s # None
  BY NoneAssumption
<1>4. s.kind = "pq"
  OBVIOUS
<1>. HIDE DEF e, c, s
<1>. DEFINE ss == mlkem_decapsulate(q, e.mlkem_ciphertext)
<1>5. q # m => <<c, ss>> # <<c, s>>
  BY <1>2, <1>4
<1>6. open(e, a, q) = IF r # a \/ ss = None THEN None
                      ELSE IF <<c, ss>> = <<c, s>> THEN p ELSE None
  BY <1>1, <1>2, <1>3 DEF open, chacha_decrypt, combine_shared_secrets
<1>7. CASE q = m
  BY <1>2, <1>3, <1>6, <1>7 DEF e
<1>8. CASE q # m
  BY <1>5, <1>6, <1>8 DEF e
<1>. QED  BY <1>7, <1>8

(***************************************************************************)
(* Written and parsed, a seal opens for its owner and for nobody else.     *)
(***************************************************************************)
THEOREM SealedBytesOpen ==
  ASSUME NEW p, NEW r, NEW m, NEW sk, NEW n \in Nat, NEW size \in Nat \ {0}, NEW a, NEW q
  PROVE  Opened(to_bytes(seal(p, r, m, sk, n, size)), a, q) =
           IF a = r /\ q = m THEN p ELSE None
<1>. DEFINE e == seal(p, r, m, sk, n, size)
<1>1. from_bytes(to_bytes(e)) = e
  <2>1. e = [mlkem_ciphertext |-> e.mlkem_ciphertext, age_ciphertext |-> e.age_ciphertext,
             encrypted_secret |-> e.encrypted_secret, signature |-> e.signature,
             signing_public_key |-> e.signing_public_key]
    BY DEF seal
  <2>2. \A x \in FieldsOf(e) : Sized(x)
    BY SealFields
  <2>. HIDE DEF e
  <2>. QED  BY <2>1, <2>2, RoundTrip
<1>. QED  BY <1>1, SealOpens DEF Opened

(***************************************************************************)
(* Only a signature made for these three fields lets an envelope open: the *)
(* fields of one seal cannot stand in for those of another.                *)
(***************************************************************************)
THEOREM OpenedIsOfTheSignedSeal ==
  ASSUME NEW p, NEW r, NEW m, NEW sk, NEW n \in Nat, NEW size, NEW a, NEW q, NEW e,
         e.signature = seal(p, r, m, sk, n, size).signature,
         open(e, a, q) # None
  PROVE  a = r /\ q = m /\ open(e, a, q) = p
<1>. DEFINE o == seal(p, r, m, sk, n, size)
<1>1. mldsa_verify(e.signing_public_key, digest(e), e.signature)
  BY DEF open
<1>2. digest(e) = digest(o)
  BY <1>1 DEF mldsa_verify, mldsa_sign, digest, seal
<1>3. /\ e.mlkem_ciphertext = o.mlkem_ciphertext /\ e.age_ciphertext = o.age_ciphertext
      /\ e.encrypted_secret = o.encrypted_secret
  <2>. HIDE DEF o
  <2>. QED  BY <1>2 DEF digest
<1>4. mldsa_verify(o.signing_public_key, digest(o), o.signature)
  BY DEF mldsa_verify, mldsa_sign, verifying_key, digest, seal
<1>. HIDE DEF o
<1>5. open(e, a, q) = open(o, a, q)
  BY <1>1, <1>2, <1>3, <1>4 DEF open
<1>. QED  BY <1>5, SealOpens DEF o
=============================================================================
