--------------------------- MODULE WireTextProofs ---------------------------
(***************************************************************************)
(* However many characters of a text are edited, and wherever, what is     *)
(* read from it has that text and no other, and is never the identity.     *)
(***************************************************************************)
EXTENDS WireTexts, EncodingProofs

\* Bytes are digits twice over, so their text is a text.
LEMMA HexIsText ==
    ASSUME NEW bytes \in Seq(Bytes)
    PROVE  Hex(bytes) \in Seq(Characters)
<1>1. Hex(bytes) \in Seq(Digits)
  BY HexFacts
<1>2. Digits \subseteq Characters
  <2>1. Radix \in Nat
    BY BaseIsNatural
  <2>2. QED BY <2>1 DEF Digits, Characters
<1>3. QED BY <1>1, <1>2

\* Everything that is written is a text.
LEMMA WrittenIsText ==
    /\ \A v \in Elements : ElementText(v) \in Seq(Characters)
    /\ \A v \in Scalars \X Scalars : SignatureText(v) \in Seq(Characters)
    /\ \A p \in Points : KeyText(p) \in Seq(Characters)
<1>1. \A v \in 0..(Power[Width] - 1) : Canonical(v) \in Seq(Bytes)
  BY CanonicalFacts
<1>2. Power[Width] \in Nat
  BY Powers, BaseIsNatural
<1>3. ASSUME NEW v \in Elements PROVE ElementText(v) \in Seq(Characters)
  <2>1. v \in 0..(Power[Width] - 1)
    BY <1>2, ModuliFit DEF Elements
  <2>2. QED BY <1>1, <2>1, HexIsText DEF ElementText
<1>4. ASSUME NEW v \in Scalars \X Scalars PROVE SignatureText(v) \in Seq(Characters)
  <2>1. v[1] \in 0..(Power[Width] - 1) /\ v[2] \in 0..(Power[Width] - 1)
    BY <1>2, ModuliFit DEF Scalars
  <2>2. Canonical(v[1]) \o Canonical(v[2]) \in Seq(Bytes)
    BY <1>1, <2>1
  <2>3. QED BY <2>2, HexIsText DEF SignatureText
<1>5. ASSUME NEW p \in Points PROVE KeyText(p) \in Seq(Characters)
  <2> DEFINE v == p.y + (IF p.negative THEN SignFlag ELSE 0)
  <2>1. p.y \in 0..(Modulus - 1)
    BY EncodingAssumption DEF Points
  <2>2. v \in 0..(Power[Width] - 1)
    BY <1>2, <2>1, ModuliFit
  <2>3. PointBytes(p) \in Seq(Bytes)
    BY <1>1, <2>2 DEF PointBytes
  <2>4. QED BY <2>3, HexIsText DEF KeyText
<1>6. QED BY <1>3, <1>4, <1>5

\* An edited text is a text.
LEMMA EditsAreTexts ==
    ASSUME NEW t \in Seq(Characters), NEW c \in Characters
    PROVE  /\ \A i \in DOMAIN t : [t EXCEPT ![i] = c] \in Seq(Characters)
           /\ \A i \in 1..(Len(t) + 1) : InsertAt(t, i, c) \in Seq(Characters)
           /\ \A i \in DOMAIN t : RemoveAt(t, i) \in Seq(Characters)
<1>1. ASSUME NEW i \in DOMAIN t PROVE [t EXCEPT ![i] = c] \in Seq(Characters)
  OBVIOUS
<1>2. ASSUME NEW i \in 1..(Len(t) + 1) PROVE InsertAt(t, i, c) \in Seq(Characters)
  <2>1. /\ SubSeq(t, 1, i - 1) \in Seq(Characters)
        /\ SubSeq(t, i, Len(t)) \in Seq(Characters)
    OBVIOUS
  <2>2. QED BY <2>1 DEF InsertAt
<1>3. ASSUME NEW i \in DOMAIN t PROVE RemoveAt(t, i) \in Seq(Characters)
  <2>1. /\ SubSeq(t, 1, i - 1) \in Seq(Characters)
        /\ SubSeq(t, i + 1, Len(t)) \in Seq(Characters)
    OBVIOUS
  <2>2. QED BY <2>1 DEF RemoveAt
<1>4. QED BY <1>1, <1>2, <1>3

\* What was written is a value of its kind, and what arrives is a text.
IInv ==
    /\ text \in Seq(Characters)
    /\ \/ kind = "element" /\ value \in Elements
       \/ kind = "signature" /\ value \in Scalars \X Scalars
       \/ kind = "key" /\ value \in Points

LEMMA InvariantHolds == Spec => []IInv
<1>1. Init => IInv
  BY WrittenIsText DEF Init, IInv
<1>2. IInv /\ [Next]_vars => IInv'
  <2> SUFFICES ASSUME IInv, [Next]_vars PROVE IInv'
    OBVIOUS
  <2>1. CASE \E i \in 1..(Len(text) + 1) :
               \E c \in Characters : Exchange(i, c) \/ InsertChar(i, c)
    BY <2>1, EditsAreTexts DEF Exchange, InsertChar, Edited, IInv
  <2>2. CASE \E i \in 1..(Len(text) + 1) : Delete(i)
    <3>1. 0 \in Characters
      <4>1. Radix \in Nat
        BY BaseIsNatural
      <4>2. QED BY <4>1 DEF Characters
    <3>2. QED BY <2>2, <3>1, EditsAreTexts DEF Delete, Edited, IInv
  <2>3. CASE UNCHANGED vars
    BY <2>3 DEF vars, IInv
  <2>4. QED BY <2>1, <2>2, <2>3 DEF Next
<1>3. QED BY <1>1, <1>2, PTL DEF Spec

\* A decoded signature is a pair.
LEMMA DecodedIsPair ==
    ASSUME NEW t, NEW v \in Decoded(t)
    PROVE  v = <<v[1], v[2]>>
BY DEF Decoded

\* However a text was edited, what is read from it has that text: no element,
\* signature or key has a second one (encoding::parse, decoded, from_hex).
THEOREM OneTextEach == Spec => []OneTextPerValue
<1>1. IInv => OneTextPerValue
  <2> SUFFICES ASSUME IInv, NEW k \in {"element", "signature", "key"},
                      NEW v \in Read(k, text)
               PROVE  text = Written(k, v)
    BY DEF OneTextPerValue
  <2>1. text \in Seq(Characters)
    BY DEF IInv
  <2>2. CASE k = "element"
    BY <2>1, <2>2, ElementTexts DEF Read, Written
  <2>3. CASE k = "signature"
    <3>1. v \in Decoded(text)
      BY <2>3 DEF Read
    <3>2. v = <<v[1], v[2]>>
      BY <3>1, DecodedIsPair
    <3>3. text = SignatureText(<<v[1], v[2]>>)
      BY <2>1, <3>1, <3>2, SignatureTexts
    <3>4. QED BY <2>3, <3>2, <3>3 DEF Written
  <2>4. CASE k = "key"
    BY <2>1, <2>4, KeyTexts DEF Read, Written
  <2>5. QED BY <2>2, <2>3, <2>4
<1>2. QED BY <1>1, InvariantHolds, PTL

\* A text is read as at most one value of a kind.
LEMMA OneReading ==
    ASSUME NEW t
    PROVE  /\ \A v, w \in ParseElement(t) : v = w
           /\ \A v, w \in Decoded(t) : v = w
           /\ \A v, w \in FromHex(t) : v = w
<1>1. \A a, b \in BytesOf(t) : a = b
  BY DEF BytesOf
<1>2. \A bytes, modulus : \A v, w \in Deserialize(bytes, modulus) : v = w
  BY DEF Deserialize
<1>3. \A bytes : \A v, w \in DeserializePoint(bytes) : v = w
  BY <1>2 DEF DeserializePoint
<1>4. \A v, w \in ParseElement(t) : v = w
  BY <1>1, <1>2 DEF ParseElement
<1>5. \A v, w \in Decoded(t) : v = w
  <2> SUFFICES ASSUME NEW v \in Decoded(t), NEW w \in Decoded(t) PROVE v = w
    OBVIOUS
  <2>1. PICK bytes \in BytesOf(t) :
           v \in Deserialize(bytes, ScalarModulus)
             \X Deserialize(SubSeq(bytes, Width + 1, Len(bytes)), ScalarModulus)
    BY DEF Decoded
  <2>2. w \in Deserialize(bytes, ScalarModulus)
             \X Deserialize(SubSeq(bytes, Width + 1, Len(bytes)), ScalarModulus)
    BY <1>1 DEF Decoded
  <2>3. v[1] = w[1] /\ v[2] = w[2]
    BY <1>2, <2>1, <2>2
  <2>4. QED BY <2>3, DecodedIsPair
<1>6. \A v, w \in FromHex(t) : v = w
  BY <1>1, <1>3 DEF FromHex
<1>7. QED BY <1>4, <1>5, <1>6

\* A fingerprint names one key, the identity's included: AgeCredential::verify and
\* the hash of a credential take the text for the key, and no two points of the
\* group share one (IssuerPublicKey::fingerprint).
THEOREM FingerprintsNameKeys ==
    ASSUME NEW p \in Points, NEW q \in Points, KeyText(q) = KeyText(p)
    PROVE  q = p
<1> DEFINE Number(point) == point.y + (IF point.negative THEN SignFlag ELSE 0)
<1>1. ASSUME NEW point \in Points
      PROVE  /\ point.y \in 0..(Modulus - 1)
             /\ Number(point) \in 0..(Power[Width] - 1)
             /\ PointBytes(point) \in Seq(Bytes)
             /\ LittleEndian(PointBytes(point)) = Number(point)
  <2>1. Power[Width] \in Nat
    BY Powers, BaseIsNatural
  <2>2. point.y \in 0..(Modulus - 1)
    BY EncodingAssumption DEF Points
  <2>3. Number(point) \in 0..(Power[Width] - 1)
    BY <2>1, <2>2, ModuliFit
  <2>4. PointBytes(point) = Canonical(Number(point))
    BY DEF PointBytes
  <2> HIDE DEF Number
  <2>5. QED BY <2>2, <2>3, <2>4, CanonicalFacts
<1>2. PointBytes(p) \in BytesOf(KeyText(p)) /\ PointBytes(q) \in BytesOf(KeyText(p))
  BY <1>1, BytesOfFacts, WrittenIsText DEF KeyText
<1>3. PointBytes(p) = PointBytes(q)
  BY <1>2 DEF BytesOf
<1>4. Number(p) = Number(q)
  BY <1>1, <1>3
<1>5. /\ p.y \in 0..(Modulus - 1) /\ q.y \in 0..(Modulus - 1)
      /\ p.negative \in BOOLEAN /\ q.negative \in BOOLEAN
  BY <1>1 DEF Points
<1>6. p.y = q.y /\ (p.negative <=> q.negative)
  <2>1. CASE p.negative /\ q.negative
    BY <2>1, <1>4, <1>5, ModuliFit
  <2>2. CASE ~p.negative /\ ~q.negative
    BY <2>2, <1>4, <1>5, ModuliFit
  <2>3. CASE p.negative /\ ~q.negative
    BY <2>3, <1>4, <1>5, ModuliFit
  <2>4. CASE ~p.negative /\ q.negative
    BY <2>4, <1>4, <1>5, ModuliFit
  <2> QED
    BY <2>1, <2>2, <2>3, <2>4
<1>7. QED BY <1>5, <1>6 DEF Points

\* The text a value was written as is read as that value, unless it is the
\* identity, which is never read.
THEOREM RoundTrip == Spec => []ReadsBack
<1>1. IInv => ReadsBack
  <2> SUFFICES ASSUME IInv, text = Written(kind, value)
               PROVE  Read(kind, text) =
                         IF kind = "key" /\ value.y = IdentityY THEN {} ELSE {value}
    BY DEF ReadsBack
  <2>1. text \in Seq(Characters)
    BY DEF IInv
  <2>2. CASE kind = "element" /\ value \in Elements
    <3>1. Read(kind, text) = ParseElement(text) /\ text = ElementText(value)
      BY <2>2 DEF Read, Written
    <3>2. value \in ParseElement(text)
      BY <2>1, <2>2, <3>1, ElementTexts
    <3>3. QED BY <2>2, <3>1, <3>2, OneReading
  <2>3. CASE kind = "signature" /\ value \in Scalars \X Scalars
    <3>1. Read(kind, text) = Decoded(text) /\ text = SignatureText(value)
      BY <2>3 DEF Read, Written
    <3>2. value = <<value[1], value[2]>> /\ value[1] \in Scalars /\ value[2] \in Scalars
      BY <2>3
    <3>3. <<value[1], value[2]>> \in Decoded(text)
      BY <2>1, <3>1, <3>2, SignatureTexts
    <3>4. QED BY <2>3, <3>1, <3>2, <3>3, OneReading
  <2>4. CASE kind = "key" /\ value \in Points
    <3>1. Read(kind, text) = FromHex(text) /\ text = KeyText(value)
      BY <2>4 DEF Read, Written
    <3>2. value.y # IdentityY => value \in FromHex(text)
      BY <2>1, <2>4, <3>1, KeyTexts
    <3>3. value.y = IdentityY => FromHex(text) = {}
      BY <2>1, <2>4, <3>1, KeyTexts, FingerprintsNameKeys
    <3>4. QED BY <2>4, <3>1, <3>2, <3>3, OneReading
  <2>5. QED BY <2>2, <2>3, <2>4 DEF IInv
<1>2. QED BY <1>1, InvariantHolds, PTL
=============================================================================
