------------------------------ MODULE Encoding ------------------------------
(***************************************************************************)
(* The texts of field elements, signatures and keys (encoding.rs,          *)
(* commitment.rs field_serde, issuer.rs).  A character is a number: below  *)
(* Radix a digit, below twice Radix that digit as a capital, and two more  *)
(* for the plus sign, which Rust's own parser of numbers lets pass, and    *)
(* for anything else.  What a decoder returns is a set: of the one value,  *)
(* or of none if it refuses.                                               *)
(***************************************************************************)
EXTENDS Integers, Sequences

CONSTANTS
    Radix,          \* sixteen
    Width,          \* bytes of an element: thirty-two
    Modulus,        \* of the scalar field Fr, where coordinates live as well
    ScalarModulus,  \* of JubJubScalar
    Ordinates,      \* the y coordinates of the issuers' group
    IdentityY       \* that of the identity, the only point with x = 0 there

ByteBase == Radix * Radix
Power[n \in Nat] == IF n = 0 THEN 1 ELSE ByteBase * Power[n - 1]

\* The top bit of a point's text tells the sign of its x coordinate.
SignFlag == Power[Width] \div 2

ASSUME EncodingAssumption ==
    /\ Radix \in Nat /\ Radix > 1 /\ Width \in Nat /\ Width > 0
    /\ Modulus \in Nat /\ Modulus <= SignFlag
    /\ ScalarModulus \in Nat /\ ScalarModulus <= Power[Width]
    /\ Ordinates \subseteq 0..(Modulus - 1)

Digits     == 0..(Radix - 1)
Plus       == 2 * Radix
Characters == 0..(2 * Radix + 1)
Bytes      == 0..(ByteBase - 1)
Elements   == 0..(Modulus - 1)
Scalars    == 0..(ScalarModulus - 1)

----------------------------------------------------------------------------
(* Bytes and numbers.                                                      *)

\* The number whose little-endian bytes these are.
LittleEndian(bytes) ==
    LET fromLast[n \in 0..Len(bytes)] ==
            IF n = 0 THEN 0
            ELSE bytes[Len(bytes) + 1 - n] + ByteBase * fromLast[n - 1]
    IN  fromLast[Len(bytes)]

\* encoding::canonical: serialize_compressed of an element.
Canonical(v) ==
    LET rest[i \in 0..Width] == IF i = 0 THEN v ELSE rest[i - 1] \div ByteBase
    IN  [i \in 1..Width |-> rest[i - 1] % ByteBase]

\* deserialize_compressed: reads Width bytes and refuses unreduced values.
Deserialize(bytes, modulus) ==
    IF Len(bytes) < Width THEN {}
    ELSE {LittleEndian(SubSeq(bytes, 1, Width))} \cap 0..(modulus - 1)

----------------------------------------------------------------------------
(* Bytes and hexadecimal text.                                             *)

\* Defect for a mutant run: a byte is not padded to two digits.
HexUnpadded(bytes) ==
    LET digits == [i \in 1..(2 * Len(bytes)) |->
                      IF i % 2 = 1 THEN bytes[(i + 1) \div 2] \div Radix
                      ELSE bytes[i \div 2] % Radix]
    IN  IF bytes[1] < Radix THEN Tail(digits) ELSE digits

\* encoding::hex
Hex(bytes) ==
    [i \in 1..(2 * Len(bytes)) |->
        IF i % 2 = 1 THEN bytes[(i + 1) \div 2] \div Radix
        ELSE bytes[i \div 2] % Radix]

\* u8::from_str_radix on a pair takes digits of either case, or a sign and one.
DigitValue(c) == IF c < Radix THEN c ELSE c - Radix
FromStrRadix(high, low) ==
    IF high = Plus THEN DigitValue(low)
    ELSE DigitValue(high) * Radix + DigitValue(low)

\* Defect for a mutant run: pairs are parsed with no look at their characters.
BytesOfUnchecked(text) ==
    IF \/ Len(text) % 2 # 0
       \/ \E i \in DOMAIN text :
             \/ text[i] > Plus
             \/ text[i] = Plus /\ (i % 2 = 0 \/ text[i + 1] = Plus)
    THEN {}
    ELSE {[i \in 1..(Len(text) \div 2) |-> FromStrRadix(text[2 * i - 1], text[2 * i])]}

\* encoding::bytes
BytesOf(text) ==
    IF Len(text) % 2 # 0 \/ \E i \in DOMAIN text : text[i] \notin Digits THEN {}
    ELSE {[i \in 1..(Len(text) \div 2) |-> FromStrRadix(text[2 * i - 1], text[2 * i])]}

----------------------------------------------------------------------------
(* The three kinds of text.                                                *)

\* field_serde: Serialize and, with encoding::parse, Deserialize.
ElementText(v) == Hex(Canonical(v))
ParseElement(text) ==
    UNION {Deserialize(bytes, Modulus) : bytes \in {b \in BytesOf(text) : Len(b) = Width}}

\* IssuerSignature: encoded and decoded.
SignatureText(s) == Hex(Canonical(s[1]) \o Canonical(s[2]))

Decoded(text) ==
    UNION {Deserialize(bytes, ScalarModulus)
             \X Deserialize(SubSeq(bytes, Width + 1, Len(bytes)), ScalarModulus) :
           bytes \in {b \in BytesOf(text) : Len(b) = 2 * Width}}

\* IssuerPublicKey: a point of the group by its y and the sign of its x.
Points == {p \in [y : Ordinates, negative : BOOLEAN] : p.y = IdentityY => ~p.negative}
PointBytes(p) == Canonical(p.y + (IF p.negative THEN SignFlag ELSE 0))
KeyText(p) == Hex(PointBytes(p))

\* Whatever the sign given for the identity, it is the identity.
DeserializePoint(bytes) ==
    {[y |-> v % SignFlag, negative |-> v >= SignFlag /\ v % SignFlag # IdentityY] :
        v \in {w \in Deserialize(bytes, Power[Width]) :
                  w % SignFlag < Modulus /\ w % SignFlag \in Ordinates}}

\* IssuerPublicKey::from_hex
FromHex(text) ==
    UNION {{p \in DeserializePoint(bytes) :
               Len(bytes) = Width /\ p.y # IdentityY /\ PointBytes(p) = bytes} :
           bytes \in BytesOf(text)}
=============================================================================
