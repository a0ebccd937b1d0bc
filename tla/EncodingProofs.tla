--------------------------- MODULE EncodingProofs ---------------------------
(***************************************************************************)
(* A text is read as a value exactly when it is the text of that value:    *)
(* for every radix, width and modulus, elements, signatures and keys have  *)
(* one text each.  Induction over the natural numbers gives what the       *)
(* recursive functions of Encoding compute; that bytes and numbers, and    *)
(* hexadecimal digits and bytes, determine each other follows from it.     *)
(***************************************************************************)
EXTENDS Encoding, SequenceTheorems, WellFoundedInduction, TLAPS

\* Induction over the natural numbers, for a set instead of a predicate.
LEMMA Induction ==
    ASSUME NEW S, 0 \in S, \A n \in Nat : n \in S => n + 1 \in S
    PROVE  Nat \subseteq S
<1> DEFINE Rest == Nat \ S
           Less == OpToRel(<, Nat)
<1> SUFFICES ASSUME Rest # {} PROVE FALSE
  OBVIOUS
<1>1. IsWellFoundedOn(Less, Nat)
  BY NatLessThanWellFounded
<1>2. Rest \subseteq Nat
  OBVIOUS
<1>3. \A m, n \in Nat : m < n => <<m, n>> \in Less
  BY DEF OpToRel
<1> HIDE DEF Less
<1>4. PICK least \in Rest : \A m \in Rest : <<m, least>> \notin Less
  <2> HIDE DEF Rest
  <2>1. QED BY <1>1, <1>2, WFMin
<1>5. least # 0 /\ least - 1 \in Nat
  OBVIOUS
<1>6. least - 1 \notin Rest
  <2>1. <<least - 1, least>> \in Less
    BY <1>3, <1>5
  <2> HIDE DEF Rest
  <2>2. QED BY <1>4, <2>1
<1>7. least - 1 + 1 \in S
  BY <1>5, <1>6
<1>8. QED BY <1>7

\* Division with remainder is unique.
LEMMA DivMod ==
    ASSUME NEW b \in Nat, 0 < b, NEW q \in Nat, NEW r \in 0..(b - 1)
    PROVE  /\ (q * b + r) \div b = q /\ (q * b + r) % b = r
           /\ (r + b * q) \div b = q /\ (r + b * q) % b = r
OBVIOUS

LEMMA SplitIsUnique ==
    ASSUME NEW b \in Nat, 0 < b, NEW q \in Nat, NEW r \in 0..(b - 1),
           NEW q2 \in Nat, NEW r2 \in 0..(b - 1), r + b * q = r2 + b * q2
    PROVE  r = r2 /\ q = q2
<1>1. (r + b * q) \div b = q /\ (r + b * q) % b = r
  BY DivMod
<1>2. (r2 + b * q2) \div b = q2 /\ (r2 + b * q2) % b = r2
  BY DivMod
<1>3. QED BY <1>1, <1>2

\* The quotient and the remainder of a natural number.
LEMMA DivModTypes ==
    ASSUME NEW b \in Nat, 0 < b, NEW n \in Nat
    PROVE  /\ n \div b \in Nat /\ n % b \in 0..(b - 1)
           /\ n = (n % b) + b * (n \div b)
OBVIOUS

----------------------------------------------------------------------------
(* Functions defined by recursion on the natural numbers.                  *)

\* `g` follows `step` from `start` up to `n`.
Follows(g, start, step, n) ==
    /\ g \in [0..n -> Nat]
    /\ g[0] = start
    /\ \A i \in 1..n : g[i] = step[<<i, g[i - 1]>>]

\* Two functions that follow the same step agree as far as both go.
LEMMA FollowersAgree ==
    ASSUME NEW start, NEW step, NEW m \in Nat, NEW n \in Nat, NEW g, NEW h,
           Follows(g, start, step, m), Follows(h, start, step, n)
    PROVE  \A i \in Nat : i <= m /\ i <= n => g[i] = h[i]
<1> DEFINE S == {i \in Nat : i <= m /\ i <= n => g[i] = h[i]}
<1>1. 0 \in S
  BY DEF Follows
<1>2. ASSUME NEW i \in Nat, i \in S PROVE i + 1 \in S
  <2> SUFFICES ASSUME i + 1 <= m, i + 1 <= n PROVE g[i + 1] = h[i + 1]
    OBVIOUS
  <2>1. i + 1 \in 1..m /\ i + 1 \in 1..n /\ i + 1 - 1 = i
    OBVIOUS
  <2>2. g[i + 1] = step[<<i + 1, g[i + 1 - 1]>>] /\ h[i + 1] = step[<<i + 1, h[i + 1 - 1]>>]
    BY <2>1 DEF Follows
  <2>3. g[i] = h[i]
    BY <1>2
  <2>4. QED BY <2>1, <2>2, <2>3
<1> HIDE DEF S
<1>3. Nat \subseteq S
  BY <1>1, <1>2, Induction
<1>4. QED BY <1>3 DEF S

\* Every step on natural numbers can be followed for ever.
LEMMA Recursion ==
    ASSUME NEW start \in Nat, NEW step \in [Nat \X Nat -> Nat]
    PROVE  \E g \in [Nat -> Nat] :
              /\ g[0] = start
              /\ \A n \in Nat \ {0} : g[n] = step[<<n, g[n - 1]>>]
<1> DEFINE S == {n \in Nat : \E g : Follows(g, start, step, n)}
<1>1. 0 \in S
  <2> DEFINE g == [i \in 0..0 |-> start]
  <2>1. Follows(g, start, step, 0)
    BY DEF Follows
  <2>2. QED BY <2>1
<1>2. ASSUME NEW n \in Nat, n \in S PROVE n + 1 \in S
  <2>1. PICK g : Follows(g, start, step, n)
    BY <1>2
  <2> DEFINE h == [i \in 0..(n + 1) |-> IF i = n + 1 THEN step[<<i, g[n]>>] ELSE g[i]]
  <2>2. g \in [0..n -> Nat] /\ g[0] = start
    BY <2>1 DEF Follows
  <2>3. step[<<n + 1, g[n]>>] \in Nat
    BY <2>2
  <2>4. h \in [0..(n + 1) -> Nat]
    BY <2>2, <2>3
  <2>5. h[0] = start
    BY <2>2
  <2>6. ASSUME NEW i \in 1..(n + 1) PROVE h[i] = step[<<i, h[i - 1]>>]
    <3>1. CASE i = n + 1
      BY <3>1
    <3>2. CASE i # n + 1
      <4>1. i \in 1..n /\ i \in 0..(n + 1) /\ i - 1 \in 0..(n + 1) /\ i - 1 # n + 1
        BY <3>2
      <4>2. h[i] = g[i] /\ h[i - 1] = g[i - 1]
        BY <3>2, <4>1
      <4>3. g[i] = step[<<i, g[i - 1]>>]
        BY <2>1, <4>1 DEF Follows
      <4>4. QED BY <4>2, <4>3
    <3>3. QED BY <3>1, <3>2
  <2> HIDE DEF h
  <2>7. Follows(h, start, step, n + 1)
    BY <2>4, <2>5, <2>6 DEF Follows
  <2>8. QED BY <2>7
<1> HIDE DEF S
<1>3. Nat \subseteq S
  BY <1>1, <1>2, Induction
<1> DEFINE upTo(n) == CHOOSE g : Follows(g, start, step, n)
           whole == [n \in Nat |-> upTo(n)[n]]
<1>4. \A n \in Nat : Follows(upTo(n), start, step, n)
  BY <1>3 DEF S
<1> HIDE DEF upTo
<1>5. \A n \in Nat : upTo(n)[n] \in Nat
  BY <1>4 DEF Follows
<1>6. whole \in [Nat -> Nat]
  BY <1>5
<1>7. whole[0] = start
  BY <1>4 DEF Follows
<1>8. ASSUME NEW n \in Nat \ {0} PROVE whole[n] = step[<<n, whole[n - 1]>>]
  <2>1. n - 1 \in Nat /\ n \in 1..n /\ n - 1 <= n
    OBVIOUS
  <2>2. upTo(n)[n] = step[<<n, upTo(n)[n - 1]>>]
    BY <1>4, <2>1 DEF Follows
  <2>3. upTo(n)[n - 1] = upTo(n - 1)[n - 1]
    BY <1>4, <2>1, FollowersAgree
  <2>4. QED BY <2>1, <2>2, <2>3
<1> HIDE DEF whole
<1>9. QED BY <1>6, <1>7, <1>8

----------------------------------------------------------------------------
(* Numbers and their little-endian bytes.                                  *)

LEMMA BaseIsNatural ==
    /\ Radix \in Nat /\ 1 < Radix /\ Width \in Nat /\ 0 < Width
    /\ ByteBase \in Nat /\ 1 < ByteBase
<1>1. Radix \in Nat /\ 1 < Radix /\ Width \in Nat /\ 0 < Width
  BY EncodingAssumption
<1>2. Radix * Radix \in Nat /\ 1 < Radix * Radix
  BY <1>1
<1>3. QED BY <1>1, <1>2 DEF ByteBase

\* The powers of the base.
LEMMA Powers ==
    /\ Power \in [Nat -> Nat \ {0}]
    /\ Power[0] = 1
    /\ \A n \in Nat \ {0} : Power[n] = ByteBase * Power[n - 1]
<1> DEFINE Fix(g) == g = [n \in Nat |-> IF n = 0 THEN 1 ELSE ByteBase * g[n - 1]]
           step == [x \in Nat \X Nat |-> ByteBase * x[2]]
<1>1. step \in [Nat \X Nat -> Nat]
  BY BaseIsNatural
<1>2. \A n, v \in Nat : step[<<n, v>>] = ByteBase * v
  OBVIOUS
<1> HIDE DEF step
<1>3. PICK g \in [Nat -> Nat] :
          /\ g[0] = 1
          /\ \A n \in Nat \ {0} : g[n] = step[<<n, g[n - 1]>>]
  <2> HIDE DEF Fix
  <2>1. 1 \in Nat
    OBVIOUS
  <2>2. QED BY <1>1, <2>1, Recursion, Zenon
<1>4. ASSUME NEW n \in Nat \ {0} PROVE g[n] = ByteBase * g[n - 1]
  <2>1. n \in Nat /\ n - 1 \in Nat
    OBVIOUS
  <2>2. g[n - 1] \in Nat
    BY <1>3, <2>1
  <2>3. QED BY <1>2, <1>3, <2>1, <2>2
<1>5. Fix(g)
  <2>1. \A n \in Nat : g[n] = IF n = 0 THEN 1 ELSE ByteBase * g[n - 1]
    BY <1>3, <1>4
  <2>2. QED BY <1>3, <2>1
<1>6. Fix(Power)
  BY <1>5, Zenon DEF Power
<1>7. /\ Power[0] = 1
      /\ \A n \in Nat \ {0} : Power[n] = ByteBase * Power[n - 1]
  BY <1>6
<1> DEFINE S == {n \in Nat : Power[n] \in Nat \ {0}}
<1>8. 0 \in S
  BY <1>7
<1>9. ASSUME NEW n \in Nat, n \in S PROVE n + 1 \in S
  <2>1. Power[n + 1] = ByteBase * Power[n]
    BY <1>7
  <2>2. \A x, y \in Nat \ {0} : x * y \in Nat \ {0}
    OBVIOUS
  <2>3. ByteBase \in Nat \ {0} /\ Power[n] \in Nat \ {0}
    BY <1>9, BaseIsNatural
  <2>4. QED BY <2>1, <2>2, <2>3
<1> HIDE DEF S
<1>10. Nat \subseteq S
  BY <1>8, <1>9, Induction
<1>11. Power \in [Nat -> Nat \ {0}]
  BY <1>6, <1>10 DEF S
<1>12. QED BY <1>7, <1>11

\* A longer string of bytes has room for no fewer numbers.
LEMMA PowersGrow ==
    ASSUME NEW m \in Nat, NEW n \in Nat, m <= n
    PROVE  Power[m] <= Power[n]
<1> DEFINE S == {d \in Nat : Power[m] <= Power[m + d]}
<1>1. 0 \in S
  BY Powers
<1>2. ASSUME NEW d \in Nat, d \in S PROVE d + 1 \in S
  <2>1. Power[m + (d + 1)] = ByteBase * Power[m + d]
    <3>1. m + (d + 1) \in Nat \ {0} /\ m + (d + 1) - 1 = m + d
      OBVIOUS
    <3>2. QED BY <3>1, Powers
  <2>2. Power[m + d] \in Nat /\ Power[m] \in Nat
    BY Powers
  <2>3. Power[m + d] <= ByteBase * Power[m + d]
    BY <2>2, BaseIsNatural
  <2>4. Power[m] <= Power[m + d]
    BY <1>2
  <2>5. ByteBase * Power[m + d] \in Nat
    BY <2>2, BaseIsNatural
  <2>6. Power[m] <= Power[m + (d + 1)]
    BY <2>1, <2>2, <2>3, <2>4, <2>5
  <2>7. QED BY <2>6
<1> HIDE DEF S
<1>3. Nat \subseteq S
  BY <1>1, <1>2, Induction
<1>4. n - m \in S
  BY <1>3
<1>5. QED BY <1>4 DEF S

\* The partial sums of a string of bytes, from its last byte.
PartialSums(bytes, sum) ==
    /\ sum \in [0..Len(bytes) -> Nat]
    /\ sum[0] = 0
    /\ \A n \in 1..Len(bytes) :
          sum[n] = bytes[Len(bytes) + 1 - n] + ByteBase * sum[n - 1]
    /\ LittleEndian(bytes) = sum[Len(bytes)]

LEMMA Sums ==
    ASSUME NEW bytes \in Seq(Bytes)
    PROVE  \E sum : PartialSums(bytes, sum)
<1> DEFINE len == Len(bytes)
           Fix(g) == g = [n \in 0..len |->
                             IF n = 0 THEN 0
                             ELSE bytes[len + 1 - n] + ByteBase * g[n - 1]]
           step == [x \in Nat \X Nat |->
                       IF x[1] \in 1..len THEN bytes[len + 1 - x[1]] + ByteBase * x[2]
                       ELSE 0]
<1>1. len \in Nat /\ \A i \in 1..len : bytes[i] \in Nat
  <2>1. \A i \in 1..len : bytes[i] \in Bytes
    OBVIOUS
  <2>2. QED BY <2>1, BaseIsNatural DEF Bytes
<1>2. \A n \in 1..len, v \in Nat : step[<<n, v>>] = bytes[len + 1 - n] + ByteBase * v
  BY <1>1
<1>3. \A n, v \in Nat : step[<<n, v>>] \in Nat
  <2> TAKE n, v \in Nat
  <2>1. CASE n \in 1..len
    <3>1. bytes[len + 1 - n] \in Nat /\ ByteBase * v \in Nat
      BY <1>1, <2>1, BaseIsNatural
    <3>2. QED BY <1>2, <2>1, <3>1
  <2>2. CASE n \notin 1..len
    BY <2>2
  <2>3. QED BY <2>1, <2>2
<1>4. step \in [Nat \X Nat -> Nat]
  BY <1>3
<1> HIDE DEF step
<1>5. PICK g \in [Nat -> Nat] :
          /\ g[0] = 0
          /\ \A n \in Nat \ {0} : g[n] = step[<<n, g[n - 1]>>]
  <2> HIDE DEF Fix
  <2>1. 0 \in Nat
    OBVIOUS
  <2>2. QED BY <1>4, <2>1, Recursion, Zenon
<1> DEFINE sum == [n \in 0..len |-> g[n]]
<1>6. sum \in [0..len -> Nat] /\ sum[0] = 0
  BY <1>1, <1>5
<1>7. ASSUME NEW n \in 1..len
      PROVE  sum[n] = bytes[len + 1 - n] + ByteBase * sum[n - 1]
  <2>1. n \in Nat \ {0} /\ n - 1 \in Nat /\ n \in 0..len /\ n - 1 \in 0..len
    <3> HIDE DEF len, sum
    <3>1. len \in Nat
      BY <1>1
    <3>2. QED BY <3>1
  <2>2. g[n] = bytes[len + 1 - n] + ByteBase * g[n - 1]
    BY <1>2, <1>5, <2>1
  <2>3. QED BY <2>1, <2>2
<1> HIDE DEF sum
<1>8. Fix(sum)
  <2>1. \A n \in 0..len : sum[n] = IF n = 0 THEN 0
                                   ELSE bytes[len + 1 - n] + ByteBase * sum[n - 1]
    BY <1>1, <1>6, <1>7
  <2>2. QED BY <1>6, <2>1
<1>9. PICK h : Fix(h) /\ LittleEndian(bytes) = h[len]
  BY <1>8, Zenon DEF LittleEndian
<1> DEFINE S == {n \in Nat : n <= len => h[n] = sum[n]}
<1>10. 0 \in S
  BY <1>1, <1>6, <1>9
<1>11. ASSUME NEW n \in Nat, n \in S PROVE n + 1 \in S
  <2> SUFFICES ASSUME n + 1 <= len PROVE h[n + 1] = sum[n + 1]
    OBVIOUS
  <2>1. n + 1 \in 1..len /\ n + 1 \in 0..len /\ n + 1 - 1 = n
    BY <1>1
  <2>2. h[n + 1] = bytes[len + 1 - (n + 1)] + ByteBase * h[n]
    <3>1. \A k \in 0..len : h[k] = IF k = 0 THEN 0
                                    ELSE bytes[len + 1 - k] + ByteBase * h[k - 1]
      BY <1>9, Zenon
    <3> HIDE DEF Fix
    <3>2. n + 1 # 0
      OBVIOUS
    <3>3. h[n + 1] = bytes[len + 1 - (n + 1)] + ByteBase * h[n + 1 - 1]
      BY <2>1, <3>1, <3>2
    <3>4. QED BY <2>1, <3>3
  <2>3. sum[n + 1] = bytes[len + 1 - (n + 1)] + ByteBase * sum[n]
    BY <1>7, <2>1
  <2>4. h[n] = sum[n]
    BY <1>1, <1>11
  <2>5. QED BY <2>2, <2>3, <2>4
<1> HIDE DEF S
<1>12. Nat \subseteq S
  BY <1>10, <1>11, Induction
<1>13. LittleEndian(bytes) = sum[len]
  <2>1. len \in S
    BY <1>1, <1>12
  <2>2. h[len] = sum[len]
    BY <1>1, <2>1 DEF S
  <2> HIDE DEF Fix, len
  <2>3. QED BY <1>9, <2>2
<1>14. QED BY <1>6, <1>7, <1>13 DEF PartialSums

\* The bytes of a string are digits to the base.
LEMMA BytesAreDigits ==
    ASSUME NEW bytes \in Seq(Bytes)
    PROVE  \A i \in 1..Len(bytes) : bytes[i] \in 0..(ByteBase - 1)
<1>1. \A i \in 1..Len(bytes) : bytes[i] \in Bytes
  OBVIOUS
<1>2. QED BY <1>1 DEF Bytes

\* The sum of n bytes is below the n-th power of the base.
LEMMA SumBounds ==
    ASSUME NEW bytes \in Seq(Bytes), NEW sum, PartialSums(bytes, sum)
    PROVE  \A n \in 0..Len(bytes) : sum[n] < Power[n]
<1> DEFINE S == {n \in Nat : n <= Len(bytes) => sum[n] < Power[n]}
<1>1. Len(bytes) \in Nat /\ \A i \in 1..Len(bytes) : bytes[i] \in 0..(ByteBase - 1)
  BY BytesAreDigits
<1>2. 0 \in S
  BY Powers DEF PartialSums
<1>3. ASSUME NEW n \in Nat, n \in S PROVE n + 1 \in S
  <2> SUFFICES ASSUME n + 1 <= Len(bytes) PROVE sum[n + 1] < Power[n + 1]
    OBVIOUS
  <2>1. n + 1 \in 1..Len(bytes) /\ n \in 0..Len(bytes) /\ n + 1 - 1 = n
        /\ Len(bytes) + 1 - (n + 1) \in 1..Len(bytes)
    BY <1>1
  <2>2. sum[n + 1] = bytes[Len(bytes) + 1 - (n + 1)] + ByteBase * sum[n]
    BY <2>1 DEF PartialSums
  <2>3. Power[n + 1] = ByteBase * Power[n]
    BY <2>1, Powers
  <2>4. PICK byte \in 0..(ByteBase - 1) : byte = bytes[Len(bytes) + 1 - (n + 1)]
    BY <1>1, <2>1
  <2>5. PICK low \in Nat, power \in Nat : low = sum[n] /\ power = Power[n]
    BY <2>1, Powers DEF PartialSums
  <2>6. low + 1 <= power
    BY <1>3, <2>1, <2>5
  <2>7. ByteBase * (low + 1) <= ByteBase * power
    BY <2>6, BaseIsNatural
  <2>8. byte + ByteBase * low < ByteBase * power
    BY <2>7, BaseIsNatural
  <2>9. QED BY <2>2, <2>3, <2>4, <2>5, <2>8
<1> HIDE DEF S
<1>4. Nat \subseteq S
  BY <1>2, <1>3, Induction
<1>5. QED BY <1>1, <1>4 DEF S

\* A string of bytes is below the power of its length, and its number ends with
\* its first byte.
LEMMA LittleEndianFacts ==
    ASSUME NEW bytes \in Seq(Bytes)
    PROVE  /\ LittleEndian(bytes) \in Nat
           /\ LittleEndian(bytes) < Power[Len(bytes)]
           /\ bytes # <<>> => LittleEndian(bytes) % ByteBase = bytes[1]
<1> DEFINE len == Len(bytes)
<1>1. PICK sum : PartialSums(bytes, sum)
  BY Sums
<1>2. len \in Nat /\ len \in 0..len
  OBVIOUS
<1>3. LittleEndian(bytes) \in Nat /\ LittleEndian(bytes) < Power[len]
  BY <1>1, <1>2, SumBounds DEF PartialSums
<1>4. ASSUME bytes # <<>> PROVE LittleEndian(bytes) % ByteBase = bytes[1]
  <2>1. len \in 1..len /\ len - 1 \in 0..len /\ len + 1 - len = 1 /\ 1 \in 1..len
    BY <1>4
  <2>2. LittleEndian(bytes) = bytes[1] + ByteBase * sum[len - 1]
    BY <1>1, <2>1 DEF PartialSums
  <2>3. PICK first \in 0..(ByteBase - 1), rest \in Nat :
            first = bytes[1] /\ rest = sum[len - 1]
    BY <1>1, <2>1, BytesAreDigits DEF PartialSums
  <2>4. (first + ByteBase * rest) % ByteBase = first
    BY BaseIsNatural, DivMod
  <2>5. QED BY <2>2, <2>3, <2>4
<1>5. QED BY <1>3, <1>4

\* Strings of one length with one number are equal.
LEMMA LittleEndianDetermines ==
    ASSUME NEW s \in Seq(Bytes), NEW t \in Seq(Bytes), Len(s) = Len(t),
           LittleEndian(s) = LittleEndian(t)
    PROVE  s = t
<1> DEFINE len == Len(s)
<1>1. PICK f : PartialSums(s, f)
  BY Sums
<1>2. PICK g : PartialSums(t, g)
  BY Sums
<1>3. len \in Nat
  OBVIOUS
<1>4. ASSUME NEW n \in 1..len, f[n] = g[n]
      PROVE  s[len + 1 - n] = t[len + 1 - n] /\ f[n - 1] = g[n - 1]
  <2>1. n - 1 \in 0..len /\ len + 1 - n \in 1..len
    BY <1>3
  <2>2. f[n] = s[len + 1 - n] + ByteBase * f[n - 1]
    BY <1>1, <1>4 DEF PartialSums
  <2>3. g[n] = t[len + 1 - n] + ByteBase * g[n - 1]
    BY <1>2, <1>4 DEF PartialSums
  <2>4. PICK a \in 0..(ByteBase - 1), b \in 0..(ByteBase - 1) :
            a = s[len + 1 - n] /\ b = t[len + 1 - n]
    BY <2>1, BytesAreDigits
  <2>5. PICK x \in Nat, y \in Nat : x = f[n - 1] /\ y = g[n - 1]
    BY <1>1, <1>2, <2>1 DEF PartialSums
  <2>6. a + ByteBase * x = b + ByteBase * y
    BY <1>4, <2>2, <2>3, <2>4, <2>5
  <2>7. a = b /\ x = y
    BY <2>6, BaseIsNatural, SplitIsUnique
  <2>8. QED BY <2>4, <2>5, <2>7
<1> DEFINE S == {k \in Nat : k <= len => f[len - k] = g[len - k]}
<1>5. 0 \in S
  <2>1. f[len] = LittleEndian(s) /\ g[len] = LittleEndian(t)
    BY <1>1, <1>2, Zenon DEF PartialSums
  <2>2. len - 0 = len
    BY <1>3
  <2>3. QED BY <2>1, <2>2
<1>6. ASSUME NEW k \in Nat, k \in S PROVE k + 1 \in S
  <2> SUFFICES ASSUME k + 1 <= len PROVE f[len - (k + 1)] = g[len - (k + 1)]
    OBVIOUS
  <2>1. len - k \in 1..len /\ len - (k + 1) = len - k - 1
    BY <1>3
  <2>2. f[len - k] = g[len - k]
    BY <1>3, <1>6
  <2>3. QED BY <1>4, <2>1, <2>2
<1> HIDE DEF S
<1>7. Nat \subseteq S
  BY <1>5, <1>6, Induction
<1>8. ASSUME NEW i \in 1..len PROVE s[i] = t[i]
  <2>1. i - 1 \in Nat /\ i - 1 <= len /\ len - (i - 1) = len + 1 - i
        /\ len + 1 - i \in 1..len /\ len + 1 - (len + 1 - i) = i
    BY <1>3
  <2>2. f[len + 1 - i] = g[len + 1 - i]
    BY <1>7, <2>1 DEF S
  <2>3. QED BY <1>4, <2>1, <2>2
<1>9. QED BY <1>3, <1>8, SeqEqual

\* What remains of a number as its bytes are written, from the first on.
Remainders(v, rest) ==
    /\ rest \in [0..Width -> Nat]
    /\ rest[0] = v
    /\ \A i \in 1..Width : rest[i] = rest[i - 1] \div ByteBase
    /\ Canonical(v) = [i \in 1..Width |-> rest[i - 1] % ByteBase]

LEMMA CanonicalSteps ==
    ASSUME NEW v \in Nat
    PROVE  \E rest : Remainders(v, rest)
<1> DEFINE Fix(g) == g = [i \in 0..Width |-> IF i = 0 THEN v ELSE g[i - 1] \div ByteBase]
           step == [x \in Nat \X Nat |-> x[2] \div ByteBase]
<1>1. \A n, w \in Nat : step[<<n, w>>] = w \div ByteBase /\ w \div ByteBase \in Nat
  BY BaseIsNatural, DivModTypes
<1>2. step \in [Nat \X Nat -> Nat]
  BY BaseIsNatural, DivModTypes
<1> HIDE DEF step
<1>3. PICK g \in [Nat -> Nat] :
          /\ g[0] = v
          /\ \A n \in Nat \ {0} : g[n] = step[<<n, g[n - 1]>>]
  <2> HIDE DEF Fix
  <2>1. QED BY <1>2, Recursion, Zenon
<1> DEFINE given == [i \in 0..Width |-> g[i]]
<1>4. given \in [0..Width -> Nat] /\ given[0] = v
  BY <1>3, BaseIsNatural
<1>5. ASSUME NEW i \in 1..Width PROVE given[i] = given[i - 1] \div ByteBase
  <2>1. i \in Nat \ {0} /\ i - 1 \in Nat /\ i \in 0..Width /\ i - 1 \in 0..Width
    BY BaseIsNatural
  <2>2. g[i] = step[<<i, g[i - 1]>>] /\ g[i - 1] \in Nat
    BY <1>3, <2>1
  <2>3. g[i] = g[i - 1] \div ByteBase
    BY <1>1, <2>1, <2>2
  <2>4. QED BY <2>1, <2>3
<1> HIDE DEF given
<1>6. Fix(given)
  <2>1. \A i \in 0..Width : given[i] = IF i = 0 THEN v ELSE given[i - 1] \div ByteBase
    BY <1>4, <1>5, BaseIsNatural
  <2>2. QED BY <1>4, <2>1
<1>7. PICK rest : Fix(rest) /\ Canonical(v) = [i \in 1..Width |-> rest[i - 1] % ByteBase]
  BY <1>6, ZenonT(40) DEF Canonical
<1>8. \A i \in 0..Width : rest[i] = IF i = 0 THEN v ELSE rest[i - 1] \div ByteBase
  BY <1>7, Zenon
<1>9. rest[0] = v /\ \A i \in 1..Width : rest[i] = rest[i - 1] \div ByteBase
  <2> HIDE DEF Fix
  <2>1. QED BY <1>8, BaseIsNatural
<1>10. DOMAIN rest = 0..Width /\ rest = [i \in 0..Width |-> rest[i]]
  BY <1>7, Zenon
<1> HIDE DEF Fix
<1> DEFINE S == {i \in Nat : i <= Width => rest[i] \in Nat}
<1>11. 0 \in S
  BY <1>9
<1>12. ASSUME NEW i \in Nat, i \in S PROVE i + 1 \in S
  <2> SUFFICES ASSUME i + 1 <= Width PROVE rest[i + 1] \in Nat
    OBVIOUS
  <2>1. i + 1 \in 1..Width /\ i + 1 - 1 = i
    BY BaseIsNatural
  <2>2. rest[i + 1] = rest[i] \div ByteBase
    BY <1>9, <2>1
  <2>3. rest[i] \in Nat
    BY <1>12, BaseIsNatural
  <2>4. QED BY <1>1, <2>2, <2>3
<1> HIDE DEF S
<1>13. Nat \subseteq S
  BY <1>11, <1>12, Induction
<1>14. \A i \in 0..Width : rest[i] \in Nat
  BY <1>13, BaseIsNatural DEF S
<1>15. rest \in [0..Width -> Nat]
  BY <1>10, <1>14
<1>16. QED BY <1>7, <1>9, <1>15 DEF Remainders

\* The bytes written for a number are those it is read from.
LEMMA CanonicalFacts ==
    ASSUME NEW v \in 0..(Power[Width] - 1)
    PROVE  /\ Canonical(v) \in Seq(Bytes) /\ Len(Canonical(v)) = Width
           /\ LittleEndian(Canonical(v)) = v
<1> DEFINE bytes == Canonical(v)
<1>1. v \in Nat /\ Power[Width] \in Nat /\ v < Power[Width]
  BY Powers, BaseIsNatural
<1>2. PICK rest : Remainders(v, rest)
  BY <1>1, CanonicalSteps
<1>3. /\ Len(bytes) = Width
      /\ \A i \in 1..Width : bytes[i] = rest[i - 1] % ByteBase
      /\ bytes = [i \in 1..Width |-> bytes[i]]
  BY <1>2, BaseIsNatural DEF Remainders
<1>4. \A i \in 1..Width : bytes[i] \in Bytes
  <2> TAKE i \in 1..Width
  <2>1. rest[i - 1] \in Nat
    BY <1>2, BaseIsNatural DEF Remainders
  <2>2. rest[i - 1] % ByteBase \in 0..(ByteBase - 1)
    BY <2>1, BaseIsNatural, DivModTypes
  <2>3. QED BY <1>3, <2>2 DEF Bytes
<1> HIDE DEF bytes
<1>5. bytes \in Seq(Bytes)
  BY <1>3, <1>4, BaseIsNatural
<1> DEFINE Small == {i \in Nat : i <= Width => rest[i] < Power[Width - i]}
<1>6. 0 \in Small
  BY <1>1, <1>2, BaseIsNatural DEF Remainders
<1>7. ASSUME NEW i \in Nat, i \in Small PROVE i + 1 \in Small
  <2> SUFFICES ASSUME i + 1 <= Width PROVE rest[i + 1] < Power[Width - (i + 1)]
    OBVIOUS
  <2>1. /\ i + 1 \in 1..Width /\ i \in 0..Width /\ i + 1 - 1 = i
        /\ Width - i \in Nat \ {0} /\ Width - (i + 1) = Width - i - 1
        /\ Width - (i + 1) \in Nat
    BY BaseIsNatural
  <2>2. PICK w \in Nat, p \in Nat : w = rest[i] /\ p = Power[Width - (i + 1)]
    BY <1>2, <2>1, Powers DEF Remainders
  <2>3. rest[i + 1] = w \div ByteBase
    BY <1>2, <2>1, <2>2 DEF Remainders
  <2>4. w < ByteBase * p
    <3>1. rest[i] < Power[Width - i]
      BY <1>7, BaseIsNatural
    <3>2. Power[Width - i] = ByteBase * Power[Width - i - 1]
      BY <2>1, Powers
    <3>3. QED BY <2>1, <2>2, <3>1, <3>2
  <2>5. PICK b \in Nat : b = ByteBase /\ 1 < b
    BY BaseIsNatural
  <2>6. w \div b < p
    <3>1. w \div b \in Nat /\ w % b \in 0..(b - 1) /\ w = (w % b) + b * (w \div b)
      BY <2>5, DivModTypes
    <3>2. ASSUME w \div b >= p PROVE FALSE
      <4>1. b * (w \div b) >= b * p
        BY <2>5, <3>1, <3>2
      <4>2. QED BY <2>4, <2>5, <3>1, <4>1
    <3>3. QED BY <3>1, <3>2
  <2>7. QED BY <2>2, <2>3, <2>5, <2>6
<1> HIDE DEF Small
<1>8. Nat \subseteq Small
  BY <1>6, <1>7, Induction
<1>9. rest[Width] = 0
  <2>1. rest[Width] < Power[Width - Width] /\ Width - Width = 0
    BY <1>8, BaseIsNatural DEF Small
  <2>2. rest[Width] \in Nat
    BY <1>2, BaseIsNatural DEF Remainders
  <2>3. QED BY <2>1, <2>2, Powers
<1>10. PICK sum : PartialSums(bytes, sum)
  BY <1>5, Sums
<1> DEFINE S == {n \in Nat : n <= Width => sum[n] = rest[Width - n]}
<1>11. 0 \in S
  <2>1. Width - 0 = Width
    BY BaseIsNatural
  <2>2. QED BY <1>9, <1>10, <2>1 DEF PartialSums
<1>12. ASSUME NEW n \in Nat, n \in S PROVE n + 1 \in S
  <2> SUFFICES ASSUME n + 1 <= Width PROVE sum[n + 1] = rest[Width - (n + 1)]
    OBVIOUS
  <2>1. /\ n + 1 \in 1..Width /\ n + 1 - 1 = n /\ Width - n \in 1..Width
        /\ Width - n - 1 = Width - (n + 1) /\ Width + 1 - (n + 1) = Width - n
        /\ Width - n - 1 \in 0..Width
    BY BaseIsNatural
  <2>2. sum[n + 1] = bytes[Width - n] + ByteBase * sum[n]
    <3>1. \A k \in 1..Width : sum[k] = bytes[Width + 1 - k] + ByteBase * sum[k - 1]
      BY <1>3, <1>10 DEF PartialSums
    <3>2. sum[n + 1] = bytes[Width + 1 - (n + 1)] + ByteBase * sum[n + 1 - 1]
      BY <2>1, <3>1
    <3>3. QED BY <2>1, <3>2
  <2>3. PICK w \in Nat : w = rest[Width - n - 1]
    BY <1>2, <2>1 DEF Remainders
  <2>4. bytes[Width - n] = w % ByteBase
    BY <1>3, <2>1, <2>3
  <2>5. sum[n] = rest[Width - n]
    BY <1>12, BaseIsNatural
  <2>6. rest[Width - n] = w \div ByteBase
    BY <1>2, <2>1, <2>3 DEF Remainders
  <2>7. w = (w % ByteBase) + ByteBase * (w \div ByteBase)
    BY BaseIsNatural, DivModTypes
  <2>8. sum[n + 1] = w
    BY <2>2, <2>4, <2>5, <2>6, <2>7
  <2>9. QED BY <2>1, <2>3, <2>8
<1> HIDE DEF S
<1>13. Nat \subseteq S
  BY <1>11, <1>12, Induction
<1>14. LittleEndian(bytes) = v
  <2>1. sum[Width] = rest[Width - Width] /\ Width - Width = 0
    BY <1>13, BaseIsNatural DEF S
  <2>2. QED BY <1>2, <1>3, <1>10, <2>1 DEF Remainders, PartialSums
<1>15. QED BY <1>3, <1>5, <1>14 DEF bytes

\* Bytes that are read as a number are those written for it.
LEMMA CanonicalInverts ==
    ASSUME NEW bytes \in Seq(Bytes), Len(bytes) = Width
    PROVE  Canonical(LittleEndian(bytes)) = bytes
<1>1. LittleEndian(bytes) \in 0..(Power[Width] - 1)
  BY LittleEndianFacts, Powers, BaseIsNatural
<1>2. QED
  BY <1>1, CanonicalFacts, LittleEndianDetermines

----------------------------------------------------------------------------
(* Bytes and their hexadecimal text.                                       *)

\* A pair of digits is a byte, and the digits are its quotient and remainder.
LEMMA PairsAreBytes ==
    ASSUME NEW high \in Digits, NEW low \in Digits
    PROVE  /\ FromStrRadix(high, low) = high * Radix + low
           /\ FromStrRadix(high, low) \in Bytes
           /\ FromStrRadix(high, low) \div Radix = high
           /\ FromStrRadix(high, low) % Radix = low
<1>1. /\ high \in Nat /\ low \in 0..(Radix - 1) /\ high <= Radix - 1
      /\ high # Plus /\ high < Radix /\ low < Radix
  BY BaseIsNatural DEF Digits, Plus
<1>2. FromStrRadix(high, low) = high * Radix + low
  BY <1>1 DEF FromStrRadix, DigitValue
<1>3. PICK r \in Nat : r = Radix /\ 1 < r
  BY BaseIsNatural
<1>4. high * r <= (r - 1) * r
  BY <1>1, <1>3
<1>5. (r - 1) * r = r * r - r
  BY <1>3
<1>6. high * r + low \in 0..(r * r - 1)
  BY <1>1, <1>3, <1>4, <1>5
<1>7. (high * r + low) \div r = high /\ (high * r + low) % r = low
  BY <1>1, <1>3, DivMod
<1>8. QED BY <1>2, <1>3, <1>6, <1>7 DEF Bytes, ByteBase

\* A byte's quotient and remainder are digits, and make the byte again.
LEMMA BytesArePairs ==
    ASSUME NEW byte \in Bytes
    PROVE  /\ byte \div Radix \in Digits /\ byte % Radix \in Digits
           /\ FromStrRadix(byte \div Radix, byte % Radix) = byte
<1>1. PICK r \in Nat : r = Radix /\ 1 < r
  BY BaseIsNatural
<1>2. byte \in Nat /\ byte < r * r
  BY <1>1 DEF Bytes, ByteBase
<1>3. byte \div r \in Nat /\ byte % r \in 0..(r - 1) /\ byte = (byte % r) + r * (byte \div r)
  BY <1>1, <1>2, DivModTypes
<1>4. byte \div r <= r - 1
  <2>1. PICK q \in Nat : q = byte \div r
    BY <1>3
  <2>2. ASSUME q >= r PROVE FALSE
    <3>1. r * q >= r * r
      BY <1>1, <2>2
    <3>2. byte >= r * q
      BY <1>1, <1>3, <2>1
    <3>3. QED BY <1>1, <1>2, <3>1, <3>2
  <2>3. QED BY <1>1, <2>1, <2>2
<1>5. byte \div r \in 0..(r - 1)
  BY <1>1, <1>3, <1>4
<1>6. byte \div Radix \in Digits /\ byte % Radix \in Digits
  BY <1>1, <1>3, <1>5 DEF Digits
<1>7. FromStrRadix(byte \div Radix, byte % Radix) = (byte \div Radix) * Radix + (byte % Radix)
  BY <1>6, PairsAreBytes
<1>8. PICK q \in Nat, low \in Nat : q = byte \div r /\ low = byte % r
  BY <1>1, <1>3
<1>9. q * r + low = byte
  BY <1>1, <1>2, <1>3, <1>8
<1>10. QED BY <1>1, <1>6, <1>7, <1>8, <1>9

\* The hexadecimal digits of a string of bytes.
LEMMA HexFacts ==
    ASSUME NEW bytes \in Seq(Bytes)
    PROVE  /\ Len(Hex(bytes)) = 2 * Len(bytes)
           /\ Hex(bytes) \in Seq(Digits)
           /\ \A i \in 1..Len(bytes) :
                 /\ Hex(bytes)[2 * i - 1] = bytes[i] \div Radix
                 /\ Hex(bytes)[2 * i] = bytes[i] % Radix
<1> DEFINE len == Len(bytes)
           text == Hex(bytes)
<1>1. len \in Nat /\ \A i \in 1..len : bytes[i] \in Bytes
  OBVIOUS
<1>2. /\ text = [j \in 1..(2 * len) |-> text[j]] /\ Len(text) = 2 * len
      /\ \A j \in 1..(2 * len) :
            text[j] = IF j % 2 = 1 THEN bytes[(j + 1) \div 2] \div Radix
                      ELSE bytes[j \div 2] % Radix
  BY <1>1 DEF Hex
<1> HIDE DEF text, len
<1>3. ASSUME NEW i \in 1..len
      PROVE  text[2 * i - 1] = bytes[i] \div Radix /\ text[2 * i] = bytes[i] % Radix
  <2>1. /\ 2 * i - 1 \in 1..(2 * len) /\ 2 * i \in 1..(2 * len)
        /\ (2 * i - 1) % 2 = 1 /\ (2 * i) % 2 = 0
        /\ (2 * i - 1 + 1) \div 2 = i /\ (2 * i) \div 2 = i
    BY <1>1
  <2>2. text[2 * i - 1] = bytes[(2 * i - 1 + 1) \div 2] \div Radix
    BY <1>2, <2>1
  <2>3. text[2 * i] = bytes[(2 * i) \div 2] % Radix
    <3>1. PICK j \in 1..(2 * len) : j = 2 * i /\ ~(j % 2 = 1)
      BY <2>1
    <3>2. text[j] = IF j % 2 = 1 THEN bytes[(j + 1) \div 2] \div Radix
                    ELSE bytes[j \div 2] % Radix
      BY <1>2, Zenon
    <3>3. text[j] = bytes[j \div 2] % Radix
      BY <3>1, <3>2, Zenon
    <3>4. QED BY <3>1, <3>3
  <2>4. QED BY <2>1, <2>2, <2>3
<1>4. ASSUME NEW j \in 1..(2 * len) PROVE text[j] \in Digits
  <2>1. (j % 2 = 1 => (j + 1) \div 2 \in 1..len) /\ (j % 2 # 1 => j \div 2 \in 1..len)
    BY <1>1
  <2>2. QED BY <1>1, <1>2, <2>1, BytesArePairs
<1>5. text \in Seq(Digits)
  <2>1. 2 * len \in Nat
    BY <1>1
  <2>2. text \in [1..(2 * len) -> Digits]
    BY <1>2, <1>4
  <2>3. QED BY <2>1, <2>2
<1>6. QED BY <1>2, <1>3, <1>5 DEF text, len

\* encoding::bytes reads one string of bytes from its text, and refuses every
\* text that encoding::hex does not write.
LEMMA BytesOfFacts ==
    ASSUME NEW text \in Seq(Characters), NEW bytes
    PROVE  bytes \in BytesOf(text) <=> bytes \in Seq(Bytes) /\ text = Hex(bytes)
<1> DEFINE len == Len(text) \div 2
           read == [i \in 1..len |-> FromStrRadix(text[2 * i - 1], text[2 * i])]
<1>1. ASSUME bytes \in BytesOf(text) PROVE bytes \in Seq(Bytes) /\ text = Hex(bytes)
  <2>1. Len(text) % 2 = 0 /\ (\A i \in DOMAIN text : text[i] \in Digits) /\ bytes = read
    <3>1. Len(text) % 2 = 0 /\ \A i \in DOMAIN text : text[i] \in Digits
      BY <1>1 DEF BytesOf
    <3>2. QED BY <1>1, <3>1 DEF BytesOf
  <2>2. Len(text) \in Nat /\ len \in Nat /\ Len(text) = 2 * len /\ DOMAIN text = 1..Len(text)
    BY <2>1
  <2> HIDE DEF len
  <2>3. ASSUME NEW i \in 1..len
        PROVE  /\ 2 * i - 1 \in 1..Len(text) /\ 2 * i \in 1..Len(text)
               /\ text[2 * i - 1] \in Digits /\ text[2 * i] \in Digits
               /\ bytes[i] = FromStrRadix(text[2 * i - 1], text[2 * i])
    <3>1. 2 * i - 1 \in 1..Len(text) /\ 2 * i \in 1..Len(text)
      BY <2>2
    <3>2. QED BY <2>1, <2>2, <3>1
  <2>4. Len(bytes) = len /\ bytes = [i \in 1..len |-> bytes[i]]
    BY <2>1, <2>2
  <2>5. \A i \in 1..len : bytes[i] \in Bytes
    BY <2>3, PairsAreBytes
  <2>6. bytes \in Seq(Bytes)
    BY <2>2, <2>4, <2>5
  <2>7. ASSUME NEW j \in 1..Len(text) PROVE text[j] = Hex(bytes)[j]
    <3>1. CASE j % 2 = 1
      <4>1. PICK i \in 1..len : j = 2 * i - 1
        <5>1. (j + 1) \div 2 \in 1..len /\ j = 2 * ((j + 1) \div 2) - 1
          BY <2>2, <3>1
        <5>2. QED BY <5>1
      <4>2. Hex(bytes)[2 * i - 1] = bytes[i] \div Radix
        BY <2>4, <2>6, HexFacts
      <4>3. QED BY <2>3, <4>1, <4>2, PairsAreBytes
    <3>2. CASE j % 2 # 1
      <4>1. PICK i \in 1..len : j = 2 * i
        <5>1. j \div 2 \in 1..len /\ j = 2 * (j \div 2)
          BY <2>2, <3>2
        <5>2. QED BY <5>1
      <4>2. Hex(bytes)[2 * i] = bytes[i] % Radix
        BY <2>4, <2>6, HexFacts
      <4>3. QED BY <2>3, <4>1, <4>2, PairsAreBytes
    <3>3. QED BY <3>1, <3>2
  <2>8. Hex(bytes) \in Seq(Digits) /\ Len(Hex(bytes)) = Len(text)
    BY <2>2, <2>4, <2>6, HexFacts
  <2>9. text \in Seq(Digits)
    BY <2>1, <2>2
  <2>10. text = Hex(bytes)
    BY <2>7, <2>8, <2>9, SeqEqual
  <2>11. QED BY <2>6, <2>10
<1>2. ASSUME bytes \in Seq(Bytes), text = Hex(bytes) PROVE bytes \in BytesOf(text)
  <2>1. Len(bytes) \in Nat /\ Len(text) = 2 * Len(bytes) /\ text \in Seq(Digits)
    BY <1>2, HexFacts
  <2>2. Len(text) % 2 = 0 /\ len = Len(bytes) /\ \A i \in DOMAIN text : text[i] \in Digits
    BY <2>1
  <2>3. BytesOf(text) = {read}
    BY <2>2 DEF BytesOf
  <2>4. ASSUME NEW i \in 1..Len(bytes) PROVE read[i] = bytes[i]
    <3>1. read[i] = FromStrRadix(text[2 * i - 1], text[2 * i])
      BY <2>2
    <3>2. text[2 * i - 1] = bytes[i] \div Radix /\ text[2 * i] = bytes[i] % Radix
      BY <1>2, HexFacts
    <3>3. bytes[i] \in Bytes
      BY <1>2
    <3>4. QED BY <3>1, <3>2, <3>3, BytesArePairs
  <2>5. read = [i \in 1..Len(bytes) |-> bytes[i]]
    BY <2>2, <2>4
  <2>6. bytes = [i \in 1..Len(bytes) |-> bytes[i]]
    BY <1>2
  <2>7. QED BY <2>3, <2>5, <2>6
<1>3. QED BY <1>1, <1>2

----------------------------------------------------------------------------
(* The three kinds of text.                                                *)

\* Both moduli leave room in the bytes of an element.
LEMMA ModuliFit ==
    /\ Modulus \in Nat /\ ScalarModulus \in Nat /\ SignFlag \in Nat
    /\ Modulus <= SignFlag /\ 2 * SignFlag <= Power[Width]
    /\ Modulus <= Power[Width] /\ ScalarModulus <= Power[Width]
<1>1. Power[Width] \in Nat
  BY Powers, BaseIsNatural
<1>2. SignFlag \in Nat /\ 2 * SignFlag <= Power[Width]
  BY <1>1 DEF SignFlag
<1>3. QED BY <1>1, <1>2, EncodingAssumption

\* deserialize_compressed reads exactly the canonical bytes of a reduced value,
\* and looks no further.
LEMMA DeserializeFacts ==
    ASSUME NEW bytes \in Seq(Bytes), NEW modulus \in Nat, modulus <= Power[Width], NEW v
    PROVE  v \in Deserialize(bytes, modulus)
              <=> /\ Width <= Len(bytes) /\ v \in 0..(modulus - 1)
                  /\ SubSeq(bytes, 1, Width) = Canonical(v)
<1> DEFINE head == SubSeq(bytes, 1, Width)
<1>1. Width \in Nat /\ 0 < Width /\ Len(bytes) \in Nat /\ Power[Width] \in Nat
  BY BaseIsNatural, Powers
<1>2. ASSUME Width <= Len(bytes)
      PROVE  head \in Seq(Bytes) /\ Len(head) = Width
  <2>1. 1 \in 1..(Len(bytes) + 1) /\ Width \in 0..Len(bytes)
    BY <1>1, <1>2
  <2>2. \A i \in 1..Width : bytes[i] \in Bytes
    BY <1>1, <1>2
  <2>3. head = [i \in 1..Width |-> bytes[i]]
    BY <1>1, <1>2, <2>1
  <2>4. QED BY <1>1, <2>2, <2>3
<1> HIDE DEF head
<1>3. ASSUME v \in Deserialize(bytes, modulus)
      PROVE  Width <= Len(bytes) /\ v \in 0..(modulus - 1) /\ head = Canonical(v)
  <2>1. Width <= Len(bytes)
    BY <1>1, <1>3 DEF Deserialize
  <2>2. v = LittleEndian(head) /\ v \in 0..(modulus - 1)
    BY <1>1, <1>3, <2>1 DEF Deserialize, head
  <2>3. Canonical(LittleEndian(head)) = head
    BY <1>2, <2>1, CanonicalInverts
  <2>4. QED BY <2>1, <2>2, <2>3
<1>4. ASSUME Width <= Len(bytes), v \in 0..(modulus - 1), head = Canonical(v)
      PROVE  v \in Deserialize(bytes, modulus)
  <2>1. v \in 0..(Power[Width] - 1)
    BY <1>1, <1>4
  <2>2. LittleEndian(head) = v
    BY <1>4, <2>1, CanonicalFacts
  <2>3. QED BY <1>1, <1>4, <2>2 DEF Deserialize, head
<1>5. QED BY <1>3, <1>4 DEF head

\* Of an element's bytes nothing is left out.
LEMMA DeserializeWhole ==
    ASSUME NEW bytes \in Seq(Bytes), Len(bytes) = Width,
           NEW modulus \in Nat, modulus <= Power[Width], NEW v
    PROVE  v \in Deserialize(bytes, modulus) <=> v \in 0..(modulus - 1) /\ bytes = Canonical(v)
<1>1. SubSeq(bytes, 1, Width) = bytes
  BY SubSeqFull
<1>2. Width <= Len(bytes)
  BY BaseIsNatural
<1>3. QED BY <1>1, <1>2, DeserializeFacts

\* An element is read from the text that is written for it and from no other
\* (field_serde).
THEOREM ElementTexts ==
    ASSUME NEW text \in Seq(Characters), NEW v
    PROVE  v \in ParseElement(text) <=> v \in Elements /\ text = ElementText(v)
<1>1. v \in ParseElement(text)
         <=> \E bytes \in BytesOf(text) : Len(bytes) = Width /\ v \in Deserialize(bytes, Modulus)
  BY DEF ParseElement
<1>2. ASSUME NEW bytes \in BytesOf(text), Len(bytes) = Width, v \in Deserialize(bytes, Modulus)
      PROVE  v \in Elements /\ text = ElementText(v)
  <2>1. bytes \in Seq(Bytes) /\ text = Hex(bytes)
    BY BytesOfFacts
  <2>2. v \in 0..(Modulus - 1) /\ bytes = Canonical(v)
    BY <1>2, <2>1, ModuliFit, DeserializeWhole
  <2>3. QED BY <2>1, <2>2 DEF Elements, ElementText
<1>3. ASSUME v \in Elements, text = ElementText(v)
      PROVE  \E bytes \in BytesOf(text) : Len(bytes) = Width /\ v \in Deserialize(bytes, Modulus)
  <2>1. v \in 0..(Modulus - 1) /\ v \in 0..(Power[Width] - 1)
    <3>1. Modulus \in Nat /\ Modulus <= Power[Width] /\ Power[Width] \in Nat
      BY ModuliFit, Powers, BaseIsNatural
    <3>2. QED BY <1>3, <3>1 DEF Elements
  <2>2. Canonical(v) \in Seq(Bytes) /\ Len(Canonical(v)) = Width
    BY <2>1, CanonicalFacts
  <2>3. Canonical(v) \in BytesOf(text)
    BY <1>3, <2>2, BytesOfFacts DEF ElementText
  <2>4. v \in Deserialize(Canonical(v), Modulus)
    BY <2>1, <2>2, ModuliFit, DeserializeWhole
  <2>5. QED BY <2>2, <2>3, <2>4
<1>4. QED BY <1>1, <1>2, <1>3

\* The halves of a string of two elements' bytes.
LEMMA Halves ==
    ASSUME NEW bytes \in Seq(Bytes), Len(bytes) = 2 * Width
    PROVE  /\ SubSeq(bytes, 1, Width) \in Seq(Bytes)
           /\ SubSeq(bytes, Width + 1, Len(bytes)) \in Seq(Bytes)
           /\ Len(SubSeq(bytes, Width + 1, Len(bytes))) = Width
           /\ bytes = SubSeq(bytes, 1, Width) \o SubSeq(bytes, Width + 1, Len(bytes))
<1> DEFINE low == SubSeq(bytes, 1, Width)
           high == SubSeq(bytes, Width + 1, 2 * Width)
<1>1. Width \in Nat /\ 0 < Width
  BY BaseIsNatural
<1>2. \A i \in 1..(2 * Width) : bytes[i] \in Bytes
  OBVIOUS
<1>3. low = [i \in 1..Width |-> bytes[i]] /\ low \in Seq(Bytes)
  <2>1. low = [i \in 1..Width |-> bytes[i]]
    BY <1>1
  <2>2. \A i \in 1..Width : bytes[i] \in Bytes
    BY <1>1, <1>2
  <2> HIDE DEF low
  <2>3. QED BY <1>1, <2>1, <2>2
<1>4. high = [i \in 1..Width |-> bytes[Width + i]] /\ high \in Seq(Bytes)
  <2>1. high = [i \in 1..Width |-> bytes[Width + i]]
    BY <1>1
  <2>2. \A i \in 1..Width : bytes[Width + i] \in Bytes
    BY <1>1, <1>2
  <2> HIDE DEF high
  <2>3. QED BY <1>1, <2>1, <2>2
<1> HIDE DEF low, high
<1>5. Len(low) = Width /\ Len(high) = Width
  BY <1>1, <1>3, <1>4
<1>6. low \o high \in Seq(Bytes) /\ Len(low \o high) = 2 * Width
  BY <1>1, <1>3, <1>4, <1>5
<1>7. \A i \in 1..(2 * Width) : (low \o high)[i] = bytes[i]
  BY <1>1, <1>3, <1>4, <1>5
<1>8. bytes = low \o high
  BY <1>1, <1>6, <1>7, SeqEqual
<1>9. QED BY <1>3, <1>4, <1>5, <1>8 DEF low, high

\* A signature is read from the text that is written for it and from no other
\* (IssuerSignature).
THEOREM SignatureTexts ==
    ASSUME NEW text \in Seq(Characters), NEW r, NEW c
    PROVE  <<r, c>> \in Decoded(text)
              <=> r \in Scalars /\ c \in Scalars /\ text = SignatureText(<<r, c>>)
<1> DEFINE Reads(bytes) ==
              /\ Len(bytes) = 2 * Width
              /\ r \in Deserialize(bytes, ScalarModulus)
              /\ c \in Deserialize(SubSeq(bytes, Width + 1, Len(bytes)), ScalarModulus)
<1>1. <<r, c>> \in Decoded(text) <=> \E bytes \in BytesOf(text) : Reads(bytes)
  BY DEF Decoded
<1>2. ASSUME NEW bytes \in BytesOf(text), Reads(bytes)
      PROVE  r \in Scalars /\ c \in Scalars /\ text = SignatureText(<<r, c>>)
  <2> DEFINE low == SubSeq(bytes, 1, Width)
             high == SubSeq(bytes, Width + 1, Len(bytes))
  <2>1. bytes \in Seq(Bytes) /\ text = Hex(bytes)
    BY BytesOfFacts
  <2>2. /\ high \in Seq(Bytes) /\ Len(high) = Width /\ bytes = low \o high
    BY <1>2, <2>1, Halves
  <2>3. r \in 0..(ScalarModulus - 1) /\ low = Canonical(r)
    BY <1>2, <2>1, ModuliFit, DeserializeFacts
  <2>4. c \in 0..(ScalarModulus - 1) /\ high = Canonical(c)
    BY <1>2, <2>2, ModuliFit, DeserializeWhole
  <2>5. QED BY <2>1, <2>2, <2>3, <2>4 DEF Scalars, SignatureText
<1>3. ASSUME r \in Scalars, c \in Scalars, text = SignatureText(<<r, c>>)
      PROVE  \E bytes \in BytesOf(text) : Reads(bytes)
  <2> DEFINE low == Canonical(r)
             high == Canonical(c)
             bytes == low \o high
  <2>1. /\ r \in 0..(ScalarModulus - 1) /\ c \in 0..(ScalarModulus - 1)
        /\ r \in 0..(Power[Width] - 1) /\ c \in 0..(Power[Width] - 1)
    <3>1. r \in 0..(ScalarModulus - 1) /\ c \in 0..(ScalarModulus - 1)
      BY <1>3 DEF Scalars
    <3>2. Power[Width] \in Nat
      BY Powers, BaseIsNatural
    <3>3. QED BY <3>1, <3>2, ModuliFit
  <2>2. /\ low \in Seq(Bytes) /\ Len(low) = Width
        /\ high \in Seq(Bytes) /\ Len(high) = Width
    BY <2>1, CanonicalFacts
  <2> HIDE DEF low, high
  <2>3. /\ bytes \in Seq(Bytes) /\ Len(bytes) = 2 * Width
        /\ SubSeq(bytes, 1, Width) = low
        /\ SubSeq(bytes, Width + 1, Len(bytes)) = high
    <3>1. bytes \in Seq(Bytes) /\ Len(bytes) = 2 * Width
      BY <2>2, BaseIsNatural
    <3>2. SubSeq(bytes, 1, Width) = low
      BY <2>2, SubSeqOfConcat1, SubSeqFull, BaseIsNatural
    <3>3. SubSeq(bytes, Width + 1, Len(bytes)) = high
      BY <2>2, <3>1, SubSeqOfConcat2, SubSeqFull, BaseIsNatural
    <3>4. QED BY <3>1, <3>2, <3>3
  <2>4. text = Hex(bytes)
    BY <1>3 DEF SignatureText, low, high
  <2> HIDE DEF bytes
  <2>5. bytes \in BytesOf(text)
    BY <2>3, <2>4, BytesOfFacts
  <2>6. r \in Deserialize(bytes, ScalarModulus)
    <3>1. Width <= Len(bytes)
      BY <2>3, BaseIsNatural
    <3>2. SubSeq(bytes, 1, Width) = Canonical(r)
      BY <2>3 DEF low
    <3>3. QED BY <2>1, <2>3, <3>1, <3>2, ModuliFit, DeserializeFacts
  <2>7. c \in Deserialize(high, ScalarModulus)
    BY <2>1, <2>2, ModuliFit, DeserializeWhole DEF high
  <2>8. QED BY <2>3, <2>5, <2>6, <2>7
<1>4. QED BY <1>1, <1>2, <1>3

\* A key is read from the text that is written for it and from no other, and
\* the identity from none (IssuerPublicKey).
THEOREM KeyTexts ==
    ASSUME NEW text \in Seq(Characters), NEW p
    PROVE  p \in FromHex(text)
              <=> p \in Points /\ p.y # IdentityY /\ text = KeyText(p)
<1> DEFINE Reads(bytes) ==
              /\ p \in DeserializePoint(bytes)
              /\ Len(bytes) = Width /\ p.y # IdentityY /\ PointBytes(p) = bytes
<1>1. p \in FromHex(text) <=> \E bytes \in BytesOf(text) : Reads(bytes)
  BY DEF FromHex
<1>2. ASSUME NEW bytes \in BytesOf(text), Reads(bytes)
      PROVE  p \in Points /\ p.y # IdentityY /\ text = KeyText(p)
  <2>1. text = Hex(bytes)
    BY BytesOfFacts
  <2>2. p \in Points
    <3>1. PICK v \in Deserialize(bytes, Power[Width]) :
              /\ v % SignFlag \in Ordinates
              /\ p = [y |-> v % SignFlag,
                      negative |-> v >= SignFlag /\ v % SignFlag # IdentityY]
      BY <1>2 DEF DeserializePoint
    <3>2. (v >= SignFlag /\ v % SignFlag # IdentityY) \in BOOLEAN
      OBVIOUS
    <3>3. p \in [y : Ordinates, negative : BOOLEAN]
      BY <3>1, <3>2
    <3>4. QED BY <1>2, <3>3 DEF Points
  <2>3. QED BY <1>2, <2>1, <2>2 DEF KeyText
<1>3. ASSUME p \in Points, p.y # IdentityY, text = KeyText(p)
      PROVE  \E bytes \in BytesOf(text) : Reads(bytes)
  <2> DEFINE v == p.y + (IF p.negative THEN SignFlag ELSE 0)
             bytes == PointBytes(p)
  <2>1. p \in [y : Ordinates, negative : BOOLEAN]
    BY <1>3 DEF Points
  <2>2. PICK y \in Ordinates, negative \in BOOLEAN :
            y = p.y /\ negative = p.negative /\ p = [y |-> y, negative |-> negative]
    BY <2>1
  <2>3. /\ y \in Nat /\ y < Modulus /\ SignFlag \in Nat /\ y < SignFlag
        /\ 2 * SignFlag <= Power[Width] /\ Power[Width] \in Nat
    BY ModuliFit, Powers, BaseIsNatural, EncodingAssumption
  <2>4. PICK flag \in Nat : flag = SignFlag /\ y < flag
    BY <2>3
  <2>5. (flag * 0 + y) % flag = y /\ (flag * 1 + y) % flag = y
    BY <2>3, <2>4, DivMod
  <2>6. v % SignFlag = y
    <3>1. CASE negative
      BY <2>2, <2>3, <2>4, <2>5, <3>1
    <3>2. CASE ~negative
      BY <2>2, <2>3, <2>4, <2>5, <3>2
    <3>3. QED BY <3>1, <3>2
  <2>7. (v >= SignFlag) <=> negative
    BY <2>2, <2>3
  <2>8. v \in 0..(Power[Width] - 1)
    BY <2>2, <2>3
  <2>9. bytes = Canonical(v)
    BY DEF PointBytes
  <2> HIDE DEF v
  <2>10. bytes \in Seq(Bytes) /\ Len(bytes) = Width
    BY <2>8, <2>9, CanonicalFacts
  <2>11. v \in Deserialize(bytes, Power[Width])
    BY <2>3, <2>8, <2>9, <2>10, DeserializeWhole
  <2>12. p = [y |-> v % SignFlag,
              negative |-> v >= SignFlag /\ v % SignFlag # IdentityY]
    <3>1. (v >= SignFlag /\ v % SignFlag # IdentityY) = negative
      BY <1>3, <2>2, <2>6, <2>7
    <3>2. QED BY <2>2, <2>6, <3>1
  <2> HIDE DEF bytes
  <2>13. p \in DeserializePoint(bytes)
    BY <2>2, <2>3, <2>6, <2>11, <2>12 DEF DeserializePoint
  <2>14. bytes \in BytesOf(text)
    BY <1>3, <2>10, BytesOfFacts DEF KeyText, bytes
  <2>15. QED BY <1>3, <2>10, <2>13, <2>14 DEF bytes
<1>4. QED BY <1>1, <1>2, <1>3
=============================================================================
