------------------------- MODULE PublicationProofs -------------------------
(***************************************************************************)
(* For every field, alphabet and length of scopes that fits the field:     *)
(* scopes are packed without collisions, and what is published binds its   *)
(* holder to one opening.                                                  *)
(***************************************************************************)
EXTENDS Publications, EncodingProofs

\* Two accepted scopes that are packed into one field element are the same
\* (VerifierScope::field_element): the length in front and the bytes fit the
\* field together.
THEOREM ScopesPackInjectively ==
    ASSUME NEW s \in Seq(Bytes), NEW t \in Seq(Bytes),
           NewScope(s) = "Ok", NewScope(t) = "Ok",
           ScopeElement(s) = ScopeElement(t)
    PROVE  s = t
<1>1. /\ MaxScopeLength \in Nat /\ MaxScopeLength < ByteBase
      /\ Modulus \in Nat /\ Power[MaxScopeLength + 1] <= Modulus
      /\ ByteBase \in Nat /\ 1 < ByteBase
  BY CommitmentAssumption, EncodingAssumption, BaseIsNatural
<1>2. ASSUME NEW x \in Seq(Bytes), NewScope(x) = "Ok"
      PROVE  /\ <<Len(x)>> \o x \in Seq(Bytes) /\ Len(<<Len(x)>> \o x) = Len(x) + 1
             /\ LittleEndian(<<Len(x)>> \o x) = ScopeElement(x)
             /\ LittleEndian(<<Len(x)>> \o x) % ByteBase = Len(x)
  <2> DEFINE packed == <<Len(x)>> \o x
  <2>1. Len(x) \in Nat /\ Len(x) <= MaxScopeLength
    <3>1. ~(Len(x) > MaxScopeLength)
      BY <1>2 DEF NewScope
    <3>2. QED BY <1>1, <3>1
  <2>2. Len(x) \in Bytes
    BY <1>1, <2>1 DEF Bytes
  <2>3. packed \in Seq(Bytes) /\ Len(packed) = Len(x) + 1 /\ packed[1] = Len(x)
    <3>1. <<Len(x)>> \in Seq(Bytes) /\ Len(<<Len(x)>>) = 1 /\ <<Len(x)>>[1] = Len(x)
      BY <2>2
    <3>2. QED BY <3>1, ConcatProperties
  <2> HIDE DEF packed
  <2>4. packed # <<>>
    BY <2>1, <2>3
  <2>5. /\ LittleEndian(packed) \in Nat /\ LittleEndian(packed) < Power[Len(x) + 1]
        /\ LittleEndian(packed) % ByteBase = Len(x)
    BY <2>3, <2>4, LittleEndianFacts
  <2>6. Power[Len(x) + 1] <= Power[MaxScopeLength + 1]
    BY <1>1, <2>1, PowersGrow
  <2>7. /\ Power[Len(x) + 1] \in Nat /\ Power[MaxScopeLength + 1] \in Nat
    BY <1>1, <2>1, Powers
  <2>8. PICK n \in Nat : n = LittleEndian(packed) /\ n < Modulus
    BY <1>1, <2>5, <2>6, <2>7
  <2>9. n % Modulus = n
    <3>1. PICK m \in Nat : m = Modulus /\ n \in 0..(m - 1)
      BY <1>1, <2>8
    <3>2. (m * 0 + n) % m = n
      BY <3>1, DivMod
    <3>3. QED BY <3>1, <3>2
  <2>10. QED BY <2>3, <2>5, <2>8, <2>9 DEF packed, ScopeElement
<1> DEFINE ps == <<Len(s)>> \o s
           pt == <<Len(t)>> \o t
<1>3. /\ ps \in Seq(Bytes) /\ Len(ps) = Len(s) + 1
      /\ LittleEndian(ps) = ScopeElement(s) /\ LittleEndian(ps) % ByteBase = Len(s)
  BY <1>2
<1>4. /\ pt \in Seq(Bytes) /\ Len(pt) = Len(t) + 1
      /\ LittleEndian(pt) = ScopeElement(t) /\ LittleEndian(pt) % ByteBase = Len(t)
  BY <1>2
<1> HIDE DEF ps, pt
<1>5. LittleEndian(ps) = LittleEndian(pt) /\ Len(s) = Len(t) /\ Len(ps) = Len(pt)
  BY <1>3, <1>4
<1>6. ps = pt
  BY <1>3, <1>4, <1>5, LittleEndianDetermines
<1>7. ASSUME NEW i \in 1..Len(s) PROVE s[i] = t[i]
  <2>1. Len(s) \in Nat /\ ps[i + 1] = s[i] /\ pt[i + 1] = t[i]
    BY <1>5 DEF ps, pt
  <2>2. QED BY <1>6, <2>1
<1>8. QED BY <1>5, <1>7, SeqEqual

\* A digest gives back the values it was made of, up to a block of them.
LEMMA PoseidonBinds ==
    /\ \A a, b : /\ Poseidon(<<a, b>>)[1][1] = a
                 /\ Poseidon(<<a, b>>)[1][2] = b
    /\ \A a, b, c : /\ Poseidon(<<a, b, c>>)[1][1] = a
                    /\ Poseidon(<<a, b, c>>)[1][2] = b
                    /\ Poseidon(<<a, b, c>>)[1][3] = c
    /\ \A a, b, c, d : /\ Poseidon(<<a, b, c, d>>)[1][1] = a
                       /\ Poseidon(<<a, b, c, d>>)[1][2] = b
                       /\ Poseidon(<<a, b, c, d>>)[1][3] = c
                       /\ Poseidon(<<a, b, c, d>>)[2][1] = d
<1>1. Rate = 3
  BY CommitmentAssumption
<1>2. (2 + 3 - 1) \div 3 = 1 /\ (3 + 3 - 1) \div 3 = 1 /\ (4 + 3 - 1) \div 3 = 2
  OBVIOUS
<1>3. ASSUME NEW a, NEW b
      PROVE  Poseidon(<<a, b>>)[1][1] = a /\ Poseidon(<<a, b>>)[1][2] = b
  BY <1>1, <1>2 DEF Poseidon
<1>4. ASSUME NEW a, NEW b, NEW c
      PROVE  /\ Poseidon(<<a, b, c>>)[1][1] = a /\ Poseidon(<<a, b, c>>)[1][2] = b
             /\ Poseidon(<<a, b, c>>)[1][3] = c
  BY <1>1, <1>2 DEF Poseidon
<1>5. ASSUME NEW a, NEW b, NEW c, NEW d
      PROVE  /\ Poseidon(<<a, b, c, d>>)[1][1] = a /\ Poseidon(<<a, b, c, d>>)[1][2] = b
             /\ Poseidon(<<a, b, c, d>>)[1][3] = c /\ Poseidon(<<a, b, c, d>>)[2][1] = d
  BY <1>1, <1>2 DEF Poseidon
<1>6. QED BY <1>3, <1>4, <1>5

\* The two letters of a country give it a field element of its own.
LEMMA CountriesDiffer ==
    ASSUME NEW c \in Codes, NEW d \in Codes, CountryElement(c) = CountryElement(d)
    PROVE  c = d
<1>1. PICK c1 \in Bytes, c2 \in Bytes : c = <<c1, c2>>
  BY PublicationAssumption
<1>2. PICK d1 \in Bytes, d2 \in Bytes : d = <<d1, d2>>
  BY PublicationAssumption
<1>3. ByteBase * c1 + c2 = ByteBase * d1 + d2
  BY <1>1, <1>2 DEF CountryElement
<1>4. PICK b \in Nat : b = ByteBase /\ 1 < b
  BY BaseIsNatural
<1>5. c1 \in Nat /\ d1 \in Nat /\ c2 \in 0..(b - 1) /\ d2 \in 0..(b - 1)
  BY <1>4 DEF Bytes
<1>6. c2 + b * c1 = d2 + b * d1
  BY <1>3, <1>4, <1>5
<1>7. c2 = d2 /\ c1 = d1
  BY <1>4, <1>5, <1>6, SplitIsUnique
<1>8. QED BY <1>1, <1>2, <1>7

----------------------------------------------------------------------------
(* What can have been published.                                           *)

AgePublications == {Published("age", <<days, salt>>) : days \in Days, salt \in Salts}
OwnerPublications == {Published("owner", <<secret>>) : secret \in Secrets}
AttributePublications ==
    {Published("attributes", <<code, role, salt>>) :
        code \in Codes, role \in Roles, salt \in Salts}
NullifierPublications ==
    {Published("nullifier", <<secret, text>>) :
        secret \in Secrets, text \in {t \in ScopeTexts : NewScope(t) = "Ok"}}

Publications ==
    AgePublications \cup OwnerPublications \cup AttributePublications
        \cup NullifierPublications

\* The digests of the four purposes.
LEMMA Digests ==
    /\ \A days, salt :
          LET p == Published("age", <<days, salt>>)
          IN  /\ p.purpose = "age" /\ p.opening = <<days, salt>>
              /\ p.digest = CommitAge(days, salt)
              /\ p.digest[1][1] = 1 /\ p.digest[1][2] = days /\ p.digest[1][3] = salt
    /\ \A secret :
          LET p == Published("owner", <<secret>>)
          IN  /\ p.purpose = "owner" /\ p.opening = <<secret>>
              /\ p.digest = CommitOwner(secret)
              /\ p.digest[1][1] = 2 /\ p.digest[1][2] = secret
    /\ \A code, role, salt :
          LET p == Published("attributes", <<code, role, salt>>)
          IN  /\ p.purpose = "attributes" /\ p.opening = <<code, role, salt>>
              /\ p.digest = CommitAttributes(code, role, salt)
              /\ p.digest[1][1] = 3 /\ p.digest[1][2] = CountryElement(code)
              /\ p.digest[1][3] = role /\ p.digest[2][1] = salt
    /\ \A secret, text :
          LET p == Published("nullifier", <<secret, text>>)
          IN  /\ p.purpose = "nullifier" /\ p.opening = <<secret, text>>
              /\ p.digest[1][1] = 4 /\ p.digest[1][2] = secret
              /\ p.digest[1][3] = ScopeElement(text)
<1>1. ASSUME NEW days, NEW salt
      PROVE  LET p == Published("age", <<days, salt>>)
             IN  /\ p.purpose = "age" /\ p.opening = <<days, salt>>
                 /\ p.digest = CommitAge(days, salt)
                 /\ p.digest[1][1] = 1 /\ p.digest[1][2] = days /\ p.digest[1][3] = salt
  <2>1. Digest("age", <<days, salt>>) = CommitAge(days, salt)
    BY DEF Digest
  <2>2. CommitAge(days, salt) = Poseidon(<<1, days, salt>>)
    BY DEF CommitAge, Domain
  <2>3. QED BY <2>1, <2>2, PoseidonBinds DEF Published
<1>2. ASSUME NEW secret
      PROVE  LET p == Published("owner", <<secret>>)
             IN  /\ p.purpose = "owner" /\ p.opening = <<secret>>
                 /\ p.digest = CommitOwner(secret)
                 /\ p.digest[1][1] = 2 /\ p.digest[1][2] = secret
  <2>1. Digest("owner", <<secret>>) = CommitOwner(secret)
    BY DEF Digest
  <2>2. CommitOwner(secret) = Poseidon(<<2, secret>>)
    BY DEF CommitOwner, Domain
  <2>3. QED BY <2>1, <2>2, PoseidonBinds DEF Published
<1>3. ASSUME NEW code, NEW role, NEW salt
      PROVE  LET p == Published("attributes", <<code, role, salt>>)
             IN  /\ p.purpose = "attributes" /\ p.opening = <<code, role, salt>>
                 /\ p.digest = CommitAttributes(code, role, salt)
                 /\ p.digest[1][1] = 3 /\ p.digest[1][2] = CountryElement(code)
                 /\ p.digest[1][3] = role /\ p.digest[2][1] = salt
  <2>1. Digest("attributes", <<code, role, salt>>) = CommitAttributes(code, role, salt)
    BY DEF Digest
  <2>2. CommitAttributes(code, role, salt) = Poseidon(<<3, CountryElement(code), role, salt>>)
    BY DEF CommitAttributes, Domain
  <2>3. QED BY <2>1, <2>2, PoseidonBinds DEF Published
<1>4. ASSUME NEW secret, NEW text
      PROVE  LET p == Published("nullifier", <<secret, text>>)
             IN  /\ p.purpose = "nullifier" /\ p.opening = <<secret, text>>
                 /\ p.digest[1][1] = 4 /\ p.digest[1][2] = secret
                 /\ p.digest[1][3] = ScopeElement(text)
  <2>1. Digest("nullifier", <<secret, text>>) = DeriveNullifier(secret, text)
    BY DEF Digest
  <2>2. DeriveNullifier(secret, text) = Poseidon(<<4, secret, ScopeElement(text)>>)
    BY DEF DeriveNullifier, Domain
  <2>3. QED BY <2>1, <2>2, PoseidonBinds DEF Published
<1>5. QED BY <1>1, <1>2, <1>3, <1>4

\* Publications with one digest are one.
LEMMA DigestsAreInjective ==
    ASSUME NEW p \in Publications, NEW q \in Publications, p.digest = q.digest
    PROVE  p = q
<1>1. /\ \A r \in AgePublications : r.digest[1][1] = 1
      /\ \A r \in OwnerPublications : r.digest[1][1] = 2
      /\ \A r \in AttributePublications : r.digest[1][1] = 3
      /\ \A r \in NullifierPublications : r.digest[1][1] = 4
  <2>1. ASSUME NEW r \in AgePublications PROVE r.digest[1][1] = 1
    <3>1. PICK days \in Days, salt \in Salts :
              r = Published("age", <<days, salt>>)
      BY DEF AgePublications
    <3>2. QED BY <3>1, Digests
  <2>2. ASSUME NEW r \in OwnerPublications PROVE r.digest[1][1] = 2
    <3>1. PICK secret \in Secrets :
              r = Published("owner", <<secret>>)
      BY DEF OwnerPublications
    <3>2. QED BY <3>1, Digests
  <2>3. ASSUME NEW r \in AttributePublications PROVE r.digest[1][1] = 3
    <3>1. PICK code \in Codes, role \in Roles, salt \in Salts :
              r = Published("attributes", <<code, role, salt>>)
      BY DEF AttributePublications
    <3>2. QED BY <3>1, Digests
  <2>4. ASSUME NEW r \in NullifierPublications PROVE r.digest[1][1] = 4
    <3>1. PICK secret \in Secrets, text \in ScopeTexts :
              r = Published("nullifier", <<secret, text>>)
      BY DEF NullifierPublications
    <3>2. QED BY <3>1, Digests
  <2>5. QED BY <2>1, <2>2, <2>3, <2>4
<1>2. ASSUME p \in AgePublications, q \in AgePublications PROVE p = q
  <2>1. PICK d1 \in Days, s1 \in Salts : p = Published("age", <<d1, s1>>)
    BY <1>2 DEF AgePublications
  <2>2. PICK d2 \in Days, s2 \in Salts : q = Published("age", <<d2, s2>>)
    BY <1>2 DEF AgePublications
  <2>3. d1 = d2 /\ s1 = s2
    BY <2>1, <2>2, Digests
  <2>4. QED BY <2>1, <2>2, <2>3
<1>3. ASSUME p \in OwnerPublications, q \in OwnerPublications PROVE p = q
  <2>1. PICK s1 \in Secrets : p = Published("owner", <<s1>>)
    BY <1>3 DEF OwnerPublications
  <2>2. PICK s2 \in Secrets : q = Published("owner", <<s2>>)
    BY <1>3 DEF OwnerPublications
  <2>3. s1 = s2
    BY <2>1, <2>2, Digests
  <2>4. QED BY <2>1, <2>2, <2>3
<1>4. ASSUME p \in AttributePublications, q \in AttributePublications PROVE p = q
  <2>1. PICK c1 \in Codes, r1 \in Roles, s1 \in Salts :
            p = Published("attributes", <<c1, r1, s1>>)
    BY <1>4 DEF AttributePublications
  <2>2. PICK c2 \in Codes, r2 \in Roles, s2 \in Salts :
            q = Published("attributes", <<c2, r2, s2>>)
    BY <1>4 DEF AttributePublications
  <2>3. CountryElement(c1) = CountryElement(c2) /\ r1 = r2 /\ s1 = s2
    BY <2>1, <2>2, Digests
  <2>4. c1 = c2
    BY <2>3, CountriesDiffer
  <2>5. QED BY <2>1, <2>2, <2>3, <2>4
<1>5. ASSUME p \in NullifierPublications, q \in NullifierPublications PROVE p = q
  <2>1. PICK s1 \in Secrets, t1 \in ScopeTexts :
            NewScope(t1) = "Ok" /\ p = Published("nullifier", <<s1, t1>>)
    BY <1>5 DEF NullifierPublications
  <2>2. PICK s2 \in Secrets, t2 \in ScopeTexts :
            NewScope(t2) = "Ok" /\ q = Published("nullifier", <<s2, t2>>)
    BY <1>5 DEF NullifierPublications
  <2>3. s1 = s2 /\ ScopeElement(t1) = ScopeElement(t2)
    BY <2>1, <2>2, Digests
  <2>4. t1 \in Seq(Bytes) /\ t2 \in Seq(Bytes)
    BY PublicationAssumption
  <2>5. t1 = t2
    BY <2>1, <2>2, <2>3, <2>4, ScopesPackInjectively
  <2>6. QED BY <2>1, <2>2, <2>3, <2>5
<1>6. QED BY <1>1, <1>2, <1>3, <1>4, <1>5 DEF Publications

\* Only commitments, and nullifiers for accepted scopes, are published.
THEOREM OnlyPublications == Spec => [](published \subseteq Publications)
<1>1. Init => published \subseteq Publications
  BY DEF Init
<1>2. published \subseteq Publications /\ [Next]_vars => (published \subseteq Publications)'
  <2> SUFFICES ASSUME published \subseteq Publications, [Next]_vars
               PROVE  published' \subseteq Publications
    OBVIOUS
  <2>1. ASSUME NEW days \in Days, NEW salt \in Salts, PublishAge(days, salt)
        PROVE  published' \subseteq Publications
    <3>1. Published("age", <<days, salt>>) \in Publications
      BY DEF Publications, AgePublications
    <3>2. QED BY <2>1, <3>1 DEF PublishAge, Publish
  <2>2. ASSUME NEW secret \in Secrets, PublishOwner(secret)
        PROVE  published' \subseteq Publications
    <3>1. Published("owner", <<secret>>) \in Publications
      BY DEF Publications, OwnerPublications
    <3>2. QED BY <2>2, <3>1 DEF PublishOwner, Publish
  <2>3. ASSUME NEW code \in Codes, NEW role \in Roles, NEW salt \in Salts,
               PublishAttributes(code, role, salt)
        PROVE  published' \subseteq Publications
    <3>1. Published("attributes", <<code, role, salt>>) \in Publications
      BY DEF Publications, AttributePublications
    <3>2. QED BY <2>3, <3>1 DEF PublishAttributes, Publish
  <2>4. ASSUME NEW secret \in Secrets, NEW text \in ScopeTexts, PublishNullifier(secret, text)
        PROVE  published' \subseteq Publications
    <3>1. Published("nullifier", <<secret, text>>) \in Publications
      BY <2>4 DEF Publications, NullifierPublications, PublishNullifier
    <3>2. QED BY <2>4, <3>1 DEF PublishNullifier, Publish
  <2>5. ASSUME NEW text \in ScopeTexts, RefuseScope(text)
        PROVE  published' \subseteq Publications
    BY <2>5 DEF RefuseScope
  <2>6. CASE UNCHANGED vars
    BY <2>6 DEF vars
  <2>7. QED BY <2>1, <2>2, <2>3, <2>4, <2>5, <2>6 DEF Next
<1>3. QED BY <1>1, <1>2, PTL DEF Spec

\* One digest has one purpose and one opening, whatever was published.
THEOREM DigestsAreBinding == Spec => []DigestsBind
<1>1. published \subseteq Publications => DigestsBind
  <2> SUFFICES ASSUME published \subseteq Publications,
                      NEW p \in published, NEW q \in published, p.digest = q.digest
               PROVE  p = q
    BY DEF DigestsBind
  <2>1. p \in Publications /\ q \in Publications
    OBVIOUS
  <2>2. QED BY <2>1, DigestsAreInjective
<1>2. QED BY <1>1, OnlyPublications, PTL

\* A commitment opens with the values it was made of and with no others, and
\* nothing else opens as one.
THEOREM OpeningsAreUnique == Spec => []OpensOnlyAsMade
<1>1. published \subseteq Publications => OpensOnlyAsMade
  <2> SUFFICES ASSUME published \subseteq Publications, NEW p \in published
               PROVE  /\ \A days \in Days, salt \in Salts :
                            AgeMatches(p.digest, days, salt)
                                <=> p.purpose = "age" /\ p.opening = <<days, salt>>
                      /\ \A secret \in Secrets :
                            OwnerMatches(p.digest, secret)
                                <=> p.purpose = "owner" /\ p.opening = <<secret>>
                      /\ \A code \in Codes, role \in Roles, salt \in Salts :
                            AttributesMatch(p.digest, code, role, salt)
                                <=> p.purpose = "attributes" /\ p.opening = <<code, role, salt>>
    BY DEF OpensOnlyAsMade
  <2>1. p \in Publications
    OBVIOUS
  <2>2. PICK purpose, opening : p = Published(purpose, opening)
    <3>1. CASE p \in AgePublications
      <4>1. PICK days \in Days, salt \in Salts :
                p = Published("age", <<days, salt>>)
        BY <3>1 DEF AgePublications
      <4>2. QED BY <4>1
    <3>2. CASE p \in OwnerPublications
      <4>1. PICK secret \in Secrets :
                p = Published("owner", <<secret>>)
        BY <3>2 DEF OwnerPublications
      <4>2. QED BY <4>1
    <3>3. CASE p \in AttributePublications
      <4>1. PICK code \in Codes, role \in Roles, salt \in Salts :
                p = Published("attributes", <<code, role, salt>>)
        <5> SUFFICES ASSUME NEW r \in AttributePublications
                     PROVE  \E code \in Codes, role \in Roles, salt \in Salts :
                               r = Published("attributes", <<code, role, salt>>)
          BY <3>3
        <5> QED BY DEF AttributePublications
      <4>2. QED BY <4>1
    <3>4. CASE p \in NullifierPublications
      <4>1. PICK secret \in Secrets, text \in ScopeTexts :
                p = Published("nullifier", <<secret, text>>)
        BY <3>4 DEF NullifierPublications
      <4>2. QED BY <4>1
    <3>5. QED BY <2>1, <3>1, <3>2, <3>3, <3>4 DEF Publications
  <2>3. p = Published(p.purpose, p.opening)
    BY <2>2 DEF Published
  <2>4. ASSUME NEW days \in Days, NEW salt \in Salts
        PROVE  AgeMatches(p.digest, days, salt)
                   <=> p.purpose = "age" /\ p.opening = <<days, salt>>
    <3>1. Published("age", <<days, salt>>) \in Publications
      BY DEF Publications, AgePublications
    <3>2. QED BY <2>1, <2>3, <3>1, Digests, DigestsAreInjective DEF AgeMatches
  <2>5. ASSUME NEW secret \in Secrets
        PROVE  OwnerMatches(p.digest, secret)
                   <=> p.purpose = "owner" /\ p.opening = <<secret>>
    <3>1. Published("owner", <<secret>>) \in Publications
      BY DEF Publications, OwnerPublications
    <3>2. QED BY <2>1, <2>3, <3>1, Digests, DigestsAreInjective DEF OwnerMatches
  <2>6. ASSUME NEW code \in Codes, NEW role \in Roles, NEW salt \in Salts
        PROVE  AttributesMatch(p.digest, code, role, salt)
                   <=> p.purpose = "attributes" /\ p.opening = <<code, role, salt>>
    <3>1. Published("attributes", <<code, role, salt>>) \in Publications
      BY DEF Publications, AttributePublications
    <3>2. QED BY <2>1, <2>3, <3>1, Digests, DigestsAreInjective DEF AttributesMatch
  <2>7. QED BY <2>4, <2>5, <2>6
<1>2. QED BY <1>1, OnlyPublications, PTL
=============================================================================
