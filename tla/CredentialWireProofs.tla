------------------------ MODULE CredentialWireProofs ------------------------
(***************************************************************************)
(* For every set of keys, commitments and slots and any number of changes  *)
(* on the way: what verifies under a key was issued by it, part by part,   *)
(* and verifying is a look-up in a register of what was issued.            *)
(***************************************************************************)
EXTENDS CredentialRefinement, TLAPS

\* Slots hold what a key issued in them.
SlotsWereIssued ==
    \A id \in Slots :
        \E k \in Keys, age \in Ages, owner \in Owners, attributes \in Attributes :
            credentials[id] = Issued(k, age, owner, attributes, id)

\* Nobody but issue makes signatures: every half on the wire is that of one in
\* a slot, or stray.
Texts(V) == [form : OtherForms \cup {"canonical"}, of : V]

DocumentTexts ==
    [fingerprint : Texts(Keys \cup {Stray}), schema : Texts(Schemas),
     age : Texts(Ages), owner : Texts(Owners), attributes : Texts(Attributes),
     response : Texts(Halves), challenge : Texts(Halves)]

Documents == [shape : OtherShapes \cup {"object"}, texts : DocumentTexts]

WireIsKnown == wire # None => wire \in Documents

\* A held credential is what its document says.
HeldWasDecoded ==
    held # None =>
        /\ wire # None
        /\ held = Decoded(wire.texts)
        /\ \A part \in Parts : Decoded(wire.texts)[part] # Refused

\* The last reply tells of the state as it still is.
ReplyIsCurrent ==
    reply.call = "verify" =>
        held # None /\ reply.key \in Keys /\ reply.result = Verdict(reply.key, held)

IInv ==
    /\ changes \in 0..MaxChanges
    /\ credentials \in [CredentialIds -> AgeCredentials \cup {None}]
    /\ SlotsWereIssued
    /\ WireIsKnown
    /\ HeldWasDecoded
    /\ ReplyIsCurrent

----------------------------------------------------------------------------
\* What a key issues is a credential with a value in every part.
LEMMA IssuedIsCredential ==
    ASSUME NEW k \in Keys, NEW age \in Ages, NEW owner \in Owners,
           NEW attributes \in Attributes, NEW id \in CredentialIds
    PROVE  Issued(k, age, owner, attributes, id) \in AgeCredentials
<1>1. Sign(k, CredentialMessage(age, owner, attributes, SchemaV2), id) \in Signatures
  BY DEF Sign, CredentialMessage, Signatures
<1> QED
  BY <1>1, WireAssumption DEF Issued, AgeCredentials, Scalars, Half

\* The halves that can be found on the wire are scalars of signatures.
LEMMA HalvesAreScalars ==
    ASSUME credentials \in [CredentialIds -> AgeCredentials \cup {None}]
    PROVE  Halves \subseteq Scalars
<1>1. ASSUME NEW id \in Slots
      PROVE  credentials[id].response.of \in Signatures \cup {Stray}
  <2>1. credentials[id] \in AgeCredentials
    BY <1>1 DEF Slots
  <2>2. credentials[id].response \in Scalars
    BY <2>1 DEF AgeCredentials
  <2> QED
    BY <2>2 DEF Scalars
<1> QED
  BY <1>1 DEF Halves, Half, Scalars

\* A document none of whose parts is refused decodes to a credential.
LEMMA DecodedIsCredential ==
    ASSUME NEW w \in DocumentTexts, Halves \subseteq Scalars,
           \A part \in Parts : Decoded(w)[part] # Refused
    PROVE  Decoded(w) \in AgeCredentials
<1>1. Decoded(w).fingerprint \in Keys \cup {Stray}
  BY DEF Decoded, DecodedFingerprint, DocumentTexts, Texts, Parts
<1>2. Decoded(w).schema \in SchemaVersions
  <2>1. Decoded(w).schema = DecodedSchema(w.schema) /\ Decoded(w).schema # Refused
    BY DEF Decoded, Parts
  <2>2. w.schema.of \in SchemaVersions
    BY WireAssumption DEF DocumentTexts, Texts
  <2>3. QED BY <2>1, <2>2 DEF DecodedSchema
<1>3. /\ Decoded(w).age \in Ages
      /\ Decoded(w).owner \in Owners
      /\ Decoded(w).attributes \in Attributes
  BY DEF Decoded, DecodedValue, DocumentTexts, Texts, Parts
<1>4. Decoded(w).response \in Scalars /\ Decoded(w).challenge \in Scalars
  BY DEF Decoded, DecodedValue, DocumentTexts, Texts, Parts
<1> QED
  BY <1>1, <1>2, <1>3, <1>4 DEF AgeCredentials, Decoded

\* The carrier can only put values there are into the parts.
LEMMA ChangedIsDocument ==
    ASSUME NEW w \in Documents, NEW part \in Parts,
           NEW form \in OtherForms \cup {"canonical"}, NEW v \in ValuesOf(part)
    PROVE  [w EXCEPT !.texts[part] = Text(form, v)] \in Documents
<1>1. w.texts \in DocumentTexts
  BY DEF Documents
<1>2. [w.texts EXCEPT ![part] = Text(form, v)] \in DocumentTexts
  BY <1>1 DEF DocumentTexts, Texts, Text, Parts, ValuesOf
<1>3. QED BY <1>2 DEF Documents

----------------------------------------------------------------------------
LEMMA InitIInv == Init => IInv
BY WireAssumption
   DEF Init, IInv, SlotsWereIssued, Slots, WireIsKnown, HeldWasDecoded,
       ReplyIsCurrent, NoReply

\* The credentials of other slots, and so the halves there are, stay.
LEMMA IssueKeepsIInv ==
    ASSUME IInv, NEW id \in CredentialIds, NEW k \in Keys, NEW age \in Ages,
           NEW owner \in Owners, NEW attributes \in Attributes,
           Issue(id, k, age, owner, attributes)
    PROVE  IInv'
<1> DEFINE c == Issued(k, age, owner, attributes, id)
<1>1. c \in AgeCredentials
  BY IssuedIsCredential
<1> HIDE DEF c
<1>2. /\ credentials' = [credentials EXCEPT ![id] = c]
      /\ credentials[id] = None
      /\ credentials \in [CredentialIds -> AgeCredentials \cup {None}]
      /\ UNCHANGED <<wire, changes, held>> /\ reply' = NoReply
  BY DEF Issue, IInv, c
<1>3. \A i \in Slots : i \in Slots' /\ credentials'[i] = credentials[i]
  BY <1>2 DEF Slots
<1>4. credentials' \in [CredentialIds -> AgeCredentials \cup {None}]
  BY <1>1, <1>2
<1>5. SlotsWereIssued'
  <2> SUFFICES ASSUME NEW i \in Slots'
               PROVE  \E k1 \in Keys, age1 \in Ages, owner1 \in Owners,
                         attributes1 \in Attributes :
                           credentials'[i] = Issued(k1, age1, owner1, attributes1, i)
    BY DEF SlotsWereIssued
  <2>1. CASE i = id
    BY <2>1, <1>2 DEF c
  <2>2. CASE i # id
    BY <2>2, <1>2 DEF Slots, SlotsWereIssued, IInv
  <2> QED
    BY <2>1, <2>2
<1>6. Halves \subseteq Halves'
  BY <1>3 DEF Halves
<1>7. WireIsKnown'
  BY <1>2, <1>6 DEF WireIsKnown, Documents, DocumentTexts, Texts, IInv
<1>8. HeldWasDecoded' /\ ReplyIsCurrent'
  BY <1>2 DEF HeldWasDecoded, ReplyIsCurrent, NoReply, IInv
<1> QED
  BY <1>2, <1>4, <1>5, <1>7, <1>8 DEF IInv

LEMMA SendKeepsIInv ==
    ASSUME IInv, NEW id \in CredentialIds, Send(id)
    PROVE  IInv'
<1>1. id \in Slots /\ credentials[id] \in AgeCredentials
  BY DEF Send, Slots, IInv
<1>2. PICK k \in Keys, age \in Ages, owner \in Owners, attributes \in Attributes :
         credentials[id] = Issued(k, age, owner, attributes, id)
  BY <1>1 DEF IInv, SlotsWereIssued
<1>3. /\ credentials[id].response \in Halves
      /\ credentials[id].challenge \in Halves
  <2>1. /\ credentials[id].response = Half("response", credentials[id].response.of)
        /\ credentials[id].challenge = Half("challenge", credentials[id].response.of)
    BY <1>2 DEF Issued, Half
  <2>2. \A half \in {"response", "challenge"} :
           Half(half, credentials[id].response.of) \in Halves
    BY <1>1 DEF Halves
  <2> QED
    BY <2>1, <2>2
<1>4. Encoded(credentials[id]) \in Documents
  <2> DEFINE texts == [part \in Parts |-> Text("canonical", credentials[id][part])]
  <2>1. credentials[id].schema \in Schemas
    BY <1>2, WireAssumption DEF Issued
  <2>2. texts \in DocumentTexts
    BY <1>1, <1>3, <2>1 DEF DocumentTexts, Texts, Text, Parts, AgeCredentials
  <2>3. QED BY <2>2 DEF Encoded, Documents
<1>5. Halves' = Halves /\ SlotsWereIssued'
  BY DEF Send, IInv, Halves, SlotsWereIssued, Slots
<1>6. WireIsKnown'
  BY <1>4, <1>5 DEF WireIsKnown, Send, Documents, DocumentTexts
<1> QED
  BY <1>5, <1>6, WireAssumption
     DEF IInv, Send, HeldWasDecoded, ReplyIsCurrent, NoReply

LEMMA ChangeKeepsIInv ==
    ASSUME IInv, NEW part \in Parts, NEW form \in OtherForms \cup {"canonical"},
           NEW v \in ValuesOf(part), Change(part, form, v)
    PROVE  IInv'
<1>1. wire \in Documents
  BY DEF Change, IInv, WireIsKnown
<1>2. wire' \in Documents
  BY <1>1, ChangedIsDocument DEF Change
<1>3. Halves' = Halves /\ SlotsWereIssued'
  BY DEF Change, IInv, Halves, SlotsWereIssued, Slots
<1>4. WireIsKnown'
  BY <1>2, <1>3 DEF WireIsKnown, Documents, DocumentTexts
<1>5. changes' \in 0..MaxChanges
  BY WireAssumption DEF Change, IInv
<1> QED
  BY <1>3, <1>4, <1>5 DEF IInv, Change, HeldWasDecoded, ReplyIsCurrent, NoReply

LEMMA RearrangeKeepsIInv ==
    ASSUME IInv, NEW shape \in OtherShapes, Rearrange(shape)
    PROVE  IInv'
<1>1. wire \in Documents
  BY DEF Rearrange, IInv, WireIsKnown
<1>2. wire' \in Documents
  BY <1>1 DEF Rearrange, Documents
<1>3. Halves' = Halves /\ SlotsWereIssued'
  BY DEF Rearrange, IInv, Halves, SlotsWereIssued, Slots
<1>4. WireIsKnown'
  BY <1>2, <1>3 DEF WireIsKnown, Documents, DocumentTexts
<1>5. changes' \in 0..MaxChanges
  BY WireAssumption DEF Rearrange, IInv
<1> QED
  BY <1>3, <1>4, <1>5 DEF IInv, Rearrange, HeldWasDecoded, ReplyIsCurrent, NoReply

LEMMA ReceiveKeepsIInv ==
    ASSUME IInv, Receive
    PROVE  IInv'
<1>1. WireIsKnown' /\ SlotsWereIssued'
  BY DEF Receive, IInv, WireIsKnown, Documents, DocumentTexts, Halves, SlotsWereIssued,
         Slots
<1>2. HeldWasDecoded' /\ ReplyIsCurrent'
  BY DEF Receive, Reads, HeldWasDecoded, ReplyIsCurrent
<1> QED
  BY <1>1, <1>2 DEF IInv, Receive

LEMMA VerifyKeepsIInv ==
    ASSUME IInv, NEW k \in Keys, Verify(k)
    PROVE  IInv'
<1>1. WireIsKnown' /\ SlotsWereIssued' /\ HeldWasDecoded'
  BY DEF Verify, IInv, WireIsKnown, Documents, DocumentTexts, Halves, SlotsWereIssued,
         Slots, HeldWasDecoded
<1>2. ReplyIsCurrent'
  BY DEF Verify, ReplyIsCurrent
<1> QED
  BY <1>1, <1>2 DEF IInv, Verify

LEMMA NextIInv == IInv /\ [Next]_vars => IInv'
<1> SUFFICES ASSUME IInv, [Next]_vars PROVE IInv'
  OBVIOUS
<1>1. CASE UNCHANGED vars
  BY <1>1 DEF IInv, vars, WireIsKnown, Documents, DocumentTexts, Halves,
              SlotsWereIssued, Slots, HeldWasDecoded, ReplyIsCurrent
<1>2. CASE Next
  BY <1>2, IssueKeepsIInv, SendKeepsIInv, ChangeKeepsIInv, RearrangeKeepsIInv,
     ReceiveKeepsIInv, VerifyKeepsIInv DEF Next
<1> QED
  BY <1>1, <1>2

LEMMA Invariance == Spec => []IInv
BY InitIInv, NextIInv, PTL DEF Spec

----------------------------------------------------------------------------
LEMMA HeldIsCredential ==
    ASSUME IInv, held # None
    PROVE  held \in AgeCredentials
<1>1. wire.texts \in DocumentTexts /\ Halves \subseteq Scalars
  BY HalvesAreScalars DEF IInv, HeldWasDecoded, WireIsKnown, Documents
<1> QED
  BY <1>1, DecodedIsCredential DEF IInv, HeldWasDecoded

\* Credentials that are held have a value in every part (issuer.rs, commitment.rs
\* and policy.rs refuse what has none), whatever arrives.
THEOREM WireTypes == Spec => []TypeOK
<1>1. IInv => TypeOK
  BY HeldIsCredential DEF IInv, TypeOK
<1> QED
  BY <1>1, Invariance, PTL

\* A signature holds under a key only over the message of a credential that key
\* issued: its halves come from one slot.
LEMMA SignatureIsOfASlot ==
    ASSUME SlotsWereIssued, NEW k \in Keys, NEW message,
           NEW r \in Halves, NEW e \in Halves, SignatureHolds(k, message, r, e)
    PROVE  \E id \in Slots :
              /\ r = credentials[id].response /\ e = credentials[id].challenge
              /\ credentials[id].fingerprint = k /\ credentials[id].schema = SchemaV2
              /\ message = CredentialMessage(credentials[id].age, credentials[id].owner,
                                             credentials[id].attributes, SchemaV2)
<1>1. /\ r.half = "response" /\ e.half = "challenge"
      /\ r.of # Stray /\ r.of = e.of
      /\ r.of.signer = k /\ r.of.message = message
  BY DEF SignatureHolds, SignatureValid
<1>2. PICK id \in Slots : r.of = credentials[id].response.of
  BY <1>1 DEF Halves, Half
<1>3. r = Half("response", r.of) /\ e = Half("challenge", r.of)
  BY <1>1 DEF Halves, Half
<1>4. PICK k1 \in Keys, age \in Ages, owner \in Owners, attributes \in Attributes :
         credentials[id] = Issued(k1, age, owner, attributes, id)
  BY <1>2 DEF SlotsWereIssued
<1>5. /\ credentials[id].response = Half("response", credentials[id].response.of)
      /\ credentials[id].challenge = Half("challenge", credentials[id].response.of)
  BY <1>4 DEF Issued, Half
<1>6. /\ credentials[id].response.of.signer = credentials[id].fingerprint
      /\ credentials[id].schema = SchemaV2
      /\ credentials[id].response.of.message
            = CredentialMessage(credentials[id].age, credentials[id].owner,
                                credentials[id].attributes, SchemaV2)
  BY <1>4 DEF Issued, Half, Sign
<1> QED
  BY <1>1, <1>2, <1>3, <1>5, <1>6

\* What verifies under a key is the very credential in a slot.
LEMMA OkMeansIssued ==
    ASSUME IInv, held # None, NEW k \in Keys, Verdict(k, held) = "Ok"
    PROVE  /\ k # Identity
           /\ \E id \in Slots : held = credentials[id] /\ held.fingerprint = k
<1> DEFINE message == CredentialMessage(held.age, held.owner, held.attributes, held.schema)
<1>1. /\ held.schema = SchemaV2 /\ k # Identity /\ held.fingerprint = k
      /\ SignatureHolds(k, message, held.response, held.challenge)
  BY DEF Verdict
<1>2. wire.texts \in DocumentTexts /\ held = Decoded(wire.texts)
      /\ \A part \in Parts : Decoded(wire.texts)[part] # Refused
  BY DEF IInv, HeldWasDecoded, WireIsKnown, Documents
<1>3. held \in AgeCredentials
  BY HeldIsCredential
<1>4. held.response \in Halves /\ held.challenge \in Halves
  BY <1>2 DEF Decoded, DecodedValue, DocumentTexts, Texts, Parts
<1>5. PICK id \in Slots :
         /\ held.response = credentials[id].response
         /\ held.challenge = credentials[id].challenge
         /\ credentials[id].fingerprint = k /\ credentials[id].schema = SchemaV2
         /\ message = CredentialMessage(credentials[id].age, credentials[id].owner,
                                        credentials[id].attributes, SchemaV2)
  BY <1>1, <1>4, SignatureIsOfASlot DEF IInv
<1>6. credentials[id] \in AgeCredentials
  BY <1>5 DEF IInv, Slots
<1>7. /\ held.age = credentials[id].age
      /\ held.owner = credentials[id].owner
      /\ held.attributes = credentials[id].attributes
  BY <1>5, <1>1 DEF CredentialMessage
<1>8. held = credentials[id]
  BY <1>1, <1>3, <1>5, <1>6, <1>7 DEF AgeCredentials
<1> QED
  BY <1>1, <1>5, <1>8

\* A verifier's yes means that the very credential it holds was issued by that
\* key (issuer.rs AgeCredential::verify), whatever happened on the way.
THEOREM Authenticity == Spec => []VerifiedWasIssued
<1>1. IInv => VerifiedWasIssued
  BY OkMeansIssued DEF IInv, ReplyIsCurrent, VerifiedWasIssued
<1> QED
  BY <1>1, Invariance, PTL

\* What a key issued verifies under that key, unless the key is the identity.
LEMMA IssuedVerifies ==
    ASSUME NEW k \in Keys, NEW age \in Ages, NEW owner \in Owners,
           NEW attributes \in Attributes, NEW id \in CredentialIds, k # Identity
    PROVE  Verdict(k, Issued(k, age, owner, attributes, id)) = "Ok"
<1> DEFINE message == CredentialMessage(age, owner, attributes, SchemaV2)
<1>1. Sign(k, message, id) \in Signatures
  BY DEF Sign, CredentialMessage, Signatures
<1>2. Sign(k, message, id) # Stray
  BY <1>1, WireAssumption
<1>3. SignatureHolds(k, message, Half("response", Sign(k, message, id)),
                                 Half("challenge", Sign(k, message, id)))
  BY <1>2 DEF SignatureHolds, SignatureValid, Half, Sign
<1> QED
  BY <1>3 DEF Verdict, Issued

\* A verifier's no names the fault (issuer.rs AgeCredential::verify), and an
\* issued credential that arrives intact is not refused by its issuer's key.
THEOREM RefusalsAreNamed == Spec => []RefusalsNameTheFault
<1>1. IInv => RefusalsNameTheFault
  <2> SUFFICES ASSUME IInv, reply.call = "verify", reply.result # "Ok"
               PROVE  /\ reply.result = "UnsupportedSchema" <=> held.schema # SchemaV2
                      /\ \A id \in Slots :
                            held = credentials[id] =>
                               reply.key \in {Identity} \cup (Keys \ {held.fingerprint})
    BY DEF RefusalsNameTheFault
  <2>1. reply.key \in Keys /\ reply.result = Verdict(reply.key, held)
    BY DEF IInv, ReplyIsCurrent
  <2>2. reply.result = "UnsupportedSchema" <=> held.schema # SchemaV2
    BY <2>1 DEF Verdict
  <2>3. ASSUME NEW id \in Slots, held = credentials[id],
               reply.key # Identity, reply.key = held.fingerprint
        PROVE  FALSE
    <3>1. PICK k \in Keys, age \in Ages, owner \in Owners, attributes \in Attributes :
             held = Issued(k, age, owner, attributes, id)
      BY <2>3 DEF IInv, SlotsWereIssued
    <3>2. k = reply.key
      BY <3>1, <2>3 DEF Issued
    <3> QED
      BY <3>1, <3>2, <2>1, <2>3, IssuedVerifies DEF Slots
  <2> QED
    BY <2>1, <2>2, <2>3
<1> QED
  BY <1>1, Invariance, PTL

----------------------------------------------------------------------------
(* Verifying is looking up in the register.                                *)

\* A credential verifies exactly if it is entered under the key.
LEMMA VerdictIsALookUp ==
    ASSUME IInv, held # None, NEW k \in Keys
    PROVE  Verdict(k, held) = "Ok" <=> k \in Keys \ {Identity} /\ <<k, held>> \in Entries
<1>1. ASSUME Verdict(k, held) = "Ok"
      PROVE  k # Identity /\ <<k, held>> \in Entries
  BY <1>1, OkMeansIssued DEF Entries
<1>2. ASSUME k # Identity, <<k, held>> \in Entries
      PROVE  Verdict(k, held) = "Ok"
  <2>1. PICK id \in Slots : k = credentials[id].fingerprint /\ held = credentials[id]
    BY <1>2 DEF Entries
  <2>2. PICK k1 \in Keys, age \in Ages, owner \in Owners, attributes \in Attributes :
           held = Issued(k1, age, owner, attributes, id)
    BY <2>1 DEF IInv, SlotsWereIssued
  <2>3. k1 = k
    BY <2>1, <2>2 DEF Issued
  <2> QED
    BY <1>2, <2>2, <2>3, IssuedVerifies DEF Slots
<1> QED
  BY <1>1, <1>2

\* Every entry stands under the key its fingerprint names.
LEMMA IssueEnters ==
    ASSUME IInv, NEW id \in CredentialIds, NEW k \in Keys, NEW age \in Ages,
           NEW owner \in Owners, NEW attributes \in Attributes,
           Issue(id, k, age, owner, attributes)
    PROVE  Register!Next
<1> DEFINE c == Issued(k, age, owner, attributes, id)
<1>1. c \in AgeCredentials /\ c.fingerprint = k
  BY IssuedIsCredential DEF Issued
<1> HIDE DEF c
<1>2. /\ credentials' = [credentials EXCEPT ![id] = c]
      /\ credentials[id] = None /\ id \notin Slots
      /\ credentials \in [CredentialIds -> AgeCredentials \cup {None}]
      /\ reply' = NoReply
  BY DEF Issue, IInv, c, Slots
<1>3. LookedUp' = Register!NoAnswer
  BY <1>2 DEF LookedUp, NoReply, Register!NoAnswer
<1>4. CASE c = None
  <2>1. Slots' = Slots /\ \A i \in Slots : credentials'[i] = credentials[i]
    BY <1>2, <1>4 DEF Slots
  <2>2. Entries' = Entries
    BY <2>1 DEF Entries
  <2> QED
    BY <1>3, <2>2 DEF Register!Next, Register!Other
<1>5. CASE c # None
  <2>1. /\ Slots' = Slots \cup {id} /\ credentials'[id] = c
        /\ \A i \in Slots : credentials'[i] = credentials[i]
    BY <1>2, <1>5 DEF Slots
  <2>2. Entries' = Entries \cup {<<k, c>>}
    BY <2>1, <1>1 DEF Entries
  <2>3. \A j \in Keys \ {k} : <<j, c>> \notin Entries
    BY <1>1 DEF Entries
  <2>4. Register!Enter(k, c)
    BY <1>1, <1>3, <2>2, <2>3 DEF Register!Enter
  <2>5. <<k, c>> \in Entries'
    BY <2>2
  <2>6. \E entry \in Entries' : entry[1] \in Keys /\ Register!Enter(entry[1], entry[2])
    <3>1. <<k, c>>[1] = k /\ <<k, c>>[2] = c
      OBVIOUS
    <3> WITNESS <<k, c>> \in Entries'
    <3> QED
      BY <3>1, <2>4
  <2> QED
    BY <2>6 DEF Register!Next
<1> QED
  BY <1>4, <1>5

LEMMA VerifyLooksUp ==
    ASSUME IInv, NEW k \in Keys, Verify(k)
    PROVE  Register!Next
<1>1. /\ held # None /\ held' = held /\ credentials' = credentials
      /\ reply' = [call |-> "verify", key |-> k, result |-> Verdict(k, held)]
  BY DEF Verify
<1>2. Entries' = Entries
  BY <1>1 DEF Entries, Slots
<1>3. held \in AgeCredentials
  BY <1>1, HeldIsCredential
<1>4. (Verdict(k, held) = "Ok") = (k \in Keys \ {Identity} /\ <<k, held>> \in Entries)
  BY <1>1, VerdictIsALookUp
<1>5. LookedUp' = [verified |-> TRUE, key |-> k, shown |-> held,
                   accepted |-> Verdict(k, held) = "Ok"]
  BY <1>1 DEF LookedUp
<1>6. LookedUp' = Register!Answer(k, held, k \in Keys \ {Identity} /\ <<k, held>> \in Entries)
  BY <1>4, <1>5 DEF Register!Answer
<1>7. Register!LookUp(k, held)
  BY <1>2, <1>3, <1>6 DEF Register!LookUp
<1>8. (LookedUp').verified /\ (LookedUp').shown = held
  BY <1>5
<1> QED
  BY <1>7, <1>8 DEF Register!Next

\* Whatever the carrier does, verify answers as a register of what was issued
\* would (issuer.rs IssuerKeyPair::issue, AgeCredential::verify).
THEOREM CredentialsAreRegistered == Spec => VerifiesAsARegister
<1>1. Init => Register!Init
  BY DEF Init, Register!Init, Register!NoAnswer, Entries, Slots, LookedUp, NoReply
<1>2. IInv /\ [Next]_vars => [Register!Next]_(Register!vars)
  <2> SUFFICES ASSUME IInv, [Next]_vars PROVE [Register!Next]_(Register!vars)
    OBVIOUS
  <2>1. CASE UNCHANGED vars
    BY <2>1 DEF vars, Register!vars, Entries, Slots, LookedUp
  <2>2. ASSUME UNCHANGED credentials, reply'.call # "verify"
        PROVE  Register!Next
    <3>1. Entries' = Entries
      BY <2>2 DEF Entries, Slots
    <3>2. LookedUp' = Register!NoAnswer
      BY <2>2 DEF LookedUp, Register!NoAnswer
    <3> QED
      BY <3>1, <3>2 DEF Register!Next, Register!Other
  <2>3. ASSUME NEW id \in CredentialIds, Send(id)
        PROVE  Register!Next
    BY <2>2, <2>3 DEF Send, NoReply
  <2>4. ASSUME NEW part \in Parts, NEW v, NEW form, Change(part, form, v)
        PROVE  Register!Next
    BY <2>2, <2>4 DEF Change, NoReply
  <2>5. ASSUME NEW shape, Rearrange(shape)
        PROVE  Register!Next
    BY <2>2, <2>5 DEF Rearrange, NoReply
  <2>6. CASE Receive
    BY <2>2, <2>6 DEF Receive
  <2> QED
    BY <2>1, <2>3, <2>4, <2>5, <2>6, IssueEnters, VerifyLooksUp DEF Next
<1> QED
  BY <1>1, <1>2, Invariance, PTL DEF Spec, VerifiesAsARegister, Register!Spec
=============================================================================
