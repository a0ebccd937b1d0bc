--------------------------- MODULE CredentialWire ---------------------------
(***************************************************************************)
(* An AgeCredential between its issuer and whoever verifies it (issuer.rs, *)
(* commitment.rs, policy.rs).  It travels as a JSON document with a text   *)
(* for each part, and may arrive changed: a part replaced by that of       *)
(* another credential or by another value, or written in a form that       *)
(* serialization never produces, and the members arranged otherwise.  A    *)
(* signature travels as its two scalars side by side, and either may be    *)
(* exchanged alone.                                                        *)
(***************************************************************************)
EXTENDS Credentials

CONSTANTS
    Keys,               \* public keys of issuers' key pairs
    Identity,           \* the public key of the secret key zero
    Ages, Owners, Attributes,   \* commitments of each kind
    Schemas,            \* schema versions found on the wire
    CredentialIds,      \* slots for issued credentials
    Stray,              \* another fingerprint, or a scalar of no signature
    Refused,            \* what does not decode
    None,
    MaxChanges          \* bound: changes made on the way

\* The scalars of IssuerSignature: a half of a signature, or a stray scalar.
Half(half, signature) == [half |-> half, of |-> signature]

Signatures ==
    [signer : Keys, message : Ages \X Owners \X Attributes \X {SchemaV2},
     nonce : CredentialIds]
Scalars == [half : {"response", "challenge"}, of : Signatures \cup {Stray}]

SchemaVersions == 0..255

ASSUME WireAssumption ==
    /\ SchemaV2 \in Schemas /\ Schemas \subseteq SchemaVersions
    /\ MaxChanges \in Nat
    /\ Stray \notin Keys \cup Signatures
    /\ Refused \notin Keys \cup {Stray} \cup SchemaVersions
    /\ Refused \notin Ages \cup Owners \cup Attributes \cup Scalars

VARIABLES
    credentials,    \* slot -> the AgeCredential issued in it, or None
    wire,           \* the document on its way, or None
    changes,        \* the number of changes made to it
    held,           \* the credential decoded from it, or None
    reply           \* the answer of the receiver's last call

vars == <<credentials, wire, changes, held, reply>>

Parts == {"fingerprint", "schema", "age", "owner", "attributes", "response", "challenge"}

\* IssuerKeyPair::issue; the slot stands for the fresh scalar.
Issued(k, age, owner, attributes, id) ==
    LET signature == Sign(k, CredentialMessage(age, owner, attributes, SchemaV2), id)
    IN  [fingerprint |-> k, schema |-> SchemaV2,
         age |-> age, owner |-> owner, attributes |-> attributes,
         response |-> Half("response", signature),
         challenge |-> Half("challenge", signature)]

\* Defect for a mutant run: one half speaks for both.
SignatureHoldsForEitherHalf(k, message, response, challenge) ==
    /\ challenge.half = "challenge" /\ challenge.of # Stray
    /\ SignatureValid(k, message, challenge.of)

\* IssuerSignature::is_valid: the recomputed challenge is the one carried only
\* if both halves come from one signing, of this message with this key.
SignatureHolds(k, message, response, challenge) ==
    /\ response.half = "response" /\ challenge.half = "challenge"
    /\ response.of # Stray
    /\ response.of = challenge.of
    /\ SignatureValid(k, message, response.of)

\* Defect for a mutant run: the schema is looked at last.
VerdictSchemaLast(k, c) ==
    IF /\ k # Identity /\ c.fingerprint = k
       /\ SignatureHolds(k, CredentialMessage(c.age, c.owner, c.attributes, c.schema),
                         c.response, c.challenge)
    THEN "Ok"
    ELSE IF c.schema # SchemaV2 /\ c.fingerprint = k THEN "UnsupportedSchema"
    ELSE "InvalidCredential"

\* AgeCredential::verify: the schema first, then the key, the fingerprint and
\* the signature over the message of the parts as they are.
Verdict(k, c) ==
    IF c.schema # SchemaV2 THEN "UnsupportedSchema"
    ELSE IF /\ k # Identity
            /\ c.fingerprint = k
            /\ SignatureHolds(k, CredentialMessage(c.age, c.owner, c.attributes, c.schema),
                              c.response, c.challenge)
    THEN "Ok"
    ELSE "InvalidCredential"

----------------------------------------------------------------------------
(* Texts, by the value they write and the form in which they write it.     *)

Text(form, v) == [form |-> form, of |-> v]
Encoded(c) ==
    [shape |-> "object", texts |-> [part \in Parts |-> Text("canonical", c[part])]]

\* Values are followed by a further digit, a zero for a number, or stand between
\* spaces; or there is nothing but spaces.
OtherForms == {"extended", "spaced", "blank"}

\* Members in another order, an unknown one among them, or their bare values in
\* a list; one left out, or one twice.
OtherShapes == {"reordered", "annotated", "listed", "incomplete", "repeated"}

\* The derived Deserialize takes members in any order, ignores unknown ones and
\* takes a list, but refuses a missing or repeated member.
ShapesRead == {"object", "reordered", "annotated", "listed"}

\* Defect for a mutant run: an empty fingerprint is let through.
DecodedFingerprintOrEmpty(text) ==
    IF text.form = "blank" THEN None
    ELSE IF text.form = "extended" THEN Stray
    ELSE text.of

\* IssuerKeyFingerprint::new trims a text and refuses an empty one.
DecodedFingerprint(text) ==
    IF text.form = "blank" THEN Refused
    ELSE IF text.form = "extended" THEN Stray
    ELSE text.of

\* encoding::parse and IssuerSignature::decoded: one text for a value.
DecodedValue(text) == IF text.form = "canonical" THEN text.of ELSE Refused

\* schema_version is a number of eight bits; spaces around it do not count.
DecodedSchema(text) ==
    CASE text.form \in {"canonical", "spaced"} -> text.of
      [] text.form = "extended" /\ 10 * text.of \in SchemaVersions -> 10 * text.of
      [] OTHER -> Refused

\* The derived Deserialize of AgeCredential, part by part.
Decoded(texts) ==
    [fingerprint |-> DecodedFingerprint(texts.fingerprint),
     schema      |-> DecodedSchema(texts.schema),
     age         |-> DecodedValue(texts.age),
     owner       |-> DecodedValue(texts.owner),
     attributes  |-> DecodedValue(texts.attributes),
     response    |-> DecodedValue(texts.response),
     challenge   |-> DecodedValue(texts.challenge)]

Reads(w) ==
    w.shape \in ShapesRead /\ \A part \in Parts : Decoded(w.texts)[part] # Refused

----------------------------------------------------------------------------
Slots == {id \in CredentialIds : credentials[id] # None}

Halves == {Half(half, s) : half \in {"response", "challenge"},
                           s \in {Stray} \cup {credentials[id].response.of : id \in Slots}}

\* What may be found in a part, those of other credentials included.
ValuesOf(part) ==
    CASE part = "fingerprint" -> Keys \cup {Stray}
      [] part = "schema"      -> Schemas
      [] part = "age"         -> Ages
      [] part = "owner"       -> Owners
      [] part = "attributes"  -> Attributes
      [] OTHER                -> Halves

NoReply == [call |-> "none"]

Init ==
    /\ credentials = [id \in CredentialIds |-> None]
    /\ wire = None /\ changes = 0
    /\ held = None
    /\ reply = NoReply

Issue(id, k, age, owner, attributes) ==
    /\ credentials[id] = None
    /\ credentials' = [credentials EXCEPT ![id] = Issued(k, age, owner, attributes, id)]
    /\ reply' = NoReply
    /\ UNCHANGED <<wire, changes, held>>

\* The derived Serialize of AgeCredential.
Send(id) ==
    /\ credentials[id] # None
    /\ wire' = Encoded(credentials[id]) /\ changes' = 0
    /\ held' = None
    /\ reply' = NoReply
    /\ UNCHANGED credentials

\* The carrier changes a part.
Change(part, form, v) ==
    /\ wire # None /\ held = None /\ changes < MaxChanges
    /\ wire' = [wire EXCEPT !.texts[part] = Text(form, v)]
    /\ changes' = changes + 1
    /\ reply' = NoReply
    /\ UNCHANGED <<credentials, held>>

\* The carrier arranges the members otherwise.
Rearrange(shape) ==
    /\ wire # None /\ held = None /\ changes < MaxChanges
    /\ wire' = [wire EXCEPT !.shape = shape]
    /\ changes' = changes + 1
    /\ reply' = NoReply
    /\ UNCHANGED <<credentials, held>>

Receive ==
    /\ wire # None
    /\ IF Reads(wire)
       THEN reply' = [call |-> "receive", result |-> "Ok"] /\ held' = Decoded(wire.texts)
       ELSE reply' = [call |-> "receive", result |-> "Refused"] /\ held' = None
    /\ UNCHANGED <<credentials, wire, changes>>

\* With the public key of any pair, which need not have been decoded.
Verify(k) ==
    /\ held # None
    /\ reply' = [call |-> "verify", key |-> k, result |-> Verdict(k, held)]
    /\ UNCHANGED <<credentials, wire, changes, held>>

Next ==
    \/ \E id \in CredentialIds, k \in Keys, age \in Ages, owner \in Owners,
          attributes \in Attributes : Issue(id, k, age, owner, attributes)
    \/ \E id \in CredentialIds : Send(id)
    \/ \E part \in Parts : \E v \in ValuesOf(part), form \in OtherForms \cup {"canonical"} :
          Change(part, form, v)
    \/ \E shape \in OtherShapes : Rearrange(shape)
    \/ Receive
    \/ \E k \in Keys : Verify(k)

Spec == Init /\ [][Next]_vars

----------------------------------------------------------------------------
AgeCredentials ==
    [fingerprint : Keys \cup {Stray}, schema : SchemaVersions,
     age : Ages, owner : Owners, attributes : Attributes,
     response : Scalars, challenge : Scalars]

\* A credential someone holds has a value in every part, never a refused one.
TypeOK ==
    /\ credentials \in [CredentialIds -> AgeCredentials \cup {None}]
    /\ held \in AgeCredentials \cup {None}
    /\ changes \in 0..MaxChanges

\* What verifies under a key is, part by part, a credential that key issued;
\* and nothing verifies under the key anybody can sign with.
VerifiedWasIssued ==
    reply.call = "verify" /\ reply.result = "Ok" =>
        /\ reply.key # Identity
        /\ \E id \in Slots : held = credentials[id] /\ held.fingerprint = reply.key

\* A refusal names its fault: another schema, or else a credential that the key
\* did not issue.  What was issued and arrives intact is never refused.
RefusalsNameTheFault ==
    reply.call = "verify" /\ reply.result # "Ok" =>
        /\ reply.result = "UnsupportedSchema" <=> held.schema # SchemaV2
        /\ \A id \in Slots :
              held = credentials[id] => reply.key \in {Identity} \cup (Keys \ {held.fingerprint})
=============================================================================
