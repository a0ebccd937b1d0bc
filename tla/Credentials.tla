----------------------------- MODULE Credentials -----------------------------
(***************************************************************************)
(* Issuer-signed credentials (credential.rs, commitment.rs, issuer.rs).    *)
(* Cryptography is ideal: a Poseidon commitment or a Schnorr signature is  *)
(* a free constructor over what it binds, so two of them are equal only    *)
(* when made from the same values, and a signature verifies exactly for    *)
(* the key and the message it was made with.                               *)
(***************************************************************************)
EXTENDS Claims

SchemaV2 == 2

\* commitment.rs: each commitment binds its domain and its inputs; the age
\* salt blinds the attributes as well.
CommitAge(birthDay, salt) == <<"AGE_V1", DaysSince1900(birthDay), salt>>
CommitOwner(secret) == <<"OWNER_V1", secret>>
CommitAttributes(country, role, salt) ==
    <<"ATTR_V2", country, RoleElement[role], salt>>

\* issuer.rs credential_message: the tuple covered by the signature.
CredentialMessage(age, owner, attributes, schema) ==
    <<age, owner, attributes, schema>>

\* IssuerKeyPair::issue draws a fresh scalar (`nonce`) for every signature.
Sign(issuer, message, nonce) ==
    [signer |-> issuer, message |-> message, nonce |-> nonce]

SignatureValid(issuer, message, signature) ==
    signature.signer = issuer /\ signature.message = message

\* CredentialAttributes, and the private part of a credential.
PrivateValues(c) ==
    [birthDay |-> c.birthDay, country |-> c.country, role |-> c.role,
     ageSalt |-> c.ageSalt, walletSecret |-> c.walletSecret]

\* IssuerCredentials::issue: the private values, the issuer's public key and
\* the public AgeCredential over their commitments.
IssueCredential(issuer, a, nonce) ==
    LET age        == CommitAge(a.birthDay, a.ageSalt)
        owner      == CommitOwner(a.walletSecret)
        attributes == CommitAttributes(a.country, a.role, a.ageSalt)
    IN  [birthDay |-> a.birthDay, country |-> a.country, role |-> a.role,
         ageSalt |-> a.ageSalt, walletSecret |-> a.walletSecret,
         issuer |-> issuer,
         credential |->
            [fingerprint |-> issuer, schema |-> SchemaV2,
             age |-> age, owner |-> owner, attributes |-> attributes,
             signature |->
                Sign(issuer,
                     CredentialMessage(age, owner, attributes, SchemaV2),
                     nonce)]]

\* SignedAttributeCredential::hash covers the issuer's fingerprint, the schema
\* and the signature, not the commitments themselves.
CredentialHash(c) ==
    <<c.credential.fingerprint, c.credential.schema, c.credential.signature>>
=============================================================================
