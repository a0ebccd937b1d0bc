------------------------ MODULE CredentialRefinement ------------------------
(***************************************************************************)
(* CredentialWire implements CredentialRegister: the credentials in slots  *)
(* are the entries, each under the key its fingerprint names, and verify   *)
(* is a look-up of the credential held.                                    *)
(***************************************************************************)
EXTENDS CredentialWire

Entries == {<<credentials[id].fingerprint, credentials[id]>> : id \in Slots}

LookedUp ==
    IF reply.call = "verify"
    THEN [verified |-> TRUE, key |-> reply.key, shown |-> held,
          accepted |-> reply.result = "Ok"]
    ELSE [verified |-> FALSE]

Register == INSTANCE CredentialRegister WITH
    Issuers   <- Keys,
    Trusted   <- Keys \ {Identity},
    Documents <- AgeCredentials,
    register  <- Entries,
    answer    <- LookedUp

\* Verifying is as good as asking the issuer: for all that a carrier can change,
\* splice or respell on the way, AgeCredential::verify answers as a register of
\* the credentials that were issued would.
VerifiesAsARegister == Register!Spec
=============================================================================
