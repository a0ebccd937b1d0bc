------------------------------ MODULE Schnorr ------------------------------
(***************************************************************************)
(* The issuer's Schnorr signatures (issuer.rs) and the circuit that checks *)
(* them (groth16/signature.rs).  The prime-order group of Baby Jubjub is   *)
(* the integers modulo Order under addition, a point being named by its    *)
(* multiple of a fixed point.  A scalar on the wire, or in the circuit, is *)
(* a number below ByteRange: its little-endian bytes.  The parameters are  *)
(* their generator, an argument of whatever reads it; the salt that comes  *)
(* out of the same setup is left out.                                      *)
(***************************************************************************)
EXTENDS Integers

CONSTANTS
    Order,          \* of the group; the modulus of JubJubScalar
    Generator,      \* the generator that setup draws from PARAMETER_SEED
    ScalarRange,    \* 2^251, the least power of two no less than Order
    ByteRange       \* 2^256, the values of 32 bytes

ASSUME SchnorrAssumption ==
    /\ Order \in Nat /\ ScalarRange \in Nat /\ ByteRange \in Nat
    /\ 1 < Order /\ Order <= ScalarRange /\ ScalarRange <= ByteRange
    /\ Generator \in 1..(Order - 1)

Scalars == 0..(Order - 1)
Points  == 0..(Order - 1)
Bytes   == 0..(ByteRange - 1)

NoChallenge == -1

PublicKey(generator, secret) == (generator * secret) % Order

\* generator * random_scalar, the commitment of a signature being made.
CommitmentTo(generator, scalar) == (generator * scalar) % Order

\* Defect for a mutant run: the excess bits of the digest are not masked.
ChallengeUnmasked(digest) == IF digest < Order THEN digest ELSE NoChallenge

\* SchnorrTranscript::challenge: from_random_bytes clears the bits above the
\* scalar's width and refuses what is still not a scalar.
Challenge(digest) ==
    IF digest % ScalarRange < Order THEN digest % ScalarRange ELSE NoChallenge

\* Defect for a mutant run: no reduction.
ResponseUnreduced(scalar, challenge, secret) == scalar - challenge * secret

Response(scalar, challenge, secret) == (scalar - challenge * secret) % Order

\* generator * response + public key * challenge, recomputed by a verifier.
CommitmentOf(generator, key, response, challenge) ==
    (generator * response + key * challenge) % Order

----------------------------------------------------------------------------
(* The native verifier, and the circuit, each with the generator it reads. *)
(* `digest` is Blake2s over the transcript of a commitment and a message.  *)

\* IssuerSignature::decoded: deserialize_compressed takes scalars only.
Decodes(bytes) == bytes < Order

\* IssuerSignature::is_valid
NativeValid(generator, digest, key, response, challenge, message) ==
    Challenge(digest[<<CommitmentOf(generator, key, response, challenge), message>>])
        = challenge

\* Defect for a mutant run: the response may be any 32 bytes.
CircuitAcceptsAnyResponse(generator, digest, key, response, challenge, message) ==
    LET expected ==
            digest[<<CommitmentOf(generator, key, response, challenge), message>>]
    IN  /\ challenge <= Order - 1
        /\ challenge % ScalarRange = expected % ScalarRange
        /\ challenge \div ScalarRange = 0

\* SchnorrRelation::enforce: both scalars canonical; the challenge is the
\* digest on the low bits and zero on the others.
CircuitAccepts(generator, digest, key, response, challenge, message) ==
    LET expected ==
            digest[<<CommitmentOf(generator, key, response, challenge), message>>]
    IN  /\ response <= Order - 1 /\ challenge <= Order - 1
        /\ challenge % ScalarRange = expected % ScalarRange
        /\ challenge \div ScalarRange = 0
=============================================================================
