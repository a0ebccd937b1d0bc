--------------------------- MODULE SchnorrIssuer ---------------------------
(***************************************************************************)
(* Issuers and verifiers in several processes (issuer.rs).  A thread makes *)
(* its key pair and issues with it: each call draws a fresh scalar until   *)
(* the digest of its commitment is a challenge.  Every process has Schnorr *)
(* parameters of its own, which the first thread to need them sets up      *)
(* while the others wait (OnceLock::get_or_init).                          *)
(***************************************************************************)
EXTENDS Schnorr

CONSTANTS
    Callers,        \* threads
    Processes,
    Layouts,        \* which thread runs in which process
    Messages,       \* credential messages
    Secrets,        \* secret keys
    Digests         \* hash functions: transcripts to the values of 32 bytes

ASSUME IssuerAssumption ==
    /\ Secrets \subseteq Scalars \ {0}
    /\ Digests \subseteq [Points \X Messages -> Bytes]
    /\ Layouts \subseteq [Callers -> Processes]

VARIABLES
    home,           \* the process of each thread
    digest,         \* Blake2s, as far as transcripts go
    parameters,     \* SCHNORR_PARAMETERS of each process
    keys,           \* the IssuerKeyPair of each thread
    calls           \* the state of each thread

vars == <<home, digest, parameters, keys, calls>>

Unset == [at |-> "unset"]
MadeBy(c) == [at |-> "making", by |-> c]
Made(generator) == [at |-> "ready", generator |-> generator]

NoKeyPair == [made |-> FALSE]
KeyPair(secret, public) == [made |-> TRUE, secret |-> secret, public |-> public]

NoCredential == [made |-> FALSE]
Returned(credential) == [at |-> "idle", credential |-> credential]
Generating == [at |-> "generate", credential |-> NoCredential]
Consulting(credential) == [at |-> "consult", credential |-> credential]
Drawing(message) == [at |-> "draw", message |-> message]
Committing(message, scalar) ==
    [at |-> "commit", message |-> message, scalar |-> scalar]

Init ==
    /\ home \in Layouts
    /\ digest \in Digests
    /\ parameters = [p \in Processes |-> Unset]
    /\ keys = [c \in Callers |-> NoKeyPair]
    /\ calls = [c \in Callers |-> Returned(NoCredential)]

----------------------------------------------------------------------------
(* schnorr_parameters: the calls that may be the first of their process to *)
(* need the parameters are key generation, and verification or synthesis   *)
(* of a circuit.  Whoever comes later is blocked until they are made.      *)

\* Defect for a mutant run: each process seeds the setup from its own entropy.
SetupOutcomesOfEntropy == 1..(Order - 1)

\* Setup from the fixed PARAMETER_SEED.
SetupOutcomes == {Generator}

Ready(c) == parameters[home[c]].at = "ready"
GeneratorOf(c) == parameters[home[c]].generator

Initialize(c) ==
    /\ calls[c].at \in {"generate", "consult"}
    /\ parameters[home[c]] = Unset
    /\ parameters' = [parameters EXCEPT ![home[c]] = MadeBy(c)]
    /\ UNCHANGED <<home, digest, keys, calls>>

Initialized(c, generator) ==
    /\ parameters[home[c]] = MadeBy(c)
    /\ parameters' = [parameters EXCEPT ![home[c]] = Made(generator)]
    /\ UNCHANGED <<home, digest, keys, calls>>

\* IssuerKeyPair::generate
BeginGenerate(c) ==
    /\ calls[c] = Returned(NoCredential)
    /\ ~keys[c].made
    /\ calls' = [calls EXCEPT ![c] = Generating]
    /\ UNCHANGED <<home, digest, parameters, keys>>

Generate(c, secret) ==
    /\ calls[c].at = "generate"
    /\ Ready(c)
    /\ keys' = [keys EXCEPT ![c] = KeyPair(secret, PublicKey(GeneratorOf(c), secret))]
    /\ calls' = [calls EXCEPT ![c] = Returned(NoCredential)]
    /\ UNCHANGED <<home, digest, parameters>>

\* AgeCredential::verify, or a circuit with the signature relation.
BeginConsult(c) ==
    /\ calls[c].at = "idle"
    /\ calls' = [calls EXCEPT ![c] = Consulting(calls[c].credential)]
    /\ UNCHANGED <<home, digest, parameters, keys>>

Consult(c) ==
    /\ calls[c].at = "consult"
    /\ Ready(c)
    /\ calls' = [calls EXCEPT ![c] = Returned(calls[c].credential)]
    /\ UNCHANGED <<home, digest, parameters, keys>>

----------------------------------------------------------------------------
(* IssuerKeyPair::issue                                                    *)

Begin(c, message) ==
    /\ calls[c].at = "idle"
    /\ keys[c].made
    /\ calls' = [calls EXCEPT ![c] = Drawing(message)]
    /\ UNCHANGED <<home, digest, parameters, keys>>

\* The head of the loop.
Draw(c, scalar) ==
    /\ calls[c].at = "draw"
    /\ calls' = [calls EXCEPT ![c] = Committing(calls[c].message, scalar)]
    /\ UNCHANGED <<home, digest, parameters, keys>>

Signature(c, message, scalar, challenge) ==
    [made |-> TRUE, key |-> keys[c].public, message |-> message,
     response |-> Response(scalar, challenge, keys[c].secret),
     challenge |-> challenge]

\* Defect for a mutant run: no second draw.
SignedOrGivenUp(c, message, scalar) ==
    LET challenge == Challenge(digest[<<CommitmentTo(GeneratorOf(c), scalar), message>>])
    IN  Returned(IF challenge = NoChallenge THEN NoCredential
                 ELSE Signature(c, message, scalar, challenge))

\* What issue makes of a scalar: a signature, or another round.
Signed(c, message, scalar) ==
    LET challenge == Challenge(digest[<<CommitmentTo(GeneratorOf(c), scalar), message>>])
    IN  IF challenge = NoChallenge THEN Drawing(message)
        ELSE Returned(Signature(c, message, scalar, challenge))

\* The rest of the loop's body, in which the parameters are looked up.
Commit(c) ==
    /\ calls[c].at = "commit"
    /\ Ready(c)
    /\ calls' = [calls EXCEPT ![c] = Signed(c, calls[c].message, calls[c].scalar)]
    /\ UNCHANGED <<home, digest, parameters, keys>>

Next ==
    \E c \in Callers :
        \/ Initialize(c)
        \/ \E generator \in SetupOutcomes : Initialized(c, generator)
        \/ BeginGenerate(c)
        \/ \E secret \in Secrets : Generate(c, secret)
        \/ BeginConsult(c)
        \/ Consult(c)
        \/ \E message \in Messages : Begin(c, message)
        \/ \E scalar \in Scalars : Draw(c, scalar)
        \/ Commit(c)

\* Running threads run on.  Scalars are uniform random: one that can be drawn
\* again and again is drawn at last.
Fairness ==
    \A c \in Callers :
        /\ WF_vars(Initialize(c))
        /\ WF_vars(\E generator \in SetupOutcomes : Initialized(c, generator))
        /\ WF_vars(\E secret \in Secrets : Generate(c, secret))
        /\ WF_vars(Consult(c))
        /\ WF_vars(Commit(c))
        /\ \A scalar \in Scalars : SF_vars(Draw(c, scalar))

Spec == Init /\ [][Next]_vars /\ Fairness

----------------------------------------------------------------------------
ParameterStates ==
    {Unset} \cup {MadeBy(c) : c \in Callers} \cup {Made(g) : g \in 1..(Order - 1)}

KeyPairs ==
    {NoKeyPair} \cup {KeyPair(secret, public) : secret \in Secrets, public \in Points}

Credentials ==
    {NoCredential} \cup
    [made : {TRUE}, key : Points, message : Messages,
     response : Scalars, challenge : Scalars]

CallStates ==
    {Generating}
        \cup {Returned(credential) : credential \in Credentials}
        \cup {Consulting(credential) : credential \in Credentials}
        \cup {Drawing(message) : message \in Messages}
        \cup {Committing(message, scalar) : message \in Messages, scalar \in Scalars}

\* A signature on its way out holds scalars, whatever was drawn.
TypeOK ==
    /\ home \in Layouts /\ digest \in Digests
    /\ parameters \in [Processes -> ParameterStates]
    /\ keys \in [Callers -> KeyPairs]
    /\ calls \in [Callers -> CallStates]

\* The generators that processes have, and the public keys that threads have.
GeneratorsInUse ==
    {parameters[p].generator : p \in {q \in Processes : parameters[q].at = "ready"}}
PublicKeys == {keys[c].public : c \in {d \in Callers : keys[d].made}}

HoldsCredential(c) == calls[c].at \in {"idle", "consult"} /\ calls[c].credential.made

\* What issue returned, its holder and every verifier accept, in whichever
\* process they run: the signature decodes, and under the parameters that a
\* process has made for itself it verifies natively and satisfies the circuit
\* (schnorr_parameters, IssuerKeyPair::issue, AgeCredential::verify,
\* SchnorrRelation::enforce).
IssuedSignaturesVerify ==
    \A c \in Callers, generator \in GeneratorsInUse :
        HoldsCredential(c) =>
            LET s == calls[c].credential
            IN  /\ Decodes(s.response) /\ Decodes(s.challenge)
                /\ NativeValid(generator, digest, s.key,
                               s.response, s.challenge, s.message)
                /\ CircuitAccepts(generator, digest, s.key,
                                  s.response, s.challenge, s.message)

\* On every two strings of 32 bytes the circuit of one process and the native
\* verifier of another agree: what does not decode has no witness, so no
\* signature has two (SchnorrRelation::enforce, IssuerSignature::is_valid).
CircuitMatchesNative ==
    \A circuit, native \in GeneratorsInUse, key \in PublicKeys,
       response, challenge \in Bytes, message \in Messages :
        CircuitAccepts(circuit, digest, key, response, challenge, message)
            <=> /\ Decodes(response) /\ Decodes(challenge)
                /\ NativeValid(native, digest, key, response, challenge, message)

\* Some scalar's commitment has a digest whose low bits are a scalar.
Answerable(message) ==
    \E scalar \in Scalars :
        digest[<<CommitmentTo(Generator, scalar), message>>] % ScalarRange < Order

\* Every call returns, whichever threads of a process find its parameters not
\* made yet: key generation and verification always, issue if any scalar there
\* is can make it return (schnorr_parameters, the loop of IssuerKeyPair::issue).
CallsReturn ==
    \A c \in Callers :
        (\/ calls[c].at \in {"generate", "consult"}
         \/ calls[c].at = "draw" /\ Answerable(calls[c].message))
            ~> (calls[c].at = "idle")
=============================================================================
