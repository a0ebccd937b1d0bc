------------------------- MODULE SchnorrRefinement -------------------------
(***************************************************************************)
(* SchnorrIssuer implements SigningService: parameters, key generation,    *)
(* verification, drawing scalars and drawing again are not seen by those   *)
(* who ask for signatures.                                                 *)
(***************************************************************************)
EXTENDS SchnorrIssuer

Signatures ==
    [made : {TRUE}, key : Points, message : Messages,
     response : Scalars, challenge : Scalars]

\* Accepted in every process that runs the setup, natively and in the circuit.
Verifies(s) ==
    \A generator \in SetupOutcomes :
        /\ NativeValid(generator, digest, s.key, s.response, s.challenge, s.message)
        /\ CircuitAccepts(generator, digest, s.key, s.response, s.challenge, s.message)

Accepted == {s \in Signatures : Verifies(s)}

\* A thread waits from draw to commit, and has what it was last handed before.
SeenBy(c) ==
    IF calls[c].at \in {"draw", "commit"}
    THEN [at |-> "asked", key |-> keys[c].public, message |-> calls[c].message]
    ELSE [at |-> "idle", credential |-> calls[c].credential]

Service == INSTANCE SigningService WITH
    Clients   <- Callers,
    Keys      <- Points,
    Documents <- Signatures,
    accepted  <- Accepted,
    desk      <- [c \in Callers |-> SeenBy(c)]

\* Callers of issue see a signing service: each call is answered once, with a
\* signature by its own key on the message it gave that verifiers accept in
\* every process, whichever threads race and however often a scalar is drawn
\* again.
ServesCallers == Service!Spec
=============================================================================
