-------------------------- MODULE Groth16Refinement --------------------------
(***************************************************************************)
(* Groth16Backend implements AttestedStatements: issued credentials are    *)
(* attested facts, a backend offers the statement of its template, and an  *)
(* artifact is a certificate for the backend whose key it carries.         *)
(***************************************************************************)
EXTENDS Groth16Backend

Fact(c) == [issuer |-> c.issuer, values |-> PrivateValues(c)]
Facts   == {Fact(c) : c \in Issued}

Offers ==
    [b \in BackendIds |->
        IF backends[b] = None THEN [offered |-> FALSE]
        ELSE [offered |-> TRUE, statement |-> backends[b].template,
              day |-> backends[b].policy]]

Certificates ==
    [a \in ArtifactIds |->
        IF artifacts[a] = None THEN [made |-> FALSE]
        ELSE [made |-> TRUE, service |-> artifacts[a].key]]

Checked ==
    IF reply.call = "verify"
    THEN [checked |-> TRUE, service |-> reply.backend,
          certificate |-> reply.artifact, accepted |-> reply.result = "Accepted"]
    ELSE [checked |-> FALSE]

Promise == INSTANCE AttestedStatements WITH
    Values       <- {PrivateValues(a) : a \in Profiles},
    Days         <- PolicyDays,
    Services     <- BackendIds,
    Certificates <- ArtifactIds,
    facts        <- Facts,
    services     <- Offers,
    certificates <- Certificates,
    answer       <- Checked

\* The backend keeps the library's promise: what callers see of setup, prove
\* and verify is what attested statements and their certificates allow.
KeepsThePromise == Promise!Spec
=============================================================================
