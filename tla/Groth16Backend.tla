--------------------------- MODULE Groth16Backend ---------------------------
(***************************************************************************)
(* Callers of the proof library: issuers issue credentials, holders build  *)
(* and compose lazy proofs, verifiers set up Groth16 backends, and         *)
(* artifacts are proved and verified (credential.rs, proof.rs, groth16.rs, *)
(* verification.rs).  Every public call is one action; `reply` records the *)
(* answer of the last one.  Groth16 is ideal: an artifact, and whatever    *)
(* other proof is made from it, verifies exactly under the key it was      *)
(* proved with.                                                            *)
(***************************************************************************)
EXTENDS Groth16Circuit, FiniteSetsExt

CONSTANTS
    Issuers,        \* issuer public keys
    Profiles,       \* attribute values holders may be issued
    ClaimObjects,   \* Claim implementations, each the set of kinds it reports
    PolicyDays,     \* as-of days of verification policies
    CredentialIds,  \* slots of issued credentials
    Handles,        \* Proof values owned by callers
    BackendIds,     \* one fresh Groth16 key pair per successful setup
    ArtifactIds,    \* artifacts produced
    MaxNodes,       \* bound on the nodes of all live plans together
    None            \* a slot not in use

\* Every credential there can be: one issuance per slot.
SignedCredentials ==
    {IssueCredential(i, a, id) : i \in Issuers, a \in Profiles, id \in CredentialIds}

ASSUME BackendAssumption ==
    /\ \A a \in Profiles : a.birthDay \in BirthDays /\ a.role \in Roles
    /\ \A claim \in ClaimObjects : claim # {} /\ claim \subseteq ClaimKinds
    /\ PolicyDays \subseteq BirthDays
    /\ NoCredential \notin SignedCredentials

VARIABLES
    credentials,    \* CredentialIds -> SignedAttributeCredential
    proofs,         \* Handles -> the plan of a live Proof
    backends,       \* BackendIds -> its policy day and template
    artifacts,      \* ArtifactIds -> its key, and the plan it was proved from
    reply           \* the answer of the last call, when that call can fail

vars == <<credentials, proofs, backends, artifacts, reply>>

NoReply == [call |-> "none"]

Issued == {credentials[id] : id \in CredentialIds} \ {None}
Live(slots) == {s \in DOMAIN slots : slots[s] # None}

Init ==
    /\ credentials = [id \in CredentialIds |-> None]
    /\ proofs = [h \in Handles |-> None]
    /\ backends = [b \in BackendIds |-> None]
    /\ artifacts = [a \in ArtifactIds |-> None]
    /\ reply = NoReply

\* IssuerCredentials::issue.  The nonce, here the slot, is fresh.
Issue(id, issuer, profile) ==
    /\ credentials[id] = None
    /\ credentials' =
          [credentials EXCEPT ![id] = IssueCredential(issuer, profile, id)]
    /\ reply' = NoReply
    /\ UNCHANGED <<proofs, backends, artifacts>>

\* The nodes of the live plans; every new node stays within MaxNodes.
Nodes == FoldSet(LAMBDA h, n : Cardinality(DOMAIN proofs[h]) + n, 0, Live(proofs))

\* Credential::is clones the credential into a new Proof.
Is(h, id, claim) ==
    /\ credentials[id] # None
    /\ proofs[h] = None /\ Nodes < MaxNodes
    /\ proofs' =
          [proofs EXCEPT ![h] = Direct(DirectPlan(credentials[id], claim))]
    /\ reply' = NoReply
    /\ UNCHANGED <<credentials, backends, artifacts>>

\* Proof::and and Proof::or take both operands by value.
Compose(op, h, other) ==
    /\ h # other /\ proofs[h] # None /\ proofs[other] # None
    /\ Nodes < MaxNodes
    /\ proofs' = [proofs EXCEPT ![h] = Join(op, proofs[h], proofs[other]),
                                ![other] = None]
    /\ reply' = NoReply
    /\ UNCHANGED <<credentials, backends, artifacts>>

And(h, other) == Compose("and", h, other)
Or(h, other)  == Compose("or", h, other)

\* The owner of a Proof lets it go out of scope.
Drop(h) ==
    /\ proofs[h] # None
    /\ proofs' = [proofs EXCEPT ![h] = None]
    /\ reply' = NoReply
    /\ UNCHANGED <<credentials, backends, artifacts>>

\* Defect for a mutant run: only from_plan's checks are made.
SetupAnswersUnsynthesized(plan, first, template, asOf) ==
    WalkOutcomes(plan, FromPlanOutcome(plan, first), "Ok")

\* The answers of Groth16Backend::setup: from_plan's checks over the whole
\* plan, then synthesis of the circuit without a witness.
SetupAnswers(plan, first, template, asOf) ==
    {IF compiled # "Ok" THEN compiled
     ELSE IF relation = "Unsatisfiable" THEN "IncompatibleBackend" ELSE relation :
        compiled \in WalkOutcomes(plan, FromPlanOutcome(plan, first), "Ok"),
        relation \in WalkOutcomes(template, RelationOutcome(template, asOf), "Ok")}

Setup(b, h, asOf) ==
    /\ backends[b] = None /\ proofs[h] # None
    /\ \E first, second \in Readings(proofs[h]) :
          LET template == Compile(proofs[h], second)
          IN  \E answer \in SetupAnswers(proofs[h], first, template, asOf) :
                 /\ backends' =
                       IF answer = "Ok"
                       THEN [backends EXCEPT ![b] =
                               [policy |-> asOf, template |-> template]]
                       ELSE backends
                 /\ reply' = [call |-> "setup", proof |-> h, policy |-> asOf,
                              result |-> answer]
    /\ UNCHANGED <<credentials, proofs, artifacts>>

\* Defect for a mutant run: the witness is not checked before proving.
ProveAnswersUnchecked(backend, plan, reads) ==
    IF Accepts(backend.template, plan, reads) THEN {"Ok"} ELSE {"IncompatibleBackend"}

\* The answers of Groth16Prover::prove: accepts, then is_satisfied, which may
\* fail to synthesize or panic, then the proof itself.
ProveAnswers(backend, plan, reads) ==
    IF ~Accepts(backend.template, plan, reads) THEN {"IncompatibleBackend"}
    ELSE {IF relation = "Unsatisfiable" THEN "Unprovable"
          ELSE IF relation = "Panic" THEN "Panic"
          ELSE IF IsSatisfied(backend.template, plan, backend.policy)
          THEN "Ok" ELSE "Unprovable" :
            relation \in WalkOutcomes(backend.template,
                RelationOutcome(backend.template, backend.policy), "Ok")}

Prove(a, b, h) ==
    /\ artifacts[a] = None /\ backends[b] # None /\ proofs[h] # None
    /\ \E reads \in Readings(proofs[h]) :
       \E answer \in ProveAnswers(backends[b], proofs[h], reads) :
          /\ artifacts' =
                IF answer = "Ok"
                THEN [artifacts EXCEPT ![a] = [key |-> b, plan |-> proofs[h]]]
                ELSE artifacts
          /\ reply' = [call |-> "prove", backend |-> b, proof |-> h,
                       result |-> answer]
    /\ UNCHANGED <<credentials, proofs, backends>>

\* What reaches the verifier: the artifact's own bytes; those of another proof
\* of the same statement, as anyone makes from it, with -A for A and -B for B,
\* say; bytes of either and more; a strict prefix; or one bit changed.
Deliveries == {"canonical", "rewritten", "extended", "truncated", "altered"}

\* Defect for a mutant run: every backend's artifacts are accepted.
VerifyAnswersAnyKey(b, artifact, bytes) ==
    IF bytes \in {"canonical", "rewritten", "extended"} THEN {"Accepted"}
    ELSE {"InvalidArtifact"}

\* Groth16Verifier::verify.  deserialize_compressed reads one proof and leaves
\* what follows.  One changed bit makes bytes that do not parse, or other
\* elements that fail the equation, which no change of a single sign survives.
VerifyAnswers(b, artifact, bytes) ==
    IF bytes = "truncated" THEN {"InvalidArtifact"}
    ELSE IF bytes = "altered" THEN {"InvalidArtifact", "Rejected"}
    ELSE {IF artifact.key = b THEN "Accepted" ELSE "Rejected"}

Verify(b, a, bytes) ==
    /\ backends[b] # None /\ artifacts[a] # None
    /\ \E answer \in VerifyAnswers(b, artifacts[a], bytes) :
          reply' = [call |-> "verify", backend |-> b, artifact |-> a,
                    bytes |-> bytes, result |-> answer]
    /\ UNCHANGED <<credentials, proofs, backends, artifacts>>

Next ==
    \/ \E id \in CredentialIds, i \in Issuers, a \in Profiles : Issue(id, i, a)
    \/ \E h \in Handles, id \in CredentialIds, c \in ClaimObjects : Is(h, id, c)
    \/ \E h, other \in Handles : And(h, other)
    \/ \E h, other \in Handles : Or(h, other)
    \/ \E h \in Handles : Drop(h)
    \/ \E b \in BackendIds, h \in Handles, d \in PolicyDays : Setup(b, h, d)
    \/ \E a \in ArtifactIds, b \in BackendIds, h \in Handles : Prove(a, b, h)
    \/ \E b \in BackendIds, a \in ArtifactIds, bytes \in Deliveries :
          Verify(b, a, bytes)

Spec == Init /\ [][Next]_vars

----------------------------------------------------------------------------
(* Type correctness.                                                       *)

IsDirectPlan(leaf) ==
    \E c \in SignedCredentials, k \in ClaimObjects : leaf = DirectPlan(c, k)

IsProof(plan) ==
    /\ IsPlan(plan)
    /\ \A p \in DirectPositions(plan) : IsDirectPlan(plan[p])

TemplateNodes ==
    [op : {"direct"}, issuer : Issuers, claim : ClaimKinds] \cup [op : {"and", "or"}]

IsTemplate(t) == IsPlan(t) /\ t \in [DOMAIN t -> TemplateNodes]

\* Every slot is unused or holds a well-formed value: credentials come from
\* issuance, proofs are trees over such credentials, templates are trees of
\* issuer keys and claim kinds.
TypeOK ==
    /\ credentials \in [CredentialIds -> SignedCredentials \cup {None}]
    /\ DOMAIN proofs = Handles
    /\ \A h \in Live(proofs) : IsProof(proofs[h])
    /\ DOMAIN backends = BackendIds
    /\ \A b \in Live(backends) :
          backends[b].policy \in PolicyDays /\ IsTemplate(backends[b].template)
    /\ DOMAIN artifacts = ArtifactIds
    /\ \A a \in Live(artifacts) :
          artifacts[a].key \in BackendIds /\ IsProof(artifacts[a].plan)

----------------------------------------------------------------------------
(* Safety.                                                                 *)

\* Proofs are made from credentials that were issued, and an artifact was
\* earned: the backend it verifies under exists, accepted the plan it was
\* proved from, and had its whole circuit satisfied by it.
EarnedArtifacts ==
    /\ \A h \in Live(proofs) :
          \A p \in DirectPositions(proofs[h]) : proofs[h][p].evidence \in Issued
    /\ \A a \in Live(artifacts) :
          LET plan    == artifacts[a].plan
              backend == backends[artifacts[a].key]
          IN  /\ \A p \in DirectPositions(plan) : plan[p].evidence \in Issued
              /\ backend # None
              /\ \E reads \in Readings(plan) : Accepts(backend.template, plan, reads)
              /\ IsSatisfied(backend.template, plan, backend.policy)

\* Every leaf of the template is about someone its issuer vouched for: there
\* is an issued credential of that issuer with exactly the values witnessed.
Attested(template, plan) ==
    \A p \in DirectPositions(template) :
        \E c \in Issued :
            /\ c.issuer = template[p].issuer
            /\ PrivateValues(c) = PrivateValues(plan[p].evidence)

\* Soundness, end to end.  When a verifier accepts bytes, the statement its
\* backend was set up for is true, in civil dates and completed years, under
\* its own policy day, of attributes attested by the issuers the statement
\* names: no other backend's artifact, day, issuer or branch gets through.
AcceptedMeansTrue ==
    reply.call = "verify" /\ reply.result = "Accepted" =>
        LET backend == backends[reply.backend]
            plan    == artifacts[reply.artifact].plan
        IN  /\ Attested(backend.template, plan)
            /\ StatementHolds(backend.template, plan, backend.policy)

\* The kinds of the leaves when every claim object reports one kind only.
Stable(plan) == \A p \in DirectPositions(plan) : \A j, k \in plan[p].claim : j = k

\* No direct proof in the template makes a claim of this kind.
Without(kind, template) ==
    \A p \in DirectPositions(template) : template[p].claim.kind # kind

\* A backend is set up for one policy day and must be set up anew for the next.
\* Renewal turns no holder away: whoever proved a statement to one backend can
\* prove it to every backend of the same statement whose day is later, unless
\* the statement has an AgeBelow, and whose day is earlier, unless it has an
\* AgeAbove, however the claims are nested.
RenewalTurnsNobodyAway ==
    \A a \in Live(artifacts), b \in Live(backends) :
        LET plan    == artifacts[a].plan
            proved  == backends[artifacts[a].key]
            renewed == backends[b]
        IN  /\ proved.template = renewed.template
            /\ \/ /\ ~Before(renewed.policy, proved.policy)
                  /\ Without("AgeBelow", proved.template)
               \/ /\ ~Before(proved.policy, renewed.policy)
                  /\ Without("AgeAbove", proved.template)
            => \E reads \in Readings(plan) :
                  ProveAnswers(renewed, plan, reads) = {"Ok"}

\* Completeness of Proof::prove.  A proof is refused as incompatible only if
\* setting up a backend with that very proof would compile another template,
\* and as unprovable only if the statement is false of its credentials.
RefusalsAreJustified ==
    reply.call = "prove" /\ reply.result # "Ok" =>
        LET backend == backends[reply.backend]
            plan    == proofs[reply.proof]
        IN  \/ /\ reply.result = "IncompatibleBackend"
               /\ \E r \in Readings(plan) : Compile(plan, r) # backend.template
            \/ /\ reply.result = "Unprovable"
               /\ \E r \in Readings(plan) : Compile(plan, r) = backend.template
               /\ ~StatementHolds(backend.template, plan, backend.policy)

\* A backend that was set up can never make its prover panic or fail to
\* synthesize, whatever proof it is later given: setup already rejected
\* custom claims and died on cutoffs before 1900.
BackendsAreSynthesizable ==
    \A b \in Live(backends) :
        \A p \in DirectPositions(backends[b].template) :
            RelationOutcome(backends[b].template, backends[b].policy)[p] = "Ok"

\* Groth16Backend::setup refuses for a reason in the plan: a claim object that
\* may report Custom (twice in a row it is unsupported, once it changed between
\* the two readings), or an age claim whose cutoff precedes 1900.  It never
\* complains of a credential.
SetupRefusalsAreJustified ==
    reply.call = "setup" =>
        LET plan   == proofs[reply.proof]
            kinds  == UNION {plan[p].claim : p \in DirectPositions(plan)}
        IN  \/ reply.result = "Ok"
            \/ reply.result = "UnsupportedClaim" /\ Custom \in kinds
            \/ /\ reply.result = "IncompatibleBackend"
               /\ Custom \in kinds /\ ~Stable(plan)
            \/ /\ reply.result = "Panic"
               /\ \E k \in kinds \cap AgeClaims :
                     reply.policy.year - k.years < FirstSupportedYear

\* The gates compiled from a proof, with the root enforced to be true, are
\* satisfiable exactly when the composition the caller wrote is true, for every
\* truth of its direct proofs (CircuitTemplate::relation, ProofCircuit).
GatesEvaluateThePlan ==
    \A h \in Live(proofs) :
        \A truth \in [DirectPositions(proofs[h]) -> BOOLEAN] :
            RootSatisfied(proofs[h], truth) <=> PlanValue(proofs[h], truth)

----------------------------------------------------------------------------
(* What the documentation and assertions of the code say.                  *)

\* A single age claim that was found unprovable.
RefusedAgeClaim(kind) ==
    /\ reply.call = "prove" /\ reply.result = "Unprovable"
    /\ LET node == backends[reply.backend].template[Root]
       IN  node.op = "direct" /\ node.claim.kind = kind

\* claim.rs documents AgeBelow as "an age of at most the supplied number of
\* years": someone whose age is the threshold could then prove it.
AgeBelowIsAtMost ==
    RefusedAgeClaim("AgeBelow") =>
        ~DocumentedAgeBelow(backends[reply.backend].template[Root].claim.years,
                            proofs[reply.proof][Root].evidence.birthDay,
                            backends[reply.backend].policy)

\* claim.rs documents AgeAbove as "an age of at least the supplied number of
\* years": whoever has reached the threshold could then prove it on any day.
AgeAboveIsAtLeast ==
    RefusedAgeClaim("AgeAbove") =>
        ~DocumentedAgeAbove(backends[reply.backend].template[Root].claim.years,
                            proofs[reply.proof][Root].evidence.birthDay,
                            backends[reply.backend].policy)

\* template.rs expects "a supported cutoff is a supported birthday": no setup
\* for a supported policy day would then panic.
CutoffsAreBirthdays == reply.call = "setup" => reply.result # "Panic"

\* verification.rs documents InvalidArtifact as "malformed or not canonical"
\* bytes: only what serializing a proof writes would then be accepted.
OnlyCanonicalBytesAccepted ==
    reply.call = "verify" /\ reply.result = "Accepted" =>
        reply.bytes \in {"canonical", "rewritten"}
=============================================================================
