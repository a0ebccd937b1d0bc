--------------------------- MODULE Groth16Circuit ---------------------------
(***************************************************************************)
(* The relation a Groth16 backend compiles from a plan: template.rs,       *)
(* circuit.rs and commitment.rs under groth16/.  A template keeps, at each *)
(* position of the plan, the operator or the issuer key and the claim kind *)
(* of a direct proof.  Reading a claim's kind() is a call into the caller's*)
(* code, so `reads` gives the kind each leaf reports at one reading.       *)
(***************************************************************************)
EXTENDS Credentials, ProofPlan

CONSTANT NoCredential   \* the absent evidence of a plan

\* DirectProofPlan: Proofs::signed stores the hash beside the evidence.  A
\* claim object is modelled by the set of kinds it may report.
DirectPlan(credential, claim) ==
    [op |-> "direct", credential |-> CredentialHash(credential),
     evidence |-> credential, claim |-> claim]

\* The kinds the leaves can report at one reading of the plan.
Readings(plan) ==
    {r \in [DirectPositions(plan) ->
                UNION {plan[p].claim : p \in DirectPositions(plan)}] :
        \A p \in DirectPositions(plan) : r[p] \in plan[p].claim}

HasEvidence(leaf) ==
    leaf.evidence # NoCredential /\ CredentialHash(leaf.evidence) = leaf.credential

\* DirectTemplate::from_plan, its checks in order.
FromPlanOutcome(plan, reads) ==
    [p \in DirectPositions(plan) |->
        IF ~HasEvidence(plan[p]) THEN "InvalidCredential"
        ELSE IF reads[p] = Custom THEN "UnsupportedClaim"
        ELSE "Ok"]

\* CircuitTemplate::from_plan, the template when every leaf passed.  The kind
\* stored is read a second time.
Compile(plan, reads) ==
    [p \in DOMAIN plan |->
        IF plan[p].op = "direct"
        THEN [op |-> "direct", issuer |-> plan[p].evidence.issuer,
              claim |-> reads[p]]
        ELSE [op |-> plan[p].op]]

\* Defects for mutant runs: the claim, or the issuer, is not compared.
AcceptsAnyClaim(template, plan, reads) ==
    /\ DOMAIN template = DOMAIN plan
    /\ \A p \in DOMAIN plan :
          /\ template[p].op = plan[p].op
          /\ plan[p].op = "direct" => plan[p].evidence.issuer = template[p].issuer

AcceptsAnyIssuer(template, plan, reads) ==
    /\ DOMAIN template = DOMAIN plan
    /\ \A p \in DOMAIN plan :
          /\ template[p].op = plan[p].op
          /\ plan[p].op = "direct" => reads[p] = template[p].claim

\* CircuitTemplate::accepts: same shape, same operators, same issuers and the
\* same claims; holders and their credentials may differ.
Accepts(template, plan, reads) ==
    /\ DOMAIN template = DOMAIN plan
    /\ \A p \in DOMAIN plan :
          /\ template[p].op = plan[p].op
          /\ plan[p].op = "direct" =>
                /\ HasEvidence(plan[p])
                /\ plan[p].evidence.issuer = template[p].issuer
                /\ reads[p] = template[p].claim

\* DirectTemplate::relation may fail to synthesize: a custom claim is an
\* error, and an age claim panics when its cutoff precedes 1900.
RelationOutcome(template, asOf) ==
    [p \in DirectPositions(template) |->
        LET claim == template[p].claim
        IN  IF claim = Custom THEN "Unsatisfiable"
            ELSE IF claim \in AgeClaims /\ ~CutoffSupported(asOf, claim.years)
            THEN "Panic"
            ELSE "Ok"]

\* CredentialRelation::enforce: the commitments are recomputed from the
\* witnessed values under schema 2 and must carry the template issuer's
\* signature.  These constraints bind every leaf, selected by an OR or not.
CredentialRelation(issuer, c) ==
    SignatureValid(issuer,
        CredentialMessage(CommitAge(c.birthDay, c.ageSalt),
                          CommitOwner(c.walletSecret),
                          CommitAttributes(c.country, c.role, c.ageSalt),
                          SchemaV2),
        c.credential.signature)

\* Defect for a mutant run: the root is computed but not enforced.
IsSatisfiedWithoutRoot(template, plan, asOf) ==
    \A p \in DirectPositions(template) :
        CredentialRelation(template[p].issuer, plan[p].evidence)

\* ProofCircuit::is_satisfied over a plan the template accepts.
IsSatisfied(template, plan, asOf) ==
    /\ \A p \in DirectPositions(template) :
          CredentialRelation(template[p].issuer, plan[p].evidence)
    /\ RootSatisfied(template,
          [p \in DirectPositions(template) |->
              ClaimWire(template[p].claim, plan[p].evidence, asOf)])

\* What the template states of the witnesses, in civil terms.
StatementHolds(template, plan, asOf) ==
    RootSatisfied(template,
        [p \in DirectPositions(template) |->
            ClaimHolds(template[p].claim, plan[p].evidence, asOf)])
=============================================================================
