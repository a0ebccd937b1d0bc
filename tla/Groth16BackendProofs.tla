------------------------ MODULE Groth16BackendProofs ------------------------
(***************************************************************************)
(* Groth16Backend for every set of issuers, people, claims and days: the   *)
(* values in its slots are well formed, a backend that exists can always   *)
(* synthesize its circuit, and a verifier accepts only true statements.    *)
(* The whole implements AttestedStatements.                                *)
(***************************************************************************)
EXTENDS Groth16Refinement, StatementProofs

\* What a credential of any issuance holds, and that its signature opens the
\* commitments the circuit recomputes, under its own issuer and no other.
LEMMA CredentialFacts ==
    ASSUME NEW c \in SignedCredentials
    PROVE  /\ c.birthDay \in BirthDays /\ c.role \in Roles
           /\ c.issuer \in Issuers
           /\ \A issuer : CredentialRelation(issuer, c) <=> c.issuer = issuer
<1>1. PICK i \in Issuers, a \in Profiles, id \in CredentialIds :
         c = IssueCredential(i, a, id)
  BY DEF SignedCredentials
<1>2. /\ c.birthDay = a.birthDay /\ c.country = a.country /\ c.role = a.role
      /\ c.ageSalt = a.ageSalt /\ c.walletSecret = a.walletSecret
      /\ c.issuer = i
      /\ c.credential.signature =
            Sign(i, CredentialMessage(CommitAge(a.birthDay, a.ageSalt),
                                      CommitOwner(a.walletSecret),
                                      CommitAttributes(a.country, a.role, a.ageSalt),
                                      SchemaV2), id)
  BY <1>1 DEF IssueCredential
<1>3. \A issuer : CredentialRelation(issuer, c) <=> c.issuer = issuer
  BY <1>2 DEF CredentialRelation, SignatureValid, Sign
<1>4. QED BY <1>2, <1>3, BackendAssumption

\* A plan names its evidence by a hash of the issuer's fingerprint, the schema and
\* the signature alone (SignedAttributeCredential::hash).  It names one credential
\* with all its private values: what the hash leaves out the signature binds,
\* through commitments that tell days, roles and salts apart.  So the comparison
\* of hashes in DirectTemplate::from_plan lets no other evidence pass.
THEOREM HashesNameCredentials ==
    ASSUME NEW c \in SignedCredentials, NEW d \in SignedCredentials,
           CredentialHash(c) = CredentialHash(d)
    PROVE  c = d
<1> DEFINE Message(a) ==
              CredentialMessage(CommitAge(a.birthDay, a.ageSalt),
                                CommitOwner(a.walletSecret),
                                CommitAttributes(a.country, a.role, a.ageSalt),
                                SchemaV2)
<1>1. PICK i \in Issuers, a \in Profiles, id \in CredentialIds :
         c = IssueCredential(i, a, id)
  BY DEF SignedCredentials
<1>2. PICK j \in Issuers, b \in Profiles, jd \in CredentialIds :
         d = IssueCredential(j, b, jd)
  BY DEF SignedCredentials
<1>3. Sign(i, Message(a), id) = Sign(j, Message(b), jd)
  <2>1. /\ c.credential.signature = Sign(i, Message(a), id)
        /\ d.credential.signature = Sign(j, Message(b), jd)
    BY <1>1, <1>2 DEF IssueCredential
  <2>2. c.credential.signature = d.credential.signature
    BY DEF CredentialHash
  <2>3. QED BY <2>1, <2>2
<1>4. i = j /\ id = jd /\ Message(a) = Message(b)
  BY <1>3 DEF Sign
<1>5. /\ DaysSince1900(a.birthDay) = DaysSince1900(b.birthDay)
      /\ a.ageSalt = b.ageSalt /\ a.walletSecret = b.walletSecret
      /\ a.country = b.country /\ RoleElement[a.role] = RoleElement[b.role]
  BY <1>4 DEF CredentialMessage, CommitAge, CommitOwner, CommitAttributes
<1>6. a.birthDay = b.birthDay
  BY <1>5, DayCountsAreSmall, BackendAssumption
<1>7. a.role = b.role
  BY <1>5, BackendAssumption DEF RoleElement, Roles
<1>8. QED BY <1>1, <1>2, <1>4, <1>5, <1>6, <1>7 DEF IssueCredential

\* A direct plan carries its evidence, and its hash is the evidence's.
LEMMA DirectPlanFacts ==
    ASSUME NEW leaf, IsDirectPlan(leaf)
    PROVE  /\ leaf.op = "direct"
           /\ leaf.evidence \in SignedCredentials
           /\ leaf.claim \in ClaimObjects
           /\ HasEvidence(leaf)
<1>1. PICK c \in SignedCredentials, k \in ClaimObjects : leaf = DirectPlan(c, k)
  BY DEF IsDirectPlan
<1>2. QED BY <1>1, BackendAssumption DEF DirectPlan, HasEvidence

\* The template compiled from a proof has the shape of the proof.
LEMMA CompileIsTemplate ==
    ASSUME NEW plan, IsProof(plan), NEW reads \in Readings(plan)
    PROVE  IsTemplate(Compile(plan, reads))
<1> DEFINE t == Compile(plan, reads)
<1>1. DOMAIN t = DOMAIN plan /\ \A p \in DOMAIN plan : t[p].op = plan[p].op
  BY DEF Compile
<1>2. IsPlan(t)
  BY <1>1 DEF IsPlan, IsProof
<1>3. ASSUME NEW p \in DOMAIN plan PROVE t[p] \in TemplateNodes
  <2>1. CASE plan[p].op = "direct"
    <3>1. p \in DirectPositions(plan) /\ IsDirectPlan(plan[p])
      BY <2>1 DEF DirectPositions, IsProof
    <3>2. plan[p].evidence.issuer \in Issuers /\ plan[p].claim \subseteq ClaimKinds
      BY <3>1, DirectPlanFacts, CredentialFacts, BackendAssumption
    <3>3. reads[p] \in plan[p].claim
      BY <3>1 DEF Readings
    <3>4. QED BY <2>1, <3>2, <3>3 DEF Compile, TemplateNodes
  <2>2. CASE plan[p].op # "direct"
    <3>1. plan[p].op \in {"and", "or"}
      BY <2>2 DEF IsProof, IsPlan
    <3>2. QED BY <2>2, <3>1 DEF Compile, TemplateNodes
  <2>3. QED BY <2>1, <2>2
<1>4. t \in [DOMAIN t -> TemplateNodes]
  BY <1>1, <1>3 DEF Compile
<1>5. QED BY <1>2, <1>4 DEF IsTemplate

\* The inductive invariant: types, artifacts that were earned, and backends
\* whose circuit synthesizes.  The last two support each other: an artifact
\* stays true only because the backend it verifies under never changes.
IInv == TypeOK /\ EarnedArtifacts /\ BackendsAreSynthesizable

\* Nothing is issued, composed, set up or proved at first.
LEMMA InitHolds == Init => IInv
BY DEF Init, IInv, TypeOK, EarnedArtifacts, BackendsAreSynthesizable, Live

\* Issuing touches only an unused slot, so what was issued stays issued.
LEMMA IssueStep ==
    ASSUME IInv, NEW id \in CredentialIds, NEW i \in Issuers, NEW a \in Profiles,
           Issue(id, i, a)
    PROVE  IInv'
<1>1. /\ credentials[id] = None
      /\ credentials' = [credentials EXCEPT ![id] = IssueCredential(i, a, id)]
      /\ UNCHANGED <<proofs, backends, artifacts>>
  BY DEF Issue
<1>2. credentials \in [CredentialIds -> SignedCredentials \cup {None}]
  BY DEF IInv, TypeOK
<1>3. IssueCredential(i, a, id) \in SignedCredentials
  BY DEF SignedCredentials
<1>4. credentials' \in [CredentialIds -> SignedCredentials \cup {None}]
  BY <1>1, <1>2, <1>3
<1>5. Issued \subseteq Issued'
  <2> SUFFICES ASSUME NEW c \in Issued PROVE c \in Issued'
    OBVIOUS
  <2>1. PICK x \in CredentialIds : c = credentials[x] /\ c # None
    BY DEF Issued
  <2>2. x # id /\ credentials'[x] = c
    BY <1>1, <1>2, <2>1
  <2>3. QED BY <2>1, <2>2 DEF Issued
<1>6. TypeOK'
  BY <1>1, <1>4 DEF IInv, TypeOK, Live
<1>7. EarnedArtifacts'
  BY <1>1, <1>5 DEF IInv, EarnedArtifacts, Live
<1>8. BackendsAreSynthesizable'
  BY <1>1 DEF IInv, BackendsAreSynthesizable, Live
<1>9. QED BY <1>6, <1>7, <1>8 DEF IInv

\* What holds of the plans in use: trees over issued credentials.
GoodPlan(plan) ==
    /\ IsProof(plan)
    /\ \A p \in DirectPositions(plan) : plan[p].evidence \in Issued

\* A step that only replaces plans by good plans keeps the invariant.
LEMMA ProofStep ==
    ASSUME IInv, UNCHANGED <<credentials, backends, artifacts>>,
           DOMAIN proofs' = Handles,
           \A h \in Live(proofs') : GoodPlan(proofs'[h])
    PROVE  IInv'
<1>1. Issued' = Issued
  BY DEF Issued
<1>2. TypeOK'
  BY DEF IInv, TypeOK, GoodPlan, Live
<1>3. EarnedArtifacts'
  BY <1>1 DEF IInv, EarnedArtifacts, GoodPlan, Live
<1>4. BackendsAreSynthesizable'
  BY DEF IInv, BackendsAreSynthesizable, Live
<1>5. QED BY <1>2, <1>3, <1>4 DEF IInv

\* Under the invariant every live Proof is over issued credentials.
LEMMA LivePlansAreGood ==
    ASSUME IInv, NEW h \in Live(proofs)
    PROVE  h \in Handles /\ GoodPlan(proofs[h])
BY DEF IInv, TypeOK, EarnedArtifacts, GoodPlan, Live

\* Credential::is starts a plan from a credential that was issued.
LEMMA IsStep ==
    ASSUME IInv, NEW h \in Handles, NEW id \in CredentialIds,
           NEW claim \in ClaimObjects, Is(h, id, claim)
    PROVE  IInv'
<1> DEFINE leaf == DirectPlan(credentials[id], claim)
<1>1. /\ credentials[id] # None
      /\ proofs' = [proofs EXCEPT ![h] = Direct(leaf)]
      /\ UNCHANGED <<credentials, backends, artifacts>>
  BY DEF Is
<1>2. credentials[id] \in SignedCredentials /\ credentials[id] \in Issued
  BY <1>1 DEF IInv, TypeOK, Issued
<1>3. IsDirectPlan(leaf) /\ leaf.evidence = credentials[id] /\ leaf.op = "direct"
  BY <1>2 DEF IsDirectPlan, DirectPlan
<1> HIDE DEF leaf
<1>4. GoodPlan(Direct(leaf))
  BY <1>2, <1>3, DirectIsPlan DEF GoodPlan, IsProof
<1>5. DOMAIN proofs = Handles
  BY DEF IInv, TypeOK
<1>6. \A x \in Live(proofs') : GoodPlan(proofs'[x])
  BY <1>1, <1>4, <1>5, LivePlansAreGood DEF Live
<1>7. QED BY <1>1, <1>5, <1>6, ProofStep

\* Proof::and and Proof::or make a plan of the leaves of two good plans.
LEMMA ComposeStep ==
    ASSUME IInv, NEW op \in {"and", "or"}, NEW h \in Handles, NEW other \in Handles,
           Compose(op, h, other)
    PROVE  IInv'
<1> DEFINE joined == Join(op, proofs[h], proofs[other])
<1>1. /\ h \in Live(proofs) /\ other \in Live(proofs)
      /\ proofs' = [proofs EXCEPT ![h] = joined, ![other] = None]
      /\ UNCHANGED <<credentials, backends, artifacts>>
      /\ DOMAIN proofs = Handles
  BY DEF Compose, Live, IInv, TypeOK
<1>2. GoodPlan(proofs[h]) /\ GoodPlan(proofs[other])
  BY <1>1, LivePlansAreGood
<1>3. IsPlan(joined)
  BY <1>2, JoinIsPlan DEF GoodPlan, IsProof
<1>4. ASSUME NEW p \in DirectPositions(joined)
      PROVE  IsDirectPlan(joined[p]) /\ joined[p].evidence \in Issued
  <2>1. \/ \E q \in DirectPositions(proofs[h]) : joined[p] = proofs[h][q]
        \/ \E q \in DirectPositions(proofs[other]) : joined[p] = proofs[other][q]
    BY <1>2, JoinLeaves DEF GoodPlan, IsProof
  <2>2. QED BY <1>2, <2>1 DEF GoodPlan, IsProof
<1>5. GoodPlan(joined)
  BY <1>3, <1>4 DEF GoodPlan, IsProof
<1> HIDE DEF joined
<1>6. ASSUME NEW x \in Live(proofs') PROVE GoodPlan(proofs'[x])
  <2>1. CASE x = h
    BY <1>1, <1>5, <2>1 DEF Live
  <2>2. CASE x = other
    BY <1>1, <1>5, <2>2 DEF Live
  <2>3. CASE x # h /\ x # other
    BY <1>1, <2>3, LivePlansAreGood DEF Live
  <2>4. QED BY <2>1, <2>2, <2>3
<1>7. QED BY <1>1, <1>6, ProofStep

\* Dropping a Proof empties its slot.
LEMMA DropStep ==
    ASSUME IInv, NEW h \in Handles, Drop(h)
    PROVE  IInv'
<1>1. /\ proofs' = [proofs EXCEPT ![h] = None] /\ DOMAIN proofs = Handles
      /\ UNCHANGED <<credentials, backends, artifacts>>
  BY DEF Drop, IInv, TypeOK
<1>2. \A x \in Live(proofs') : GoodPlan(proofs'[x])
  BY <1>1, LivePlansAreGood DEF Live
<1>3. QED BY <1>1, <1>2, ProofStep

\* Setup fills an unused backend slot, and only when no leaf of the template
\* failed to synthesize.
LEMMA SetupStep ==
    ASSUME IInv, NEW b \in BackendIds, NEW h \in Handles, NEW asOf \in PolicyDays,
           Setup(b, h, asOf)
    PROVE  IInv'
<1>1. /\ backends[b] = None /\ h \in Live(proofs)
      /\ UNCHANGED <<credentials, proofs, artifacts>>
      /\ DOMAIN backends = BackendIds
  BY DEF Setup, Live, IInv, TypeOK
<1>2. PICK first \in Readings(proofs[h]), second \in Readings(proofs[h]) :
      \E answer \in SetupAnswers(proofs[h], first, Compile(proofs[h], second), asOf) :
         backends' = IF answer = "Ok"
                     THEN [backends EXCEPT ![b] =
                             [policy |-> asOf, template |-> Compile(proofs[h], second)]]
                     ELSE backends
  BY DEF Setup
<1> DEFINE template == Compile(proofs[h], second)
           made     == [policy |-> asOf, template |-> template]
<1>3. PICK answer \in SetupAnswers(proofs[h], first, template, asOf) :
         backends' = IF answer = "Ok" THEN [backends EXCEPT ![b] = made] ELSE backends
  BY <1>2
<1>4. Issued' = Issued
  BY <1>1 DEF Issued
<1>5. CASE answer # "Ok"
  BY <1>1, <1>3, <1>4, <1>5
  DEF IInv, TypeOK, EarnedArtifacts, BackendsAreSynthesizable, Live
<1>6. CASE answer = "Ok"
  <2>1. IsTemplate(template)
    BY <1>1, <1>2, LivePlansAreGood, CompileIsTemplate DEF GoodPlan
  <2>2. \A p \in DirectPositions(template) : RelationOutcome(template, asOf)[p] = "Ok"
    <3>1. PICK relation \in WalkOutcomes(template, RelationOutcome(template, asOf), "Ok") :
             relation = "Ok"
      BY <1>6 DEF SetupAnswers
    <3>2. QED BY <3>1, WalkFacts
  <2> HIDE DEF template
  <2>3. backends' = [backends EXCEPT ![b] = made] /\ DOMAIN backends' = BackendIds
    BY <1>1, <1>3, <1>6
  <2>4. \A x \in Live(backends') :
           \/ x = b /\ backends'[x] = made
           \/ x \in Live(backends) /\ backends'[x] = backends[x]
    BY <1>1, <2>3 DEF Live
  <2>5. TypeOK'
    BY <1>1, <2>1, <2>3, <2>4 DEF IInv, TypeOK, Live
  <2>6. EarnedArtifacts'
    <3>1. ASSUME NEW a \in Live(artifacts)
          PROVE  backends'[artifacts[a].key] = backends[artifacts[a].key]
      <4>1. artifacts[a].key \in BackendIds /\ backends[artifacts[a].key] # None
        BY DEF IInv, TypeOK, EarnedArtifacts
      <4>2. QED BY <1>1, <2>3, <4>1
    <3>2. QED BY <1>1, <1>4, <3>1 DEF IInv, EarnedArtifacts, Live
  <2>7. BackendsAreSynthesizable'
    BY <2>2, <2>4 DEF IInv, BackendsAreSynthesizable
  <2>8. QED BY <2>5, <2>6, <2>7 DEF IInv
<1>7. QED BY <1>5, <1>6

\* Proving fills an unused artifact slot, and only from a plan the backend
\* accepted and that satisfies its circuit.
LEMMA ProveStep ==
    ASSUME IInv, NEW a \in ArtifactIds, NEW b \in BackendIds, NEW h \in Handles,
           Prove(a, b, h)
    PROVE  IInv'
<1>1. /\ artifacts[a] = None /\ b \in Live(backends) /\ h \in Live(proofs)
      /\ UNCHANGED <<credentials, proofs, backends>>
      /\ DOMAIN artifacts = ArtifactIds
  BY DEF Prove, Live, IInv, TypeOK
<1>2. PICK reads \in Readings(proofs[h]) :
      \E answer \in ProveAnswers(backends[b], proofs[h], reads) :
         artifacts' = IF answer = "Ok"
                      THEN [artifacts EXCEPT ![a] = [key |-> b, plan |-> proofs[h]]]
                      ELSE artifacts
  BY DEF Prove
<1>3. PICK answer \in ProveAnswers(backends[b], proofs[h], reads) :
         artifacts' = IF answer = "Ok"
                      THEN [artifacts EXCEPT ![a] = [key |-> b, plan |-> proofs[h]]]
                      ELSE artifacts
  BY <1>2
<1>4. Issued' = Issued
  BY <1>1 DEF Issued
<1>5. CASE answer # "Ok"
  BY <1>1, <1>3, <1>4, <1>5
  DEF IInv, TypeOK, EarnedArtifacts, BackendsAreSynthesizable, Live
<1>6. CASE answer = "Ok"
  <2>1. /\ Accepts(backends[b].template, proofs[h], reads)
        /\ IsSatisfied(backends[b].template, proofs[h], backends[b].policy)
    BY <1>6 DEF ProveAnswers
  <2>2. GoodPlan(proofs[h])
    BY <1>1, LivePlansAreGood
  <2>3. artifacts' = [artifacts EXCEPT ![a] = [key |-> b, plan |-> proofs[h]]]
    BY <1>3, <1>6
  <2>4. \A x \in Live(artifacts') :
           \/ x = a /\ artifacts'[x] = [key |-> b, plan |-> proofs[h]]
           \/ x \in Live(artifacts) /\ artifacts'[x] = artifacts[x]
    BY <1>1, <2>3 DEF Live
  <2>5. TypeOK'
    BY <1>1, <2>2, <2>3, <2>4 DEF IInv, TypeOK, Live, GoodPlan
  <2>6. EarnedArtifacts'
    <3>1. ASSUME NEW x \in Live(artifacts')
          PROVE  LET plan    == artifacts'[x].plan
                     backend == backends[artifacts'[x].key]
                 IN  /\ \A p \in DirectPositions(plan) : plan[p].evidence \in Issued
                     /\ backend # None
                     /\ \E r \in Readings(plan) : Accepts(backend.template, plan, r)
                     /\ IsSatisfied(backend.template, plan, backend.policy)
      <4>1. CASE x = a /\ artifacts'[x] = [key |-> b, plan |-> proofs[h]]
        BY <1>1, <2>1, <2>2, <4>1 DEF Live, GoodPlan
      <4>2. CASE x \in Live(artifacts) /\ artifacts'[x] = artifacts[x]
        BY <4>2 DEF IInv, EarnedArtifacts
      <4>3. QED BY <2>4, <4>1, <4>2
    <3>2. QED BY <1>1, <1>4, <3>1 DEF IInv, EarnedArtifacts, Live
  <2>7. BackendsAreSynthesizable'
    BY <1>1 DEF IInv, BackendsAreSynthesizable, Live
  <2>8. QED BY <2>5, <2>6, <2>7 DEF IInv
<1>7. QED BY <1>5, <1>6

\* Verifying changes nothing but the reply.
LEMMA StutterStep ==
    ASSUME IInv, UNCHANGED <<credentials, proofs, backends, artifacts>>
    PROVE  IInv'
BY DEF IInv, TypeOK, EarnedArtifacts, BackendsAreSynthesizable, Live, Issued

\* The inductive invariant: types, earned artifacts, and backends that can
\* always synthesize their circuit hold together from the first call on.
THEOREM InvariantHolds == Spec => []IInv
<1>1. IInv /\ [Next]_vars => IInv'
  <2> SUFFICES ASSUME IInv, [Next]_vars PROVE IInv'
    OBVIOUS
  <2>1. ASSUME NEW id \in CredentialIds, NEW i \in Issuers, NEW a \in Profiles,
               Issue(id, i, a)
        PROVE  IInv'
    BY <2>1, IssueStep
  <2>2. ASSUME NEW h \in Handles, NEW id \in CredentialIds, NEW c \in ClaimObjects,
               Is(h, id, c)
        PROVE  IInv'
    BY <2>2, IsStep
  <2>3. ASSUME NEW h \in Handles, NEW other \in Handles,
               And(h, other) \/ Or(h, other)
        PROVE  IInv'
    BY <2>3, ComposeStep DEF And, Or
  <2>4. ASSUME NEW h \in Handles, Drop(h) PROVE IInv'
    BY <2>4, DropStep
  <2>5. ASSUME NEW b \in BackendIds, NEW h \in Handles, NEW d \in PolicyDays,
               Setup(b, h, d)
        PROVE  IInv'
    BY <2>5, SetupStep
  <2>6. ASSUME NEW a \in ArtifactIds, NEW b \in BackendIds, NEW h \in Handles,
               Prove(a, b, h)
        PROVE  IInv'
    BY <2>6, ProveStep
  <2>7. ASSUME NEW b \in BackendIds, NEW a \in ArtifactIds, NEW bytes \in Deliveries,
               Verify(b, a, bytes)
        PROVE  IInv'
    BY <2>7, StutterStep DEF Verify
  <2>8. CASE UNCHANGED vars
    BY <2>8, StutterStep DEF vars
  <2>9. QED
    BY <2>1, <2>2, <2>3, <2>4, <2>5, <2>6, <2>7, <2>8 DEF Next
<1>2. QED BY InitHolds, <1>1, PTL DEF Spec

\* Every slot always holds a well-formed value.
THEOREM TypeCorrect == Spec => []TypeOK
<1>1. IInv => TypeOK
  BY DEF IInv
<1>2. QED BY <1>1, InvariantHolds, PTL

\* Artifacts only ever come from accepted, satisfied plans over issued
\* credentials (Groth16Prover::prove).
THEOREM ArtifactsAreEarned == Spec => []EarnedArtifacts
<1>1. IInv => EarnedArtifacts
  BY DEF IInv
<1>2. QED BY <1>1, InvariantHolds, PTL

\* No proof handed to a backend that exists can make its circuit panic or
\* fail to synthesize (template.rs cutoff and DirectTemplate::relation).
THEOREM ProversNeverPanic == Spec => []BackendsAreSynthesizable
<1>1. IInv => BackendsAreSynthesizable
  BY DEF IInv
<1>2. QED BY <1>1, InvariantHolds, PTL

\* The circuit's root is satisfied exactly when the statement holds in civil
\* terms, for a template whose cutoffs are supported and witnesses that are
\* credentials.
LEMMA RootMeansStatement ==
    ASSUME NEW t, IsTemplate(t), NEW plan, NEW asOf \in BirthDays,
           \A p \in DirectPositions(t) : plan[p].evidence \in SignedCredentials,
           \A p \in DirectPositions(t) : RelationOutcome(t, asOf)[p] = "Ok"
    PROVE  RootSatisfied(t, [p \in DirectPositions(t) |->
                                ClaimWire(t[p].claim, plan[p].evidence, asOf)])
              <=> StatementHolds(t, plan, asOf)
<1> DEFINE wires == [p \in DirectPositions(t) |->
                        ClaimWire(t[p].claim, plan[p].evidence, asOf)]
           truths == [p \in DirectPositions(t) |->
                        ClaimHolds(t[p].claim, plan[p].evidence, asOf)]
<1>1. ASSUME NEW p \in DirectPositions(t) PROVE wires[p] = truths[p]
  <2>1. t[p].claim \in ClaimKinds
    BY DEF IsTemplate, DirectPositions, TemplateNodes
  <2>2. plan[p].evidence.birthDay \in BirthDays /\ plan[p].evidence.role \in Roles
    BY CredentialFacts
  <2>3. t[p].claim \in AgeClaims => CutoffSupported(asOf, t[p].claim.years)
    BY DEF RelationOutcome
  <2>4. ClaimWire(t[p].claim, plan[p].evidence, asOf)
           <=> ClaimHolds(t[p].claim, plan[p].evidence, asOf)
    BY <2>1, <2>2, <2>3, WireMeansClaim
  <2>5. /\ ClaimWire(t[p].claim, plan[p].evidence, asOf) \in BOOLEAN
        /\ ClaimHolds(t[p].claim, plan[p].evidence, asOf) \in BOOLEAN
    BY DEF ClaimWire, ClaimHolds
  <2>6. QED BY <2>4, <2>5
<1>2. RootSatisfied(t, wires) <=> RootSatisfied(t, truths)
  BY <1>1, SameWires
<1>3. QED BY <1>2 DEF StatementHolds

\* An accepting verifier holds the key of the artifact it was shown.
VerifyReplyInv ==
    reply.call = "verify" /\ reply.result = "Accepted" =>
        /\ reply.backend \in Live(backends)
        /\ reply.artifact \in Live(artifacts)
        /\ artifacts[reply.artifact].key = reply.backend

\* An accepting reply names a live backend and an artifact of its own key.
LEMMA VerifyReplyInvariant == Spec => []VerifyReplyInv
<1>1. Init => VerifyReplyInv
  BY DEF Init, NoReply, VerifyReplyInv
<1>2. IInv /\ VerifyReplyInv /\ [Next]_vars => VerifyReplyInv'
  <2> SUFFICES ASSUME IInv, VerifyReplyInv, [Next]_vars PROVE VerifyReplyInv'
    OBVIOUS
  <2>1. CASE reply' = NoReply
    BY <2>1 DEF NoReply, VerifyReplyInv
  <2>2. CASE \E b \in BackendIds, h \in Handles, d \in PolicyDays : Setup(b, h, d)
    BY <2>2 DEF Setup, VerifyReplyInv
  <2>3. CASE \E a \in ArtifactIds, b \in BackendIds, h \in Handles : Prove(a, b, h)
    BY <2>3 DEF Prove, VerifyReplyInv
  <2>4. ASSUME NEW b \in BackendIds, NEW a \in ArtifactIds, NEW bytes \in Deliveries,
               Verify(b, a, bytes)
        PROVE  VerifyReplyInv'
    <3>1. PICK answer \in VerifyAnswers(b, artifacts[a], bytes) :
             reply' = [call |-> "verify", backend |-> b, artifact |-> a,
                       bytes |-> bytes, result |-> answer]
      BY <2>4 DEF Verify
    <3>2. answer = "Accepted" => artifacts[a].key = b
      BY DEF VerifyAnswers
    <3>3. b \in Live(backends) /\ a \in Live(artifacts)
      BY <2>4 DEF Verify, Live, IInv, TypeOK
    <3>4. UNCHANGED <<backends, artifacts>>
      BY <2>4 DEF Verify
    <3>5. QED BY <3>1, <3>2, <3>3, <3>4 DEF VerifyReplyInv, Live
  <2>5. CASE UNCHANGED vars
    BY <2>5 DEF vars, VerifyReplyInv, Live
  <2>6. QED
    BY <2>1, <2>2, <2>3, <2>4, <2>5 DEF Next, Issue, Is, And, Or, Compose, Drop
<1>3. QED BY <1>1, <1>2, InvariantHolds, PTL DEF Spec

\* Soundness.  Whatever was issued, composed, set up and proved, and in
\* whatever order, a verifier accepts only bytes that prove its own statement
\* true, on its own policy day, of people attested by the issuers it names.
THEOREM Soundness == Spec => []AcceptedMeansTrue
<1>1. IInv /\ VerifyReplyInv => AcceptedMeansTrue
  <2> SUFFICES ASSUME IInv, VerifyReplyInv,
                      reply.call = "verify", reply.result = "Accepted"
               PROVE  /\ Attested(backends[reply.backend].template,
                                  artifacts[reply.artifact].plan)
                      /\ StatementHolds(backends[reply.backend].template,
                                        artifacts[reply.artifact].plan,
                                        backends[reply.backend].policy)
    BY DEF AcceptedMeansTrue
  <2> DEFINE backend == backends[reply.backend]
             t       == backend.template
             plan    == artifacts[reply.artifact].plan
  <2>1. /\ reply.backend \in Live(backends) /\ reply.artifact \in Live(artifacts)
        /\ artifacts[reply.artifact].key = reply.backend
    BY DEF VerifyReplyInv
  <2>2. /\ \A p \in DirectPositions(plan) : plan[p].evidence \in Issued
        /\ \E reads \in Readings(plan) : Accepts(t, plan, reads)
        /\ IsSatisfied(t, plan, backend.policy)
    BY <2>1 DEF IInv, EarnedArtifacts
  <2>3. /\ IsTemplate(t) /\ IsProof(plan) /\ backend.policy \in BirthDays
    BY <2>1, BackendAssumption DEF IInv, TypeOK
  <2>4. \A p \in DirectPositions(t) : RelationOutcome(t, backend.policy)[p] = "Ok"
    BY <2>1 DEF IInv, BackendsAreSynthesizable
  <2> HIDE DEF t, plan, backend
  <2>5. ASSUME NEW p \in DirectPositions(t)
        PROVE  /\ p \in DirectPositions(plan)
               /\ plan[p].evidence \in SignedCredentials
               /\ plan[p].evidence \in Issued
               /\ plan[p].evidence.issuer = t[p].issuer
    <3>1. p \in DirectPositions(plan) /\ plan[p].evidence.issuer = t[p].issuer
      BY <2>2 DEF Accepts, DirectPositions
    <3>2. QED BY <2>2, <2>3, <3>1, DirectPlanFacts DEF IsProof
  <2>6. Attested(t, plan)
    BY <2>5 DEF Attested
  <2>7. RootSatisfied(t, [p \in DirectPositions(t) |->
                             ClaimWire(t[p].claim, plan[p].evidence, backend.policy)])
    BY <2>2 DEF IsSatisfied
  <2>8. StatementHolds(t, plan, backend.policy)
    BY <2>3, <2>4, <2>5, <2>7, RootMeansStatement
  <2>9. QED BY <2>6, <2>8 DEF t, plan, backend
<1>2. QED BY <1>1, InvariantHolds, VerifyReplyInvariant, PTL

\* A template that compiles from a proof at some reading accepts the proof at
\* that reading, and conversely.
LEMMA CompiledIsAccepted ==
    ASSUME NEW plan, IsProof(plan), NEW reads \in Readings(plan),
           NEW t, IsTemplate(t)
    PROVE  Accepts(t, plan, reads) <=> Compile(plan, reads) = t
<1>1. \A p \in DirectPositions(plan) : HasEvidence(plan[p])
  BY DirectPlanFacts DEF IsProof
<1>2. ASSUME Compile(plan, reads) = t PROVE Accepts(t, plan, reads)
  BY <1>1, <1>2 DEF Compile, Accepts, DirectPositions
<1>3. ASSUME Accepts(t, plan, reads) PROVE Compile(plan, reads) = t
  <2>1. DOMAIN t = DOMAIN plan
    BY <1>3 DEF Accepts
  <2>2. ASSUME NEW p \in DOMAIN plan PROVE t[p] = Compile(plan, reads)[p]
    <3>1. t[p] \in TemplateNodes /\ t[p].op = plan[p].op
      BY <1>3, <2>1 DEF Accepts, IsTemplate
    <3>2. CASE plan[p].op = "direct"
      <4>1. /\ t[p] \in [op : {"direct"}, issuer : Issuers, claim : ClaimKinds]
            /\ t[p].issuer = plan[p].evidence.issuer /\ t[p].claim = reads[p]
        BY <1>3, <3>1, <3>2 DEF Accepts, TemplateNodes
      <4>2. t[p] = [op |-> "direct", issuer |-> plan[p].evidence.issuer,
                    claim |-> reads[p]]
        BY <4>1
      <4>3. QED BY <3>2, <4>2 DEF Compile
    <3>3. CASE plan[p].op # "direct"
      <4>1. t[p] \in [op : {"and", "or"}]
        BY <3>1, <3>3 DEF TemplateNodes
      <4>2. t[p] = [op |-> plan[p].op]
        BY <3>1, <4>1
      <4>3. QED BY <3>3, <4>2 DEF Compile
    <3>4. QED BY <3>2, <3>3
  <2>3. t = [p \in DOMAIN t |-> t[p]]
    BY DEF IsTemplate
  <2>4. QED BY <2>1, <2>2, <2>3 DEF Compile
<1>4. QED BY <1>2, <1>3

\* Completeness.  A prover refuses a proof only because it compiles to another
\* template or because the statement is false of its credentials; it never
\* panics and never reports a true statement unprovable.
THEOREM Completeness == Spec => []RefusalsAreJustified
<1>1. Init => RefusalsAreJustified
  BY DEF Init, NoReply, RefusalsAreJustified
<1>2. IInv /\ RefusalsAreJustified /\ [Next]_vars => RefusalsAreJustified'
  <2> SUFFICES ASSUME IInv, RefusalsAreJustified, [Next]_vars
               PROVE  RefusalsAreJustified'
    OBVIOUS
  <2>1. CASE reply' = NoReply
    BY <2>1 DEF NoReply, RefusalsAreJustified
  <2>2. CASE \E b \in BackendIds, h \in Handles, d \in PolicyDays : Setup(b, h, d)
    BY <2>2 DEF Setup, RefusalsAreJustified
  <2>3. CASE \E b \in BackendIds, a \in ArtifactIds, bytes \in Deliveries :
                Verify(b, a, bytes)
    BY <2>3 DEF Verify, RefusalsAreJustified
  <2>4. ASSUME NEW a \in ArtifactIds, NEW b \in BackendIds, NEW h \in Handles,
               Prove(a, b, h)
        PROVE  RefusalsAreJustified'
    <3> DEFINE t    == backends[b].template
               plan == proofs[h]
               asOf == backends[b].policy
    <3>1. /\ b \in Live(backends) /\ h \in Live(proofs)
          /\ UNCHANGED <<credentials, proofs, backends>>
      BY <2>4 DEF Prove, Live, IInv, TypeOK
    <3>2. PICK reads \in Readings(plan) :
          \E answer \in ProveAnswers(backends[b], plan, reads) :
             reply' = [call |-> "prove", backend |-> b, proof |-> h,
                       result |-> answer]
      BY <2>4 DEF Prove
    <3>3. PICK answer \in ProveAnswers(backends[b], plan, reads) :
             reply' = [call |-> "prove", backend |-> b, proof |-> h,
                       result |-> answer]
      BY <3>2
    <3>4. IsProof(plan) /\ IsTemplate(t) /\ asOf \in BirthDays
      BY <3>1, LivePlansAreGood, BackendAssumption DEF GoodPlan, IInv, TypeOK
    <3>5. Accepts(t, plan, reads) <=> Compile(plan, reads) = t
      BY <3>4, CompiledIsAccepted
    <3>6. CASE ~Accepts(t, plan, reads)
      <4>1. answer = "IncompatibleBackend"
        BY <3>6 DEF ProveAnswers
      <4>2. \E r \in Readings(plan) : Compile(plan, r) # t
        BY <3>5, <3>6
      <4>3. QED BY <3>1, <3>3, <4>1, <4>2 DEF RefusalsAreJustified
    <3>7. CASE Accepts(t, plan, reads) /\ answer # "Ok"
      <4>1. \A p \in DirectPositions(t) : RelationOutcome(t, asOf)[p] = "Ok"
        BY <3>1 DEF IInv, BackendsAreSynthesizable
      <4>2. WalkOutcomes(t, RelationOutcome(t, asOf), "Ok") = {"Ok"}
        BY <4>1 DEF WalkOutcomes
      <4>3. answer = "Unprovable" /\ ~IsSatisfied(t, plan, asOf)
        BY <3>7, <4>2 DEF ProveAnswers
      <4>4. ASSUME NEW p \in DirectPositions(t)
            PROVE  /\ plan[p].evidence \in SignedCredentials
                   /\ CredentialRelation(t[p].issuer, plan[p].evidence)
        <5>1. p \in DirectPositions(plan) /\ plan[p].evidence.issuer = t[p].issuer
          BY <3>7 DEF Accepts, DirectPositions
        <5>2. QED BY <3>4, <5>1, DirectPlanFacts, CredentialFacts DEF IsProof
      <4>5. ~StatementHolds(t, plan, asOf)
        BY <3>4, <4>1, <4>3, <4>4, RootMeansStatement DEF IsSatisfied
      <4>6. \E r \in Readings(plan) : Compile(plan, r) = t
        BY <3>5, <3>7
      <4>7. QED BY <3>1, <3>3, <4>3, <4>5, <4>6 DEF RefusalsAreJustified
    <3>8. CASE answer = "Ok"
      BY <3>3, <3>8 DEF RefusalsAreJustified
    <3>9. QED BY <3>6, <3>7, <3>8
  <2>5. CASE UNCHANGED vars
    BY <2>5 DEF vars, RefusalsAreJustified
  <2>6. QED
    BY <2>1, <2>2, <2>3, <2>4, <2>5 DEF Next, Issue, Is, And, Or, Compose, Drop
<1>3. QED BY <1>1, <1>2, InvariantHolds, PTL DEF Spec

\* Setup refuses a proof only for its claims: a custom kind, kinds that change
\* between readings, or an age that reaches back before 1900; never for a
\* credential, since every plan carries the evidence it was hashed from.
THEOREM SetupRefusals == Spec => []SetupRefusalsAreJustified
<1>1. Init => SetupRefusalsAreJustified
  BY DEF Init, NoReply, SetupRefusalsAreJustified
<1>2. IInv /\ SetupRefusalsAreJustified /\ [Next]_vars => SetupRefusalsAreJustified'
  <2> SUFFICES ASSUME IInv, SetupRefusalsAreJustified, [Next]_vars
               PROVE  SetupRefusalsAreJustified'
    OBVIOUS
  <2>1. CASE reply'.call # "setup"
    BY <2>1 DEF SetupRefusalsAreJustified
  <2>2. ASSUME NEW b \in BackendIds, NEW h \in Handles, NEW asOf \in PolicyDays,
               Setup(b, h, asOf)
        PROVE  SetupRefusalsAreJustified'
    <3> DEFINE plan  == proofs[h]
               kinds == UNION {plan[p].claim : p \in DirectPositions(plan)}
    <3>1. IsProof(plan) /\ proofs' = proofs
      BY <2>2, LivePlansAreGood DEF Setup, GoodPlan, Live, IInv, TypeOK
    <3>2. PICK first \in Readings(plan), second \in Readings(plan) :
          \E answer \in SetupAnswers(plan, first, Compile(plan, second), asOf) :
             reply' = [call |-> "setup", proof |-> h, policy |-> asOf,
                       result |-> answer]
      BY <2>2 DEF Setup
    <3> DEFINE t == Compile(plan, second)
    <3>3. PICK answer \in SetupAnswers(plan, first, t, asOf) :
             reply' = [call |-> "setup", proof |-> h, policy |-> asOf,
                       result |-> answer]
      BY <3>2
    <3>4. PICK compiled \in WalkOutcomes(plan, FromPlanOutcome(plan, first), "Ok"),
               relation \in WalkOutcomes(t, RelationOutcome(t, asOf), "Ok") :
             answer = IF compiled # "Ok" THEN compiled
                      ELSE IF relation = "Unsatisfiable"
                      THEN "IncompatibleBackend" ELSE relation
      BY <3>3 DEF SetupAnswers
    <3>5. /\ DirectPositions(t) = DirectPositions(plan)
          /\ \A p \in DirectPositions(plan) : t[p].claim = second[p]
      BY DEF Compile, DirectPositions
    <3>6. ASSUME NEW p \in DirectPositions(plan)
          PROVE  /\ first[p] \in plan[p].claim /\ second[p] \in plan[p].claim
                 /\ first[p] \in kinds /\ second[p] \in kinds
                 /\ HasEvidence(plan[p])
      BY <3>1, DirectPlanFacts DEF Readings, IsProof
    <3> DEFINE Reason ==
                 \/ answer = "Ok"
                 \/ answer = "UnsupportedClaim" /\ Custom \in kinds
                 \/ /\ answer = "IncompatibleBackend"
                    /\ Custom \in kinds /\ ~Stable(plan)
                 \/ /\ answer = "Panic"
                    /\ \E k \in kinds \cap AgeClaims :
                          asOf.year - k.years < FirstSupportedYear
    <3> HIDE DEF plan, t, kinds
    <3>7. ASSUME compiled # "Ok" PROVE Reason
      <4>1. PICK p \in DirectPositions(plan) : FromPlanOutcome(plan, first)[p] = compiled
        BY <3>7, WalkFacts
      <4>2. compiled = "UnsupportedClaim" /\ first[p] = Custom
        BY <3>6, <3>7, <4>1 DEF FromPlanOutcome
      <4>3. QED BY <3>4, <3>6, <3>7, <4>2
    <3>8. ASSUME compiled = "Ok", relation = "Ok" PROVE Reason
      BY <3>4, <3>8
    <3>9. ASSUME compiled = "Ok", relation # "Ok" PROVE Reason
      <4>1. PICK p \in DirectPositions(t) : RelationOutcome(t, asOf)[p] = relation
        BY <3>9, WalkFacts
      <4>2. p \in DirectPositions(plan) /\ t[p].claim = second[p]
        BY <3>5, <4>1
      <4>3. first[p] # Custom
        <5>1. FromPlanOutcome(plan, first)[p] = "Ok"
          BY <3>9, <4>2, WalkFacts
        <5>2. QED BY <4>2, <5>1 DEF FromPlanOutcome
      <4>4. CASE second[p] = Custom
        <5>1. answer = "IncompatibleBackend"
          BY <3>4, <3>9, <4>1, <4>2, <4>4 DEF RelationOutcome
        <5>2. Custom \in kinds /\ ~Stable(plan)
          BY <3>6, <4>2, <4>3, <4>4 DEF Stable
        <5>3. QED BY <5>1, <5>2
      <4>5. CASE second[p] # Custom
        <5>1. /\ relation = "Panic" /\ second[p] \in AgeClaims
              /\ ~CutoffSupported(asOf, second[p].years)
          BY <3>9, <4>1, <4>2, <4>5 DEF RelationOutcome
        <5>2. second[p].years \in Years /\ asOf \in BirthDays
          BY <5>1, BackendAssumption DEF AgeClaims
        <5>3. asOf.year - second[p].years < FirstSupportedYear
          BY <5>1, <5>2, UnsupportedCutoffs
        <5>4. QED BY <3>4, <3>6, <3>9, <4>2, <5>1, <5>3
      <4>6. QED BY <4>4, <4>5
    <3>10. Reason
      BY <3>7, <3>8, <3>9
    <3>11. QED BY <3>1, <3>3, <3>10 DEF SetupRefusalsAreJustified, plan, kinds
  <2>3. CASE UNCHANGED vars
    BY <2>3 DEF vars, SetupRefusalsAreJustified
  <2>4. QED
    BY <2>1, <2>2, <2>3
    DEF Next, Issue, Is, And, Or, Compose, Drop, Prove, Verify, NoReply
<1>3. QED BY <1>1, <1>2, InvariantHolds, PTL DEF Spec
----------------------------------------------------------------------------
(* The gates of the proofs callers compose.                                *)

\* Plans are built in finitely many calls, so every one of them is finite, and
\* so is what an artifact was proved from.
FinitePlans ==
    /\ \A h \in Live(proofs) : Bounded(proofs[h])
    /\ \A a \in Live(artifacts) : Bounded(artifacts[a].plan)

\* Is, And and Or build finite plans from finite plans, and Prove keeps one.
LEMMA FinitePlansHold == Spec => []FinitePlans
<1>1. Init => FinitePlans
  BY DEF Init, FinitePlans, Live
<1>2. IInv /\ FinitePlans /\ [Next]_vars => FinitePlans'
  <2> SUFFICES ASSUME IInv, FinitePlans, [Next]_vars PROVE FinitePlans'
    OBVIOUS
  <2>1. DOMAIN proofs = Handles /\ DOMAIN artifacts = ArtifactIds
    BY DEF IInv, TypeOK
  <2>2. ASSUME NEW h \in Handles, NEW id \in CredentialIds,
               NEW c \in ClaimObjects, Is(h, id, c)
        PROVE  FinitePlans'
    <3> DEFINE plan == Direct(DirectPlan(credentials[id], c))
    <3>1. Bounded(plan)
      BY DirectIsBounded
    <3>2. proofs' = [proofs EXCEPT ![h] = plan] /\ artifacts' = artifacts
      BY <2>2 DEF Is
    <3> HIDE DEF plan
    <3>3. QED BY <2>1, <3>1, <3>2 DEF FinitePlans, Live
  <2>3. ASSUME NEW op \in {"and", "or"}, NEW h \in Handles, NEW other \in Handles,
               Compose(op, h, other)
        PROVE  FinitePlans'
    <3> DEFINE joined == Join(op, proofs[h], proofs[other])
    <3>1. /\ h \in Live(proofs) /\ other \in Live(proofs)
          /\ proofs' = [proofs EXCEPT ![h] = joined, ![other] = None]
      BY <2>1, <2>3 DEF Compose, Live
    <3>2. IsPlan(proofs[h]) /\ IsPlan(proofs[other])
      BY <3>1, LivePlansAreGood DEF GoodPlan, IsProof
    <3>3. Bounded(joined)
      BY <3>1, <3>2, JoinIsBounded DEF FinitePlans
    <3> HIDE DEF joined
    <3>4. ASSUME NEW x \in Live(proofs') PROVE Bounded(proofs'[x])
      BY <2>1, <3>1, <3>3 DEF FinitePlans, Live
    <3>5. artifacts' = artifacts
      BY <2>3 DEF Compose
    <3>6. QED BY <3>4, <3>5 DEF FinitePlans, Live
  <2>4. ASSUME NEW h \in Handles, Drop(h) PROVE FinitePlans'
    BY <2>1, <2>4 DEF Drop, FinitePlans, Live
  <2>5. ASSUME NEW a \in ArtifactIds, NEW b \in BackendIds, NEW h \in Handles,
               Prove(a, b, h)
        PROVE  FinitePlans'
    <3>1. h \in Live(proofs) /\ UNCHANGED proofs
      BY <2>1, <2>5 DEF Prove, Live
    <3>2. \/ artifacts' = artifacts
          \/ artifacts' = [artifacts EXCEPT ![a] = [key |-> b, plan |-> proofs[h]]]
      BY <2>5 DEF Prove
    <3>3. QED BY <2>1, <3>1, <3>2 DEF FinitePlans, Live
  <2>6. CASE UNCHANGED <<proofs, artifacts>>
    BY <2>6 DEF FinitePlans, Live
  <2>7. QED
    BY <2>2, <2>3, <2>4, <2>5, <2>6 DEF Next, And, Or, Issue, Setup, Verify, vars
<1>3. QED BY <1>1, <1>2, InvariantHolds, PTL DEF Spec

\* The circuit says what the caller composed: for every truth of the direct
\* proofs, the gates with their root enforced can be satisfied exactly when the
\* composition, read from its leaves up, is true.
THEOREM GatesAreFaithful == Spec => []GatesEvaluateThePlan
<1>1. IInv /\ FinitePlans => GatesEvaluateThePlan
  <2> SUFFICES ASSUME IInv, FinitePlans, NEW h \in Live(proofs),
                      NEW truth \in [DirectPositions(proofs[h]) -> BOOLEAN]
               PROVE  RootSatisfied(proofs[h], truth) <=> PlanValue(proofs[h], truth)
    BY DEF GatesEvaluateThePlan
  <2>1. IsPlan(proofs[h]) /\ Bounded(proofs[h])
    BY LivePlansAreGood DEF GoodPlan, IsProof, FinitePlans
  <2>2. QED BY <2>1, RootReadsThePlan
<1>2. QED BY <1>1, InvariantHolds, FinitePlansHold, PTL

\* One claim under two policy days whose cutoffs are supported: its boolean can
\* only become true, forwards if it is no AgeBelow, backwards if no AgeAbove.
LEMMA ClaimsCarryOver ==
    ASSUME NEW claim \in ClaimKinds, NEW c \in SignedCredentials,
           NEW day \in BirthDays, NEW other \in BirthDays,
           claim \in AgeClaims => /\ CutoffSupported(day, claim.years)
                                  /\ CutoffSupported(other, claim.years),
           \/ ~Before(other, day) /\ claim.kind # "AgeBelow"
           \/ ~Before(day, other) /\ claim.kind # "AgeAbove",
           ClaimWire(claim, c, day)
    PROVE  ClaimWire(claim, c, other)
<1>1. c.birthDay \in BirthDays
  BY CredentialFacts
<1>2. CASE claim \in AgeClaims
  <2>1. claim.kind \in {"AgeAbove", "AgeBelow"}
    BY <1>2 DEF AgeClaims
  <2>2. CASE ~Before(other, day) /\ claim.kind # "AgeBelow"
    BY <1>1, <1>2, <2>1, <2>2, AgesAdvance
  <2>3. CASE ~Before(day, other) /\ claim.kind # "AgeAbove"
    BY <1>1, <1>2, <2>1, <2>3, AgesAdvance
  <2>4. QED BY <2>2, <2>3
<1>3. CASE claim \notin AgeClaims
  <2>1. claim.kind \in {"CountryIsEu", "Custom", "Role"}
    BY <1>3 DEF ClaimKinds, CountryIsEu, Custom
  <2>2. QED BY <2>1 DEF ClaimWire
<1>4. QED BY <1>2, <1>3

\* Renewing a backend for another policy day turns no holder away.  The same
\* gates compare against cutoffs that only advance, under & and | only, so a
\* statement without AgeBelow stays provable on every later day and one
\* without AgeAbove on every earlier one (Groth16Backend::setup,
\* birthday_cutoff, Groth16Prover::prove).
THEOREM RenewalIsSafe == Spec => []RenewalTurnsNobodyAway
<1>1. IInv /\ FinitePlans => RenewalTurnsNobodyAway
  <2> SUFFICES ASSUME IInv, FinitePlans,
                      NEW a \in Live(artifacts), NEW b \in Live(backends),
                      backends[artifacts[a].key].template = backends[b].template,
                      \/ /\ ~Before(backends[b].policy,
                                    backends[artifacts[a].key].policy)
                         /\ Without("AgeBelow", backends[b].template)
                      \/ /\ ~Before(backends[artifacts[a].key].policy,
                                    backends[b].policy)
                         /\ Without("AgeAbove", backends[b].template)
               PROVE  \E reads \in Readings(artifacts[a].plan) :
                         ProveAnswers(backends[b], artifacts[a].plan, reads) = {"Ok"}
    BY DEF RenewalTurnsNobodyAway
  <2> DEFINE plan  == artifacts[a].plan
             made  == artifacts[a].key
             t     == backends[b].template
             day   == backends[made].policy
             other == backends[b].policy
             fewer == [p \in DirectPositions(t) |->
                          ClaimWire(t[p].claim, plan[p].evidence, day)]
             more  == [p \in DirectPositions(t) |->
                          ClaimWire(t[p].claim, plan[p].evidence, other)]
  <2>1. /\ made \in Live(backends) /\ IsProof(plan) /\ IsTemplate(t)
        /\ day \in BirthDays /\ other \in BirthDays
        /\ IsSatisfied(t, plan, day)
    BY BackendAssumption DEF IInv, TypeOK, EarnedArtifacts, Live
  <2>2. PICK reads \in Readings(plan) : Accepts(t, plan, reads)
    BY DEF IInv, EarnedArtifacts
  <2>3. \A p \in DirectPositions(t) : /\ RelationOutcome(t, day)[p] = "Ok"
                                     /\ RelationOutcome(t, other)[p] = "Ok"
    BY <2>1 DEF IInv, BackendsAreSynthesizable
  <2>4. DOMAIN t = DOMAIN plan /\ IsPlan(t) /\ Bounded(t)
    BY <2>1, <2>2 DEF Accepts, IsTemplate, FinitePlans, Bounded
  <2>5. \/ ~Before(other, day) /\ Without("AgeBelow", t)
        \/ ~Before(day, other) /\ Without("AgeAbove", t)
    OBVIOUS
  <2>6. WalkOutcomes(t, RelationOutcome(t, other), "Ok") = {"Ok"}
    BY <2>3 DEF WalkOutcomes
  <2>7. ProveAnswers(backends[b], plan, reads)
           = {IF IsSatisfied(t, plan, other) THEN "Ok" ELSE "Unprovable"}
    BY <2>2, <2>6 DEF ProveAnswers
  <2> HIDE DEF plan, made, t, day, other
  <2>8. ASSUME NEW p \in DirectPositions(t), fewer[p] PROVE more[p]
    <3>1. p \in DirectPositions(plan) /\ plan[p].evidence \in SignedCredentials
      <4>1. p \in DirectPositions(plan)
        BY <2>2 DEF Accepts, DirectPositions
      <4>2. QED BY <2>1, <4>1, DirectPlanFacts DEF IsProof
    <3>2. t[p].claim \in ClaimKinds
      BY <2>1 DEF IsTemplate, DirectPositions, TemplateNodes
    <3>3. t[p].claim \in AgeClaims => /\ CutoffSupported(day, t[p].claim.years)
                                      /\ CutoffSupported(other, t[p].claim.years)
      BY <2>3 DEF RelationOutcome
    <3>4. \/ ~Before(other, day) /\ t[p].claim.kind # "AgeBelow"
          \/ ~Before(day, other) /\ t[p].claim.kind # "AgeAbove"
      BY <2>5 DEF Without
    <3>5. ClaimWire(t[p].claim, plan[p].evidence, day)
      BY <2>8
    <3>6. ClaimWire(t[p].claim, plan[p].evidence, other)
      BY <2>1, <3>1, <3>2, <3>3, <3>4, <3>5, ClaimsCarryOver
    <3>7. QED BY <3>6
  <2>9. RootSatisfied(t, fewer)
    BY <2>1 DEF IsSatisfied
  <2>10. more \in [DirectPositions(t) -> BOOLEAN]
    <3>1. \A p \in DirectPositions(t) :
             ClaimWire(t[p].claim, plan[p].evidence, other) \in BOOLEAN
      BY DEF ClaimWire
    <3>2. QED BY <3>1
  <2> HIDE DEF fewer, more
  <2>11. RootSatisfied(t, more)
    BY <2>4, <2>8, <2>9, <2>10, StatementsAreMonotone
  <2>12. IsSatisfied(t, plan, other)
    BY <2>1, <2>11 DEF IsSatisfied, more
  <2>13. QED BY <2>7, <2>12 DEF plan
<1>2. QED BY <1>1, InvariantHolds, FinitePlansHold, PTL

----------------------------------------------------------------------------
(* Groth16Backend implements AttestedStatements: each call is what the     *)
(* abstract library promises, or a stutter of it.                          *)

\* The abstract module reads trees and claims exactly as the backend does.
LEMMA SameTrees ==
    ASSUME NEW t, NEW wire
    PROVE  /\ Promise!IsPlan(t) <=> IsPlan(t)
           /\ Promise!DirectPositions(t) = DirectPositions(t)
           /\ Promise!RootSatisfied(t, wire) <=> RootSatisfied(t, wire)
<1> USE DEF Promise!Root, Root, Promise!Left, Left, Promise!Right, Right,
            Promise!Sides, Sides
<1>1. Promise!IsPlan(t) <=> IsPlan(t)
  BY DEF Promise!IsPlan, IsPlan
<1>2. Promise!DirectPositions(t) = DirectPositions(t)
  BY DEF Promise!DirectPositions, DirectPositions
<1>3. Promise!GateAssignments(t, wire) = GateAssignments(t, wire)
  BY DEF Promise!GateAssignments, GateAssignments
<1>4. QED BY <1>1, <1>2, <1>3 DEF Promise!RootSatisfied, RootSatisfied

\* So it reads claims.
LEMMA SameClaims ==
    /\ Promise!ClaimKinds = ClaimKinds /\ Promise!AgeClaims = AgeClaims
    /\ Promise!Custom = Custom
    /\ \A claim, a, asOf :
          Promise!ClaimHolds(claim, a, asOf) = ClaimHolds(claim, a, asOf)
<1>1. /\ Promise!ClaimKinds = ClaimKinds /\ Promise!AgeClaims = AgeClaims
      /\ Promise!Custom = Custom
  BY DEF Promise!ClaimKinds, ClaimKinds, Promise!AgeClaims, AgeClaims,
         Promise!Custom, Custom, Promise!CountryIsEu, CountryIsEu,
         Promise!Roles, Roles, Promise!Years, Years
<1>2. \A claim, a, asOf :
         Promise!ClaimHolds(claim, a, asOf) = ClaimHolds(claim, a, asOf)
  BY DEF Promise!ClaimHolds, ClaimHolds, Promise!AgeOn, AgeOn,
         Promise!EvaluationDay, EvaluationDay, Promise!Date, Date,
         Promise!Before, Before, Promise!EUCountries, EUCountries
<1>3. QED BY <1>1, <1>2

\* At first nothing is attested, offered, certified or answered.
LEMMA InitMaps == Init => Promise!Init
<1> SUFFICES ASSUME Init PROVE Promise!Init
  OBVIOUS
<1>1. Issued = {}
  BY DEF Init, Issued
<1>2. QED
  BY <1>1 DEF Init, NoReply, Promise!Init, Promise!NoOffer, Promise!NoCertificate,
              Promise!NoAnswer, Facts, Offers, Certificates, Checked

\* What the slots hold decides the abstract state.
LEMMA Unseen ==
    /\ (\A id \in CredentialIds : credentials'[id] = credentials[id])
          => Facts' = Facts
    /\ (\A b \in BackendIds : backends'[b] = backends[b]) => Offers' = Offers
    /\ (\A a \in ArtifactIds : artifacts'[a] = artifacts[a])
          => Certificates' = Certificates
    /\ reply'.call # "verify" => Checked' = Promise!NoAnswer
BY DEF Facts, Issued, Offers, Certificates, Checked, Promise!NoAnswer

\* A step that leaves every slot of a credential, backend or artifact as it
\* was, and answers no verification, is a call the abstract library ignores.
LEMMA OtherMaps ==
    ASSUME \A id \in CredentialIds : credentials'[id] = credentials[id],
           \A b \in BackendIds : backends'[b] = backends[b],
           \A a \in ArtifactIds : artifacts'[a] = artifacts[a],
           reply'.call # "verify"
    PROVE  Promise!Next
BY Unseen DEF Promise!Next, Promise!Other

\* Issuing a credential attests the values in it.
LEMMA IssueMaps ==
    ASSUME IInv, NEW id \in CredentialIds, NEW i \in Issuers, NEW a \in Profiles,
           Issue(id, i, a)
    PROVE  Promise!Next
<1> DEFINE new == IssueCredential(i, a, id)
<1>1. /\ credentials[id] = None /\ credentials'[id] = new
      /\ \A x \in CredentialIds : x # id => credentials'[x] = credentials[x]
      /\ UNCHANGED <<backends, artifacts>> /\ reply'.call # "verify"
  BY DEF Issue, NoReply, IInv, TypeOK
<1>2. Fact(new) = [issuer |-> i, values |-> PrivateValues(a)]
  BY DEF Fact, IssueCredential, PrivateValues
<1> HIDE DEF new
<1>3. CASE new = None
  BY <1>1, <1>3, OtherMaps
<1>4. CASE new # None
  <2>1. Issued' = Issued \cup {new}
    BY <1>1, <1>4 DEF Issued
  <2>2. Facts' = Facts \cup {Fact(new)}
    BY <2>1 DEF Facts, Fact
  <2>3. Promise!Attest(i, PrivateValues(a))
    BY <1>1, <1>2, <2>2, Unseen DEF Promise!Attest
  <2>4. QED BY <2>3 DEF Promise!Next
<1>5. QED BY <1>3, <1>4

\* A template that synthesizes is a meaningful statement.
LEMMA TemplatesAreStatements ==
    ASSUME NEW t, IsTemplate(t), NEW asOf \in BirthDays,
           \A p \in DirectPositions(t) : RelationOutcome(t, asOf)[p] = "Ok"
    PROVE  Promise!IsStatement(t) /\ Promise!Meaningful(t, asOf)
<1>1. ASSUME NEW p \in DirectPositions(t)
      PROVE  /\ t[p].issuer \in Issuers /\ t[p].claim \in ClaimKinds
             /\ t[p].claim # Custom
             /\ t[p].claim \in AgeClaims =>
                   asOf.year - t[p].claim.years >= Promise!FirstSupportedYear
  <2>1. t[p].issuer \in Issuers /\ t[p].claim \in ClaimKinds
    BY DEF IsTemplate, DirectPositions, TemplateNodes
  <2>2. /\ t[p].claim # Custom
        /\ t[p].claim \in AgeClaims => CutoffSupported(asOf, t[p].claim.years)
    BY DEF RelationOutcome
  <2>3. ASSUME NEW years \in Years, CutoffSupported(asOf, years)
        PROVE  asOf.year - years >= Promise!FirstSupportedYear
    <3>1. asOf.year - years \in SupportedYears
      BY <2>3 DEF CutoffSupported, BirthdayCutoff, Date, BirthDays
    <3>2. QED BY <3>1 DEF SupportedYears, LastSupportedYear, FirstSupportedYear,
                          Promise!FirstSupportedYear
  <2>4. t[p].claim \in AgeClaims => t[p].claim.years \in Years
    BY DEF AgeClaims
  <2>5. QED BY <2>1, <2>2, <2>3, <2>4
<1>2. IsPlan(t)
  BY DEF IsTemplate
<1>3. QED
  BY <1>1, <1>2, SameTrees, SameClaims DEF Promise!IsStatement, Promise!Meaningful

\* A successful setup offers the statement of its template; a failed one does
\* nothing.
LEMMA SetupMaps ==
    ASSUME IInv, IInv', NEW b \in BackendIds, NEW h \in Handles,
           NEW asOf \in PolicyDays, Setup(b, h, asOf)
    PROVE  Promise!Next
<1>1. /\ backends[b] = None /\ DOMAIN backends = BackendIds
      /\ UNCHANGED <<credentials, artifacts>> /\ reply'.call # "verify"
  BY DEF Setup, IInv, TypeOK
<1>2. PICK second \in Readings(proofs[h]) :
         \/ backends' = backends
         \/ backends' = [backends EXCEPT ![b] =
                            [policy |-> asOf, template |-> Compile(proofs[h], second)]]
  BY DEF Setup
<1> DEFINE t    == Compile(proofs[h], second)
           made == [policy |-> asOf, template |-> t]
<1> HIDE DEF t
<1>3. CASE backends' = backends
  BY <1>1, <1>3, OtherMaps
<1>4. CASE backends' = [backends EXCEPT ![b] = made]
  <2>1. /\ backends'[b] = made
        /\ \A x \in BackendIds : x # b => backends'[x] = backends[x]
    BY <1>1, <1>4
  <2>2. CASE made = None
    BY <1>1, <2>1, <2>2, OtherMaps
  <2>3. CASE made # None
    <3>1. /\ IsTemplate(t) /\ asOf \in BirthDays
          /\ \A p \in DirectPositions(t) : RelationOutcome(t, asOf)[p] = "Ok"
      <4>1. DOMAIN backends' = BackendIds
        BY DEF IInv, TypeOK
      <4>2. b \in Live(backends') /\ backends'[b].template = t /\ backends'[b].policy = asOf
        BY <2>1, <2>3, <4>1 DEF Live
      <4>3. QED BY <4>2, BackendAssumption DEF IInv, TypeOK, BackendsAreSynthesizable
    <3>2. Promise!IsStatement(t) /\ Promise!Meaningful(t, asOf)
      BY <3>1, TemplatesAreStatements
    <3>3. Offers' = [Offers EXCEPT ![b] = Promise!Offered(t, asOf)]
      <4>1. Offers'[b] = Promise!Offered(t, asOf)
        <5>1. /\ backends'[b] # None
              /\ backends'[b].template = t /\ backends'[b].policy = asOf
          BY <2>1, <2>3
        <5>2. QED BY <5>1 DEF Offers, Promise!Offered
      <4>2. \A x \in BackendIds : x # b => Offers'[x] = Offers[x]
        BY <2>1 DEF Offers
      <4>3. /\ Offers' = [x \in BackendIds |-> Offers'[x]]
            /\ Offers = [x \in BackendIds |-> Offers[x]]
        BY DEF Offers
      <4>4. QED BY <4>1, <4>2, <4>3
    <3>4. ~Offers[b].offered
      BY <1>1 DEF Offers
    <3>5. /\ Offers'[b] = Promise!Offered(t, asOf) /\ Promise!Offered(t, asOf).offered
          /\ Promise!Offered(t, asOf).statement = t /\ Promise!Offered(t, asOf).day = asOf
      BY <3>3 DEF Offers, Promise!Offered
    <3>6. Facts' = Facts /\ Certificates' = Certificates /\ Checked' = Promise!NoAnswer
      BY <1>1, Unseen
    <3>7. Promise!Offer(b)
      BY <3>2, <3>3, <3>4, <3>5, <3>6 DEF Promise!Offer
    <3>8. QED BY <3>7 DEF Promise!Next
  <2>4. QED BY <2>2, <2>3
<1>5. QED BY <1>2, <1>3, <1>4 DEF t

\* The witnesses of a proof whose circuit is satisfied are attested facts for
\* which the statement holds.
LEMMA WitnessesExist ==
    ASSUME IInv, NEW b \in Live(backends), NEW plan, GoodPlan(plan),
           NEW reads \in Readings(plan),
           Accepts(backends[b].template, plan, reads),
           IsSatisfied(backends[b].template, plan, backends[b].policy)
    PROVE  \E w \in Promise!Witnesses(backends[b].template) :
              Promise!Holds(backends[b].template, w, backends[b].policy)
<1> DEFINE t    == backends[b].template
           asOf == backends[b].policy
           w    == [p \in DirectPositions(t) |-> Fact(plan[p].evidence)]
<1>1. /\ IsTemplate(t) /\ asOf \in BirthDays
      /\ \A p \in DirectPositions(t) : RelationOutcome(t, asOf)[p] = "Ok"
  BY BackendAssumption DEF IInv, TypeOK, BackendsAreSynthesizable
<1> HIDE DEF t, asOf
<1>2. ASSUME NEW p \in DirectPositions(t)
      PROVE  /\ plan[p].evidence \in SignedCredentials
             /\ plan[p].evidence \in Issued
             /\ plan[p].evidence.issuer = t[p].issuer
  <2>1. p \in DirectPositions(plan) /\ plan[p].evidence.issuer = t[p].issuer
    BY DEF t, Accepts, DirectPositions
  <2>2. QED BY <2>1, DirectPlanFacts DEF GoodPlan, IsProof
<1>3. StatementHolds(t, plan, asOf)
  BY <1>1, <1>2, RootMeansStatement DEF IsSatisfied, t, asOf
<1>4. w \in Promise!Witnesses(t)
  <2>1. \A p \in DirectPositions(t) :
           w[p] \in Facts /\ w[p].issuer = t[p].issuer
    BY <1>2 DEF Fact, Facts
  <2>2. w \in [DirectPositions(t) -> Facts]
    BY <2>1
  <2>3. QED BY <2>1, <2>2, SameTrees DEF Promise!Witnesses
<1>5. ASSUME NEW p \in DirectPositions(t)
      PROVE  ClaimHolds(t[p].claim, w[p].values, asOf)
                = ClaimHolds(t[p].claim, plan[p].evidence, asOf)
  BY DEF Fact, PrivateValues, ClaimHolds
<1>6. RootSatisfied(t, [p \in DirectPositions(t) |->
                           ClaimHolds(t[p].claim, w[p].values, asOf)])
  BY <1>3, <1>5, SameWires DEF StatementHolds
<1>7. Promise!Holds(t, w, asOf)
  BY <1>6, SameTrees, SameClaims DEF Promise!Holds
<1>8. QED BY <1>4, <1>7 DEF t, asOf

\* A successful proof certifies the statement of its backend.
LEMMA ProveMaps ==
    ASSUME IInv, NEW a \in ArtifactIds, NEW b \in BackendIds, NEW h \in Handles,
           Prove(a, b, h)
    PROVE  Promise!Next
<1>1. /\ artifacts[a] = None /\ DOMAIN artifacts = ArtifactIds
      /\ b \in Live(backends) /\ h \in Live(proofs)
      /\ UNCHANGED <<credentials, backends>> /\ reply'.call # "verify"
  BY DEF Prove, Live, IInv, TypeOK
<1> DEFINE made == [key |-> b, plan |-> proofs[h]]
<1>2. PICK reads \in Readings(proofs[h]) :
         \/ artifacts' = artifacts
         \/ /\ artifacts' = [artifacts EXCEPT ![a] = made]
            /\ "Ok" \in ProveAnswers(backends[b], proofs[h], reads)
  BY DEF Prove
<1>3. CASE artifacts' = artifacts
  BY <1>1, <1>3, OtherMaps
<1>4. CASE /\ artifacts' = [artifacts EXCEPT ![a] = made]
           /\ "Ok" \in ProveAnswers(backends[b], proofs[h], reads)
  <2>1. /\ artifacts'[a] = made
        /\ \A x \in ArtifactIds : x # a => artifacts'[x] = artifacts[x]
    BY <1>1, <1>4
  <2>2. CASE made = None
    BY <1>1, <2>1, <2>2, OtherMaps
  <2>3. CASE made # None
    <3>1. /\ Accepts(backends[b].template, proofs[h], reads)
          /\ IsSatisfied(backends[b].template, proofs[h], backends[b].policy)
      BY <1>4 DEF ProveAnswers
    <3>2. \E w \in Promise!Witnesses(backends[b].template) :
             Promise!Holds(backends[b].template, w, backends[b].policy)
      BY <1>1, <3>1, LivePlansAreGood, WitnessesExist
    <3>3. /\ Offers[b].offered /\ Offers[b].statement = backends[b].template
          /\ Offers[b].day = backends[b].policy
      BY <1>1 DEF Offers, Live
    <3>4. /\ ~Certificates[a].made
          /\ Certificates' = [Certificates EXCEPT ![a] = Promise!CertificateFor(b)]
      <4>1. ~Certificates[a].made /\ Certificates'[a] = Promise!CertificateFor(b)
        <5>1. artifacts'[a] # None /\ artifacts'[a].key = b
          BY <2>1, <2>3
        <5>2. QED BY <1>1, <5>1 DEF Certificates, Promise!CertificateFor
      <4>2. \A x \in ArtifactIds : x # a => Certificates'[x] = Certificates[x]
        BY <2>1 DEF Certificates
      <4>3. /\ Certificates' = [x \in ArtifactIds |-> Certificates'[x]]
            /\ Certificates = [x \in ArtifactIds |-> Certificates[x]]
        BY DEF Certificates
      <4>4. QED BY <4>1, <4>2, <4>3
    <3>5. Facts' = Facts /\ Offers' = Offers /\ Checked' = Promise!NoAnswer
      BY <1>1, Unseen
    <3>6. Promise!Certify(a, b)
      BY <3>2, <3>3, <3>4, <3>5 DEF Promise!Certify
    <3>7. QED BY <3>6 DEF Promise!Next
  <2>4. QED BY <2>2, <2>3
<1>5. QED BY <1>2, <1>3, <1>4

\* Verification checks the certificate: bytes that are the artifact's or those
\* of another proof made from it, or begin with them, arrive intact.
LEMMA VerifyMaps ==
    ASSUME IInv, NEW b \in BackendIds, NEW a \in ArtifactIds,
           NEW bytes \in Deliveries, Verify(b, a, bytes)
    PROVE  Promise!Next
<1>1. /\ backends[b] # None /\ artifacts[a] # None
      /\ UNCHANGED <<credentials, backends, artifacts>>
  BY DEF Verify
<1>2. PICK result \in VerifyAnswers(b, artifacts[a], bytes) :
         reply' = [call |-> "verify", backend |-> b, artifact |-> a,
                   bytes |-> bytes, result |-> result]
  BY DEF Verify
<1> DEFINE intact   == bytes \in {"canonical", "rewritten", "extended"}
           accepted == result = "Accepted"
<1>3. /\ accepted => artifacts[a].key = b
      /\ intact => accepted = (artifacts[a].key = b)
  BY DEF VerifyAnswers, Deliveries
<1>4. Checked' = Promise!Answer(b, a, accepted)
  BY <1>2 DEF Checked, Promise!Answer
<1>5. Facts' = Facts /\ Offers' = Offers /\ Certificates' = Certificates
  BY <1>1, Unseen
<1>6. /\ Offers[b].offered /\ Certificates[a].made
      /\ Certificates[a].service = artifacts[a].key
  BY <1>1 DEF Offers, Certificates
<1>7. intact \in BOOLEAN /\ accepted \in BOOLEAN
  OBVIOUS
<1> HIDE DEF intact, accepted
<1>8. Promise!Check(b, a)
  BY <1>3, <1>4, <1>5, <1>6, <1>7 DEF Promise!Check
<1>9. QED BY <1>8 DEF Promise!Next

\* Every step of the backend is a step of the abstract library or a stutter.
LEMMA NextMaps ==
    ASSUME IInv, IInv', [Next]_vars
    PROVE  [Promise!Next]_(Promise!vars)
<1>1. ASSUME NEW id \in CredentialIds, NEW i \in Issuers, NEW a \in Profiles,
             Issue(id, i, a)
      PROVE  Promise!Next
  BY <1>1, IssueMaps
<1>2. CASE /\ reply' = NoReply
           /\ UNCHANGED <<credentials, backends, artifacts>>
  BY <1>2, OtherMaps DEF NoReply
<1>3. ASSUME NEW b \in BackendIds, NEW h \in Handles, NEW d \in PolicyDays,
             Setup(b, h, d)
      PROVE  Promise!Next
  BY <1>3, SetupMaps
<1>4. ASSUME NEW a \in ArtifactIds, NEW b \in BackendIds, NEW h \in Handles,
             Prove(a, b, h)
      PROVE  Promise!Next
  BY <1>4, ProveMaps
<1>5. ASSUME NEW b \in BackendIds, NEW a \in ArtifactIds, NEW bytes \in Deliveries,
             Verify(b, a, bytes)
      PROVE  Promise!Next
  BY <1>5, VerifyMaps
<1>6. CASE UNCHANGED vars
  BY <1>6 DEF vars, Promise!vars, Facts, Issued, Offers, Certificates, Checked
<1>7. QED
  BY <1>1, <1>2, <1>3, <1>4, <1>5, <1>6 DEF Next, Is, And, Or, Compose, Drop

\* The backend keeps the promise of attested statements: whatever is issued,
\* composed, set up, proved and shown to whom, callers see only answers the
\* abstract library could have given.
THEOREM PromiseKept == Spec => KeepsThePromise
<1>1. Init => Promise!Init
  BY InitMaps
<1>2. IInv /\ IInv' /\ [Next]_vars => [Promise!Next]_(Promise!vars)
  BY NextMaps
<1>3. QED BY <1>1, <1>2, InvariantHolds, PTL DEF Spec, KeepsThePromise, Promise!Spec

----------------------------------------------------------------------------
(* What the abstract library is worth to its users.                        *)

\* Every certificate is for a service that offers a true statement, and every
\* accepting answer was given by one.
CertificatesAreTrue ==
    \A b :
       /\ \A a \in ArtifactIds :
             Certificates[a].made /\ Certificates[a].service = b
                => b \in BackendIds /\ Promise!OfferIsTrue(b)
       /\ Checked.checked /\ Checked.accepted /\ Checked.service = b
             => b \in BackendIds /\ Promise!OfferIsTrue(b)

\* What was true of some facts is true of more of them, and no step of the
\* abstract library takes back a fact or changes an offer.
LEMMA TruthIsKept ==
    ASSUME [Promise!Next]_(Promise!vars), NEW b \in BackendIds, Promise!OfferIsTrue(b)
    PROVE  Promise!OfferIsTrue(b)'
<1>1. PICK w \in Promise!Witnesses(Offers[b].statement) :
         Promise!Holds(Offers[b].statement, w, Offers[b].day)
  BY DEF Promise!OfferIsTrue
<1>2. Facts \subseteq Facts'
  BY DEF Promise!Next, Promise!vars, Promise!Attest, Promise!Offer,
         Promise!Certify, Promise!Check, Promise!Other
<1>3. Offers'[b] = Offers[b]
  <2>1. ASSUME NEW x \in BackendIds, Promise!Offer(x) PROVE Offers'[b] = Offers[b]
    <3>1. x # b
      BY <2>1 DEF Promise!Offer, Promise!OfferIsTrue
    <3>2. \E o : Offers' = [Offers EXCEPT ![x] = o]
      BY <2>1 DEF Promise!Offer
    <3>3. DOMAIN Offers = BackendIds
      BY DEF Offers
    <3>4. QED BY <3>1, <3>2, <3>3
  <2>2. ASSUME Offers' = Offers PROVE Offers'[b] = Offers[b]
    BY <2>2
  <2>3. QED
    BY <2>1, <2>2 DEF Promise!Next, Promise!vars, Promise!Attest,
                      Promise!Certify, Promise!Check, Promise!Other
<1>4. w \in Promise!Witnesses(Offers[b].statement)'
  BY <1>1, <1>2, <1>3 DEF Promise!Witnesses
<1>5. Promise!Holds(Offers[b].statement, w, Offers[b].day)'
  BY <1>1, <1>3
<1>6. Offers'[b].offered
  BY <1>3 DEF Promise!OfferIsTrue
<1>7. QED BY <1>4, <1>5, <1>6 DEF Promise!OfferIsTrue

\* The abstract library keeps its certificates and its answers true.
LEMMA CertificatesStayTrue ==
    ASSUME CertificatesAreTrue, [Promise!Next]_(Promise!vars)
    PROVE  CertificatesAreTrue'
<1> SUFFICES ASSUME NEW b
             PROVE  /\ \A a \in ArtifactIds :
                          Certificates'[a].made /\ Certificates'[a].service = b
                             => b \in BackendIds /\ Promise!OfferIsTrue(b)'
                    /\ Checked'.checked /\ Checked'.accepted /\ Checked'.service = b
                          => b \in BackendIds /\ Promise!OfferIsTrue(b)'
  BY DEF CertificatesAreTrue
<1>1. DOMAIN Certificates = ArtifactIds
  BY DEF Certificates
<1>2. b \in BackendIds /\ Promise!OfferIsTrue(b) => Promise!OfferIsTrue(b)'
  BY TruthIsKept
<1>3. ASSUME NEW a \in ArtifactIds, Certificates'[a].made, Certificates'[a].service = b
      PROVE  b \in BackendIds /\ Promise!OfferIsTrue(b)'
  <2>1. CASE Certificates'[a] = Certificates[a]
    BY <1>2, <1>3, <2>1 DEF CertificatesAreTrue
  <2>2. ASSUME NEW x \in ArtifactIds, NEW y \in BackendIds, Promise!Certify(x, y)
        PROVE  b \in BackendIds /\ Promise!OfferIsTrue(b)'
    <3>1. Certificates' = [Certificates EXCEPT ![x] = Promise!CertificateFor(y)]
      BY <2>2 DEF Promise!Certify
    <3>2. CASE x = a
      <4>1. b = y
        BY <1>1, <1>3, <3>1, <3>2 DEF Promise!CertificateFor
      <4>2. Promise!OfferIsTrue(y)
        BY <2>2 DEF Promise!Certify, Promise!OfferIsTrue
      <4>3. QED BY <1>2, <4>1, <4>2
    <3>3. CASE x # a
      BY <1>1, <2>1, <3>1, <3>3
    <3>4. QED BY <3>2, <3>3
  <2>3. ASSUME Certificates' = Certificates
        PROVE  b \in BackendIds /\ Promise!OfferIsTrue(b)'
    BY <2>1, <2>3
  <2>4. QED
    BY <2>2, <2>3 DEF Promise!Next, Promise!vars, Promise!Attest,
                      Promise!Offer, Promise!Check, Promise!Other
<1>4. ASSUME Checked'.checked, Checked'.accepted, Checked'.service = b
      PROVE  b \in BackendIds /\ Promise!OfferIsTrue(b)'
  <2>1. ASSUME NEW x \in BackendIds, NEW a \in ArtifactIds, Promise!Check(x, a)
        PROVE  b \in BackendIds /\ Promise!OfferIsTrue(b)'
    <3>1. PICK intact \in BOOLEAN, accepted \in BOOLEAN :
             /\ accepted => Certificates[a].service = x
             /\ Checked' = Promise!Answer(x, a, accepted)
      BY <2>1 DEF Promise!Check
    <3>2. Certificates[a].made /\ Certificates[a].service = b
      BY <1>4, <2>1, <3>1 DEF Promise!Check, Promise!Answer
    <3>3. QED BY <1>2, <3>2 DEF CertificatesAreTrue
  <2>2. ASSUME Checked' = Promise!NoAnswer PROVE FALSE
    BY <1>4, <2>2 DEF Promise!NoAnswer
  <2>3. ASSUME Checked' = Checked
        PROVE  b \in BackendIds /\ Promise!OfferIsTrue(b)'
    BY <1>2, <1>4, <2>3 DEF CertificatesAreTrue
  <2>4. QED
    BY <2>1, <2>2, <2>3 DEF Promise!Next, Promise!vars, Promise!Attest,
                           Promise!Offer, Promise!Certify, Promise!Other
<1>5. QED BY <1>3, <1>4

\* The promise is worth keeping: any library that behaves as the abstract one
\* lets a service accept only while the statement it offers is true of facts
\* attested so far.
THEOREM PromiseMeansTruth == Promise!Spec => []Promise!AcceptedIsTrue
<1>1. Promise!Init => CertificatesAreTrue
  BY DEF Promise!Init, Promise!NoCertificate, Promise!NoAnswer, CertificatesAreTrue
<1>2. CertificatesAreTrue /\ [Promise!Next]_(Promise!vars) => CertificatesAreTrue'
  BY CertificatesStayTrue
<1>3. CertificatesAreTrue => Promise!AcceptedIsTrue
  BY DEF CertificatesAreTrue, Promise!AcceptedIsTrue
<1>4. QED BY <1>1, <1>2, <1>3, PTL DEF Promise!Spec

\* The backend's users may rely on it, knowing nothing of keys and circuits.
THEOREM AcceptanceMeansTruth == Spec => []Promise!AcceptedIsTrue
BY PromiseKept, PromiseMeansTruth, PTL DEF KeepsThePromise
=============================================================================
