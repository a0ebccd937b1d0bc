# A verification development of zcaprio

zcaprio (`src/crates/zkp-primitives`) is a Rust library of issuer-signed
credentials and composable Groth16 proofs about them. An issuer signs
commitments to a holder's birth day, country and role; the holder turns the
credential into a lazy `Proof` of a claim, composes proofs with `and` and `or`,
and proves the composition once; a verifier, who set up the Groth16 backend for
that very statement, checks one opaque artifact.

This directory holds TLA+ modules for the library, the TLC configurations that
check them, and proofs for the TLA+ proof system of the properties that matter
most. Source paths below are relative to `src/crates/zkp-primitives/src/`.

## The system

| Component | State it keeps | Operations | Correct when |
| --- | --- | --- | --- |
| Dates, `age.rs` | none | parse, count days since 1900 (by chrono) | comparing counts is comparing dates |
| Claims, `claim.rs` | none (foreign claim objects may keep some) | `kind` | the circuit's boolean means what the claim says |
| Age policy, `policy.rs` | as-of day, cutoff | derive, decode | a decoded policy admits exactly those who are 18 |
| Commitments, `commitment.rs` | Poseidon parameters, once | commit, open, nullifier | a digest has one purpose and one opening |
| Scopes, fingerprints, `policy.rs` | none | validate, trim, pack into a field element | one element per scope |
| Issuer, `issuer.rs` | key pair; Schnorr parameters, once per process | generate, issue, verify, (de)serialize | only the issuer's own messages verify, in every process; issuing returns |
| Encodings, `encoding.rs` | none | hexadecimal, canonical bytes, parse | one text per value |
| Credentials, `credential.rs` | private values, issuer key, signed part | issue, hash, `is` | the private values open what was signed |
| Lazy proofs, `proof.rs` | a tree of owned nodes | `and`, `or`, plan, prove | the plan is the composition the caller wrote |
| Backend, `groth16.rs`, `verification.rs` | policy day, template, key pair | setup, prove, verify | sound and complete for the statement it was set up for |
| Template and circuit, `groth16/template.rs`, `groth16/circuit.rs` | a tree of issuers and claims | compile, accept, synthesize | accepts the same statement about any holder, nothing else |
| Gadgets, `groth16/commitment.rs`, `groth16/signature.rs` | witness variables | enforce | agree with the native commitments, signatures and dates |

The parts call each other synchronously: `Proof::prove` hands the plan to a
`Prover`, the artifact's `verify` hands its bytes to a `Verifier`. Threads meet
only where fixed parameters are initialised on first use: by the generation of a
key pair, by a verification or by the synthesis of a circuit, never inside
`issue`, whose key pair cannot exist before them. Processes share nothing but the
seed of that initialisation. What makes the code
hard to test is mostly *sequences*: proofs are moved, backends outlive the proofs
they were set up from and are used by other holders, artifacts travel to verifiers
they were not made for, and claim objects are foreign code called several times. Besides there are the numeric edges: leap days, thresholds,
the ends of the calendar, digests that are no scalars; the texts and documents in
which keys, signatures and credentials travel, which may arrive respelled or put
together from several; and one loop that ends only by chance.

## Modules

| Module | Models |
| --- | --- |
| `Calendar` | supported dates as civil fields, leap years, `days_since_1900` |
| `Claims` | claim kinds, the cutoff, the circuit's boolean (`ClaimWire`), the meaning in completed years (`ClaimHolds`) |
| `AgePolicy` | the 18-year policy and its checked decoding, followed day by day |
| `ProofPlan` | proof recipes as trees, `Join` for `and`/`or`, the gates they compile to, walks that stop at the first failure |
| `Credentials` | commitments, signatures and credentials, with ideal cryptography |
| `Groth16Circuit` | templates: compilation, acceptance, synthesis outcomes, satisfaction |
| `Groth16Backend` | the callers: every public operation that changes state as an action, with every answer it can give |
| `AttestedStatements` | abstract: what the library promises, without credentials, recipes, circuits or cryptography |
| `Groth16Refinement` | the mapping under which `Groth16Backend` implements `AttestedStatements` |
| `Schnorr` | the signature's arithmetic in a group of any order, the native verifier and the circuit's constraints |
| `SchnorrIssuer` | threads of several processes: parameters made on first use, key generation, `issue` with its draws and retries, verification |
| `SigningService` | abstract: a service that signs atomically, in one step between call and return |
| `SchnorrRefinement` | the mapping under which `SchnorrIssuer` implements `SigningService` |
| `CredentialWire` | an `AgeCredential` from issuing to verifying: its document, what may be changed in it, decoding, `verify` |
| `CredentialRegister` | abstract: a public register in which credentials are entered and looked up |
| `CredentialRefinement` | the mapping under which `CredentialWire` implements `CredentialRegister` |
| `Encoding` | texts of elements, signatures and keys, down to bytes and digits |
| `WireTexts` | such a text, edited before it is read |
| `Commitments` | the inputs of commitments and nullifiers, the sponge's blocks, scopes and their packing |
| `Publications` | holders who publish digests, and others who try openings on them |
| `MCAgePolicy`, `MCGroth16Backend`, `MCSchnorrIssuer`, `MCCredentialWire`, `MCPublications` | instances for TLC |
| `StatementProofs`, `AgePolicyProofs`, `Groth16BackendProofs`, `SchnorrProofs`, `CredentialWireProofs`, `EncodingProofs`, `WireTextProofs`, `PublicationProofs` | theorems |

How the models fit together. `Groth16Backend` composes dates, claims,
credentials, plans and templates and takes the cryptography as ideal. Three
groups of modules look below that: `SchnorrIssuer` shows that signatures made by
the loop of `issue` are what verifiers and circuit expect, `Publications` that
commitments may be taken as free constructors (`DigestsBind`), and
`WireTexts` that a text may be taken as its value (`OneTextPerValue`), which is
what `CredentialWire` does with the parts of a document.

How state corresponds to code. A plan, or a template, is a function from
positions (paths of "left" and "right") to nodes; `Join` is the node constructor
of `Proof::and` and `Proof::or`. `credentials`, `proofs`, `backends` and
`artifacts` are the values callers hold, one slot each, `None` when unused; a
`Proof` is moved out of its slot by `and`/`or` as in Rust. `reply` is the answer
of the last call. A backend is its policy day and template: its key pair is the
slot itself, since each setup draws fresh keys. An artifact is the key it was
made with and, for the properties only, the plan it was made from; verification
reads only the key.

In `SchnorrIssuer` a thread is idle (with the credential it was last returned),
generating its key pair, consulting the parameters (`AgeCredential::verify`, or a
circuit that reads the generator), about to draw, or holding a scalar.
`parameters` has the `OnceLock` of each process: unset, with the thread that runs
the initialiser, or with the generator it made. `home` says which thread runs in
which process; `home` and `digest`, the hash function restricted to the
transcripts there can be, are chosen once. Every operator of `Schnorr` takes the
generator it reads, so that a signer, a verifier and a circuit of three processes
may have three of them; that they have one is proved.

In `CredentialWire` a document has a shape and gives each part a text: the value it
writes and the form it is written in. `Change` gives a part any value there is for
it, those of other credentials included, in any form, so changes also splice
documents together. `Rearrange` gives the document another shape. The derived
`Deserialize` has no `deny_unknown_fields`: it reads reordered and unknown members
and a list of bare values, and refuses missing and repeated ones (`ShapesRead`). A
further digit makes another schema version of a number, if eight bits hold it, and
`verify` refuses it. The fields of `AgeCredential` are public; a credential changed in memory
is one that arrived changed. A signature is two halves, of one signing or of two, or strays:
verification recomputes the challenge from response and challenge, and ideal
signatures make it come out right only for two halves of one signing.

In `Encoding` a character is a number: digits below `Radix`, each as a capital
above it, then "+" and one for everything else. What a decoder returns is the set of
its values, empty when it refuses. `FromStrRadix`, `Deserialize` and
`DeserializePoint` say what Rust and arkworks accept, which is more than the
library wants: capitals and signs, bytes that follow, a sign on the identity. The
checks around them (`encoding.rs:11`, `:44`, `issuer.rs:144`) are the library's.

In `Commitments` the permutation of Poseidon is ideal: digests are equal when the
same blocks were absorbed. The blocks are the code's: three elements each, the
last padded with zeros, no length.

Abstractions. In the backend modules Poseidon and Schnorr are free constructors:
equal only when made from equal values; `Schnorr` models the signature itself,
with the group as the integers modulo its order and the hash as an arbitrary
function. The parameters are their generator; the salt that the same setup draws
is left out. The secret key 0 is left out there: it is drawn with probability 2^-251.
`CredentialWire` has it, as `Identity`, since `AgeCredential::verify` refuses its
public key. Groth16 is ideal: an artifact verifies under its key and no other. Its
proofs are malleable, however: anyone can turn (A, B) into (-A, -B) or re-randomize
a proof, and `groth16.rs:151` accepts the result. Such bytes are delivered as
`"rewritten"` and accepted like the artifact, so nothing here says that accepted
bytes came from the prover, only that their statement is true; `"altered"` means one
changed bit, which no proof survives. The nonce of a signature is the credential's slot. A claim object is the
set of kinds it may report; each reading of `kind()` in the code is a choice
from that set, which is how the two readings of `DirectTemplate::from_plan` come
to differ. Country codes are EU or not; names, text, error messages are left out.
A panic is an answer like any other.

## Runs

| Run | Question | Bounds |
| --- | --- | --- |
| `calendar` | do age booleans and 18-year policies agree with the civil calendar; does a day ever make anybody younger? | every day 1900-01-01 to 2099-12-31; thresholds 0, 18, 20, 100; births around each anniversary, leap day and year end |
| `composition` | do plans stay trees, are artifacts earned, are refusals justified, do gates evaluate the plan, does it all implement `AttestedStatements`? | 2 issuers, 2 credentials, 3 proofs, 5 nodes in all, 1 backend, 1 artifact |
| `statements` | is what a verifier accepts true and what setup or a proof refuses wrong, for every kind of claim, a claim that changes to custom between readings, and cutoffs at and before 1900? | 1 issuer, 2 credentials, 2 proofs, 3 nodes, 6 claim objects |
| `verifiers` | does an artifact convince only its own verifier? is whoever was served still served by a backend of another day? do all calls implement `AttestedStatements`? | 2 issuers, 2 backends on any of 3 days, 2 artifacts, claims on both sides of 18, single-leaf proofs |
| `signing` | does what `issue` returns verify in every process; do circuit and native verifier agree on every byte string; do threads implement `SigningService`; do calls return? | 2 threads in one process or in two, 2 messages, 2 secrets, order 3, 2-bit scalars in 3-bit strings, 12 hash functions |
| `transit` | is what verifies what was issued, whatever happened to the document; does verifying implement `CredentialRegister`? | 2 issuers and the identity, 2 credentials, 2 changes, schemas 1, 2 and 30 and what a further digit makes of them, 4 forms of a text, 6 shapes of a document |
| `texts` | has each value one text, and is it read back, the identity's excepted? | base 2, bytes of two digits, values of two bytes, moduli 7 and 5, 3 ordinates, 2 edits |
| `publications` | do digests bind purpose and opening? | scopes of up to 3 bytes where 2 are allowed, 6 byte values, salts and secrets 0 and others, 2 digests |

The holders of the backend runs are born on 2000-03-10 and the day after, and
the policy days are 2018-03-10, the day before and, in `verifiers`, the day after, so every age claim about 18 is
decided by one day. Three live proofs of five nodes include every shape of two
operators, shapes equal up to the operator, and a proof left over to be dropped
or proved; more nodes repeat these. Slots and issuers are interchangeable, hence the symmetry.
Two credentials and two changes give every mixture of two credentials in two parts,
one part replaced and another respelled, a part changed in a document that was
rearranged, and a signature put together from two signings. Schema 30 becomes 300
with a further digit, more than eight bits hold; 1 becomes 10, which decodes. Two edits can spell a digit as a capital, put a sign before another, or
lengthen and shorten a text in the middle. In `publications` the modulus 738 is
just above 729, the number of three-byte strings: a scope that is one byte too
long wraps around the field and meets another one, so the length limit is what
keeps scopes apart, as it is with thirty bytes and 254 bits.
Deadlock is not checked: slots are finite and the calendar ends, as callers may
stop at any time.

Four runs show where the code departs from what it says of itself, each a
counterexample TLC finds:

- `at_most`: `AgeBelow(n)` is documented as "at most", the circuit decides "less
  than" (`groth16/commitment.rs:96`, `claim.rs:19`).
- `at_least`: on February 29 the cutoff is February 28 also in a leap target
  year, so a leap-day holder proves `AgeAbove(20)` a day late (`groth16.rs:183`).
- `supported_cutoffs`: thresholds that reach before 1900 panic in setup, against
  the text of the `expect` (`groth16/template.rs:134`).
- `canonical_bytes`: an artifact followed by other bytes is accepted, though
  non-canonical bytes are documented as invalid (`groth16.rs:151`). Rewritten
  artifacts are canonical bytes and no part of this.

`RefusalsNameTheFault` also shows that `verify` supports schema version 2 only
(`issuer.rs:182`), although the comment of the unused constant
`AGE_CREDENTIAL_SCHEMA_V1` calls version 1 the supported one (`issuer.rs:23`).

`ClaimHolds` therefore states what the code does, in civil terms: younger than n
for `AgeBelow(n)`, and ages of February 29 taken on February 28.

No fairness is assumed and no liveness is stated for the backend modules: every
operation is one synchronous call by a caller who may never call again.

In the signing run there are more byte strings than values of a scalar's width,
and more of those than scalars, so masked, refused and non-canonical values all
occur, as with 251 of 256 bits. In one process the two threads compete for the
parameters; in two, each process makes its own, and a credential of one is judged
under the parameters of the other. `CallsReturn`
assumes that a running thread runs on (weak fairness of `Initialize`,
`Initialized`, `Generate`, `Consult` and `Commit`, which need nothing but the
processor and parameters that are made) and that random draws are fair:
`JubJubScalar::rand` is uniform, so a scalar that can be drawn for ever is drawn
at last (strong fairness of `Draw`, per scalar). Key generation and verification
always return. `issue` is promised to return only if some scalar's
digest is a challenge; among the twelve hash functions are some that have none for
a message, and the loop of
`issuer.rs` then never ends, which with Blake2s has no practical chance. Starting a
call is not fair: callers need not sign anything.

The service that `signing` refines to promises safety only: that an answer belongs
to its call and verifies. That it comes is `CallsReturn`. No other module
has anything that must happen: carriers may lose a document.

## Proofs

All theorems hold for every value of the constants that meets the assumptions of
their modules. `BackendAssumption`: profiles have a supported birth day and a
role, claim objects report claim kinds and at least one, policy days are
supported. `WalkAssumption`: the walk begins and ends on supported days.
`SchnorrAssumption` and `IssuerAssumption`: the group has an order above 1, its
generator is not 0, scalars fit their width and widths their bytes, secrets are
scalars other than 0 and every thread runs in a process; that the order
is prime is nowhere needed. `WireAssumption`: strays and refusals are no keys, commitments or
signatures. `EncodingAssumption`: moduli fit the width, the field's with a bit to spare
for the sign of a point. `CommitmentAssumption`: blocks of three, white space is in no
scope, and length and bytes of a scope together fit the field.
`PublicationAssumption`: what is committed to are field elements and bytes.

- `StatementProofs`: the day count orders the calendar (`DayCountIsChronological`,
  by months and years), so comparing day counts with the cutoff is comparing ages
  (`CutoffMeansAge`), and every boolean means its claim (`WireMeansClaim`). Joining
  two plans gives a finite plan and nothing but their leaves (`JoinIsPlan`,
  `JoinIsBounded`, `JoinLeaves`). The gates of a finite plan have a solution, built
  from the deepest level up, and only one, since two would differ at a node whose
  children agree; so the enforced root reads the plan (`RootReadsThePlan`).
  The same descent, with a second solution above the first, shows that gates are
  monotone (`StatementsAreMonotone`). Day counts are natural numbers up to 73048
  (`DayCountsAreSmall`), which the cast to `u32` and the comparison of field
  elements in the circuit take for granted.
- `AgePolicyProofs`: every day of a walk is supported; age booleans are ages; a decoded
  policy is the 18-year policy, which rests on 18 years before a leap year never
  being one; the two cutoffs of the code are one, and supported from 1918 on.
  `AgesOnlyGrow` follows the walk one day on: cutoffs never go back
  (`CutoffsAdvance`), although February 28 and 29 share one, so nobody falls
  behind a threshold already reached.
- `Groth16BackendProofs`: plans name their evidence by a hash of fingerprint, schema and
  signature; `HashesNameCredentials` shows that this is one credential with all its private
  values, since the signature binds the commitments and day counts and role
  elements are injective. The inductive invariant `IInv` is `TypeOK`,
  `EarnedArtifacts` and `BackendsAreSynthesizable` together. `TypeOK` alone is
  inductive; `EarnedArtifacts` needs it to know that proofs are over issued
  credentials, and the reply of `Verify` needs that backends are never replaced.
  From `IInv` follow `Soundness` (`AcceptedMeansTrue`: the earned artifact
  satisfied its backend's circuit, `CredentialRelation` forces an attested
  holder, `WireMeansClaim` turns booleans into meanings) and `Completeness`
  (`RefusalsAreJustified`: `BackendsAreSynthesizable` excludes panics,
  `CompiledIsAccepted` turns acceptance into equality of templates).
  `SetupRefusals` needs that the only unsupported cutoffs precede 1900, and
  `GatesAreFaithful` that calls build finite plans only.
  `PromiseKept` is the whole as one statement. `Issue` maps to
  `Attest`, a successful `Setup` to `Offer`, a successful `Prove` to `Certify`,
  `Verify` to `Check`, and every other call to `Other`; under `IInv` a template that
  was set up is a meaningful statement, and a satisfied plan gives the witnesses
  that `Certify` asks for. The abstract specification is itself shown to be worth
  implementing: what its services accept is a true statement
  (`PromiseMeansTruth`: certificates are made of true offers, and facts, once
  attested, stay), and the library inherits that (`AcceptanceMeansTruth`).
  `RenewalIsSafe` joins `EarnedArtifacts`, `CutoffsAdvance` and monotone gates: the
  plan an artifact was made from satisfies every template of a later day but for
  claims of `AgeBelow`, and of an earlier day but for `AgeAbove`
  (`ClaimsCarryOver`, leaf by leaf).
- `SchnorrProofs`: response and challenge give back the commitment
  (`CommitmentRecovered`, by adding and removing multiples of the order), so the
  verifier hashes the issuer's transcript; `CircuitIsNative` takes a byte string
  apart into the bits that are compared and those that must be zero. The inductive
  invariant `IssuerInv` adds to `TypeOK` that parameters, once made, are those of the
  seed in every process (`OneGenerator`), that public keys are of that generator
  (`KeysFit`), that whoever is inside `issue` has a key pair, and so parameters
  (`IssuersHaveKeys`), and that signatures held verify under that generator
  (`HeldSignaturesVerify`). `IssuedVerify` and `CircuitAndNativeAgree` follow, the
  latter because circuit and verifier then read one generator. A
  commitment that ends a call is the service's handing over, the beginning of a call
  its asking, and every other step of a
  thread, key generation and initialisation included, a stutter
  (`CallersAreServed`). `AnswerableMeansSigned` is the safety part of
  `CallsReturn`: its premise holds exactly of the messages for which some
  scalar leaves the loop.
- `CredentialWireProofs`: the invariant says which halves there are: those in the slots
  were made there, by the key and over the parts found beside them, and those on
  the wire come from slots or are strays. Two halves of one signing therefore
  lead to one slot, and the message they sign fixes the other parts
  (`Authenticity`). That a held credential is the decoding of the wire, and the
  reply that of the credential held, is part of the invariant. With the converse,
  that issued credentials verify, `VerdictIsALookUp` makes the answer of `verify` that of
  the register, `Issue` maps to `Enter`, and the rest are `Other`
  (`CredentialsAreRegistered`).
- `EncodingProofs`: a text is read as a value exactly when it is the text of that
  value (`ElementTexts`, `SignatureTexts`, `KeyTexts`). The numbers of bytes and
  the bytes of numbers are recursive functions; `Induction`, which is stated for
  sets and follows from the well-foundedness of the natural numbers, gives the
  functions' equations (`Recursion`), and division with remainder the rest.
- `WireTextProofs`: edited texts are texts, so the three theorems apply in every
  state; and no two points share a text (`FingerprintsNameKeys`), the identity, which is
  never read back, included. That is why models may compare keys where
  the code compares fingerprints.
- `PublicationProofs`: scopes pack injectively because the bytes and their number
  fit the field (`ScopesPackInjectively`, the claim of the comment at `policy.rs:36`);
  publications of one digest have one domain in the first place of their first
  block, hence one purpose, one number of inputs and one opening.

Only model-checked: the liveness property `CallsReturn`, since the proof system reasons
neither about fairness nor about ENABLED (its safety part is
`AnswerableMeansSigned`), and the four documented properties that fail.

## Not modelled

- Poseidon's permutation, Blake2s, curve and pairing arithmetic, and Groth16 itself
  belong to arkworks. They are ideal or arbitrary functions here, and hiding and
  zero knowledge, which are properties of distributions, are not stated.
- The Poseidon parameters (`commitment.rs:182`) are a constant computed on first
  use, by an initialiser without inputs or failure. Threads that meet in the
  initialiser of the Schnorr parameters, from key generation, verification or a
  circuit, are in `SchnorrIssuer`; for Poseidon nothing would differ.
- The text of a date and chrono's day count (`age.rs:36`). `DaysSince1900` stands
  for the latter; what the models need of it is that it orders the dates, which
  `DayCountIsChronological` proves of the stand-in.
- Stack depth. Plans, templates and drops recurse once per level (`proof.rs:117`);
  the code sets no limit on a composition.
- Names of claims and countries, error codes and messages, and `Debug` output are
  constant text. `ProofPrevented`, `InvalidProof` and `ReplayDetected` (`error.rs`)
  are never returned, and nothing in the library keeps nullifiers to compare.
- `lib.rs` re-exports and has no behaviour.
