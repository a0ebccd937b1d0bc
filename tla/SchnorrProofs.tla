---------------------------- MODULE SchnorrProofs ----------------------------
(***************************************************************************)
(* SchnorrIssuer for every group, hash function and number of threads and  *)
(* processes: issued signatures verify everywhere, the circuit's signature *)
(* relation is the native one, and callers see a signing service.          *)
(***************************************************************************)
EXTENDS SchnorrRefinement, TLAPS

\* A remainder is in range, and differs from its number by a multiple.
LEMMA Remainder ==
    ASSUME NEW q \in Nat, 0 < q, NEW a \in Int
    PROVE  /\ a % q \in 0..(q - 1)
           /\ \E d \in Int : a = q * d + (a % q)
<1>1. a % q \in 0..(q - 1)
  OBVIOUS
<1>2. a \div q \in Int /\ a = q * (a \div q) + (a % q)
  OBVIOUS
<1>3. QED BY <1>1, <1>2

\* There is only one remainder in range.
LEMMA RemainderIsUnique ==
    ASSUME NEW q \in Nat, 0 < q, NEW a \in Int, NEW d \in Int,
           NEW r \in 0..(q - 1), a = q * d + r
    PROVE  a % q = r
OBVIOUS

\* Multiples of the modulus do not matter.
LEMMA MultiplesVanish ==
    ASSUME NEW q \in Nat, 0 < q, NEW a \in Int, NEW k \in Int
    PROVE  (a + (q * k)) % q = a % q
<1>1. PICK d \in Int : a = q * d + (a % q)
  BY Remainder
<1>2. a + (q * k) = q * (d + k) + (a % q)
  BY <1>1
<1>3. a % q \in 0..(q - 1) /\ a + (q * k) \in Int /\ d + k \in Int
  BY Remainder
<1>4. QED BY <1>2, <1>3, RemainderIsUnique

\* The scalars, points and challenges of the scheme are in range.
LEMMA SchnorrTypes ==
    /\ Order \in Nat /\ 0 < Order
    /\ \A g, s \in Int : PublicKey(g, s) \in Points /\ CommitmentTo(g, s) \in Points
    /\ \A r, c, x \in Int : Response(r, c, x) \in Scalars
    /\ \A g, key, r, c \in Int : CommitmentOf(g, key, r, c) \in Points
    /\ \A d \in Bytes : Challenge(d) \in Scalars \cup {NoChallenge}
<1>1. Order \in Nat /\ 0 < Order
  BY SchnorrAssumption
<1>2. \A g, s \in Int : PublicKey(g, s) \in Points /\ CommitmentTo(g, s) \in Points
  <2> TAKE g, s \in Int
  <2>1. g * s \in Int
    OBVIOUS
  <2>2. (g * s) % Order \in 0..(Order - 1)
    BY <1>1, <2>1, Remainder
  <2>3. QED BY <2>2 DEF PublicKey, CommitmentTo, Points
<1>3. \A r, c, x \in Int : Response(r, c, x) \in Scalars
  <2> TAKE r, c, x \in Int
  <2>1. r - c * x \in Int
    OBVIOUS
  <2>2. (r - c * x) % Order \in 0..(Order - 1)
    BY <1>1, <2>1, Remainder
  <2>3. QED BY <2>2 DEF Response, Scalars
<1>4. \A g, key, r, c \in Int : CommitmentOf(g, key, r, c) \in Points
  <2> TAKE g, key, r, c \in Int
  <2>1. g * r + key * c \in Int
    OBVIOUS
  <2>2. (g * r + key * c) % Order \in 0..(Order - 1)
    BY <1>1, <2>1, Remainder
  <2>3. QED BY <2>2 DEF CommitmentOf, Points
<1>5. \A d \in Bytes : Challenge(d) \in Scalars \cup {NoChallenge}
  <2> TAKE d \in Bytes
  <2>1. d \in Int /\ ScalarRange \in Nat /\ 0 < ScalarRange
    BY SchnorrAssumption DEF Bytes
  <2>2. d % ScalarRange \in 0..(ScalarRange - 1)
    BY <2>1, Remainder
  <2>3. QED BY <1>1, <2>1, <2>2 DEF Challenge, Scalars
<1>6. QED BY <1>1, <1>2, <1>3, <1>4, <1>5

\* A verifier recomputes the commitment the signer drew:
\* G(r - cx) + (Gx)c = Gr in the group, if it has the signer's generator
\* (issuer.rs issue, from_signature).
THEOREM CommitmentRecovered ==
    ASSUME NEW g \in Int, NEW r \in Int, NEW c \in Int, NEW x \in Int
    PROVE  CommitmentOf(g, PublicKey(g, x), Response(r, c, x), c) = CommitmentTo(g, r)
<1> DEFINE response == Response(r, c, x)
           key == PublicKey(g, x)
<1>1. Order \in Nat /\ 0 < Order
  BY SchnorrAssumption
<1>2. response \in Int /\ key \in Int
  BY SchnorrTypes DEF Scalars, Points
<1>3. PICK j \in Int : r - c * x = Order * j + response
  <2>1. r - c * x \in Int
    OBVIOUS
  <2>2. QED BY <1>1, <2>1, Remainder DEF Response
<1>4. PICK k \in Int : g * x = Order * k + key
  <2>1. g * x \in Int
    OBVIOUS
  <2>2. QED BY <1>1, <2>1, Remainder DEF PublicKey
<1> HIDE DEF response, key
<1>5. g * response + key * c = g * r + (Order * (-(g * j) - k * c))
  <2>1. g * response = g * (r - c * x - Order * j)
    BY <1>1, <1>2, <1>3
  <2>2. key * c = (g * x - Order * k) * c
    BY <1>1, <1>2, <1>4
  <2>3. g * (r - c * x - Order * j) + (g * x - Order * k) * c
           = g * r + (Order * (-(g * j) - k * c))
    BY <1>1
  <2>4. QED BY <2>1, <2>2, <2>3
<1> DEFINE drawn == g * r
           multiple == -(g * j) - k * c
           point == g * response + key * c
<1>6. drawn \in Int /\ multiple \in Int /\ point = drawn + (Order * multiple)
  BY <1>1, <1>5
<1> HIDE DEF drawn, multiple, point
<1>7. point % Order = drawn % Order
  BY <1>1, <1>6, MultiplesVanish
<1>8. QED BY <1>7 DEF CommitmentOf, CommitmentTo, response, key, drawn, point

\* On strings of 32 bytes, the circuit's relation is native verification of
\* what decodes (SchnorrRelation::enforce, IssuerSignature::is_valid).
THEOREM CircuitIsNative ==
    ASSUME NEW g \in Int, NEW d \in [Points \X Messages -> Bytes], NEW key \in Points,
           NEW response \in Bytes, NEW challenge \in Bytes, NEW message \in Messages
    PROVE  CircuitAccepts(g, d, key, response, challenge, message)
              <=> /\ Decodes(response) /\ Decodes(challenge)
                  /\ NativeValid(g, d, key, response, challenge, message)
<1> DEFINE expected == d[<<CommitmentOf(g, key, response, challenge), message>>]
<1>1. /\ Order \in Nat /\ ScalarRange \in Nat /\ 0 < Order /\ Order <= ScalarRange
      /\ response \in Nat /\ challenge \in Nat
  BY SchnorrAssumption DEF Bytes
<1>2. expected \in Bytes
  <2> key \in Int
    BY <1>1 DEF Points
  <2>1. CommitmentOf(g, key, response, challenge) \in Points
    BY <1>1, SchnorrTypes
  <2>2. QED BY <2>1
<1> HIDE DEF expected
<1>3. expected % ScalarRange \in 0..(ScalarRange - 1)
  BY <1>1, <1>2, Remainder DEF Bytes
<1>4. challenge < Order =>
         challenge % ScalarRange = challenge /\ challenge \div ScalarRange = 0
  <2> SUFFICES ASSUME challenge < Order
               PROVE  challenge % ScalarRange = challenge /\ challenge \div ScalarRange = 0
    OBVIOUS
  <2>1. challenge \in 0..(ScalarRange - 1) /\ challenge = ScalarRange * 0 + challenge
    BY <1>1
  <2>2. challenge % ScalarRange = challenge
    BY <1>1, <2>1
  <2>3. challenge \div ScalarRange = 0
    BY <1>1, <2>1
  <2>4. QED BY <2>2, <2>3
<1>5. NativeValid(g, d, key, response, challenge, message)
         <=> Challenge(expected) = challenge
  BY DEF NativeValid, expected
<1>6. CircuitAccepts(g, d, key, response, challenge, message)
         <=> /\ response < Order /\ challenge < Order
             /\ challenge % ScalarRange = expected % ScalarRange
             /\ challenge \div ScalarRange = 0
  BY <1>1 DEF CircuitAccepts, expected
<1>7. Challenge(expected) = challenge
         <=> expected % ScalarRange < Order /\ expected % ScalarRange = challenge
  BY <1>1, <1>3 DEF Challenge, NoChallenge
<1>8. QED BY <1>1, <1>3, <1>4, <1>5, <1>6, <1>7 DEF Decodes

----------------------------------------------------------------------------
(* The inductive invariant: every process that has parameters has the same *)
(* ones, every key pair was made with them, only threads with a key pair   *)
(* are inside issue, and the credentials they were handed verify.          *)

OneGenerator == GeneratorsInUse \subseteq {Generator}

KeysFit ==
    \A c \in Callers : keys[c].made => keys[c].public = PublicKey(Generator, keys[c].secret)

IssuersHaveKeys ==
    \A c \in Callers : calls[c].at \in {"draw", "commit"} => keys[c].made

ValidHere(s) ==
    NativeValid(Generator, digest, s.key, s.response, s.challenge, s.message)

HeldSignaturesVerify ==
    \A c \in Callers : HoldsCredential(c) => ValidHere(calls[c].credential)

IssuerInv ==
    TypeOK /\ OneGenerator /\ KeysFit /\ IssuersHaveKeys /\ HeldSignaturesVerify

\* The fields of a thread's state, by what it is doing.
LEMMA CallFacts ==
    ASSUME NEW call \in CallStates
    PROVE  /\ call.at \in {"idle", "generate", "consult", "draw", "commit"}
           /\ call.at \in {"idle", "generate", "consult"} => call.credential \in Credentials
           /\ call.at \in {"draw", "commit"} => call.message \in Messages
           /\ call.at = "commit" => call.scalar \in Scalars
<1>1. CASE call = Generating
  BY <1>1 DEF Generating, Credentials
<1>2. CASE \E credential \in Credentials : call = Returned(credential)
  BY <1>2 DEF Returned
<1>3. CASE \E credential \in Credentials : call = Consulting(credential)
  BY <1>3 DEF Consulting
<1>4. CASE \E message \in Messages : call = Drawing(message)
  BY <1>4 DEF Drawing
<1>5. CASE \E message \in Messages, scalar \in Scalars : call = Committing(message, scalar)
  BY <1>5 DEF Committing
<1>6. QED BY <1>1, <1>2, <1>3, <1>4, <1>5 DEF CallStates

\* Key pairs hold a secret and a point.
LEMMA KeyFacts ==
    ASSUME TypeOK, NEW c \in Callers, keys[c].made
    PROVE  /\ keys[c].secret \in Secrets /\ keys[c].secret \in Int
           /\ keys[c].public \in Points
<1>1. keys[c] \in KeyPairs
  BY DEF TypeOK
<1>2. keys[c] # NoKeyPair
  BY DEF NoKeyPair
<1>3. PICK secret \in Secrets, public \in Points : keys[c] = KeyPair(secret, public)
  BY <1>1, <1>2 DEF KeyPairs
<1>4. Secrets \subseteq Int
  BY IssuerAssumption, SchnorrAssumption DEF Scalars
<1>5. QED BY <1>3, <1>4 DEF KeyPair

\* A thread that finds its process's parameters made finds the one generator.
LEMMA GeneratorFacts ==
    ASSUME TypeOK, OneGenerator, NEW c \in Callers, Ready(c)
    PROVE  GeneratorOf(c) = Generator
<1>1. home[c] \in Processes
  BY IssuerAssumption DEF TypeOK
<1>2. GeneratorOf(c) \in GeneratorsInUse
  BY <1>1 DEF Ready, GeneratorOf, GeneratorsInUse
<1>3. QED BY <1>2 DEF OneGenerator

\* What issue makes of a scalar is another round, exactly when the digest is no
\* challenge, or a signature by the thread's key that verifies natively.
LEMMA SignedFacts ==
    ASSUME TypeOK, OneGenerator, KeysFit, NEW c \in Callers, Ready(c), keys[c].made,
           NEW message \in Messages, NEW scalar \in Scalars
    PROVE  /\ Signed(c, message, scalar) = Drawing(message)
                 <=> ~(digest[<<CommitmentTo(Generator, scalar), message>>]
                          % ScalarRange < Order)
           /\ \/ Signed(c, message, scalar) = Drawing(message)
              \/ \E s \in Signatures :
                    /\ Signed(c, message, scalar) = Returned(s)
                    /\ s.key = keys[c].public /\ s.message = message
                    /\ ValidHere(s)
<1> DEFINE expected == digest[<<CommitmentTo(Generator, scalar), message>>]
           challenge == Challenge(expected)
           s == Signature(c, message, scalar, challenge)
<1>1. /\ scalar \in Int /\ Generator \in Int
      /\ keys[c].secret \in Int /\ keys[c].public \in Points
      /\ digest \in [Points \X Messages -> Bytes]
  <2>1. Scalars \subseteq Int /\ Generator \in Int
    BY SchnorrAssumption DEF Scalars
  <2>2. digest \in [Points \X Messages -> Bytes]
    BY IssuerAssumption DEF TypeOK
  <2>3. QED BY <2>1, <2>2, KeyFacts
<1>2. expected \in Bytes
  <2>1. CommitmentTo(Generator, scalar) \in Points
    BY <1>1, SchnorrTypes
  <2>2. QED BY <1>1, <2>1
<1>3. Signed(c, message, scalar)
         = IF challenge = NoChallenge THEN Drawing(message) ELSE Returned(s)
  BY GeneratorFacts DEF Signed
<1>4. Returned(s) # Drawing(message)
  BY DEF Returned, Drawing
<1> HIDE DEF expected
<1>5. challenge \in Scalars \cup {NoChallenge}
  BY <1>2, SchnorrTypes
<1>6. challenge = NoChallenge <=> ~(expected % ScalarRange < Order)
  <2>1. expected \in Int /\ ScalarRange \in Nat /\ 0 < ScalarRange
    BY <1>2, SchnorrAssumption DEF Bytes
  <2>2. expected % ScalarRange \in 0..(ScalarRange - 1)
    BY <2>1, Remainder
  <2>3. QED BY <2>1, <2>2, SchnorrAssumption DEF Challenge, NoChallenge
<1>7. ASSUME challenge # NoChallenge
      PROVE  /\ s \in Signatures /\ s.key = keys[c].public /\ s.message = message
             /\ ValidHere(s)
  <2>1. challenge \in Scalars /\ challenge \in Int
    BY <1>5, <1>7, SchnorrAssumption DEF Scalars
  <2>2. Response(scalar, challenge, keys[c].secret) \in Scalars
    BY <1>1, <2>1, SchnorrTypes
  <2>3. CommitmentOf(Generator, PublicKey(Generator, keys[c].secret),
                     Response(scalar, challenge, keys[c].secret), challenge)
           = CommitmentTo(Generator, scalar)
    BY <1>1, <2>1, CommitmentRecovered
  <2>4. keys[c].public = PublicKey(Generator, keys[c].secret)
    BY DEF KeysFit
  <2> HIDE DEF challenge
  <2>5. /\ s.made = TRUE /\ s.key = keys[c].public /\ s.message = message
        /\ s.response = Response(scalar, challenge, keys[c].secret)
        /\ s.challenge = challenge
    BY DEF Signature
  <2>6. s \in Signatures
    BY <1>1, <2>1, <2>2 DEF Signature, Signatures
  <2>7. NativeValid(Generator, digest, s.key, s.response, s.challenge, s.message)
    BY <2>3, <2>4, <2>5 DEF NativeValid, expected, challenge
  <2>8. QED BY <2>5, <2>6, <2>7 DEF ValidHere
<1> HIDE DEF challenge, s
<1>8. Signed(c, message, scalar) = Drawing(message)
         <=> ~(expected % ScalarRange < Order)
  BY <1>3, <1>4, <1>6
<1>9. CASE challenge = NoChallenge
  BY <1>3, <1>8, <1>9 DEF expected
<1>10. CASE challenge # NoChallenge
  <2>1. Signed(c, message, scalar) = Returned(s)
    BY <1>3, <1>10
  <2>2. QED BY <1>7, <1>8, <1>10, <2>1 DEF expected
<1>11. QED BY <1>9, <1>10

\* A step that moves one thread, to a state that fits its key pair and holds
\* nothing unsigned, keeps the invariant.
LEMMA CallStep ==
    ASSUME IssuerInv, UNCHANGED <<home, digest, parameters, keys>>,
           NEW c \in Callers, NEW call \in CallStates,
           calls' = [calls EXCEPT ![c] = call],
           call.at \in {"draw", "commit"} => keys[c].made,
           call.at \in {"idle", "consult"} /\ call.credential.made
              => ValidHere(call.credential)
    PROVE  IssuerInv'
<1>1. calls'[c] = call /\ \A x \in Callers : x # c => calls'[x] = calls[x]
  BY DEF IssuerInv, TypeOK
<1>2. TypeOK'
  BY DEF IssuerInv, TypeOK
<1>3. OneGenerator' /\ KeysFit'
  BY DEF IssuerInv, OneGenerator, GeneratorsInUse, KeysFit
<1>4. IssuersHaveKeys'
  <2> SUFFICES ASSUME NEW x \in Callers, calls'[x].at \in {"draw", "commit"}
               PROVE  keys'[x].made
    BY DEF IssuersHaveKeys
  <2>1. QED BY <1>1 DEF IssuerInv, IssuersHaveKeys
<1>5. HeldSignaturesVerify'
  <2>1. ASSUME NEW x \in Callers, calls'[x].at \in {"idle", "consult"},
               calls'[x].credential.made
        PROVE  ValidHere(calls'[x].credential)
    <3>1. CASE x = c
      BY <1>1, <2>1, <3>1
    <3>2. CASE x # c
      BY <1>1, <2>1, <3>2 DEF HoldsCredential, IssuerInv, HeldSignaturesVerify
    <3>3. QED BY <3>1, <3>2
  <2>2. QED BY <2>1 DEF HeldSignaturesVerify, HoldsCredential, ValidHere
<1>6. QED BY <1>2, <1>3, <1>4, <1>5 DEF IssuerInv

LEMMA IssuerInvInit == Init => IssuerInv
<1> SUFFICES ASSUME Init PROVE IssuerInv
  OBVIOUS
<1>1. \A c \in Callers : calls[c] = Returned(NoCredential) /\ keys[c] = NoKeyPair
  BY DEF Init
<1>2. TypeOK
  <2>1. Returned(NoCredential) \in CallStates
    <3>1. NoCredential \in Credentials
      BY DEF Credentials
    <3>2. QED BY <3>1 DEF CallStates
  <2>2. Unset \in ParameterStates /\ NoKeyPair \in KeyPairs
    BY DEF ParameterStates, KeyPairs
  <2>3. QED BY <2>1, <2>2 DEF Init, TypeOK
<1>3. OneGenerator
  BY DEF Init, OneGenerator, GeneratorsInUse, Unset
<1>4. KeysFit
  BY <1>1 DEF KeysFit, NoKeyPair
<1>5. IssuersHaveKeys
  BY <1>1 DEF IssuersHaveKeys, Returned
<1>6. HeldSignaturesVerify
  BY <1>1 DEF HeldSignaturesVerify, HoldsCredential, Returned, NoCredential
<1>7. QED BY <1>2, <1>3, <1>4, <1>5, <1>6 DEF IssuerInv

LEMMA IssuerInvStep == IssuerInv /\ [Next]_vars => IssuerInv'
<1> SUFFICES ASSUME IssuerInv, [Next]_vars PROVE IssuerInv'
  OBVIOUS
<1> USE DEF IssuerInv
<1>1. ASSUME NEW c \in Callers, Initialize(c) PROVE IssuerInv'
  <2>1. home[c] \in Processes /\ MadeBy(c) \in ParameterStates
    BY IssuerAssumption DEF TypeOK, ParameterStates
  <2>2. TypeOK'
    BY <1>1, <2>1 DEF Initialize, TypeOK
  <2>3. OneGenerator'
    <3>1. \A p \in Processes :
             parameters'[p].at = "ready" => parameters'[p] = parameters[p]
      BY <1>1, <2>1 DEF Initialize, MadeBy, TypeOK
    <3>2. QED BY <3>1 DEF OneGenerator, GeneratorsInUse
  <2>4. KeysFit' /\ IssuersHaveKeys' /\ HeldSignaturesVerify'
    BY <1>1 DEF Initialize, KeysFit, IssuersHaveKeys, HeldSignaturesVerify,
                HoldsCredential, ValidHere
  <2>5. QED BY <2>2, <2>3, <2>4
<1>2. ASSUME NEW c \in Callers, NEW generator \in SetupOutcomes, Initialized(c, generator)
      PROVE  IssuerInv'
  <2>1. generator = Generator /\ generator \in 1..(Order - 1)
    BY SchnorrAssumption DEF SetupOutcomes
  <2>2. home[c] \in Processes /\ Made(generator) \in ParameterStates
    BY <2>1, IssuerAssumption DEF TypeOK, ParameterStates
  <2>3. TypeOK'
    BY <1>2, <2>2 DEF Initialized, TypeOK
  <2>4. OneGenerator'
    <3>1. \A p \in Processes : \/ parameters'[p] = parameters[p]
                               \/ parameters'[p] = Made(Generator)
      BY <1>2, <2>1, <2>2 DEF Initialized, TypeOK
    <3>2. QED BY <3>1 DEF OneGenerator, GeneratorsInUse, Made
  <2>5. KeysFit' /\ IssuersHaveKeys' /\ HeldSignaturesVerify'
    BY <1>2 DEF Initialized, KeysFit, IssuersHaveKeys, HeldSignaturesVerify,
                HoldsCredential, ValidHere
  <2>6. QED BY <2>3, <2>4, <2>5
<1>3. ASSUME NEW c \in Callers, BeginGenerate(c) PROVE IssuerInv'
  <2>1. Generating \in CallStates
    BY DEF CallStates
  <2>2. Generating.at = "generate"
    BY DEF Generating
  <2>3. QED BY <1>3, <2>1, <2>2, CallStep DEF BeginGenerate
<1>4. ASSUME NEW c \in Callers, NEW secret \in Secrets, Generate(c, secret)
      PROVE  IssuerInv'
  <2> DEFINE pair == KeyPair(secret, PublicKey(Generator, secret))
  <2>1. GeneratorOf(c) = Generator
    BY <1>4, GeneratorFacts DEF Generate
  <2>2. /\ keys'[c] = pair /\ \A x \in Callers : x # c => keys'[x] = keys[x]
        /\ calls'[c] = Returned(NoCredential)
        /\ \A x \in Callers : x # c => calls'[x] = calls[x]
        /\ UNCHANGED <<home, digest, parameters>>
    BY <1>4, <2>1 DEF Generate, TypeOK
  <2>3. pair \in KeyPairs
    <3>1. secret \in Int /\ Generator \in Int
      BY IssuerAssumption, SchnorrAssumption DEF Scalars
    <3>2. QED BY <3>1, SchnorrTypes DEF KeyPairs
  <2>4. Returned(NoCredential) \in CallStates
    <3>1. NoCredential \in Credentials
      BY DEF Credentials
    <3>2. QED BY <3>1 DEF CallStates
  <2>5. TypeOK'
    BY <1>4, <2>1, <2>3, <2>4 DEF Generate, TypeOK
  <2>6. OneGenerator'
    BY <2>2 DEF OneGenerator, GeneratorsInUse
  <2>7. KeysFit'
    BY <2>2 DEF KeysFit, KeyPair
  <2>8. IssuersHaveKeys'
    BY <2>2 DEF IssuersHaveKeys, Returned
  <2>9. HeldSignaturesVerify'
    BY <2>2 DEF HeldSignaturesVerify, HoldsCredential, ValidHere, Returned, NoCredential
  <2>10. QED BY <2>5, <2>6, <2>7, <2>8, <2>9
<1>5. ASSUME NEW c \in Callers, BeginConsult(c) PROVE IssuerInv'
  <2> DEFINE call == Consulting(calls[c].credential)
  <2>1. calls[c].credential \in Credentials
    BY <1>5, CallFacts DEF BeginConsult, TypeOK
  <2>2. call \in CallStates /\ call.at = "consult" /\ call.credential = calls[c].credential
    BY <2>1 DEF CallStates, Consulting
  <2>3. call.credential.made => ValidHere(call.credential)
    BY <1>5, <2>2 DEF BeginConsult, HeldSignaturesVerify, HoldsCredential
  <2> HIDE DEF call
  <2>4. calls' = [calls EXCEPT ![c] = call]
    BY <1>5 DEF BeginConsult, call
  <2>5. QED BY <1>5, <2>2, <2>3, <2>4, CallStep DEF BeginConsult
<1>6. ASSUME NEW c \in Callers, Consult(c) PROVE IssuerInv'
  <2> DEFINE call == Returned(calls[c].credential)
  <2>1. calls[c].credential \in Credentials
    BY <1>6, CallFacts DEF Consult, TypeOK
  <2>2. call \in CallStates /\ call.at = "idle" /\ call.credential = calls[c].credential
    BY <2>1 DEF CallStates, Returned
  <2>3. call.credential.made => ValidHere(call.credential)
    BY <1>6, <2>2 DEF Consult, HeldSignaturesVerify, HoldsCredential
  <2> HIDE DEF call
  <2>4. calls' = [calls EXCEPT ![c] = call]
    BY <1>6 DEF Consult, call
  <2>5. QED BY <1>6, <2>2, <2>3, <2>4, CallStep DEF Consult
<1>7. ASSUME NEW c \in Callers, NEW message \in Messages, Begin(c, message)
      PROVE  IssuerInv'
  <2>1. Drawing(message) \in CallStates /\ Drawing(message).at = "draw"
    BY DEF CallStates, Drawing
  <2>2. QED BY <1>7, <2>1, CallStep DEF Begin
<1>8. ASSUME NEW c \in Callers, NEW scalar \in Scalars, Draw(c, scalar)
      PROVE  IssuerInv'
  <2> DEFINE call == Committing(calls[c].message, scalar)
  <2>1. calls[c].message \in Messages /\ keys[c].made
    BY <1>8, CallFacts DEF Draw, TypeOK, IssuersHaveKeys
  <2>2. call \in CallStates /\ call.at = "commit"
    BY <2>1 DEF CallStates, Committing
  <2> HIDE DEF call
  <2>3. calls' = [calls EXCEPT ![c] = call]
    BY <1>8 DEF Draw, call
  <2>4. QED BY <1>8, <2>1, <2>2, <2>3, CallStep DEF Draw
<1>9. ASSUME NEW c \in Callers, Commit(c) PROVE IssuerInv'
  <2> DEFINE call == Signed(c, calls[c].message, calls[c].scalar)
  <2>1. calls[c].message \in Messages /\ calls[c].scalar \in Scalars /\ keys[c].made
    BY <1>9, CallFacts DEF Commit, TypeOK, IssuersHaveKeys
  <2>2. \/ call = Drawing(calls[c].message)
        \/ \E s \in Signatures : call = Returned(s) /\ ValidHere(s)
    BY <1>9, <2>1, SignedFacts DEF Commit
  <2> HIDE DEF call
  <2>3. /\ call \in CallStates
        /\ call.at \in {"idle", "consult"} /\ call.credential.made
              => ValidHere(call.credential)
    <3>1. CASE call = Drawing(calls[c].message)
      BY <2>1, <3>1 DEF CallStates, Drawing
    <3>2. CASE \E s \in Signatures : call = Returned(s) /\ ValidHere(s)
      <4>1. PICK s \in Signatures : call = Returned(s) /\ ValidHere(s)
        BY <3>2
      <4>2. s \in Credentials
        BY DEF Signatures, Credentials
      <4>3. QED BY <4>1, <4>2 DEF CallStates, Returned
    <3>3. QED BY <2>2, <3>1, <3>2
  <2>4. calls' = [calls EXCEPT ![c] = call]
    BY <1>9 DEF Commit, call
  <2>5. QED BY <1>9, <2>1, <2>3, <2>4, CallStep DEF Commit
<1>10. CASE UNCHANGED vars
  BY <1>10 DEF vars, TypeOK, OneGenerator, GeneratorsInUse, KeysFit, IssuersHaveKeys,
               HeldSignaturesVerify, HoldsCredential, ValidHere
<1>11. QED
  BY <1>1, <1>2, <1>3, <1>4, <1>5, <1>6, <1>7, <1>8, <1>9, <1>10 DEF Next

LEMMA IssuerInvariant == Spec => []IssuerInv
BY IssuerInvInit, IssuerInvStep, PTL DEF Spec

\* Parameters, key pairs and calls are in one of their states, and signatures
\* hold scalars, whatever is drawn (issuer.rs).
THEOREM IssuerTypes == Spec => []TypeOK
<1>1. IssuerInv => TypeOK
  BY DEF IssuerInv
<1>2. QED BY <1>1, IssuerInvariant, PTL

\* A signature that verifies under the one generator is also accepted by the
\* circuit, and its halves decode.
LEMMA ValidIsAccepted ==
    ASSUME TypeOK, NEW s \in Signatures, ValidHere(s)
    PROVE  /\ Decodes(s.response) /\ Decodes(s.challenge)
           /\ NativeValid(Generator, digest, s.key, s.response, s.challenge, s.message)
           /\ CircuitAccepts(Generator, digest, s.key, s.response, s.challenge, s.message)
<1>1. /\ s.response \in Bytes /\ s.challenge \in Bytes
      /\ s.message \in Messages /\ s.key \in Points
      /\ Decodes(s.response) /\ Decodes(s.challenge)
  BY SchnorrAssumption DEF Signatures, Scalars, Bytes, Decodes
<1>2. digest \in [Points \X Messages -> Bytes] /\ Generator \in Int
  <2>1. Generator \in Int
    BY SchnorrAssumption
  <2>2. QED BY <2>1, IssuerAssumption DEF TypeOK
<1>3. NativeValid(Generator, digest, s.key, s.response, s.challenge, s.message)
  BY DEF ValidHere
<1>4. QED BY <1>1, <1>2, <1>3, CircuitIsNative

\* Whatever issue returned verifies, natively and in the circuit, under the
\* parameters of every process that has made its own.
THEOREM IssuedVerify == Spec => []IssuedSignaturesVerify
<1>1. IssuerInv => IssuedSignaturesVerify
  <2> SUFFICES ASSUME IssuerInv, NEW c \in Callers, NEW generator \in GeneratorsInUse,
                      HoldsCredential(c)
               PROVE  LET s == calls[c].credential
                      IN  /\ Decodes(s.response) /\ Decodes(s.challenge)
                          /\ NativeValid(generator, digest, s.key,
                                         s.response, s.challenge, s.message)
                          /\ CircuitAccepts(generator, digest, s.key,
                                            s.response, s.challenge, s.message)
    BY DEF IssuedSignaturesVerify
  <2>1. generator = Generator
    BY DEF IssuerInv, OneGenerator
  <2>2. calls[c].credential \in Signatures
    <3>1. calls[c].credential \in Credentials
      BY CallFacts DEF IssuerInv, TypeOK, HoldsCredential
    <3>2. calls[c].credential # NoCredential
      BY DEF HoldsCredential, NoCredential
    <3>3. QED BY <3>1, <3>2 DEF Credentials, Signatures
  <2>3. ValidHere(calls[c].credential)
    BY DEF IssuerInv, HeldSignaturesVerify
  <2>4. QED BY <2>1, <2>2, <2>3, ValidIsAccepted DEF IssuerInv
<1>2. QED BY <1>1, IssuerInvariant, PTL

\* The circuit of any process and the native verifier of any other agree about
\* every two strings of 32 bytes, at any time.
THEOREM CircuitAndNativeAgree == Spec => []CircuitMatchesNative
<1>1. IssuerInv => CircuitMatchesNative
  <2> SUFFICES ASSUME IssuerInv, NEW circuit \in GeneratorsInUse,
                      NEW native \in GeneratorsInUse, NEW key \in PublicKeys,
                      NEW response \in Bytes, NEW challenge \in Bytes,
                      NEW message \in Messages
               PROVE  CircuitAccepts(circuit, digest, key, response, challenge, message)
                         <=> /\ Decodes(response) /\ Decodes(challenge)
                             /\ NativeValid(native, digest, key,
                                            response, challenge, message)
    BY DEF CircuitMatchesNative
  <2>1. circuit = Generator /\ native = Generator /\ Generator \in Int
    BY SchnorrAssumption DEF IssuerInv, OneGenerator
  <2>2. digest \in [Points \X Messages -> Bytes]
    BY IssuerAssumption DEF IssuerInv, TypeOK
  <2>3. key \in Points
    BY KeyFacts DEF IssuerInv, PublicKeys
  <2>4. QED BY <2>1, <2>2, <2>3, CircuitIsNative
<1>2. QED BY <1>1, IssuerInvariant, PTL

----------------------------------------------------------------------------

\* Only the one generator comes out of a setup.
LEMMA ValidIsAgreed ==
    ASSUME TypeOK, NEW s \in Signatures, ValidHere(s)
    PROVE  s \in Accepted
BY ValidIsAccepted DEF Accepted, Verifies, SetupOutcomes

\* The loop of issue can be left exactly for the messages that CallsReturn is
\* about, with whichever key and in whichever process: some scalar makes a
\* signature that every verifier accepts if some commitment's digest is a
\* challenge, and otherwise every scalar is another round.
THEOREM AnswerableMeansSigned ==
    ASSUME IssuerInv, NEW c \in Callers, Ready(c), keys[c].made, NEW message \in Messages
    PROVE  /\ Answerable(message) =>
                 \E scalar \in Scalars : \E s \in Accepted :
                    /\ s.key = keys[c].public /\ s.message = message
                    /\ Signed(c, message, scalar) = Returned(s)
           /\ ~Answerable(message) =>
                 \A scalar \in Scalars : Signed(c, message, scalar) = Drawing(message)
<1>1. \A scalar \in Scalars :
         Signed(c, message, scalar) = Drawing(message)
            <=> ~(digest[<<CommitmentTo(Generator, scalar), message>>]
                     % ScalarRange < Order)
  BY SignedFacts DEF IssuerInv
<1>2. ASSUME NEW scalar \in Scalars, Signed(c, message, scalar) # Drawing(message)
      PROVE  \E s \in Accepted : /\ s.key = keys[c].public /\ s.message = message
                                 /\ Signed(c, message, scalar) = Returned(s)
  <2>1. PICK s \in Signatures :
            /\ Signed(c, message, scalar) = Returned(s)
            /\ s.key = keys[c].public /\ s.message = message
            /\ ValidHere(s)
    BY <1>2, SignedFacts DEF IssuerInv
  <2>2. QED BY <2>1, ValidIsAgreed DEF IssuerInv
<1>3. QED BY <1>1, <1>2 DEF Answerable

----------------------------------------------------------------------------
(* Refinement.  `seen` is what callers see of all threads.                 *)

seen == [c \in Callers |-> SeenBy(c)]

\* What is seen of a thread that is not issuing is what it was last handed.
LEMMA Holder ==
    ASSUME NEW c \in Callers, calls[c].at \notin {"draw", "commit"}
    PROVE  seen[c] = Service!Holding(calls[c].credential)
BY DEF seen, SeenBy, Service!Holding

\* What is seen of one that is issuing, from draw to commit, is its request.
LEMMA Asker ==
    ASSUME NEW c \in Callers, calls[c].at \in {"draw", "commit"}
    PROVE  seen[c] = Service!Waiting(keys[c].public, calls[c].message)
BY DEF seen, SeenBy, Service!Waiting

\* The desks after a step that moves one thread to a state of issue ...
LEMMA DeskOfAsker ==
    ASSUME TypeOK, NEW c \in Callers, NEW call, UNCHANGED keys,
           calls' = [calls EXCEPT ![c] = call], call.at \in {"draw", "commit"}
    PROVE  seen' = [seen EXCEPT ![c] = Service!Waiting(keys[c].public, call.message)]
<1>1. calls'[c] = call /\ \A x \in Callers : x # c => calls'[x] = calls[x]
  BY DEF TypeOK
<1>2. seen'[c] = Service!Waiting(keys[c].public, call.message)
  BY <1>1 DEF seen, SeenBy, Service!Waiting
<1>3. \A x \in Callers : x # c => seen'[x] = seen[x]
  BY <1>1 DEF seen, SeenBy
<1>4. seen' = [x \in Callers |-> seen'[x]] /\ seen = [x \in Callers |-> seen[x]]
  BY DEF seen
<1>5. QED BY <1>2, <1>3, <1>4

\* ... and to any other.
LEMMA DeskOfHolder ==
    ASSUME TypeOK, NEW c \in Callers, NEW call, UNCHANGED keys,
           calls' = [calls EXCEPT ![c] = call], call.at \notin {"draw", "commit"}
    PROVE  seen' = [seen EXCEPT ![c] = Service!Holding(call.credential)]
<1>1. calls'[c] = call /\ \A x \in Callers : x # c => calls'[x] = calls[x]
  BY DEF TypeOK
<1>2. seen'[c] = Service!Holding(call.credential)
  BY <1>1 DEF seen, SeenBy, Service!Holding
<1>3. \A x \in Callers : x # c => seen'[x] = seen[x]
  BY <1>1 DEF seen, SeenBy
<1>4. seen' = [x \in Callers |-> seen'[x]] /\ seen = [x \in Callers |-> seen[x]]
  BY DEF seen
<1>5. QED BY <1>2, <1>3, <1>4

\* SchnorrIssuer implements SigningService: callers see only requests and the
\* signatures that answer them.
THEOREM CallersAreServed == Spec => ServesCallers
<1>1. Init => Service!Init
  <2> SUFFICES ASSUME Init PROVE Service!Init
    OBVIOUS
  <2>1. Accepted \in SUBSET Signatures
    BY DEF Accepted
  <2>2. NoCredential = Service!Nothing
    BY DEF NoCredential, Service!Nothing
  <2>3. \A c \in Callers : SeenBy(c) = Service!Holding(Service!Nothing)
    BY <2>2 DEF Init, SeenBy, Returned, Service!Holding
  <2>4. QED BY <2>1, <2>3 DEF Service!Init
<1>2. IssuerInv /\ [Next]_vars => [Service!Next]_(Service!vars)
  <2> SUFFICES ASSUME IssuerInv, [Next]_vars
               PROVE  Service!Next \/ UNCHANGED Service!vars
    OBVIOUS
  <2>1. UNCHANGED Accepted
    <3>1. UNCHANGED digest
      BY DEF Next, Initialize, Initialized, BeginGenerate, Generate, BeginConsult,
             Consult, Begin, Draw, Commit, vars
    <3>2. QED BY <3>1 DEF Accepted, Verifies
  <2>2. ASSUME UNCHANGED seen PROVE UNCHANGED Service!vars
    BY <2>1, <2>2 DEF Service!vars, seen
  <2>3. ASSUME UNCHANGED <<calls, keys>> PROVE UNCHANGED Service!vars
    BY <2>2, <2>3 DEF seen, SeenBy
  <2>4. ASSUME NEW c \in Callers, NEW call, UNCHANGED keys,
               calls[c].at \notin {"draw", "commit"}, call.at \notin {"draw", "commit"},
               call.credential = calls[c].credential,
               calls' = [calls EXCEPT ![c] = call]
        PROVE  UNCHANGED Service!vars
    <3>1. seen' = [seen EXCEPT ![c] = Service!Holding(call.credential)]
      BY <2>4, DeskOfHolder DEF IssuerInv
    <3>2. seen[c] = Service!Holding(calls[c].credential)
      BY <2>4, Holder
    <3>3. seen' = seen
      BY <2>4, <3>1, <3>2 DEF seen
    <3>4. QED BY <2>2, <3>3
  <2>5. ASSUME NEW c \in Callers, BeginGenerate(c) PROVE UNCHANGED Service!vars
    <3>1. /\ UNCHANGED keys /\ calls' = [calls EXCEPT ![c] = Generating]
          /\ calls[c].at = "idle" /\ Generating.at = "generate"
          /\ Generating.credential = calls[c].credential
      BY <2>5 DEF BeginGenerate, Returned, Generating
    <3>2. QED BY <2>4, <3>1
  <2>6. ASSUME NEW c \in Callers, NEW secret \in Secrets, Generate(c, secret)
        PROVE  UNCHANGED Service!vars
    <3>1. calls[c] = Generating
      <4>1. calls[c] \in CallStates /\ calls[c].at = "generate"
        BY <2>6 DEF Generate, IssuerInv, TypeOK
      <4>2. QED BY <4>1 DEF CallStates, Returned, Consulting, Drawing, Committing
    <3>2. /\ keys' = [keys EXCEPT ![c] = keys'[c]]
          /\ calls' = [calls EXCEPT ![c] = Returned(NoCredential)]
      BY <2>6 DEF Generate, IssuerInv, TypeOK
    <3>3. \A x \in Callers : SeenBy(x)' = SeenBy(x)
      BY <3>1, <3>2 DEF SeenBy, Generating, Returned, IssuerInv, TypeOK
    <3>4. QED BY <2>2, <3>3 DEF seen
  <2>7. ASSUME NEW c \in Callers, BeginConsult(c) PROVE UNCHANGED Service!vars
    BY <2>4, <2>7 DEF BeginConsult, Consulting
  <2>8. ASSUME NEW c \in Callers, Consult(c) PROVE UNCHANGED Service!vars
    BY <2>4, <2>8 DEF Consult, Returned
  <2>9. ASSUME NEW c \in Callers, NEW message \in Messages, Begin(c, message)
        PROVE  Service!Next
    <3>1. /\ Drawing(message).at = "draw" /\ Drawing(message).message = message
          /\ calls' = [calls EXCEPT ![c] = Drawing(message)] /\ UNCHANGED keys
      BY <2>9 DEF Drawing, Begin
    <3>2. seen' = [seen EXCEPT ![c] = Service!Waiting(keys[c].public, message)]
      BY <3>1, DeskOfAsker DEF IssuerInv
    <3>3. seen[c].at = "idle"
      <4>1. calls[c].at = "idle" /\ calls[c].at \notin {"draw", "commit"}
        BY <2>9 DEF Begin
      <4>2. seen[c] = Service!Holding(calls[c].credential)
        BY <4>1, Holder
      <4>3. Service!Holding(calls[c].credential).at = "idle"
        BY DEF Service!Holding
      <4>4. QED BY <4>2, <4>3
    <3>4. keys[c].public \in Points
      BY <2>9, KeyFacts DEF Begin, IssuerInv
    <3>5. Service!Ask(c, keys[c].public, message)
      BY <2>1, <3>2, <3>3 DEF Service!Ask, seen
    <3>6. QED BY <3>4, <3>5 DEF Service!Next
  <2>10. ASSUME NEW c \in Callers, NEW scalar \in Scalars, Draw(c, scalar)
         PROVE  UNCHANGED Service!vars
    <3> DEFINE call == Committing(calls[c].message, scalar)
    <3>1. /\ call.at = "commit" /\ call.message = calls[c].message
          /\ calls' = [calls EXCEPT ![c] = call] /\ UNCHANGED keys
          /\ calls[c].at = "draw"
      BY <2>10 DEF Committing, Draw
    <3> HIDE DEF call
    <3>2. seen' = [seen EXCEPT ![c] = Service!Waiting(keys[c].public, call.message)]
      BY <3>1, DeskOfAsker DEF IssuerInv
    <3>3. seen[c] = Service!Waiting(keys[c].public, calls[c].message)
      BY <3>1, Asker
    <3>4. seen' = seen
      BY <3>1, <3>2, <3>3 DEF seen
    <3>5. QED BY <2>2, <3>4
  <2>11. ASSUME NEW c \in Callers, Commit(c)
         PROVE  Service!Next \/ UNCHANGED Service!vars
    <3> DEFINE message == calls[c].message
               call == Signed(c, message, calls[c].scalar)
    <3>1. /\ calls[c].at = "commit" /\ Ready(c) /\ keys[c].made /\ UNCHANGED keys
          /\ calls' = [calls EXCEPT ![c] = call]
      BY <2>11 DEF Commit, IssuerInv, IssuersHaveKeys
    <3>2. message \in Messages /\ calls[c].scalar \in Scalars
      BY <3>1, CallFacts DEF IssuerInv, TypeOK
    <3>3. \/ call = Drawing(message)
          \/ \E s \in Signatures : /\ call = Returned(s) /\ ValidHere(s)
                                   /\ s.key = keys[c].public /\ s.message = message
      BY <3>1, <3>2, SignedFacts DEF IssuerInv
    <3>4. seen[c] = Service!Waiting(keys[c].public, message)
      BY <3>1, Asker
    <3> HIDE DEF call, message
    <3>5. CASE call = Drawing(message)
      <4>1. call.at = "draw" /\ call.message = message
        BY <3>5 DEF Drawing
      <4>2. seen' = [seen EXCEPT ![c] = Service!Waiting(keys[c].public, call.message)]
        BY <3>1, <4>1, DeskOfAsker DEF IssuerInv
      <4>3. seen' = seen
        BY <3>4, <4>1, <4>2 DEF seen
      <4>4. QED BY <2>2, <4>3
    <3>6. ASSUME NEW s \in Signatures, call = Returned(s), ValidHere(s),
                 s.key = keys[c].public, s.message = message
          PROVE  Service!Next
      <4>1. s \in Accepted
        BY <3>6, ValidIsAgreed DEF IssuerInv
      <4>2. seen' = [seen EXCEPT ![c] = Service!Holding(s)]
        <5>1. call.at = "idle" /\ call.credential = s
          BY <3>6 DEF Returned
        <5>2. call.at \notin {"draw", "commit"}
          BY <5>1
        <5>3. seen' = [seen EXCEPT ![c] = Service!Holding(call.credential)]
          BY <3>1, <5>2, DeskOfHolder DEF IssuerInv
        <5>4. QED BY <5>1, <5>3
      <4>3. Service!HandOver(c, s)
        BY <2>1, <3>4, <3>6, <4>2 DEF Service!HandOver, seen
      <4>4. QED BY <4>1, <4>3 DEF Service!Next
    <3>7. QED BY <3>3, <3>5, <3>6
  <2>12. QED
    BY <2>3, <2>5, <2>6, <2>7, <2>8, <2>9, <2>10, <2>11
       DEF Next, Initialize, Initialized, vars
<1>3. QED BY <1>1, <1>2, IssuerInvariant, PTL DEF Spec, ServesCallers, Service!Spec
=============================================================================
