---------------------------- MODULE Commitments ----------------------------
(***************************************************************************)
(* What commitments and nullifiers are computed from (commitment.rs), with *)
(* the scopes of verifiers (policy.rs) packed into field elements.  The    *)
(* permutation of Poseidon is ideal, so that two digests are equal exactly *)
(* when the sponge absorbed the same blocks; the sponge pads with zeros    *)
(* and absorbs no length.                                                  *)
(***************************************************************************)
EXTENDS Encoding

CONSTANTS
    Rate,               \* elements of a block: three
    MaxScopeLength,     \* thirty bytes
    Blank,              \* bytes of white space
    LowerAndDigits,     \* bytes a scope may have anywhere
    Joiners             \* "-" and "_", after the first byte

\* The last conjunct is what makes thirty bytes and a length fit the field.
ASSUME CommitmentAssumption ==
    /\ Rate = 3
    /\ Blank \cup LowerAndDigits \cup Joiners \subseteq Bytes
    /\ Blank \cap (LowerAndDigits \cup Joiners) = {}
    /\ MaxScopeLength \in Nat /\ MaxScopeLength < ByteBase
    /\ Power[MaxScopeLength + 1] <= Modulus

\* Defect for a mutant run: two purposes share a label.
DomainShared == [age |-> 1, owner |-> 1, attributes |-> 3, nullifier |-> 4]

\* Numbers stand for the labels, which are different and shorter than a field
\* element.
Domain == [age |-> 1, owner |-> 2, attributes |-> 3, nullifier |-> 4]

\* poseidon_hash, by the blocks that are absorbed.
Poseidon(inputs) ==
    [block \in 1..((Len(inputs) + Rate - 1) \div Rate) |->
        [i \in 1..Rate |->
            IF (block - 1) * Rate + i <= Len(inputs)
            THEN inputs[(block - 1) * Rate + i] ELSE 0]]

----------------------------------------------------------------------------
(* Scopes.                                                                 *)

ScopeByte(index, byte) == byte \in LowerAndDigits \/ (index > 1 /\ byte \in Joiners)

\* Defect for a mutant run: scopes of any length.
NewScopeOfAnyLength(value) ==
    IF \A i \in DOMAIN value : value[i] \in Blank THEN "EmptyVerifierScope"
    ELSE IF \E i \in DOMAIN value : ~ScopeByte(i, value[i]) THEN "InvalidVerifierScope"
    ELSE "Ok"

\* VerifierScope::new
NewScope(value) ==
    IF \A i \in DOMAIN value : value[i] \in Blank THEN "EmptyVerifierScope"
    ELSE IF \/ Len(value) > MaxScopeLength
            \/ \E i \in DOMAIN value : ~ScopeByte(i, value[i])
    THEN "InvalidVerifierScope"
    ELSE "Ok"

\* VerifierScope::field_element
ScopeElement(scope) == LittleEndian(<<Len(scope)>> \o scope) % Modulus

----------------------------------------------------------------------------
(* Commitments, by the field elements they bind.                           *)

\* Country::field_element: the two letters of a code, big-endian.
CountryElement(code) == ByteBase * code[1] + code[2]

CommitAge(days, salt) == Poseidon(<<Domain.age, days, salt>>)
CommitOwner(secret) == Poseidon(<<Domain.owner, secret>>)
CommitAttributes(code, role, salt) ==
    Poseidon(<<Domain.attributes, CountryElement(code), role, salt>>)

DeriveNullifier(secret, scope) ==
    Poseidon(<<Domain.nullifier, secret, ScopeElement(scope)>>)

\* AgeCommitment::matches and its like: made anew and compared.
AgeMatches(commitment, days, salt) == commitment = CommitAge(days, salt)
OwnerMatches(commitment, secret) == commitment = CommitOwner(secret)
AttributesMatch(commitment, code, role, salt) ==
    commitment = CommitAttributes(code, role, salt)
=============================================================================
