---------------------------- MODULE Publications ----------------------------
(***************************************************************************)
(* Holders publish commitments and, for the scopes of verifiers,           *)
(* nullifiers (commitment.rs, policy.rs).  Others see digests and try      *)
(* openings on them.                                                       *)
(***************************************************************************)
EXTENDS Commitments, FiniteSets

CONSTANTS
    Days,           \* birth days, counted from 1900
    Salts, Secrets, \* field elements
    Codes,          \* of countries: pairs of capital letters
    Roles,          \* field elements of roles
    ScopeTexts,     \* texts given as a verifier's scope
    MaxPublished    \* bound on the number of digests

ASSUME PublicationAssumption ==
    /\ Days \cup Salts \cup Secrets \cup Roles \subseteq Elements
    /\ Codes \subseteq Bytes \X Bytes
    /\ \A text \in ScopeTexts : text \in Seq(Bytes)

VARIABLES
    published,      \* what was published, by purpose and opening
    refusal         \* the error of the last scope given, if any

vars == <<published, refusal>>

Digest(purpose, opening) ==
    CASE purpose = "age"        -> CommitAge(opening[1], opening[2])
      [] purpose = "owner"      -> CommitOwner(opening[1])
      [] purpose = "attributes" -> CommitAttributes(opening[1], opening[2], opening[3])
      [] purpose = "nullifier"  -> DeriveNullifier(opening[1], opening[2])

Published(purpose, opening) ==
    [purpose |-> purpose, opening |-> opening, digest |-> Digest(purpose, opening)]

Init == published = {} /\ refusal = "none"

Publish(purpose, opening) ==
    /\ Cardinality(published) < MaxPublished
    /\ published' = published \cup {Published(purpose, opening)}
    /\ refusal' = "none"

PublishAge(days, salt) == Publish("age", <<days, salt>>)
PublishOwner(secret) == Publish("owner", <<secret>>)
PublishAttributes(code, role, salt) == Publish("attributes", <<code, role, salt>>)

\* A scope's text must be accepted first.
PublishNullifier(secret, text) ==
    /\ NewScope(text) = "Ok"
    /\ Publish("nullifier", <<secret, text>>)

RefuseScope(text) ==
    /\ NewScope(text) # "Ok"
    /\ refusal' = NewScope(text)
    /\ UNCHANGED published

Next ==
    \/ \E days \in Days, salt \in Salts : PublishAge(days, salt)
    \/ \E secret \in Secrets : PublishOwner(secret)
    \/ \E code \in Codes, role \in Roles, salt \in Salts : PublishAttributes(code, role, salt)
    \/ \E secret \in Secrets, text \in ScopeTexts : PublishNullifier(secret, text)
    \/ \E text \in ScopeTexts : RefuseScope(text)

Spec == Init /\ [][Next]_vars

----------------------------------------------------------------------------
\* One digest has one purpose and one opening: a holder has a nullifier of its
\* own for every scope, and no digest passes for one of another kind.
DigestsBind ==
    \A p, q \in published : p.digest = q.digest => p = q

\* What was published as a commitment opens with the values it was made of and
\* with no others, and nothing else that was published opens as one.
OpensOnlyAsMade ==
    \A p \in published :
        /\ \A days \in Days, salt \in Salts :
              AgeMatches(p.digest, days, salt)
                  <=> p.purpose = "age" /\ p.opening = <<days, salt>>
        /\ \A secret \in Secrets :
              OwnerMatches(p.digest, secret)
                  <=> p.purpose = "owner" /\ p.opening = <<secret>>
        /\ \A code \in Codes, role \in Roles, salt \in Salts :
              AttributesMatch(p.digest, code, role, salt)
                  <=> p.purpose = "attributes" /\ p.opening = <<code, role, salt>>
=============================================================================
