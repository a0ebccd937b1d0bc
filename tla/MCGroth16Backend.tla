-------------------------- MODULE MCGroth16Backend --------------------------
(* Small instances of Groth16Backend for TLC.                              *)
EXTENDS Groth16Refinement, TLC

CONSTANTS i1, i2, c1, c2, c3, h1, h2, h3, b1, b2, a1, a2

\* Born on March 10, 2000 and on the following day.
Adult == [birthDay |-> Date(2000, 3, 10), country |-> "DE", role |-> "Student",
          ageSalt |-> 1, walletSecret |-> 1]
Minor == [birthDay |-> Date(2000, 3, 11), country |-> "US", role |-> "Staff",
          ageSalt |-> 2, walletSecret |-> 2]

\* The day the first of them turns 18, the day before, and the day the other
\* does.
Birthday == Date(2018, 3, 10)
DayBefore == Date(2018, 3, 9)
DayAfter == Date(2018, 3, 11)

Interchangeable ==
    UNION {Permutations(S) :
        S \in {Issuers, CredentialIds, Handles, BackendIds, ArtifactIds}}

Profiles2 == {Adult, Minor}
Days1 == {Birthday}
Days3 == {DayBefore, Birthday, DayAfter}

\* Born on a leap day, and asked on one twenty years later.
Leapling == [Adult EXCEPT !.birthDay = Date(2000, 2, 29)]
LeapProfiles == {Leapling}
LeapDays == {Date(2020, 2, 29)}
LeapClaims == {{AgeAbove(20)}}

OneClaim == {{AgeAbove(18)}}
BothSides == {{AgeAbove(18)}, {AgeBelow(18)}}
\* An age claim that may turn custom between two readings, an age claim whose cutoff
\* lies in the first supported year, and one whose cutoff lies before it.
OddClaims == {{AgeAbove(18), Custom}, {AgeBelow(118)}, {AgeBelow(119)}}
EveryClaim ==
    {{AgeBelow(18)}, {CountryIsEu}, {RoleIs("Staff")}} \cup OddClaims
=============================================================================
