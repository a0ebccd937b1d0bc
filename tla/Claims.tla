------------------------------- MODULE Claims -------------------------------
(***************************************************************************)
(* The predicates a holder can establish (claim.rs), the boolean the       *)
(* Groth16 circuit computes for each (groth16/template.rs,                 *)
(* groth16/commitment.rs), and what each predicate means about a person.   *)
(***************************************************************************)
EXTENDS Calendar

Roles == {"Staff", "Student", "Visitor"}

\* Role::field_element
RoleElement == [role \in Roles |->
    IF role = "Staff" THEN 1 ELSE IF role = "Student" THEN 2 ELSE 3]

EUCountries ==
    {"AT", "BE", "BG", "HR", "CY", "CZ", "DK", "EE", "FI", "FR", "DE", "GR",
     "HU", "IE", "IT", "LV", "LT", "LU", "MT", "NL", "PL", "PT", "RO", "SK",
     "SI", "ES", "SE"}

Years == 0..255                                         \* a Rust u8

\* The enum ClaimKind, and the kinds the built-in claims report.
AgeAbove(n)  == [kind |-> "AgeAbove", years |-> n]
AgeBelow(n)  == [kind |-> "AgeBelow", years |-> n]
CountryIsEu  == [kind |-> "CountryIsEu"]
RoleIs(role) == [kind |-> "Role", role |-> role]
Custom       == [kind |-> "Custom"]

AgeClaims  == [kind : {"AgeAbove", "AgeBelow"}, years : Years]
ClaimKinds ==
    AgeClaims \cup {CountryIsEu, Custom} \cup [kind : {"Role"}, role : Roles]

----------------------------------------------------------------------------
(* The circuit's side.                                                     *)

\* Defect for a mutant run: a leap day falls back to the first of its month.
BirthdayCutoffAtMonthStart(asOf, years) ==
    Date(asOf.year - years, asOf.month,
         IF asOf.month = 2 /\ asOf.day = 29 THEN 1 ELSE asOf.day)

\* groth16.rs birthday_cutoff: subtract whole years; February 29 always
\* becomes February 28, also when the target year is a leap year.
BirthdayCutoff(asOf, years) ==
    Date(asOf.year - years, asOf.month,
         IF asOf.month = 2 /\ asOf.day = 29 THEN 28 ELSE asOf.day)

\* Defect for a mutant run: January 1, 1900 itself is not reachable.
CutoffAfterFirstYear(asOf, years) == asOf.year - years > FirstSupportedYear

\* template.rs cutoff: both `expect`s succeed; otherwise the caller panics.
CutoffSupported(asOf, years) == BirthdayCutoff(asOf, years) \in BirthDays

\* Defects for mutant runs: the cutoff day falls on the wrong side.
ClaimWireExclusiveAbove(claim, a, asOf) ==
    /\ claim.kind = "AgeAbove"
    /\ DaysSince1900(a.birthDay) < DaysSince1900(BirthdayCutoff(asOf, claim.years))

ClaimWireInclusiveBelow(claim, a, asOf) ==
    /\ claim.kind = "AgeBelow"
    /\ DaysSince1900(a.birthDay) >= DaysSince1900(BirthdayCutoff(asOf, claim.years))

\* Defect for a mutant run: the operands of both comparisons are swapped.
ClaimWireSwapped(claim, a, asOf) ==
    \/ /\ claim.kind = "AgeAbove"
       /\ DaysSince1900(BirthdayCutoff(asOf, claim.years))
            <= DaysSince1900(a.birthDay)
    \/ /\ claim.kind = "AgeBelow"
       /\ DaysSince1900(BirthdayCutoff(asOf, claim.years))
            > DaysSince1900(a.birthDay)
    \/ claim.kind = "CountryIsEu" /\ a.country \in EUCountries
    \/ claim.kind = "Role" /\ RoleElement[a.role] = RoleElement[claim.role]

\* The R1CS boolean of one claim over the witnessed attributes `a`.
ClaimWire(claim, a, asOf) ==
    \/ /\ claim.kind = "AgeAbove"
       /\ DaysSince1900(a.birthDay)
            <= DaysSince1900(BirthdayCutoff(asOf, claim.years))
    \/ /\ claim.kind = "AgeBelow"
       /\ DaysSince1900(a.birthDay)
            > DaysSince1900(BirthdayCutoff(asOf, claim.years))
    \/ claim.kind = "CountryIsEu" /\ a.country \in EUCountries
    \/ claim.kind = "Role" /\ RoleElement[a.role] = RoleElement[claim.role]

----------------------------------------------------------------------------
(* What the claims mean, in civil dates and completed years of age.        *)

\* Completed years on `day` of a person born on `birth`.
AgeOn(birth, day) ==
    day.year - birth.year
        - (IF Before(Date(0, day.month, day.day),
                     Date(0, birth.month, birth.day)) THEN 1 ELSE 0)

\* The protocol evaluates ages of a February 29 as of February 28.
EvaluationDay(asOf) ==
    Date(asOf.year, asOf.month,
         IF asOf.month = 2 /\ asOf.day = 29 THEN 28 ELSE asOf.day)

ClaimHolds(claim, a, asOf) ==
    \/ /\ claim.kind = "AgeAbove"
       /\ AgeOn(a.birthDay, EvaluationDay(asOf)) >= claim.years
    \/ /\ claim.kind = "AgeBelow"
       /\ AgeOn(a.birthDay, EvaluationDay(asOf)) < claim.years
    \/ claim.kind = "CountryIsEu" /\ a.country \in EUCountries
    \/ claim.kind = "Role" /\ a.role = claim.role

\* The thresholds as claim.rs words them: "at least" and "at most" the
\* supplied number of years, on the verification date itself.
DocumentedAgeAbove(n, birth, asOf) == AgeOn(birth, asOf) >= n
DocumentedAgeBelow(n, birth, asOf) == AgeOn(birth, asOf) <= n
=============================================================================
