------------------------------ MODULE AgePolicy ------------------------------
(***************************************************************************)
(* The 18-year policy a verifier publishes (policy.rs), followed day by    *)
(* day.  `today` is the verifier's date and walks through the supported    *)
(* calendar; on each day the verifier derives a policy, publishes it as    *)
(* JSON, and receivers decode what reaches them, whose cutoff may differ.  *)
(***************************************************************************)
EXTENDS Claims

CONSTANTS
    FirstDay, LastDay,  \* the days walked through, both BirthDays
    Thresholds          \* ages in years that claims may ask about

ASSUME WalkAssumption ==
    /\ FirstDay \in BirthDays /\ LastDay \in BirthDays
    /\ ~Before(LastDay, FirstDay)
    /\ Thresholds \subseteq Years

VARIABLE
    today               \* the verifier's as-of day

vars == <<today>>

InvalidDate       == [error |-> "InvalidDate"]
InvalidCredential == [error |-> "InvalidCredential"]

\* Defect for a mutant run: a leap day is kept in the target year.
PolicyCutoffKeepingLeapDay(asOf) == Date(asOf.year - 18, asOf.month, asOf.day)

\* AgePolicy::cutoff and the range check of BirthDay::from_date.
PolicyCutoff(asOf) ==
    Date(asOf.year - 18, asOf.month,
         IF asOf.month = 2 /\ asOf.day = 29 THEN 28 ELSE asOf.day)

\* AgePolicy::from_as_of; scope and issuer fingerprint are carried unread.
FromAsOf(asOf) ==
    IF PolicyCutoff(asOf) \in BirthDays
    THEN [asOf |-> asOf, cutoff |-> PolicyCutoff(asOf)]
    ELSE InvalidDate

\* Defect for a mutant run: the cutoff on the wire is trusted.
DecodeTrustingCutoff(wire) ==
    IF FromAsOf(wire.asOf) = InvalidDate THEN InvalidDate ELSE wire

\* AgePolicy's Deserialize: the policy is derived again from the as-of day and
\* the cutoff on the wire must be the derived one.
Decode(wire) ==
    LET policy == FromAsOf(wire.asOf)
    IN  IF policy = InvalidDate THEN InvalidDate
        ELSE IF policy.cutoff # wire.cutoff THEN InvalidCredential
        ELSE policy

Tomorrow(date) ==
    IF date.day < MonthLength(date.year, date.month)
    THEN [date EXCEPT !.day = @ + 1]
    ELSE IF date.month < 12
    THEN Date(date.year, date.month + 1, 1)
    ELSE Date(date.year + 1, 1, 1)

Init == today = FirstDay

NextDay ==
    /\ today # LastDay
    /\ today' = Tomorrow(today)

Next == NextDay

Spec == Init /\ [][Next]_vars

----------------------------------------------------------------------------
\* Birth days around an anniversary `years` before today: the same day of the
\* year and its neighbours, the days around a leap day, the ends of the year.
Births(years) ==
    LET y == today.year - years
    IN  {date \in {Date(y, today.month, today.day + k) : k \in -1..1}
                  \cup {Date(y, 2, 28), Date(y, 2, 29), Date(y, 3, 1),
                        Date(y - 1, 12, 31), Date(y, 1, 1),
                        Date(y, 12, 31), Date(y + 1, 1, 1)} :
            date \in BirthDays}

\* Every day of the walk is a supported birth day.
TypeOK == today \in BirthDays

\* The booleans of the age circuit, which compares day counts against a
\* cutoff, agree with completed years of age in the calendar, on every day and
\* for every birth day near the threshold (groth16.rs, groth16/commitment.rs).
WiresAgreeWithAges ==
    \A n \in Thresholds :
        CutoffSupported(today, n) =>
            \A birth \in Births(n) :
                \A claim \in {AgeAbove(n), AgeBelow(n)} :
                    LET a == [birthDay |-> birth]
                    IN  ClaimWire(claim, a, today) = ClaimHolds(claim, a, today)

\* Whatever cutoff arrives with today's date, a policy that decodes admits
\* exactly the people who have completed 18 years today (AgePolicy's
\* Deserialize, AgePolicy::cutoff_day).
DecodedPoliciesAreEighteen ==
    \A cutoff \in Births(18) :
        LET policy == Decode([asOf |-> today, cutoff |-> cutoff])
        IN  "cutoff" \in DOMAIN policy =>
               \A birth \in Births(18) :
                   ~Before(policy.cutoff, birth) <=> AgeOn(birth, today) >= 18

\* The policy and the Groth16 circuit compute the 18-year cutoff in two places
\* of the code.  From 1918 on, leap days included, every day has a policy and
\* both name the same cutoff; before, where the circuit would panic, the policy
\* answers InvalidDate.
OneEighteenYearRule ==
    IF today.year >= FirstSupportedYear + 18
    THEN FromAsOf(today) = [asOf |-> today, cutoff |-> BirthdayCutoff(today, 18)]
    ELSE FromAsOf(today) = InvalidDate /\ ~CutoffSupported(today, 18)

\* In the circuit nobody gets younger.  From one day to the next a threshold
\* that had a cutoff keeps one, whoever could prove AgeAbove still can, and
\* whoever can prove AgeBelow could the day before: over the end of February,
\* where two days share a cutoff, over month ends and over the century.
NobodyGetsYounger ==
    [][\A n \in Thresholds :
         CutoffSupported(today, n) =>
            /\ CutoffSupported(today', n)
            /\ \A birth \in Births(n) :
                  LET a == [birthDay |-> birth]
                  IN  /\ ClaimWire(AgeAbove(n), a, today)
                            => ClaimWire(AgeAbove(n), a, today')
                      /\ ClaimWire(AgeBelow(n), a, today')
                            => ClaimWire(AgeBelow(n), a, today)]_vars
=============================================================================
