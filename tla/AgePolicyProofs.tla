-------------------------- MODULE AgePolicyProofs --------------------------
(***************************************************************************)
(* The properties of AgePolicy for every walk through the calendar, every  *)
(* threshold and every birth day: the circuit's age booleans mean ages,    *)
(* nobody gets younger, and a decoded policy is the 18-year rule.          *)
(***************************************************************************)
EXTENDS AgePolicy, StatementProofs

\* The next day of a supported day that is not the last one of the calendar is
\* supported and later, and the last one is not before it.
LEMMA TomorrowIsNext ==
    ASSUME NEW date \in BirthDays, NEW last \in BirthDays,
           ~Before(last, date), date # last
    PROVE  /\ Tomorrow(date) \in BirthDays
           /\ ~Before(Tomorrow(date), date)
           /\ ~Before(last, Tomorrow(date))
<1> DEFINE y == date.year
           m == date.month
           d == date.day
<1>1. /\ y \in SupportedYears /\ m \in 1..12 /\ d \in 1..31
      /\ d <= MonthLength(y, m) /\ date = Date(y, m, d)
  BY DEF BirthDays, Date
<1>2. /\ last.year \in SupportedYears /\ last.month \in 1..12 /\ last.day \in 1..31
      /\ last.day <= MonthLength(last.year, last.month)
      /\ last = Date(last.year, last.month, last.day)
  BY DEF BirthDays, Date
<1> /\ y \in Int /\ m \in Int /\ d \in Int
    /\ last.year \in Int /\ last.month \in Int /\ last.day \in Int
  BY <1>1, <1>2 DEF SupportedYears, FirstSupportedYear, LastSupportedYear
<1>3. Before(date, last)
  <2>1. ~(y = last.year /\ m = last.month /\ d = last.day)
    BY <1>1, <1>2
  <2>2. QED
    BY <2>1 DEF Before
<1>4. CASE d < MonthLength(y, m)
  <2>1. Tomorrow(date) = Date(y, m, d + 1)
    BY <1>1, <1>4 DEF Tomorrow, Date
  <2>2. Tomorrow(date) \in BirthDays
    BY <1>1, <1>4, <2>1, DayCountTypes DEF BirthDays, Date
  <2>3. ~Before(Tomorrow(date), date) /\ ~Before(last, Tomorrow(date))
    <3>1. /\ Tomorrow(date).year = y /\ Tomorrow(date).month = m
          /\ Tomorrow(date).day = d + 1
      BY <2>1 DEF Date
    <3>2. QED BY <1>3, <3>1 DEF Before
  <2>4. QED BY <2>2, <2>3
<1>5. CASE d = MonthLength(y, m) /\ m < 12
  <2>1. Tomorrow(date) = Date(y, m + 1, 1)
    BY <1>1, <1>5 DEF Tomorrow
  <2>2. Tomorrow(date) \in BirthDays
    BY <1>1, <1>5, <2>1, DayCountTypes DEF BirthDays, Date
  <2>3. last.year = y /\ last.month = m => last.day <= d
    BY <1>2, <1>5
  <2>4. ~Before(Tomorrow(date), date) /\ ~Before(last, Tomorrow(date))
    <3>1. /\ Tomorrow(date).year = y /\ Tomorrow(date).month = m + 1
          /\ Tomorrow(date).day = 1
      BY <2>1 DEF Date
    <3>2. last.day >= 1
      BY <1>2
    <3>3. QED BY <1>3, <2>3, <3>1, <3>2 DEF Before
  <2>5. QED BY <2>2, <2>4
<1>6. CASE d = MonthLength(y, m) /\ m = 12
  <2>1. Tomorrow(date) = Date(y + 1, 1, 1) /\ d = 31
    BY <1>1, <1>6 DEF Tomorrow, MonthLength
  <2>2. y < last.year
    <3>1. last.month <= 12 /\ last.day <= 31
      BY <1>2
    <3>2. QED BY <1>3, <1>6, <2>1, <3>1 DEF Before
  <2>3. y + 1 \in SupportedYears
    BY <1>1, <1>2, <2>2 DEF SupportedYears, FirstSupportedYear, LastSupportedYear
  <2>4. Tomorrow(date) \in BirthDays
    BY <2>1, <2>3, DayCountTypes DEF BirthDays, Date
  <2>5. ~Before(Tomorrow(date), date) /\ ~Before(last, Tomorrow(date))
    <3>1. /\ Tomorrow(date).year = y + 1 /\ Tomorrow(date).month = 1
          /\ Tomorrow(date).day = 1
      BY <2>1 DEF Date
    <3>2. last.month >= 1 /\ last.day >= 1
      BY <1>2
    <3>3. QED BY <2>2, <3>1, <3>2 DEF Before
  <2>6. QED BY <2>4, <2>5
<1>7. QED
  BY <1>1, <1>4, <1>5, <1>6, DayCountTypes

WalkInv == TypeOK /\ ~Before(LastDay, today)

\* The walk stays within the supported calendar, up to its last day.
LEMMA WalkInvariant == Spec => []WalkInv
<1>1. Init => WalkInv
  BY WalkAssumption DEF Init, WalkInv, TypeOK
<1>2. WalkInv /\ [Next]_vars => WalkInv'
  <2> SUFFICES ASSUME WalkInv, [Next]_vars PROVE WalkInv'
    OBVIOUS
  <2>1. CASE NextDay
    <3>1. today' \in BirthDays /\ ~Before(LastDay, today')
      BY <2>1, TomorrowIsNext, WalkAssumption DEF NextDay, WalkInv, TypeOK
    <3>2. QED BY <3>1 DEF WalkInv, TypeOK
  <2>2. CASE UNCHANGED vars
    BY <2>2 DEF vars, WalkInv, TypeOK
  <2>3. QED BY <2>1, <2>2 DEF Next
<1>3. QED BY <1>1, <1>2, PTL DEF Spec

\* The circuit's age booleans agree with completed years of age on every
\* policy day and for every threshold whose cutoff is supported.
THEOREM AgeWiresAreAges == Spec => []WiresAgreeWithAges
<1>1. WalkInv => WiresAgreeWithAges
  <2> SUFFICES ASSUME WalkInv, NEW n \in Thresholds, CutoffSupported(today, n),
                      NEW birth \in Births(n),
                      NEW claim \in {AgeAbove(n), AgeBelow(n)}
               PROVE  LET a == [birthDay |-> birth]
                      IN  ClaimWire(claim, a, today) = ClaimHolds(claim, a, today)
    BY DEF WiresAgreeWithAges
  <2>1. claim \in AgeClaims /\ claim.years = n /\ claim.kind # "Role"
    BY WalkAssumption DEF AgeAbove, AgeBelow, AgeClaims
  <2>2. birth \in BirthDays /\ today \in BirthDays
    BY DEF Births, WalkInv, TypeOK
  <2>3. ClaimWire(claim, [birthDay |-> birth], today)
           <=> ClaimHolds(claim, [birthDay |-> birth], today)
    BY <2>1, <2>2, WireMeansClaim DEF ClaimKinds
  <2>4. /\ ClaimWire(claim, [birthDay |-> birth], today) \in BOOLEAN
        /\ ClaimHolds(claim, [birthDay |-> birth], today) \in BOOLEAN
    BY DEF ClaimWire, ClaimHolds
  <2>5. QED BY <2>3, <2>4
<1>2. QED BY <1>1, WalkInvariant, PTL

\* An 18-year cutoff admits exactly those who have completed 18 years on the
\* as-of day itself, February 29 included: 18 years before a leap year is never
\* a leap year, so the cutoff of February 28 excludes nobody.
LEMMA CutoffIsEighteen ==
    ASSUME NEW asOf \in BirthDays, NEW birth \in BirthDays
    PROVE  ~Before(PolicyCutoff(asOf), birth) <=> AgeOn(birth, asOf) >= 18
<1>1. PolicyCutoff(asOf) = BirthdayCutoff(asOf, 18)
  BY DEF PolicyCutoff, BirthdayCutoff
<1>2. ~Before(PolicyCutoff(asOf), birth)
         <=> AgeOn(birth, EvaluationDay(asOf)) >= 18
  BY <1>1, CutoffMeansAge DEF Years
<1>3. CASE ~(asOf.month = 2 /\ asOf.day = 29)
  <2>1. EvaluationDay(asOf) = asOf
    BY <1>3 DEF EvaluationDay, Date, BirthDays
  <2>2. QED BY <1>2, <2>1
<1>4. CASE asOf.month = 2 /\ asOf.day = 29
  <2> DEFINE early == \/ 2 < birth.month
                      \/ 2 = birth.month /\ 28 < birth.day
             later == \/ 2 < birth.month
                      \/ 2 = birth.month /\ 29 < birth.day
  <2>1. /\ asOf.year \in SupportedYears /\ birth.year \in SupportedYears
        /\ birth.month \in 1..12 /\ birth.day \in 1..31
        /\ birth.day <= MonthLength(birth.year, birth.month)
        /\ 29 <= MonthLength(asOf.year, 2)
    BY <1>4 DEF BirthDays
  <2>2. IsLeap(asOf.year)
    BY <2>1 DEF MonthLength
  <2>3. AgeOn(birth, EvaluationDay(asOf))
           = asOf.year - birth.year - (IF early THEN 1 ELSE 0)
    BY <1>4, <2>1 DEF AgeOn, EvaluationDay, Before, Date
  <2>4. AgeOn(birth, asOf) = asOf.year - birth.year - (IF later THEN 1 ELSE 0)
    BY <1>4, <2>1 DEF AgeOn, Before, Date
  <2>5. CASE birth.month = 2 /\ birth.day = 29
    <3>1. IsLeap(birth.year)
      BY <2>1, <2>5 DEF MonthLength
    <3>2. asOf.year - birth.year # 18
      BY <2>1, <2>2, <3>1 DEF IsLeap, SupportedYears, FirstSupportedYear,
                             LastSupportedYear
    <3>3. early /\ ~later
      BY <2>5
    <3>4. asOf.year \in Int /\ birth.year \in Int
      BY <2>1 DEF SupportedYears, FirstSupportedYear, LastSupportedYear
    <3>5. QED
      BY <1>2, <2>3, <2>4, <3>2, <3>3, <3>4
  <2>6. CASE ~(birth.month = 2 /\ birth.day = 29)
    BY <1>2, <2>1, <2>3, <2>4, <2>6
  <2>7. QED BY <2>5, <2>6
<1>5. QED BY <1>3, <1>4

\* Whatever cutoff arrives, a policy that decodes on any day of the calendar
\* admits exactly those who have completed 18 years on that day.
THEOREM DecodedPolicyIsEighteen == Spec => []DecodedPoliciesAreEighteen
<1>1. WalkInv => DecodedPoliciesAreEighteen
  <2> SUFFICES ASSUME WalkInv, NEW cutoff \in Births(18),
                      "cutoff" \in DOMAIN Decode([asOf |-> today, cutoff |-> cutoff]),
                      NEW birth \in Births(18)
               PROVE  ~Before(Decode([asOf |-> today, cutoff |-> cutoff]).cutoff, birth)
                         <=> AgeOn(birth, today) >= 18
    BY DEF DecodedPoliciesAreEighteen
  <2>1. birth \in BirthDays /\ today \in BirthDays
    BY DEF Births, WalkInv, TypeOK
  <2>2. Decode([asOf |-> today, cutoff |-> cutoff]).cutoff = PolicyCutoff(today)
    BY DEF Decode, FromAsOf, InvalidDate, InvalidCredential
  <2>3. QED BY <2>1, <2>2, CutoffIsEighteen
<1>2. QED BY <1>1, WalkInvariant, PTL

\* The two cutoffs of the code, the policy's and the circuit's, are one rule: on
\* every day from 1918 on they name the same supported day, February 29
\* included, and before they both refuse.
THEOREM PolicyAndCircuitAgree == Spec => []OneEighteenYearRule
<1>1. WalkInv => OneEighteenYearRule
  <2> SUFFICES ASSUME WalkInv PROVE OneEighteenYearRule
    OBVIOUS
  <2>1. today \in BirthDays /\ today.year \in SupportedYears
    BY DEF WalkInv, TypeOK, BirthDays
  <2>2. PolicyCutoff(today) = BirthdayCutoff(today, 18)
    BY DEF PolicyCutoff, BirthdayCutoff
  <2>3. CutoffSupported(today, 18) <=> today.year >= FirstSupportedYear + 18
    <3>1. ASSUME CutoffSupported(today, 18)
          PROVE  today.year >= FirstSupportedYear + 18
      <4>1. today.year - 18 \in SupportedYears
        BY <3>1 DEF CutoffSupported, BirthdayCutoff, Date, BirthDays
      <4>2. QED
        BY <2>1, <4>1 DEF SupportedYears, FirstSupportedYear, LastSupportedYear
    <3>2. ASSUME ~CutoffSupported(today, 18)
          PROVE  ~(today.year >= FirstSupportedYear + 18)
      <4>1. today.year - 18 < FirstSupportedYear
        BY <2>1, <3>2, UnsupportedCutoffs DEF Years
      <4>2. QED
        BY <2>1, <4>1 DEF SupportedYears, FirstSupportedYear, LastSupportedYear
    <3>3. QED BY <3>1, <3>2
  <2>4. QED
    BY <2>2, <2>3 DEF OneEighteenYearRule, FromAsOf, CutoffSupported
<1>2. QED BY <1>1, WalkInvariant, PTL

\* A step of the walk goes from a supported day to a later one.
LEMMA WalkGoesForward ==
    ASSUME WalkInv, [Next]_vars
    PROVE  today \in BirthDays /\ today' \in BirthDays /\ ~Before(today', today)
<1>1. today \in BirthDays
  BY DEF WalkInv, TypeOK
<1>2. CASE NextDay
  BY <1>1, <1>2, TomorrowIsNext, WalkAssumption DEF NextDay, WalkInv
<1>3. CASE UNCHANGED vars
  <2>1. today.year \in Int /\ today.month \in Int /\ today.day \in Int
    BY <1>1 DEF BirthDays, SupportedYears, FirstSupportedYear, LastSupportedYear
  <2>2. QED BY <1>1, <1>3, <2>1 DEF vars, Before
<1>4. QED BY <1>2, <1>3 DEF Next

\* From one day to the next, for every threshold that has a cutoff, whoever is
\* above stays above and whoever is below was below: a verifier who renews its
\* policy day turns nobody away for age who was admitted before.
THEOREM AgesOnlyGrow == Spec => NobodyGetsYounger
<1> DEFINE Grown ==
      \A n \in Thresholds :
         CutoffSupported(today, n) =>
            /\ CutoffSupported(today', n)
            /\ \A birth \in Births(n) :
                  LET a == [birthDay |-> birth]
                  IN  /\ ClaimWire(AgeAbove(n), a, today)
                            => ClaimWire(AgeAbove(n), a, today')
                      /\ ClaimWire(AgeBelow(n), a, today')
                            => ClaimWire(AgeBelow(n), a, today)
<1>1. WalkInv /\ [Next]_vars => [Grown]_vars
  <2> SUFFICES ASSUME WalkInv, [Next]_vars, NEW n \in Thresholds,
                      CutoffSupported(today, n)
               PROVE  /\ CutoffSupported(today', n)
                      /\ \A birth \in Births(n) :
                            LET a == [birthDay |-> birth]
                            IN  /\ ClaimWire(AgeAbove(n), a, today)
                                      => ClaimWire(AgeAbove(n), a, today')
                                /\ ClaimWire(AgeBelow(n), a, today')
                                      => ClaimWire(AgeBelow(n), a, today)
    OBVIOUS
  <2>1. n \in Years
    BY WalkAssumption
  <2>2. CutoffSupported(today', n)
    BY <2>1, WalkGoesForward, CutoffsAdvance
  <2>3. ASSUME NEW birth \in Births(n)
        PROVE  LET a == [birthDay |-> birth]
               IN  /\ ClaimWire(AgeAbove(n), a, today)
                         => ClaimWire(AgeAbove(n), a, today')
                   /\ ClaimWire(AgeBelow(n), a, today')
                         => ClaimWire(AgeBelow(n), a, today)
    <3> DEFINE a == [birthDay |-> birth]
    <3>1. a.birthDay \in BirthDays
      BY DEF Births
    <3> HIDE DEF a
    <3>2. /\ AgeAbove(n) \in AgeClaims /\ AgeAbove(n).kind = "AgeAbove"
          /\ AgeAbove(n).years = n
          /\ AgeBelow(n) \in AgeClaims /\ AgeBelow(n).kind = "AgeBelow"
          /\ AgeBelow(n).years = n
      BY <2>1 DEF AgeClaims, AgeAbove, AgeBelow
    <3>3. /\ ClaimWire(AgeAbove(n), a, today) => ClaimWire(AgeAbove(n), a, today')
          /\ ClaimWire(AgeBelow(n), a, today') => ClaimWire(AgeBelow(n), a, today)
      BY <3>1, <3>2, WalkGoesForward, AgesAdvance
    <3>4. QED BY <3>3 DEF a
  <2>4. QED BY <2>2, <2>3
<1>2. QED BY <1>1, WalkInvariant, PTL DEF Spec, NobodyGetsYounger
=============================================================================
