-------------------------- MODULE StatementProofs --------------------------
(***************************************************************************)
(* What statements are made of.  Counting days orders dates, and the       *)
(* booleans of the age circuit mean what the claims say, for every         *)
(* supported date and threshold.  Composing keeps a plan a finite tree,    *)
(* walking one reports `good` only when every leaf is good, and its gates  *)
(* have exactly one solution, which reads the plan from its leaves up.     *)
(***************************************************************************)
EXTENDS Claims, ProofPlan, WellFoundedInduction, TLAPS

----------------------------------------------------------------------------
(* Dates and claims.                                                       *)

\* A year ends before the next one begins, on the day count.
LEMMA YearStep ==
    ASSUME NEW y \in SupportedYears, NEW z \in SupportedYears, y < z
    PROVE  DaysBeforeYear(y) + 365 + (IF IsLeap(y) THEN 1 ELSE 0)
              <= DaysBeforeYear(z)
BY SMTT(60) DEF DaysBeforeYear, IsLeap, SupportedYears,
                FirstSupportedYear, LastSupportedYear

\* A month ends before any later month of its year begins.
LEMMA MonthStep ==
    ASSUME NEW y \in SupportedYears, NEW m \in 1..12, NEW n \in 1..12, m < n
    PROVE  DaysBeforeMonth(y, m) + MonthLength(y, m) <= DaysBeforeMonth(y, n)
BY SMTT(60) DEF DaysBeforeMonth, MonthLength

\* The counts of days before a year and a month are integers, and every day
\* of a year is counted within the year.
LEMMA DayCountTypes ==
    ASSUME NEW y \in SupportedYears, NEW m \in 1..12
    PROVE  /\ DaysBeforeYear(y) \in Int
           /\ DaysBeforeMonth(y, m) \in Nat
           /\ MonthLength(y, m) \in 28..31
           /\ DaysBeforeMonth(y, m) + MonthLength(y, m)
                 <= 365 + (IF IsLeap(y) THEN 1 ELSE 0)
BY SMTT(60) DEF DaysBeforeYear, DaysBeforeMonth, MonthLength, SupportedYears,
                FirstSupportedYear, LastSupportedYear, IsLeap

\* An earlier date has a smaller day count.
LEMMA EarlierCountsLess ==
    ASSUME NEW a \in BirthDays, NEW b \in BirthDays, Before(a, b)
    PROVE  DaysSince1900(a) < DaysSince1900(b)
<1> USE DEF BirthDays
<1>1. /\ a.year \in SupportedYears /\ a.month \in 1..12 /\ a.day \in 1..31
      /\ b.year \in SupportedYears /\ b.month \in 1..12 /\ b.day \in 1..31
      /\ a.day <= MonthLength(a.year, a.month)
      /\ b.day <= MonthLength(b.year, b.month)
  OBVIOUS
<1>2. /\ DaysBeforeYear(a.year) \in Int /\ DaysBeforeYear(b.year) \in Int
      /\ DaysBeforeMonth(a.year, a.month) \in Nat
      /\ DaysBeforeMonth(b.year, b.month) \in Nat
      /\ MonthLength(a.year, a.month) \in Nat
      /\ DaysBeforeMonth(a.year, a.month) + MonthLength(a.year, a.month)
            <= 365 + (IF IsLeap(a.year) THEN 1 ELSE 0)
  BY <1>1, DayCountTypes
<1>3. CASE a.year < b.year
  <2>1. DaysBeforeYear(a.year) + 365 + (IF IsLeap(a.year) THEN 1 ELSE 0)
           <= DaysBeforeYear(b.year)
    BY <1>1, <1>3, YearStep
  <2>2. QED BY <1>1, <1>2, <2>1 DEF DaysSince1900
<1>4. CASE a.year = b.year /\ a.month < b.month
  <2>1. DaysBeforeMonth(a.year, a.month) + MonthLength(a.year, a.month)
           <= DaysBeforeMonth(b.year, b.month)
    BY <1>1, <1>4, MonthStep
  <2>2. QED BY <1>1, <1>2, <1>4, <2>1 DEF DaysSince1900
<1>5. CASE a.year = b.year /\ a.month = b.month /\ a.day < b.day
  BY <1>1, <1>2, <1>5 DEF DaysSince1900
<1>6. QED BY <1>3, <1>4, <1>5 DEF Before

\* Of two supported dates one is the earlier, unless they are the same.
LEMMA DatesAreOrdered ==
    ASSUME NEW a \in BirthDays, NEW b \in BirthDays
    PROVE  /\ Before(a, b) => ~Before(b, a)
           /\ ~Before(a, b) /\ ~Before(b, a) => a = b
<1>1. ASSUME NEW x \in BirthDays
      PROVE  /\ x.year \in Int /\ x.month \in Int /\ x.day \in Int
             /\ x = Date(x.year, x.month, x.day)
  BY DEF BirthDays, Date, SupportedYears, FirstSupportedYear, LastSupportedYear
<1>2. /\ a.year \in Int /\ a.month \in Int /\ a.day \in Int
      /\ b.year \in Int /\ b.month \in Int /\ b.day \in Int
  BY <1>1
<1>3. Before(a, b) => ~Before(b, a)
  BY <1>2 DEF Before
<1>4. ASSUME ~Before(a, b), ~Before(b, a) PROVE a = b
  <2>1. a.year = b.year /\ a.month = b.month /\ a.day = b.day
    BY <1>2, <1>4 DEF Before
  <2>2. a = Date(a.year, a.month, a.day) /\ b = Date(b.year, b.month, b.day)
    BY <1>1
  <2>3. QED BY <2>1, <2>2, Zenon
<1>5. QED BY <1>3, <1>4

\* Counting days since 1900 orders the supported dates as the calendar does,
\* so the circuit may compare counts instead of dates.
THEOREM DayCountIsChronological ==
    ASSUME NEW a \in BirthDays, NEW b \in BirthDays
    PROVE  DaysSince1900(a) <= DaysSince1900(b) <=> ~Before(b, a)
<1>1. DaysSince1900(a) \in Int /\ DaysSince1900(b) \in Int
  BY DayCountTypes DEF DaysSince1900, BirthDays
<1>2. CASE Before(b, a)
  BY <1>1, <1>2, EarlierCountsLess
<1>3. CASE Before(a, b)
  <2>1. ~Before(b, a)
    BY <1>3, DatesAreOrdered
  <2>2. QED BY <1>1, <1>3, <2>1, EarlierCountsLess
<1>4. CASE ~Before(a, b) /\ ~Before(b, a)
  <2>1. a = b
    BY <1>4, DatesAreOrdered
  <2>2. QED BY <1>1, <1>4, <2>1
<1>5. QED BY <1>2, <1>3, <1>4

\* Different supported dates have different counts, and no count is negative or
\* above 73048: the cast to u32 in BirthDay::days_since_1900 loses nothing, and
\* the comparison gadget of the age circuit, which takes numbers up to half the
\* field's modulus, compares them as integers.
THEOREM DayCountsAreSmall ==
    ASSUME NEW a \in BirthDays
    PROVE  /\ DaysSince1900(a) \in Nat /\ DaysSince1900(a) <= 73048
           /\ \A b \in BirthDays : DaysSince1900(a) = DaysSince1900(b) => a = b
<1> DEFINE first == Date(1900, 1, 1)
           last  == Date(2099, 12, 31)
<1>1. first \in BirthDays /\ last \in BirthDays
  BY DEF BirthDays, Date, MonthLength, SupportedYears, FirstSupportedYear,
         LastSupportedYear
<1>2. DaysSince1900(first) = 0 /\ DaysSince1900(last) = 73048
  <2>1. DaysBeforeYear(1900) = 0 /\ DaysBeforeYear(2099) = 72684
    BY DEF DaysBeforeYear
  <2>2. DaysBeforeMonth(1900, 1) = 0 /\ DaysBeforeMonth(2099, 12) = 334
    BY DEF DaysBeforeMonth, IsLeap
  <2>3. QED BY <2>1, <2>2 DEF DaysSince1900, Date
<1>3. ~Before(a, first) /\ ~Before(last, a)
  BY DEF Before, Date, BirthDays, SupportedYears, FirstSupportedYear,
         LastSupportedYear
<1>4. DaysSince1900(a) \in Int
  BY DayCountTypes DEF DaysSince1900, BirthDays
<1> HIDE DEF first, last
<1>5. DaysSince1900(first) <= DaysSince1900(a) /\ DaysSince1900(a) <= DaysSince1900(last)
  BY <1>1, <1>3, DayCountIsChronological
<1>6. ASSUME NEW b \in BirthDays, DaysSince1900(a) = DaysSince1900(b) PROVE a = b
  <2>1. ~Before(a, b) /\ ~Before(b, a)
    BY <1>4, <1>6, DayCountIsChronological
  <2>2. QED BY <2>1, DatesAreOrdered
<1>7. DaysSince1900(a) \in Nat /\ DaysSince1900(a) <= 73048
  BY <1>2, <1>4, <1>5
<1>8. QED BY <1>6, <1>7

\* Whoever was born on or before the cutoff has completed `years` years on the
\* evaluation day, and nobody else has.
LEMMA CutoffMeansAge ==
    ASSUME NEW asOf \in BirthDays, NEW years \in Years, NEW birth \in BirthDays
    PROVE  /\ AgeOn(birth, EvaluationDay(asOf)) \in Int
           /\ ~Before(BirthdayCutoff(asOf, years), birth)
                 <=> AgeOn(birth, EvaluationDay(asOf)) >= years
<1> DEFINE day   == EvaluationDay(asOf)
           early == \/ day.month < birth.month
                    \/ day.month = birth.month /\ day.day < birth.day
<1>1. /\ asOf.year \in Int /\ asOf.month \in Int /\ asOf.day \in Int
      /\ birth.year \in Int /\ birth.month \in Int /\ birth.day \in Int
      /\ years \in Int
  BY DEF BirthDays, SupportedYears, FirstSupportedYear, LastSupportedYear, Years
<1>2. /\ day.year = asOf.year /\ day.month = asOf.month /\ day.day \in Int
      /\ BirthdayCutoff(asOf, years).year = asOf.year - years
      /\ BirthdayCutoff(asOf, years).month = day.month
      /\ BirthdayCutoff(asOf, years).day = day.day
  BY <1>1 DEF BirthdayCutoff, EvaluationDay, Date
<1>3. Before(Date(0, day.month, day.day), Date(0, birth.month, birth.day)) <=> early
  BY DEF Before, Date
<1>4. AgeOn(birth, day) = asOf.year - birth.year - (IF early THEN 1 ELSE 0)
  BY <1>2, <1>3 DEF AgeOn
<1>5. Before(BirthdayCutoff(asOf, years), birth)
         <=> \/ asOf.year - years < birth.year
             \/ asOf.year - years = birth.year /\ early
  BY <1>2 DEF Before
<1> HIDE DEF early, day
<1>6. QED BY <1>1, <1>4, <1>5 DEF day

\* The only cutoffs that are not supported birthdays lie before 1900.
LEMMA UnsupportedCutoffs ==
    ASSUME NEW asOf \in BirthDays, NEW years \in Years,
           ~CutoffSupported(asOf, years)
    PROVE  asOf.year - years < FirstSupportedYear
<1>1. /\ asOf.year \in SupportedYears /\ asOf.month \in 1..12 /\ asOf.day \in 1..31
      /\ asOf.day <= MonthLength(asOf.year, asOf.month)
  BY DEF BirthDays
<1> DEFINE day == IF asOf.month = 2 /\ asOf.day = 29 THEN 28 ELSE asOf.day
<1>2. day \in 1..31 /\ day <= MonthLength(asOf.year - years, asOf.month)
  BY <1>1 DEF MonthLength
<1>3. asOf.year - years \notin SupportedYears
  BY <1>1, <1>2 DEF CutoffSupported, BirthdayCutoff, Date, BirthDays
<1>4. PICK y \in SupportedYears : y = asOf.year
  BY <1>1
<1>5. y - years \notin SupportedYears
  BY <1>3, <1>4
<1>6. y - years < FirstSupportedYear
  BY <1>5 DEF SupportedYears, FirstSupportedYear, LastSupportedYear, Years
<1>7. QED BY <1>4, <1>6

\* The boolean the circuit computes for a claim is the meaning of the claim:
\* ages by completed years, countries and roles by membership, for every
\* supported cutoff (CredentialRelation::age, country and role).
THEOREM WireMeansClaim ==
    ASSUME NEW claim \in ClaimKinds, NEW a, NEW asOf \in BirthDays,
           a.birthDay \in BirthDays, claim.kind = "Role" => a.role \in Roles,
           claim \in AgeClaims => CutoffSupported(asOf, claim.years)
    PROVE  ClaimWire(claim, a, asOf) <=> ClaimHolds(claim, a, asOf)
<1>1. CASE claim \in AgeClaims
  <2>1. claim.years \in Years /\ claim.kind \in {"AgeAbove", "AgeBelow"}
    BY <1>1 DEF AgeClaims
  <2> DEFINE cutoff == BirthdayCutoff(asOf, claim.years)
             born   == DaysSince1900(a.birthDay)
             age    == AgeOn(a.birthDay, EvaluationDay(asOf))
  <2>2. cutoff \in BirthDays /\ a.birthDay \in BirthDays
    BY <1>1 DEF CutoffSupported
  <2>3. born <= DaysSince1900(cutoff) <=> age >= claim.years
    BY <2>1, <2>2, DayCountIsChronological, CutoffMeansAge
  <2>4. /\ born \in Int /\ DaysSince1900(cutoff) \in Int
        /\ age \in Int /\ claim.years \in Int
    <3>1. born \in Int /\ DaysSince1900(cutoff) \in Int
      BY <2>2, DayCountTypes DEF DaysSince1900, BirthDays
    <3>2. age \in Int /\ claim.years \in Int
      BY <2>1, <2>2, CutoffMeansAge DEF Years
    <3>3. QED BY <3>1, <3>2
  <2>5. born > DaysSince1900(cutoff) <=> age < claim.years
    BY <2>3, <2>4
  <2>6. QED
    BY <2>1, <2>3, <2>5 DEF ClaimWire, ClaimHolds
<1>2. CASE claim \in {CountryIsEu, Custom}
  BY <1>2 DEF ClaimWire, ClaimHolds, CountryIsEu, Custom
<1>3. CASE claim \in [kind : {"Role"}, role : Roles]
  <2>1. claim.kind = "Role" /\ claim.role \in Roles
    BY <1>3
  <2>2. RoleElement[a.role] = RoleElement[claim.role] <=> a.role = claim.role
    BY <2>1 DEF RoleElement, Roles
  <2>3. QED BY <2>1, <2>2 DEF ClaimWire, ClaimHolds
<1>4. QED BY <1>1, <1>2, <1>3 DEF ClaimKinds

\* A later day has a later cutoff, or the same one, and has one whenever the
\* earlier day did.
LEMMA CutoffsAdvance ==
    ASSUME NEW day \in BirthDays, NEW later \in BirthDays, ~Before(later, day),
           NEW years \in Years, CutoffSupported(day, years)
    PROVE  /\ CutoffSupported(later, years)
           /\ ~Before(BirthdayCutoff(later, years), BirthdayCutoff(day, years))
<1>1. /\ day.year \in Int /\ day.month \in Int /\ day.day \in 1..31
      /\ later.year \in Int /\ later.month \in Int /\ later.day \in 1..31
      /\ years \in Int
  BY DEF BirthDays, SupportedYears, FirstSupportedYear, LastSupportedYear, Years
<1>2. CutoffSupported(later, years)
  <2>1. day.year <= later.year
    BY <1>1 DEF Before
  <2>2. day.year - years >= FirstSupportedYear
    <3>1. day.year - years \in SupportedYears
      BY DEF CutoffSupported, BirthdayCutoff, Date, BirthDays
    <3>2. QED BY <3>1 DEF SupportedYears, FirstSupportedYear, LastSupportedYear
  <2>3. QED
    BY <1>1, <2>1, <2>2, UnsupportedCutoffs DEF FirstSupportedYear
<1>3. later.month = 2 => later.day <= 29
  BY DEF BirthDays, MonthLength
<1>4. ~Before(BirthdayCutoff(later, years), BirthdayCutoff(day, years))
  BY <1>1, <1>3 DEF BirthdayCutoff, Before, Date
<1>5. QED BY <1>2, <1>4

\* Nobody gets younger in the circuit: what a later day's AgeAbove refuses the
\* earlier day's did, and what the earlier day's AgeBelow refuses the later's does.
LEMMA AgesAdvance ==
    ASSUME NEW day \in BirthDays, NEW later \in BirthDays, ~Before(later, day),
           NEW claim \in AgeClaims, CutoffSupported(day, claim.years),
           NEW a, a.birthDay \in BirthDays
    PROVE  /\ CutoffSupported(later, claim.years)
           /\ claim.kind = "AgeAbove" /\ ClaimWire(claim, a, day)
                 => ClaimWire(claim, a, later)
           /\ claim.kind = "AgeBelow" /\ ClaimWire(claim, a, later)
                 => ClaimWire(claim, a, day)
<1> DEFINE first  == BirthdayCutoff(day, claim.years)
           second == BirthdayCutoff(later, claim.years)
<1>1. claim.years \in Years /\ claim.kind \in {"AgeAbove", "AgeBelow"}
  BY DEF AgeClaims
<1>2. CutoffSupported(later, claim.years) /\ ~Before(second, first)
  BY <1>1, CutoffsAdvance
<1>3. first \in BirthDays /\ second \in BirthDays
  BY <1>2 DEF CutoffSupported
<1>4. DaysSince1900(first) <= DaysSince1900(second)
  BY <1>2, <1>3, DayCountIsChronological
<1>5. /\ DaysSince1900(first) \in Int /\ DaysSince1900(second) \in Int
      /\ DaysSince1900(a.birthDay) \in Int
  BY <1>3, DayCountTypes DEF DaysSince1900, BirthDays
<1> HIDE DEF first, second
<1>6. /\ DaysSince1900(a.birthDay) <= DaysSince1900(first)
            => DaysSince1900(a.birthDay) <= DaysSince1900(second)
      /\ DaysSince1900(a.birthDay) > DaysSince1900(second)
            => DaysSince1900(a.birthDay) > DaysSince1900(first)
  BY <1>4, <1>5
<1>7. QED BY <1>1, <1>2, <1>6 DEF ClaimWire, first, second

----------------------------------------------------------------------------
(* Plans.                                                                  *)

\* The position of a child and its descendants, seen from the parent.
LEMMA UnderFacts ==
    ASSUME NEW side \in Sides, NEW q \in Seq(Sides)
    PROVE  /\ Under(side, q) \in Seq(Sides)
           /\ Under(side, q) # Root
           /\ Head(Under(side, q)) = side
           /\ Tail(Under(side, q)) = q
           /\ Left(Under(side, q)) = Under(side, Left(q))
           /\ Right(Under(side, q)) = Under(side, Right(q))
<1>1. Under(side, q) \in Seq(Sides) /\ Under(side, q) # Root
  BY DEF Under, Root, Sides
<1>2. Head(Under(side, q)) = side
  BY DEF Under
<1>3. Tail(Under(side, q)) = q
  BY DEF Under
<1>4. Left(Under(side, q)) = Under(side, Left(q))
  BY DEF Under, Left
<1>5. Right(Under(side, q)) = Under(side, Right(q))
  BY DEF Under, Right
<1>6. QED BY <1>1, <1>2, <1>3, <1>4, <1>5

\* A credential proof is a plan of one leaf.
LEMMA DirectIsPlan ==
    ASSUME NEW leaf, leaf.op = "direct"
    PROVE  /\ IsPlan(Direct(leaf))
           /\ DirectPositions(Direct(leaf)) = {Root}
           /\ Direct(leaf)[Root] = leaf
<1>1. DOMAIN Direct(leaf) = {Root} /\ Direct(leaf)[Root] = leaf
  BY DEF Direct
<1>2. Root \in Seq(Sides) /\ Left(Root) # Root /\ Right(Root) # Root
  BY DEF Root, Left, Right, Sides
<1>3. QED
  BY <1>1, <1>2 DEF IsPlan, DirectPositions

\* The positions of a composition: its root, and those of its operands below
\* the left and the right side.
LEMMA JoinPositions ==
    ASSUME NEW op, NEW l, NEW r, NEW p
    PROVE  p \in DOMAIN Join(op, l, r) <=>
              \/ p = Root
              \/ \E q \in DOMAIN l : p = Under("left", q)
              \/ \E q \in DOMAIN r : p = Under("right", q)
BY DEF Join

\* The nodes of a composition: its operator, and the nodes of its operands.
LEMMA JoinNodes ==
    ASSUME NEW op, NEW l, NEW r, IsPlan(l), IsPlan(r)
    PROVE  /\ Join(op, l, r)[Root] = [op |-> op]
           /\ \A q \in DOMAIN l : Join(op, l, r)[Under("left", q)] = l[q]
           /\ \A q \in DOMAIN r : Join(op, l, r)[Under("right", q)] = r[q]
<1> DEFINE t == Join(op, l, r)
<1>1. /\ \A p : p \in DOMAIN t <=>
               \/ p = Root
               \/ \E q \in DOMAIN l : p = Under("left", q)
               \/ \E q \in DOMAIN r : p = Under("right", q)
      /\ t[Root] = [op |-> op]
  BY DEF Join
<1>2. ASSUME NEW q \in DOMAIN l PROVE t[Under("left", q)] = l[q]
  <2>1. /\ Under("left", q) # Root /\ Head(Under("left", q)) = "left"
        /\ Tail(Under("left", q)) = q
    BY UnderFacts DEF IsPlan, Sides
  <2>2. Under("left", q) \in DOMAIN t
    BY <1>1
  <2>3. QED BY <2>1, <2>2 DEF Join
<1>3. ASSUME NEW q \in DOMAIN r PROVE t[Under("right", q)] = r[q]
  <2>1. /\ Under("right", q) # Root /\ Head(Under("right", q)) = "right"
        /\ Tail(Under("right", q)) = q
    BY UnderFacts DEF IsPlan, Sides
  <2>2. Under("right", q) \in DOMAIN t
    BY <1>1
  <2>3. QED BY <2>1, <2>2 DEF Join
<1>4. QED BY <1>1, <1>2, <1>3

\* A position below a side of a composition is a position of that operand.
LEMMA JoinDomain ==
    ASSUME NEW op, NEW l, NEW r, IsPlan(l), IsPlan(r), NEW child \in Seq(Sides)
    PROVE  /\ Under("left", child) \in DOMAIN Join(op, l, r) <=> child \in DOMAIN l
           /\ Under("right", child) \in DOMAIN Join(op, l, r) <=> child \in DOMAIN r
<1>1. /\ "left" \in Sides /\ "right" \in Sides
      /\ DOMAIN l \subseteq Seq(Sides) /\ DOMAIN r \subseteq Seq(Sides)
  BY DEF Sides, IsPlan
<1>2. /\ Under("left", child) # Root /\ Under("right", child) # Root
      /\ Head(Under("left", child)) = "left" /\ Tail(Under("left", child)) = child
      /\ Head(Under("right", child)) = "right" /\ Tail(Under("right", child)) = child
  BY <1>1, UnderFacts
<1>3. \A q \in DOMAIN l :
         Head(Under("left", q)) = "left" /\ Tail(Under("left", q)) = q
  BY <1>1, UnderFacts
<1>4. \A q \in DOMAIN r :
         Head(Under("right", q)) = "right" /\ Tail(Under("right", q)) = q
  BY <1>1, UnderFacts
<1>5. Under("left", child) \in DOMAIN Join(op, l, r) <=> child \in DOMAIN l
  <2> DEFINE here == Under("left", child)
  <2>1. here \in DOMAIN Join(op, l, r) <=>
           \/ here = Root
           \/ \E q \in DOMAIN l : here = Under("left", q)
           \/ \E q \in DOMAIN r : here = Under("right", q)
    BY JoinPositions
  <2>2. child \in DOMAIN l => here \in DOMAIN Join(op, l, r)
    BY <2>1
  <2>3. here # Root /\ Head(here) = "left" /\ Tail(here) = child
    BY <1>2
  <2> HIDE DEF here
  <2>4. here \in DOMAIN Join(op, l, r) => child \in DOMAIN l
    BY <1>3, <1>4, <2>1, <2>3
  <2>5. QED BY <2>2, <2>4 DEF here
<1>6. Under("right", child) \in DOMAIN Join(op, l, r) <=> child \in DOMAIN r
  <2> DEFINE here == Under("right", child)
  <2>1. here \in DOMAIN Join(op, l, r) <=>
           \/ here = Root
           \/ \E q \in DOMAIN l : here = Under("left", q)
           \/ \E q \in DOMAIN r : here = Under("right", q)
    BY JoinPositions
  <2>2. child \in DOMAIN r => here \in DOMAIN Join(op, l, r)
    BY <2>1
  <2>3. here # Root /\ Head(here) = "right" /\ Tail(here) = child
    BY <1>2
  <2> HIDE DEF here
  <2>4. here \in DOMAIN Join(op, l, r) => child \in DOMAIN r
    BY <1>3, <1>4, <2>1, <2>3
  <2>5. QED BY <2>2, <2>4 DEF here
<1>7. QED BY <1>5, <1>6

\* Composing two plans gives a plan.
LEMMA JoinIsPlan ==
    ASSUME NEW op \in {"and", "or"}, NEW l, NEW r, IsPlan(l), IsPlan(r)
    PROVE  IsPlan(Join(op, l, r))
<1> DEFINE t == Join(op, l, r)
<1>1. /\ \A x : x \in DOMAIN t <=>
               \/ x = Root
               \/ \E q \in DOMAIN l : x = Under("left", q)
               \/ \E q \in DOMAIN r : x = Under("right", q)
      /\ t[Root] = [op |-> op]
      /\ \A q \in DOMAIN l : t[Under("left", q)] = l[q]
      /\ \A q \in DOMAIN r : t[Under("right", q)] = r[q]
  BY JoinPositions, JoinNodes
<1>2. /\ "left" \in Sides /\ "right" \in Sides
      /\ DOMAIN l \subseteq Seq(Sides) /\ DOMAIN r \subseteq Seq(Sides)
      /\ Root \in DOMAIN l /\ Root \in DOMAIN r /\ Root \in Seq(Sides)
  BY DEF Sides, IsPlan, Root
<1>3. Left(Root) = Under("left", Root) /\ Right(Root) = Under("right", Root)
  BY DEF Left, Right, Under, Root
<1>4. Root \in DOMAIN t /\ DOMAIN t \subseteq Seq(Sides)
  <2>1. /\ \A q \in DOMAIN l : Under("left", q) \in Seq(Sides)
        /\ \A q \in DOMAIN r : Under("right", q) \in Seq(Sides)
    BY <1>2, UnderFacts
  <2>2. QED BY <1>1, <1>2, <2>1
<1>5. ASSUME NEW p \in DOMAIN t
      PROVE  IF t[p].op = "direct" THEN {Left(p), Right(p)} \cap DOMAIN t = {}
             ELSE t[p].op \in {"and", "or"} /\ {Left(p), Right(p)} \subseteq DOMAIN t
  <2>1. CASE p = Root
    BY <1>1, <1>2, <1>3, <2>1
  <2>2. ASSUME NEW q \in DOMAIN l, p = Under("left", q)
        PROVE  IF t[p].op = "direct" THEN {Left(p), Right(p)} \cap DOMAIN t = {}
               ELSE t[p].op \in {"and", "or"} /\ {Left(p), Right(p)} \subseteq DOMAIN t
    <3>1. t[p] = l[q] /\ Left(p) = Under("left", Left(q))
             /\ Right(p) = Under("left", Right(q))
      BY <1>1, <1>2, <2>2, UnderFacts
    <3>2. ASSUME NEW child \in Seq(Sides)
          PROVE  Under("left", child) \in DOMAIN t <=> child \in DOMAIN l
      BY JoinDomain
    <3>3. Left(q) \in Seq(Sides) /\ Right(q) \in Seq(Sides)
      BY <1>2 DEF Left, Right
    <3>4. QED BY <3>1, <3>2, <3>3 DEF IsPlan
  <2>3. ASSUME NEW q \in DOMAIN r, p = Under("right", q)
        PROVE  IF t[p].op = "direct" THEN {Left(p), Right(p)} \cap DOMAIN t = {}
               ELSE t[p].op \in {"and", "or"} /\ {Left(p), Right(p)} \subseteq DOMAIN t
    <3>1. t[p] = r[q] /\ Left(p) = Under("right", Left(q))
             /\ Right(p) = Under("right", Right(q))
      BY <1>1, <1>2, <2>3, UnderFacts
    <3>2. ASSUME NEW child \in Seq(Sides)
          PROVE  Under("right", child) \in DOMAIN t <=> child \in DOMAIN r
      BY JoinDomain
    <3>3. Left(q) \in Seq(Sides) /\ Right(q) \in Seq(Sides)
      BY <1>2 DEF Left, Right
    <3>4. QED BY <3>1, <3>2, <3>3 DEF IsPlan
  <2>4. QED BY <1>1, <2>1, <2>2, <2>3
<1>6. ASSUME NEW p \in DOMAIN t \ {Root}
      PROVE  \E q \in DOMAIN t : p \in {Left(q), Right(q)}
  <2>1. ASSUME NEW q \in DOMAIN l, p = Under("left", q)
        PROVE  \E parent \in DOMAIN t : p \in {Left(parent), Right(parent)}
    <3>1. CASE q = Root
      BY <1>1, <1>3, <2>1, <3>1
    <3>2. CASE q # Root
      <4>1. PICK above \in DOMAIN l : q \in {Left(above), Right(above)}
        BY <3>2 DEF IsPlan
      <4>2. /\ Left(Under("left", above)) = Under("left", Left(above))
            /\ Right(Under("left", above)) = Under("left", Right(above))
        BY <1>2, UnderFacts
      <4>3. QED BY <1>1, <2>1, <4>1, <4>2
    <3>3. QED BY <3>1, <3>2
  <2>2. ASSUME NEW q \in DOMAIN r, p = Under("right", q)
        PROVE  \E parent \in DOMAIN t : p \in {Left(parent), Right(parent)}
    <3>1. CASE q = Root
      BY <1>1, <1>3, <2>2, <3>1
    <3>2. CASE q # Root
      <4>1. PICK above \in DOMAIN r : q \in {Left(above), Right(above)}
        BY <3>2 DEF IsPlan
      <4>2. /\ Left(Under("right", above)) = Under("right", Left(above))
            /\ Right(Under("right", above)) = Under("right", Right(above))
        BY <1>2, UnderFacts
      <4>3. QED BY <1>1, <2>2, <4>1, <4>2
    <3>3. QED BY <3>1, <3>2
  <2>3. QED BY <1>1, <2>1, <2>2
<1>7. QED BY <1>4, <1>5, <1>6 DEF IsPlan

\* Every leaf of a composition is a leaf of one of its operands.
LEMMA JoinLeaves ==
    ASSUME NEW op \in {"and", "or"}, NEW l, NEW r, IsPlan(l), IsPlan(r),
           NEW p \in DirectPositions(Join(op, l, r))
    PROVE  \/ \E q \in DirectPositions(l) : Join(op, l, r)[p] = l[q]
           \/ \E q \in DirectPositions(r) : Join(op, l, r)[p] = r[q]
<1> DEFINE t == Join(op, l, r)
<1>1. /\ \A x : x \in DOMAIN t <=>
               \/ x = Root
               \/ \E q \in DOMAIN l : x = Under("left", q)
               \/ \E q \in DOMAIN r : x = Under("right", q)
      /\ t[Root] = [op |-> op]
      /\ \A q \in DOMAIN l : t[Under("left", q)] = l[q]
      /\ \A q \in DOMAIN r : t[Under("right", q)] = r[q]
  BY JoinPositions, JoinNodes
<1>2. p \in DOMAIN t /\ t[p].op = "direct"
  BY DEF DirectPositions
<1> HIDE DEF t
<1>3. p # Root
  BY <1>1, <1>2
<1>4. ASSUME NEW q \in DOMAIN l, p = Under("left", q)
      PROVE  q \in DirectPositions(l) /\ t[p] = l[q]
  BY <1>1, <1>2, <1>4 DEF DirectPositions
<1>5. ASSUME NEW q \in DOMAIN r, p = Under("right", q)
      PROVE  q \in DirectPositions(r) /\ t[p] = r[q]
  BY <1>1, <1>2, <1>5 DEF DirectPositions
<1>6. QED BY <1>1, <1>2, <1>3, <1>4, <1>5 DEF t

\* A walk ends well only when every leaf is good, and otherwise with the
\* outcome of a leaf that is not.
LEMMA WalkFacts ==
    ASSUME NEW t, NEW outcome, NEW good,
           NEW answer \in WalkOutcomes(t, outcome, good)
    PROVE  /\ answer = good => \A p \in DirectPositions(t) : outcome[p] = good
           /\ answer # good => \E p \in DirectPositions(t) : outcome[p] = answer
BY DEF WalkOutcomes

\* The root of a plan is satisfied depending only on the truth of its leaves.
LEMMA SameWires ==
    ASSUME NEW t, NEW v, NEW w, \A p \in DirectPositions(t) : v[p] = w[p]
    PROVE  RootSatisfied(t, v) <=> RootSatisfied(t, w)
BY DEF RootSatisfied, GateAssignments, DirectPositions

----------------------------------------------------------------------------
(* The gates of a plan.                                                    *)

\* A plan is finite: none of its positions is deeper than some bound.
Bounded(t) == \E n \in Nat : \A p \in DOMAIN t : Len(p) <= n

\* A credential proof is finite.
LEMMA DirectIsBounded ==
    ASSUME NEW leaf
    PROVE  Bounded(Direct(leaf))
<1>1. \A p \in DOMAIN Direct(leaf) : Len(p) <= 0
  BY DEF Direct, Root
<1>2. QED BY <1>1 DEF Bounded

\* A composition of finite plans is finite.
LEMMA JoinIsBounded ==
    ASSUME NEW op, NEW l, NEW r, IsPlan(l), IsPlan(r), Bounded(l), Bounded(r)
    PROVE  Bounded(Join(op, l, r))
<1>1. PICK m \in Nat : \A p \in DOMAIN l : Len(p) <= m
  BY DEF Bounded
<1>2. PICK n \in Nat : \A p \in DOMAIN r : Len(p) <= n
  BY DEF Bounded
<1>3. /\ DOMAIN l \subseteq Seq(Sides) /\ DOMAIN r \subseteq Seq(Sides)
  BY DEF IsPlan
<1>4. ASSUME NEW side, NEW q \in Seq(Sides)
      PROVE  Len(Under(side, q)) = Len(q) + 1
  BY DEF Under
<1>5. ASSUME NEW p \in DOMAIN Join(op, l, r) PROVE Len(p) <= m + n + 1
  <2>1. CASE p = Root
    BY <1>1, <1>2, <2>1 DEF Root
  <2>2. CASE \E q \in DOMAIN l : p = Under("left", q)
    BY <1>1, <1>2, <1>3, <1>4, <2>2
  <2>3. CASE \E q \in DOMAIN r : p = Under("right", q)
    BY <1>1, <1>2, <1>3, <1>4, <2>3
  <2>4. QED BY <2>1, <2>2, <2>3, JoinPositions
<1>6. m + n + 1 \in Nat
  OBVIOUS
<1>7. QED BY <1>5, <1>6 DEF Bounded

\* What the gate of a node makes of the values of its children.
Gate(t, truth, value, p) ==
    IF t[p].op = "direct" THEN truth[p]
    ELSE IF t[p].op = "and" THEN value[Left(p)] /\ value[Right(p)]
    ELSE value[Left(p)] \/ value[Right(p)]

\* The assignments that satisfy the gates are those that give each node what
\* its gate makes of its children.
LEMMA AssignmentsAreFixpoints ==
    ASSUME NEW t, IsPlan(t), NEW truth \in [DirectPositions(t) -> BOOLEAN], NEW v
    PROVE  v \in GateAssignments(t, truth)
              <=> v = [p \in DOMAIN t |-> Gate(t, truth, v, p)]
<1>1. ASSUME NEW p \in DOMAIN t
      PROVE  /\ t[p].op \in {"direct", "and", "or"}
             /\ t[p].op = "direct" => truth[p] \in BOOLEAN
  BY DEF IsPlan, DirectPositions
<1>2. ASSUME NEW p \in DOMAIN t PROVE Gate(t, truth, v, p) \in BOOLEAN
  BY <1>1, Zenon DEF Gate
<1>3. ASSUME NEW p \in DOMAIN t
      PROVE  (\/ t[p].op = "direct" /\ v[p] = truth[p]
              \/ t[p].op = "and" /\ v[p] = (v[Left(p)] /\ v[Right(p)])
              \/ t[p].op = "or"  /\ v[p] = (v[Left(p)] \/ v[Right(p)]))
                <=> v[p] = Gate(t, truth, v, p)
  <2>1. CASE t[p].op = "direct"
    BY <2>1, Zenon DEF Gate
  <2>2. CASE t[p].op = "and"
    BY <2>2, Zenon DEF Gate
  <2>3. CASE t[p].op = "or"
    BY <2>3, Zenon DEF Gate
  <2>4. QED BY <1>1, <2>1, <2>2, <2>3
<1> HIDE DEF Gate
<1>4. v \in GateAssignments(t, truth)
         <=> /\ v \in [DOMAIN t -> BOOLEAN]
             /\ \A p \in DOMAIN t : v[p] = Gate(t, truth, v, p)
  BY <1>3 DEF GateAssignments
<1>5. ASSUME v = [p \in DOMAIN t |-> Gate(t, truth, v, p)]
      PROVE  /\ v \in [DOMAIN t -> BOOLEAN]
             /\ \A p \in DOMAIN t : v[p] = Gate(t, truth, v, p)
  BY <1>2, <1>5, Zenon
<1>6. ASSUME v \in [DOMAIN t -> BOOLEAN],
             \A p \in DOMAIN t : v[p] = Gate(t, truth, v, p)
      PROVE  v = [p \in DOMAIN t |-> Gate(t, truth, v, p)]
  BY <1>6
<1>7. QED BY <1>4, <1>5, <1>6

\* A set of natural numbers that holds any holds a least one.
LEMMA LeastNumber ==
    ASSUME NEW S, S \subseteq Nat, S # {}
    PROVE  \E least \in S : \A n \in Nat : n < least => n \notin S
<1> DEFINE Less == OpToRel(<, Nat)
<1>1. IsWellFoundedOn(Less, Nat)
  BY NatLessThanWellFounded
<1>2. \A m, n \in Nat : m < n => <<m, n>> \in Less
  BY DEF OpToRel
<1> HIDE DEF Less
<1>3. PICK least \in S : \A m \in S : <<m, least>> \notin Less
  BY <1>1, WFMin
<1>4. QED BY <1>2, <1>3

\* The gates of a finite plan can be satisfied: level by level, from the
\* deepest one up, each node takes what its gate says.
LEMMA GatesHaveASolution ==
    ASSUME NEW t, IsPlan(t), Bounded(t),
           NEW truth \in [DirectPositions(t) -> BOOLEAN]
    PROVE  \E v : v \in GateAssignments(t, truth)
<1>1. PICK n \in Nat : \A p \in DOMAIN t : Len(p) <= n
  BY DEF Bounded
<1>2. ASSUME NEW p \in DOMAIN t
      PROVE  /\ Len(p) \in Nat
             /\ t[p].op = "direct" => truth[p] \in BOOLEAN
             /\ t[p].op # "direct" =>
                   /\ Left(p) \in DOMAIN t /\ Len(Left(p)) = Len(p) + 1
                   /\ Right(p) \in DOMAIN t /\ Len(Right(p)) = Len(p) + 1
  BY DEF IsPlan, DirectPositions, Left, Right
<1> DEFINE Solved(v, k) ==
             \A p \in DOMAIN t : Len(p) + k > n => v[p] = Gate(t, truth, v, p)
           Unsolved == {k \in Nat : ~ \E v : Solved(v, k)}
<1>3. 0 \notin Unsolved
  BY <1>1, <1>2
<1>4. ASSUME NEW k \in Nat, k \notin Unsolved PROVE k + 1 \notin Unsolved
  <2>1. PICK v : Solved(v, k)
    BY <1>4
  <2> DEFINE w == [p \in DOMAIN t |->
                      IF Len(p) + (k + 1) > n THEN Gate(t, truth, v, p) ELSE v[p]]
  <2>2. ASSUME NEW p \in DOMAIN t, Len(p) + k > n PROVE w[p] = v[p]
    <3>1. Len(p) + (k + 1) > n
      BY <1>2, <2>2
    <3>2. v[p] = Gate(t, truth, v, p)
      BY <2>1, <2>2
    <3> HIDE DEF Gate
    <3>3. QED BY <3>1, <3>2
  <2>3. ASSUME NEW p \in DOMAIN t, Len(p) + (k + 1) > n
        PROVE  w[p] = Gate(t, truth, w, p)
    <3>1. w[p] = Gate(t, truth, v, p)
      <4> HIDE DEF Gate
      <4>1. QED BY <2>3
    <3>2. ASSUME t[p].op # "direct"
          PROVE  w[Left(p)] = v[Left(p)] /\ w[Right(p)] = v[Right(p)]
      <4>1. /\ Left(p) \in DOMAIN t /\ Len(Left(p)) + k > n
            /\ Right(p) \in DOMAIN t /\ Len(Right(p)) + k > n
        BY <1>2, <2>3, <3>2
      <4> HIDE DEF w
      <4>2. QED BY <2>2, <4>1
    <3> HIDE DEF w
    <3>3. Gate(t, truth, w, p) = Gate(t, truth, v, p)
      BY <3>2, Zenon DEF Gate
    <3>4. QED BY <3>1, <3>3
  <2> HIDE DEF w
  <2>4. Solved(w, k + 1)
    BY <2>3
  <2>5. QED BY <2>4
<1> HIDE DEF Solved
<1>5. Unsolved = {}
  <2> SUFFICES ASSUME Unsolved # {} PROVE FALSE
    OBVIOUS
  <2>1. Unsolved \subseteq Nat
    OBVIOUS
  <2> HIDE DEF Unsolved
  <2>2. PICK least \in Unsolved : \A m \in Nat : m < least => m \notin Unsolved
    BY <2>1, LeastNumber
  <2>3. least \in Nat /\ least # 0
    BY <1>3, <2>1, <2>2
  <2>4. least - 1 \in Nat /\ least - 1 < least /\ (least - 1) + 1 = least
    BY <2>3
  <2>5. least - 1 \notin Unsolved
    BY <2>2, <2>4
  <2>6. QED BY <1>4, <2>2, <2>4, <2>5
<1>6. PICK v : Solved(v, n + 1)
  <2>1. n + 1 \in Nat
    OBVIOUS
  <2>2. QED BY <1>5, <2>1, Zenon
<1> DEFINE w == [p \in DOMAIN t |-> v[p]]
<1>7. ASSUME NEW p \in DOMAIN t PROVE w[p] = Gate(t, truth, w, p)
  <2>1. Len(p) + (n + 1) > n
    BY <1>2
  <2>2. v[p] = Gate(t, truth, v, p)
    BY <1>6, <2>1 DEF Solved
  <2>3. w[p] = v[p]
    OBVIOUS
  <2>4. t[p].op # "direct" => w[Left(p)] = v[Left(p)] /\ w[Right(p)] = v[Right(p)]
    BY <1>2
  <2> HIDE DEF w
  <2>5. Gate(t, truth, w, p) = Gate(t, truth, v, p)
    BY <2>4, Zenon DEF Gate
  <2>6. QED BY <2>2, <2>3, <2>5
<1>8. w = [p \in DOMAIN t |-> Gate(t, truth, w, p)]
  <2>1. w = [p \in DOMAIN t |-> w[p]]
    OBVIOUS
  <2> HIDE DEF w, Gate
  <2>2. QED BY <1>7, <2>1
<1> HIDE DEF w
<1>9. QED BY <1>8, AssignmentsAreFixpoints

\* Gates only pass truth upwards: with more direct proofs true, no node turns
\* false.  Where one did, deepest, its children had not.
LEMMA GatesAreMonotone ==
    ASSUME NEW t, IsPlan(t), Bounded(t), NEW fewer, NEW more,
           \A p \in DirectPositions(t) : fewer[p] => more[p],
           NEW v \in GateAssignments(t, fewer), NEW w \in GateAssignments(t, more)
    PROVE  \A p \in DOMAIN t : v[p] => w[p]
<1>1. PICK n \in Nat : \A p \in DOMAIN t : Len(p) <= n
  BY DEF Bounded
<1>2. ASSUME NEW p \in DOMAIN t
      PROVE  /\ Len(p) \in Nat
             /\ t[p].op \in {"direct", "and", "or"}
             /\ t[p].op # "direct" =>
                   /\ Left(p) \in DOMAIN t /\ Len(Left(p)) = Len(p) + 1
                   /\ Right(p) \in DOMAIN t /\ Len(Right(p)) = Len(p) + 1
  BY DEF IsPlan, Left, Right
<1> DEFINE Heights == {n - Len(p) : p \in {q \in DOMAIN t : ~(v[q] => w[q])}}
<1> SUFFICES ASSUME Heights # {} PROVE FALSE
  OBVIOUS
<1>3. Heights \subseteq Nat
  BY <1>1, <1>2
<1>4. PICK least \in Heights : \A m \in Nat : m < least => m \notin Heights
  <2> HIDE DEF Heights
  <2>1. QED BY <1>3, LeastNumber
<1>5. PICK p \in DOMAIN t : ~(v[p] => w[p]) /\ least = n - Len(p)
  BY <1>4
<1>6. ASSUME NEW q \in DOMAIN t, Len(q) = Len(p) + 1 PROVE v[q] => w[q]
  <2>1. n - Len(q) \in Nat /\ n - Len(q) < least
    BY <1>1, <1>2, <1>5, <1>6
  <2>2. n - Len(q) \notin Heights
    BY <1>4, <2>1
  <2>3. QED BY <2>2
<1> HIDE DEF Heights
<1>7. t[p].op # "direct" => (v[Left(p)] => w[Left(p)]) /\ (v[Right(p)] => w[Right(p)])
  BY <1>2, <1>6
<1>8. /\ t[p].op = "direct" => v[p] = fewer[p] /\ w[p] = more[p]
      /\ t[p].op = "and" => /\ v[p] = (v[Left(p)] /\ v[Right(p)])
                            /\ w[p] = (w[Left(p)] /\ w[Right(p)])
      /\ t[p].op = "or" => /\ v[p] = (v[Left(p)] \/ v[Right(p)])
                           /\ w[p] = (w[Left(p)] \/ w[Right(p)])
  BY DEF GateAssignments
<1>9. CASE t[p].op = "direct"
  <2>1. fewer[p] => more[p]
    BY <1>9 DEF DirectPositions
  <2>2. QED BY <1>5, <1>8, <1>9, <2>1, Zenon
<1>10. CASE t[p].op = "and"
  BY <1>5, <1>7, <1>8, <1>10, Zenon
<1>11. CASE t[p].op = "or"
  BY <1>5, <1>7, <1>8, <1>11, Zenon
<1>12. QED BY <1>2, <1>9, <1>10, <1>11

\* The gates of a finite plan have only one solution.
LEMMA GatesHaveOneSolution ==
    ASSUME NEW t, IsPlan(t), Bounded(t), NEW truth,
           NEW v \in GateAssignments(t, truth), NEW w \in GateAssignments(t, truth)
    PROVE  \A p \in DOMAIN t : v[p] = w[p]
<1>1. ASSUME NEW p \in DOMAIN t PROVE (v[p] => w[p]) /\ (w[p] => v[p])
  BY GatesAreMonotone
<1>2. ASSUME NEW p \in DOMAIN t PROVE v[p] \in BOOLEAN /\ w[p] \in BOOLEAN
  BY DEF GateAssignments
<1>3. QED BY <1>1, <1>2

\* A statement stays true when more of its direct proofs become true: plans
\* are composed by & and | only, and nothing in the circuit negates
\* (CircuitTemplate::relation).
THEOREM StatementsAreMonotone ==
    ASSUME NEW t, IsPlan(t), Bounded(t),
           NEW fewer, NEW more \in [DirectPositions(t) -> BOOLEAN],
           \A p \in DirectPositions(t) : fewer[p] => more[p],
           RootSatisfied(t, fewer)
    PROVE  RootSatisfied(t, more)
<1>1. PICK v \in GateAssignments(t, fewer) : v[Root]
  BY DEF RootSatisfied
<1>2. PICK w : w \in GateAssignments(t, more)
  BY GatesHaveASolution
<1>3. Root \in DOMAIN t
  BY DEF IsPlan
<1>4. v[Root] => w[Root]
  BY <1>2, <1>3, GatesAreMonotone
<1>5. QED BY <1>1, <1>2, <1>4 DEF RootSatisfied

\* Enforcing the root of the compiled tree says what the composition says:
\* whatever its direct proofs are worth, the gates can be satisfied with a true
\* root exactly when the plan, read from its leaves up, is true
\* (CircuitTemplate::relation, ProofCircuit::generate_constraints).
THEOREM RootReadsThePlan ==
    ASSUME NEW t, IsPlan(t), Bounded(t),
           NEW truth \in [DirectPositions(t) -> BOOLEAN]
    PROVE  RootSatisfied(t, truth) <=> PlanValue(t, truth)
<1> DEFINE Reads(value) == value = [p \in DOMAIN t |-> Gate(t, truth, value, p)]
           chosen == CHOOSE value : Reads(value)
<1>1. PICK v : v \in GateAssignments(t, truth)
  BY GatesHaveASolution
<1>2. Reads(v)
  BY <1>1, AssignmentsAreFixpoints
<1>3. Reads(chosen)
  <2> HIDE DEF Reads
  <2>1. QED BY <1>2, Zenon
<1>4. PlanValue(t, truth) = chosen[Root]
  BY DEF PlanValue, Gate
<1> HIDE DEF chosen
<1>5. chosen \in GateAssignments(t, truth)
  BY <1>3, AssignmentsAreFixpoints
<1>6. Root \in DOMAIN t
  BY DEF IsPlan
<1>7. ASSUME NEW w \in GateAssignments(t, truth) PROVE w[Root] = chosen[Root]
  BY <1>5, <1>6, GatesHaveOneSolution
<1>8. ASSUME RootSatisfied(t, truth) PROVE PlanValue(t, truth)
  <2>1. PICK w \in GateAssignments(t, truth) : w[Root]
    BY <1>8 DEF RootSatisfied
  <2>2. QED BY <1>4, <1>7, <2>1, Zenon
<1>9. ASSUME PlanValue(t, truth) PROVE RootSatisfied(t, truth)
  BY <1>4, <1>5, <1>9, Zenon DEF RootSatisfied
<1>10. QED BY <1>8, <1>9
=============================================================================
