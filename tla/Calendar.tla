------------------------------ MODULE Calendar ------------------------------
(***************************************************************************)
(* Calendar dates of the credential protocol (age.rs).  A date is a        *)
(* record of its civil fields; chrono's NaiveDate is modelled by the       *)
(* proleptic Gregorian rules it implements.  The protocol accepts birth    *)
(* days from 1900-01-01 to 2099-12-31 and compares them, inside the        *)
(* circuit, only through the number of days since 1900-01-01.              *)
(***************************************************************************)
EXTENDS Integers, Sequences

IsLeap(y) == y % 4 = 0 /\ (y % 100 # 0 \/ y % 400 = 0)

MonthLength(y, m) ==
    IF m = 2 THEN (IF IsLeap(y) THEN 29 ELSE 28)
    ELSE IF m \in {4, 6, 9, 11} THEN 30 ELSE 31

FirstSupportedYear == 1900
LastSupportedYear  == 2099
SupportedYears     == FirstSupportedYear..LastSupportedYear

\* BirthDay::parse_iso and BirthDay::from_date: a real date in the supported
\* range; the first and last supported day are whole-year boundaries.
BirthDays ==
    {date \in [year : SupportedYears, month : 1..12, day : 1..31] :
        date.day <= MonthLength(date.year, date.month)}

Date(y, m, d) == [year |-> y, month |-> m, day |-> d]

\* Chronological order of the civil fields (the Ord of NaiveDate).
Before(a, b) ==
    \/ a.year < b.year
    \/ a.year = b.year /\ a.month < b.month
    \/ a.year = b.year /\ a.month = b.month /\ a.day < b.day

\* Days from 1900-01-01 to January 1 of year y: 460 leap years precede 1900.
DaysBeforeYear(y) ==
    365 * (y - 1900) + ((y - 1) \div 4) - ((y - 1) \div 100)
        + ((y - 1) \div 400) - 460

DaysBeforeMonth(y, m) ==
    <<0, 31, 59, 90, 120, 151, 181, 212, 243, 273, 304, 334>>[m]
        + (IF m > 2 /\ IsLeap(y) THEN 1 ELSE 0)

\* BirthDay::days_since_1900, the only form in which the circuit sees a date.
DaysSince1900(date) ==
    DaysBeforeYear(date.year) + DaysBeforeMonth(date.year, date.month)
        + date.day - 1
=============================================================================
