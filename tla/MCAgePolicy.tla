----------------------------- MODULE MCAgePolicy -----------------------------
(* The whole supported calendar, and the thresholds that matter on it.     *)
EXTENDS AgePolicy

FirstSupportedDay == Date(1900, 1, 1)
LastSupportedDay == Date(2099, 12, 31)
SomeThresholds == {0, 18, 20, 100}
=============================================================================
