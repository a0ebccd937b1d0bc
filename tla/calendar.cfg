SPECIFICATION Spec
CONSTANTS
    FirstDay <- FirstSupportedDay
    LastDay <- LastSupportedDay
    Thresholds <- SomeThresholds
INVARIANTS
    WiresAgreeWithAges
    DecodedPoliciesAreEighteen
    OneEighteenYearRule
PROPERTIES
    NobodyGetsYounger
CHECK_DEADLOCK FALSE
