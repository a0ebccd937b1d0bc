SPECIFICATION Spec
CONSTANTS
    Radix = 2
    Width = 2
    Modulus = 7
    ScalarModulus = 5
    Ordinates = {1, 3, 6}
    IdentityY = 1
    MaxEdits = 2
INVARIANTS
    OneTextPerValue
    ReadsBack
CHECK_DEADLOCK FALSE
