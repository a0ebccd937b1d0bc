SPECIFICATION Spec
CONSTANTS
    Radix = 3
    Width = 4
    Modulus = 738
    ScalarModulus = 5
    Ordinates = {}
    IdentityY = 1
    Rate = 3
    MaxScopeLength = 2
    Blank = {1}
    LowerAndDigits = {3, 4}
    Joiners = {2}
    Days = {0, 1, 30}
    Salts = {0, 1, 2}
    Secrets = {0, 1, 30}
    Codes <- Capitals
    Roles = {1, 2, 3}
    ScopeTexts <- SomeTexts
    MaxPublished = 2
INVARIANTS
    DigestsBind
    OpensOnlyAsMade
CHECK_DEADLOCK FALSE
