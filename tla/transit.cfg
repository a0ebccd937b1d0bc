SPECIFICATION Spec
CONSTANTS
    k1 = k1  k2 = k2
    a1 = a1  a2 = a2  o1 = o1  o2 = o2  t1 = t1  t2 = t2
    c1 = c1  c2 = c2
    Keys = {k1, k2, identity}
    Identity = identity
    Ages = {a1, a2}
    Owners = {o1, o2}
    Attributes = {t1, t2}
    Schemas = {1, 2, 30}
    CredentialIds = {c1, c2}
    Stray = Stray
    Refused = Refused
    None = None
    MaxChanges = 2
SYMMETRY Interchangeable
INVARIANTS
    TypeOK
    VerifiedWasIssued
    RefusalsNameTheFault
PROPERTIES
    VerifiesAsARegister
CHECK_DEADLOCK FALSE
