SPECIFICATION Spec
CONSTANTS
    t1 = t1  t2 = t2
    p1 = p1  p2 = p2
    Order = 3
    Generator = 2
    ScalarRange = 4
    ByteRange = 8
    Callers = {t1, t2}
    Processes = {p1, p2}
    Layouts <- SomeLayouts
    Messages <- SomeMessages
    Secrets <- SomeSecrets
    Digests <- SomeDigests
INVARIANTS
    TypeOK
    IssuedSignaturesVerify
    CircuitMatchesNative
PROPERTIES
    ServesCallers
    CallsReturn
