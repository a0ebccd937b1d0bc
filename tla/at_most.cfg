SPECIFICATION Spec
CONSTANTS
    i1 = i1  i2 = i2
    c1 = c1  c2 = c2  c3 = c3
    h1 = h1  h2 = h2  h3 = h3
    b1 = b1  b2 = b2
    a1 = a1  a2 = a2
    Issuers = {i1}
    Profiles <- Profiles2
    ClaimObjects <- BothSides
    PolicyDays <- Days1
    CredentialIds = {c1}
    Handles = {h1}
    BackendIds = {b1}
    ArtifactIds = {a1}
    MaxNodes = 1
    None = None
    NoCredential = NoCredential
INVARIANTS
    AgeBelowIsAtMost
CHECK_DEADLOCK FALSE
