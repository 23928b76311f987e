SPECIFICATION MirrorSpec
CONSTANTS
    m1 = m1
    m2 = m2
    Memories = {m1, m2}
    None = None
    Calls = {c1}
    Jobs = {j1}
    Tags = {t1, t2}
    TopK = 1
    FlipTries = 2
    MemoryGraph = TRUE
    HasDb = TRUE
    Grounded <- AllGrounded
    MaxFacts = 2
SYMMETRY Symmetry
INVARIANT MirrorTypeOK
INVARIANT ForgottenStaysErased
INVARIANT ErasureIsRetryable
INVARIANT IndexIsDerived
PROPERTY ErasureStaysInNamespace
CHECK_DEADLOCK FALSE
