SPECIFICATION MirrorSpec
CONSTANTS
    m1 = m1
    m2 = m2
    Memories = {m1}
    None = None
    Calls = {c1}
    Jobs = {j1, j2}
    Tags = {t1}
    TopK = 1
    FlipTries = 2
    MemoryGraph = TRUE
    HasDb = TRUE
    Grounded <- NoneGrounded
    MaxFacts = 1
INVARIANT ForgottenIsNotServed
CHECK_DEADLOCK FALSE
