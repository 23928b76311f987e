SPECIFICATION MirrorSpec
CONSTANTS
    m1 = m1
    m2 = m2
    Memories = {m1, m2}
    None = None
    Calls = {c1, c2}
    Jobs = {j1}
    Tags = {t1}
    TopK = 1
    FlipTries = 2
    MemoryGraph = TRUE
    HasDb = TRUE
    Grounded <- NoneGrounded
    MaxFacts = 1
INVARIANT SupersededStaysRetired
CHECK_DEADLOCK FALSE
