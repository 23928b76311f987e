SPECIFICATION FairSpec
CONSTANTS
    m1 = m1
    m2 = m2
    m3 = m3
    m4 = m4
    Memories = {m1, m2, m3}
    None = None
    Calls = {c1, c2}
    Tags = {t1}
    TopK = 1
    FlipTries = 2
    MemoryGraph = TRUE
    HasDb = TRUE
    Grounded <- OneGrounded
    MaxFacts = 2
PROPERTY CallsReturn
CHECK_DEADLOCK FALSE
