SPECIFICATION Spec
CONSTANTS
    m1 = m1
    m2 = m2
    m3 = m3
    m4 = m4
    Memories = {m1, m2, m3}
    None = None
    Calls = {c1, c2}
    Tags = {t1}
    TopK = 1
    FlipTries = 2
    MemoryGraph = TRUE
    HasDb = TRUE
    Grounded <- NoneGrounded
    MaxFacts = 1
SYMMETRY Symmetry
CHECK_DEADLOCK FALSE
INVARIANT OneServedReplacement
