SPECIFICATION Spec
CONSTANTS
    m1 = m1
    m2 = m2
    m3 = m3
    m4 = m4
    Memories = {m1, m2, m3, m4}
    None = None
    Calls = {c1, c2}
    Tags = {t1, t2}
    TopK = 1
    FlipTries = 2
    MemoryGraph = TRUE
    HasDb = TRUE
    Grounded <- NoneGrounded
    MaxFacts = 2
SYMMETRY Symmetry
INVARIANT TypeOK
INVARIANT ReplacementWaitsForDemotion
INVARIANT LinksStayInNamespace
INVARIANT SupersessionIsAcyclic
INVARIANT MirrorTrailsIndex
INVARIANT DemotionHasReplacement
INVARIANT LifecycleInv
PROPERTY ServingSpec
PROPERTY AckedFactsAreIndexed
CHECK_DEADLOCK FALSE
