SPECIFICATION MCSpec
CONSTANTS
    ann = ann
    team = team
    dflt = dflt
    none = none
    padded = padded
    blank = blank
    ka = ka
    ks = ks
    kd = kd
    kx = kx
    api = api
    r1 = r1
    r2 = r2
    r3 = r3
    ca1 = ca1
    ca2 = ca2
    cs1 = cs1
    cl1 = cl1
    ma = ma
    mb = mb
    ms = ms
    ml = ml
    DEFAULT_TAG = dflt
    Absent = none
    Tenants <- MCTenants
    ApiKey = api
    Trim <- MCTrim
    Request = {r1, r2, r3}
    Bearer = {ka, ks, kd, kx, none}
    Name = {ann, team, none, padded, blank}
    Chunks0 <- MCChunks
    Facts0 <- MCFacts
    Rows0 <- MCRows
    DocRows0 <- MCDocRows
    ChunkRows0 <- MCChunkRows
    MaxTime = 2
    Plan <- MCPlan
    MultiQuery = TRUE
    HIT_LIMIT <- MCHits
    DOC_LIMIT <- MCDocs
    RERANK_LIMIT = 2
INVARIANTS
    AnswersStayInVisibleScopes
    HitsReachReranker
PROPERTIES
    WritesStayInNamespace
    HistoryIsSettled
CHECK_DEADLOCK FALSE
