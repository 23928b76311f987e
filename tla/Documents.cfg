SPECIFICATION Spec
CONSTANTS
    x1 = x1
    u = u
    Docs = {d1, d2}
    None = None
    Tags = {t1, t2}
    Contents = {x1}
    UrlOf <- OneUrl
    Parts = {p1}
    Calls = {c1, c2}
    Jobs = {j1}
    TemporalGraph = TRUE
SYMMETRY Symmetry
INVARIANT DocTypeOK
INVARIANT RegistryCoversIndex
INVARIANT DeleteIsTotal
PROPERTY OkMeansSearchable
CONSTRAINT UntilRaced
CHECK_DEADLOCK FALSE
