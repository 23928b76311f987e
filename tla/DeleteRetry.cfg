SPECIFICATION Spec
CONSTANTS
    x1 = x1
    u = u
    Docs = {d1}
    None = None
    Tags = {t1}
    Contents = {x1}
    UrlOf <- OneUrl
    Parts = {p1}
    Calls = {c1}
    Jobs = {j1}
    TemporalGraph = TRUE
INVARIANT EdgesFallWithDocument
CHECK_DEADLOCK FALSE
