SPECIFICATION MCSpec
CONSTANTS
    d0 = d0
    d1 = d1
    d2 = d2
    j1 = j1
    j2 = j2
    r1 = r1
    MaxLines = 3
    Doc = {d0, d1, d2}
    Job = {j1, j2}
    Reader = {r1}
    Text <- MCText
    CHUNK_TARGET = 4
    CHUNK_OVERLAP = 1
    SEGMENT_CHARS = 6
    ChunkLimit = 2
    MinText = 3
    MAX_FACTS_PER_SEGMENT = 4
    MAX_TOTAL_FACTS = 5
    PROFILE_TTL = 2
INVARIANTS
    CleanJobCoversText
    OnePassPerDocument
    ServedIsAsFreshAsStamped
    DeletedIsNotAsserted
PROPERTIES
    ChunksKeepText
    ChunksFitAndOverlap
    JobEnds
CHECK_DEADLOCK FALSE
