SPECIFICATION MCSpec
CONSTANTS
    w1 = w1
    w2 = w2
    agent = agent
    user = user
    city = city
    rome = rome
    oslo = oslo
    none = none
    garbage = garbage
    t1 = t1
    t2 = t2
    Caller = {w1, w2, agent}
    Writer = {w1, w2}
    Tag = {t1}
    Word = {user, city, rome, oslo}
    Nothing = none
    User = user
    Garbage = garbage
    Reply <- MCReply
    DocDate = {1}
    Page = 2
    ReadCap = 3
    AnswerCap = 4
    MaxIngest = 3
    Attempts = 2
    Batch = 2
INVARIANTS
    GraphTypeOK
    VectorsMatchInputs
    TokensDeliveredOnce
    DemotionHasReason
    OneLatestWhenSerial
    ResolvesByEventTime
    DeleteReachesGraph
PROPERTIES
    HistoryIsKept
    IngestEnds
CHECK_DEADLOCK FALSE
