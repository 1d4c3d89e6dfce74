\* A bounded number of calls and messages: they come to rest.
CONSTANTS
    LimitCalls = {q1, q2}
    Limit = 2
    Window = 2
    Second = 2
    MaxTime = 3
    MaxLimitCalls = 4
    MaxRestarts = 1
    Wordings = {x, y}
    BurstLimit = 3
    BurstWindow = 2
    SameLimit = 2
    SameWindow = 2
    RowLimit = 2
    RowTtl = 3
    MaxAbuseTime = 3
    MaxMessages = 4
    MaxFaults = 1
    CacheTurns = {v1, v2}
    FlowStates = {f1, f2}
    Phrases = {p1, p2}
    Alike = {{p1, p2}}
    ExactTtl = 1
    EmbeddingTtl = 2
    MaxEntries = 2
    MaxCacheTime = 2
    MaxCacheTurns = 3
    MaxRevision = 1
    MaxSkips = 1
SYMMETRY Renamings
SPECIFICATION Spec
CHECK_DEADLOCK FALSE
INVARIANTS RepetitionIsStopped
PROPERTIES LimiterHolds CacheHolds
