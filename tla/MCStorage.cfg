CONSTANTS
    Origins = {0, 1, 18, 20}
    Adapter = {"orats", "databento", "fixture"}
    PageContent <- MCContent
    Bad <- MCBad
    Sequence <- MCSequence
    Attempts = 2
    OmitsCursor = {"databento", "fixture"}
    MaxFaults = 3
    MaxRuns = 3
    Process = {p1, p2}
    Key = {k1, k2}
    Ttl = {0}
    MaxTime = 1
    MaxWrites = 2
    MaxSweeps = 1
    MaxDamage = 1
    Session = {s1, s2}
    Job = {j1}
    Artifact = {a1, a2}
    Digests = {c1, c2}
    Status = {"planned", "cancelled"}
    StoredEvents = 3
    MaxCalls = 2
    Schedules = {d1}
    Workers = {w1, w2, w3}
    Rules = {r1, r2}
    DeskPages = 2
    Responses = {x, y}
    DeskEvents = 6
    MaxEmits = 3
SPECIFICATION StorageSpec
INVARIANTS SchemaIsServed ImportsAreWhole StoreIsConsistent DeskIsSound
PROPERTIES CacheIsSound BroughtInStands
