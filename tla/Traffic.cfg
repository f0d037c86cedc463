SPECIFICATION TrafficSpec
CONSTANTS
    MaxFrames = 4
    Limit = 2
    Ids = {"i1", "i2", "i3"}
    Policies <- MCPolicies
    MaxEntries = 2
    IdleTtl = 1
    PruneInterval = 1
    RlPruneBatch = 1
    MaxClock = 3
    c1 = c1
    c2 = c2
    c3 = c3
    v1 = v1
    v2 = v2
    Combos <- MCCombos
    Providers <- MCProviders
    MaxDepth = 1
    MaxTargets = 2
    Shapes <- MCShapes
    SlowSaves <- MCSlow
    Values = {"a", "b"}
    MaxRevision = 2
    Archives <- MCArchives
    UsageKeys = {k1, k2}
    Filler = k2
    Readers = {u1, u2}
    MaxUsageLocks = 1
    MaxCached = 1
    MaxAge = 1
    Ttl = 1
    Backoff = 1
    FetchPermits = 1
    MaxChanges = 1
    MaxTick = 1
SYMMETRY ReaderSymmetry
INVARIANTS StreamSound LimiterSound
PROPERTIES CombosCorrect SettingsCorrect UsageCorrect
CHECK_DEADLOCK FALSE
