SPECIFICATION FairSpec
CONSTANTS
    r1 = r1
    r2 = r2
    p1 = p1
    p2 = p2
    None = None
    Requests = {r1, r2}
    Streaming = {r1}
    Route <- MCRoute
    Strategies = {"priority", "round_robin"}
    ProviderLimit = 1
    MaxKeys = 2
    MaxAttempts = 2
INVARIANTS PipelineSound
PROPERTIES RetryDiscipline RequestsEnd
