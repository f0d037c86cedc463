SPECIFICATION AccessSpec
CONSTANTS
    Families = {f1, f2, f3}
    FamilyCap = 2
    MaxGeneration = 1
    MaxEpoch = 1
    AdminProcs = {a1, a2}
    Callers = {t1, t2, t3}
    Providers = {p1, p2, p3}
    Gates = {1, 2, 3, 4, 5, 6}
    NoGate = NoGate
    NoProvider = NoProvider
    Limit = 1
    MaxTracked = 2
    MaxRestores = 1
    Creds = {c1, c2}
    TokenTasks = {t1, t2}
    MaxLocks = 1
    MaxToken = 3
    Bystander = c2
    MintLimit = 2
    MaxLost = 1
    Accounts = {b1, b2}
    Strikes = 2
    StrikeWindow = 2
    PauseTime = 3
    RetryAfters = {0, 1, 9}
    MaxRetryAfter = 4
    MaxBreakers = 1
    Metered = {q1, q2}
    Seconds = 2
    MaxTrackers = 1
    MaxRejections = 3
    MaxSends = 3
    MaxHalf = 6
SYMMETRY AccessSymmetry
INVARIANTS SessionsSound GatesSound TokensSound QuotaSound
PROPERTIES ReuseEndsFamily
CHECK_DEADLOCK FALSE
