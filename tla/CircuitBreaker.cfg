SPECIFICATION MCBreakerSpec
CONSTANTS
    r1 = r1
    r2 = r2
    Requests = {r1, r2}
    Thresholds = {1, 3}
    Cooldowns = {1, 2}
    MaxFailures = 3
    MaxId = 3
INVARIANTS CircuitSound
PROPERTIES LeaseDiscipline Recovery
