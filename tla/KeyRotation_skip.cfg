SPECIFICATION Spec
CONSTANTS
    k1 = k1
    k2 = k2
    k3 = k3
    NoKey = NoKey
    Keys <- MCKeys
    Seed <- MCSeed
    MaxPosition = 4
    Strategies = {"round_robin"}
    Window = 2
    MaxChanges = 0
INVARIANTS UsableKeysTried
