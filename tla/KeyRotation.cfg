SPECIFICATION FairSpec
CONSTANTS
    k1 = k1
    k2 = k2
    k3 = k3
    NoKey = NoKey
    Keys <- MCKeys
    Seed <- MCSeed
    MaxPosition = 4
    Strategies = {"ordered", "round_robin"}
    Window = 2
    MaxChanges = 1
INVARIANTS IndexExact CountsBounded
PROPERTIES RotationComplete RotationEnds
