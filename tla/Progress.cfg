SPECIFICATION ProgressSpec
CONSTANTS
    MaxChunks = 3
    MaxEvents = 2
    Capacity = 1
    PageSize = 2
    MaxFaults = 1
    MaxRestarts = 1
    Flows = {f1, f2}
    Slots = {1, 2}
    MaxFlows = 2
    First = f1
INVARIANTS RunSound
PROPERTIES CancelReleases SignInCorrect PortReleased
CHECK_DEADLOCK FALSE
