SPECIFICATION ObsSpec
CONSTANTS
    ModelCount = 1
    Windows = {2, 3}
    Retention = 4
    PageRows = 1
    QueueCap = 1
    BatchCap = 2
    MaxEvents = 3
    MaxMinute = 5
    Requests = {"r1", "r2", "r3"}
    MaxLive = 2
    EventCapacity = 3
    Attempts = 1
    LogIds = {1, 2, 3}
    MaxTime = 3
    LogRetention = 1
    MaxRows = 2
    PruneBatch = 2
    PageLimit = 1
    ScanRows = 2
    LatencyBounds <- MCBounds
INVARIANTS TelemetrySound LiveViewSound HistorySound
CHECK_DEADLOCK FALSE
