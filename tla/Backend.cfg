SPECIFICATION BackendSpec
CONSTANTS
    p1 = p1
    p2 = p2
    x1 = x1
    m1 = m1
    k1 = k1
    None = None
    Providers = {p1, p2}
    ModelPrefixes = {x1}
    Models = {m1}
    Keys = {k1}
    Owner <- MCOwner
    ChangingKeys = {k1}
    Batch = 1
    BackupFiles <- MCBackupFiles
    StReaders = {r1}
    StWriters = {w1, w2}
    MaxOperations = 2
    InitialSize = 1
    SizeLimit = 3
    Needs = {1, 2}
    Tasks = {t1, t2}
    Limits = {0, 1, 2}
    MaxReplyTexts = 2
    PipeSize = 2
    MaxUpFrames = 4
INVARIANTS SlotAccounting ReductionRespected WakeupsSound StorageSound ChatSound
PROPERTIES RestoreCorrect OperationsAnswered WaitersProgress TurnConcludes
CHECK_DEADLOCK FALSE
