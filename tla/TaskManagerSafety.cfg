CONSTANTS
    N = 2
    Tasks = {t1, t2, t3}
    EntryTasks = {t1}
    Waiters = {t1, t2}
    Spinners = {t1}
    MaxYields = 0
    QueueSize = 2
    MaxEvents = 2
    NoTask = NoTask
    EarlySignal = FALSE
    Takeover = TRUE
SPECIFICATION Spec
INVARIANTS
    TypeOK
    OnePlace
    HeldIsResumable
    Accounted
    NoStrandedWork
CHECK_DEADLOCK FALSE
