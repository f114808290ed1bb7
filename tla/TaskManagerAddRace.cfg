CONSTANTS
    N = 2
    Tasks = {t1}
    EntryTasks = {t1}
    Waiters = {t1}
    Spinners = {}
    MaxYields = 0
    QueueSize = 1
    MaxEvents = 1
    NoTask = NoTask
    EarlySignal = FALSE
    Takeover = TRUE
SPECIFICATION Spec
INVARIANTS NothingUnarmed
CHECK_DEADLOCK FALSE
