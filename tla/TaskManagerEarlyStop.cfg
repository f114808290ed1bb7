CONSTANTS
    N = 2
    Tasks = {t1}
    EntryTasks = {t1}
    Waiters = {}
    Spinners = {}
    MaxYields = 0
    QueueSize = 1
    MaxEvents = 1
    NoTask = NoTask
    EarlySignal = TRUE
    Takeover = TRUE
SPECIFICATION FairSpec
PROPERTIES StopHonoured
CHECK_DEADLOCK FALSE
