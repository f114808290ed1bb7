CONSTANTS
    N = 2
    Tasks = {t1, t2}
    EntryTasks = {t1}
    Waiters = {t2}
    Spinners = {}
    MaxYields = 0
    QueueSize = 2
    MaxEvents = 1
    NoTask = NoTask
    EarlySignal = FALSE
    Takeover = FALSE
SPECIFICATION FairSpec
INVARIANT StopInv
PROPERTIES StoppedTerminates ExitTerminates QueuedIsTaken
CHECK_DEADLOCK FALSE
