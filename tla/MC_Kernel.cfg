CONSTANTS
    PROC_MAX = 4
    QUEUE_SIZE = 4
    SCHEDULER_TIMESLICE = 2
    TICKS_PER_SECOND = 1
    BOOT_PROCS = 4
    MAX_PIDS = 5
    MUTEX_MAX = 1
    SEM_MAX = 1
    MAX_COUNT = 1
    NULL = NULL
    WaitQueues <- MCWaitQueues
    SLEEP_SECONDS <- MCSleepSeconds
    MutexArgs <- MCIds
    SemArgs <- MCIds
    Discipline <- MCFullDiscipline
SPECIFICATION KernelSpec
INVARIANTS KernelTypeOK QueueDiscipline ActiveIsActive SemWaitReturns IdsExact
PROPERTIES ImplementsFifoLock ImplementsCountingSemaphore
CHECK_DEADLOCK FALSE
