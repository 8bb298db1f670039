CONSTANTS
    PROC_MAX = 3
    QUEUE_SIZE = 3
    SCHEDULER_TIMESLICE = 2
    TICKS_PER_SECOND = 1
    BOOT_PROCS = 3
    MAX_PIDS = 3
    MUTEX_MAX = 1
    SEM_MAX = 1
    MAX_COUNT = 1
    NULL = NULL
    WaitQueues <- MCWaitQueues
    SLEEP_SECONDS <- MCSleepSeconds
    MutexArgs <- MCIds
    SemArgs <- MCIds
    Discipline <- MCFullDiscipline
SPECIFICATION KernelSpec
INVARIANT MutexLockReturns
CHECK_DEADLOCK FALSE
