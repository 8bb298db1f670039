CONSTANTS
    PROC_MAX = 4
    QUEUE_SIZE = 4
    SCHEDULER_TIMESLICE = 2
    TICKS_PER_SECOND = 1
    BOOT_PROCS = 4
    MAX_PIDS = 4
    NULL = NULL
    WaitQueues <- MCWaitQueues
    SLEEP_SECONDS <- MCSleepSeconds
SPECIFICATION TimedSpec
INVARIANT SleepsForSpecifiedTime
CHECK_DEADLOCK FALSE
