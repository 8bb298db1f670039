CONSTANTS
    PROC_MAX = 4
    QUEUE_SIZE = 4
    SCHEDULER_TIMESLICE = 2
    TICKS_PER_SECOND = 1
    BOOT_PROCS = 3
    MAX_PIDS = 5
    NULL = NULL
    WaitQueues <- MCWaitQueues
    SLEEP_SECONDS <- MCSleepSeconds
SPECIFICATION TimedFairSpec
INVARIANTS TypeOK AllocatorExact PidsUnique PanicOnlyBeforeFirstDispatch
PROPERTIES RunQueueIsFIFO FullSlice SkippedSleepersGoFirst
PROPERTIES NeverEarly SleeperWakes ReadyRuns
CHECK_DEADLOCK FALSE
