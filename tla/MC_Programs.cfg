CONSTANTS
    PROC_MAX = 4
    QUEUE_SIZE = 6
    SCHEDULER_TIMESLICE = 1
    TICKS_PER_SECOND = 1
    BOOT_PROCS = 4
    MAX_PIDS = 4
    MUTEX_MAX = 2
    SEM_MAX = 6
    MAX_COUNT = 2
    INPUT_SIZE = 1
    MAX_RACES = 1
    NULL = NULL
    WaitQueues <- MCWaitQueues
    SLEEP_SECONDS <- MCSleepSeconds
    MutexArgs <- MCNone
    SemArgs <- MCNone
    Discipline <- MCDiscipline
    Assignments <- MCAssignments
SPECIFICATION ProgramsFairSpec
INVARIANTS ProgramsStayDefined HolderOwnsLock BallsConserved
PROPERTIES ShellGetsLock PingPongGoesOn
CHECK_DEADLOCK FALSE
