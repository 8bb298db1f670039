CONSTANTS
    TIMERS_MAX = 2
    INT_MAX = 7
    MAX_KEYS = 3
    Intervals <- MCIntervals
    Repeats <- MCRepeats
SPECIFICATION InterruptsFairSpec
INVARIANTS InterruptsTypeOK TimerIdsExact RunsOnSchedule
INVARIANTS EveryInterruptHandled KeysInOrderOnce WaitingKeyAnnounced
PROPERTY EveryKeyIsRead
CHECK_DEADLOCK FALSE
