-------------------------------- MODULE Timer --------------------------------
(***************************************************************************)
(* The timer table of timer.c: callbacks that the kernel registers, and    *)
(* the interrupt handler that counts ticks and runs them.  The tick count  *)
(* is a C int: it wraps (timer_ticks++ compiles to an increment in memory).*)
(* A history variable, which no action reads, records how long ago each    *)
(* callback was registered or last run.                                    *)
(***************************************************************************)
EXTENDS QueueWalk

CONSTANTS
    TIMERS_MAX,     \* entries of the timer table (32)
    Intervals,      \* intervals the kernel registers callbacks with (1, 2, 10, 25)
    Repeats,        \* repeat counts they are registered with (-1 in the code)
    INT_MAX         \* the largest int (2^31 - 1)

Timers == 0 .. (TIMERS_MAX - 1)

ASSUME TimerAssumption ==
    /\ TIMERS_MAX \in Nat
    /\ Intervals \subseteq Nat \ {0}
    /\ Repeats \subseteq Int
    /\ INT_MAX \in Nat

VARIABLES
    timers,             \* the timer table
    timer_allocator,    \* ids to be allocated
    timer_ticks,        \* interrupts so far, as an int
    history             \* [asked |-> repeat, quiet |-> ticks, wrapped] of each id

tvars == <<timers, timer_allocator, timer_ticks, history>>

\* memset(timer, 0, sizeof(timer_t)): no callback.
NoTimer == [callback |-> FALSE, interval |-> 0, repeat |-> 0]

NoHistory == [asked |-> 0, quiet |-> 0, wrapped |-> FALSE]

\* The ids in the order of the table, in which timer_init and the handler walk it.
TimerIds == [n \in 1 .. TIMERS_MAX |-> n - 1]

\* Mutant: the allocator is filled with ids that start at one.
timer_initFromOne ==
    /\ timers = [t \in Timers |-> NoTimer]
    /\ timer_allocator = [n \in 1 .. TIMERS_MAX |-> n]
    /\ timer_ticks = 0
    /\ history = [t \in Timers |-> NoHistory]

timer_init ==
    /\ timers = [t \in Timers |-> NoTimer]
    /\ timer_allocator = TimerIds
    /\ timer_ticks = 0
    /\ history = [t \in Timers |-> NoHistory]

timer_callback_register(interval, repeat) ==
    /\ timer_allocator # <<>>
    /\ LET t == Head(timer_allocator)
       IN  /\ timers' = [timers EXCEPT ![t] = [callback |-> TRUE,
                             interval |-> interval, repeat |-> repeat]]
           /\ history' = [history EXCEPT ![t] = [NoHistory EXCEPT !.asked = repeat]]
    /\ timer_allocator' = Tail(timer_allocator)
    /\ UNCHANGED timer_ticks

\* The count after this interrupt.
NextTick == IF timer_ticks = INT_MAX THEN -INT_MAX - 1 ELSE timer_ticks + 1

\* timer_callback_unregister is called by the handler for these timers.
Over(t) == timers[t].callback /\ timers[t].repeat = 0

\* Mutant: the interval is counted from zero up to and including itself.
DueLate(t) == timers[t].callback /\ NextTick % (timers[t].interval + 1) = 0

\* The callbacks that the next tick runs.
Due(t) == timers[t].callback /\ NextTick % timers[t].interval = 0

\* Mutant: the entry is given back without being cleared.
TickedKept(t) ==
    IF timers[t].repeat > 0 THEN [timers[t] EXCEPT !.repeat = @ - 1] ELSE timers[t]

\* The entry after a tick: repeat counts down to 0, then the entry is cleared.
Ticked(t) ==
    IF Over(t) THEN NoTimer
    ELSE IF timers[t].repeat > 0
         THEN [timers[t] EXCEPT !.repeat = @ - 1]
         ELSE timers[t]

\* What is remembered of a timer over a tick.
Remembered(t) ==
    IF Over(t) \/ ~timers[t].callback THEN NoHistory
    ELSE IF Due(t) THEN [NoHistory EXCEPT !.asked = history[t].asked]
    ELSE [asked |-> history[t].asked, quiet |-> history[t].quiet + 1,
          wrapped |-> history[t].wrapped \/ timer_ticks = INT_MAX]

\* The ids that the handler gives back, in the order of the table.
GivenBack == AtIndices(TimerIds, {n \in 1 .. TIMERS_MAX : Over(TimerIds[n])})

timer_irq_handler ==
    /\ timer_ticks' = NextTick
    /\ timers' = [t \in Timers |-> Ticked(t)]
    /\ timer_allocator' = timer_allocator \o GivenBack
    /\ history' = [t \in Timers |-> Remembered(t)]

-----------------------------------------------------------------------------
\* The variables have the types of timer.c.
TimerTypeOK ==
    /\ timers \in [Timers -> [callback : BOOLEAN, interval : Nat, repeat : Int]]
    /\ timer_allocator \in Seq(Timers)
    /\ timer_ticks \in (-INT_MAX - 1) .. INT_MAX
    /\ history \in [Timers -> [asked : Int, quiet : Nat, wrapped : BOOLEAN]]

\* A timer id is registered or free, never both, never twice in the allocator,
\* although the handler gives ids back while it walks the table (timer.c:138).
TimerIdsExact ==
    /\ \A t \in Timers : timers[t].callback
          <=> ~ \E n \in DOMAIN timer_allocator : timer_allocator[n] = t
    /\ \A m, n \in DOMAIN timer_allocator :
          timer_allocator[m] = timer_allocator[n] => m = n

\* A callback registered for ever (scheduler_timer, tty_refresh) runs again within
\* its interval, whatever other timers come and go around it; once, when the tick
\* count wraps, it may take one tick less than two intervals, and no more, although
\* the count is then negative and timer_ticks % interval with it (timer.c:118, 127).
RunsOnSchedule ==
    \A t \in Timers :
        LET interval == timers[t].interval
        IN  timers[t].callback /\ history[t].asked < 0 =>
                \/ history[t].quiet < interval
                \/ history[t].wrapped /\ history[t].quiet < 2 * interval - 1
=============================================================================
