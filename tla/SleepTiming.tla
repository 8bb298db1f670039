----------------------------- MODULE SleepTiming -----------------------------
(***************************************************************************)
(* How long PROC_SLEEP sleeps.  The scheduler of Scheduler with one        *)
(* history variable, which no action reads: for every process that is      *)
(* asleep, the ticks it asked for and the ticks it has slept, counted up   *)
(* to two more than it asked for.                                          *)
(***************************************************************************)
EXTENDS Scheduler

VARIABLE nap    \* [asked |-> ticks, slept |-> ticks] for each entry

Awake == [asked |-> 0, slept |-> 0]

\* The step from a process's point of view: it falls asleep, it sleeps on while so
\* many ticks pass, or it is awake.
NapStep(e, ticks) ==
    IF proc_table'[e].state # "SLEEPING" THEN Awake
    ELSE IF proc_table[e].state # "SLEEPING"
         THEN [asked |-> proc_table'[e].sleep_time, slept |-> 0]
         ELSE IF nap[e].slept < nap[e].asked + 2
              THEN [nap[e] EXCEPT !.slept = @ + ticks]
              ELSE nap[e]

TimedInit == Init /\ nap = [e \in Entries |-> Awake]

TimedTick == TimerInterrupt /\ nap' = [e \in Entries |-> NapStep(e, 1)]

OtherStep == BootNext \/ KeyCreate \/ KeyDestroy \/ KeyOther \/ CallNext

TimedOther == OtherStep /\ nap' = [e \in Entries |-> NapStep(e, 0)]

TimedNext == TimedTick \/ TimedOther

TimedSpec == TimedInit /\ [][TimedNext]_<<vars, nap>>

TimedFairSpec == TimedSpec /\ TimerKeepsTicking

IsAsleep(e) == proc_table[e].state = "SLEEPING"

\* Nobody wakes early: a process that leaves the sleep queue has slept the ticks
\* it asked for and two more: the countdown runs past zero.
NeverEarly ==
    [][\A e \in Entries :
        IsAsleep(e) /\ proc_table'[e].state # "SLEEPING"
        => nap[e].slept + 1 >= nap[e].asked + 2]_<<vars, nap>>

\* The comments of ksyscall_proc_sleep and scheduler_sleep: the process sleeps
\* for the specified time.  Granting the two ticks that the countdown always
\* adds, no process should be asleep longer.
SleepsForSpecifiedTime ==
    \A e \in Entries : IsAsleep(e) /\ nap[e].asked >= 0
                          => nap[e].slept <= nap[e].asked + 1
=============================================================================
