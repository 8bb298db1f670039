-------------------------- MODULE SleepTiming_proofs --------------------------
(***************************************************************************)
(* That nobody wakes early, for any number of sleepers and any times.  The *)
(* invariant ties the countdown in the PCB to the ticks slept: a tick that *)
(* counts the process down also passes for it, and one that misses it      *)
(* only lets it sleep longer.                                              *)
(***************************************************************************)
EXTENDS SleepTiming, Scheduler_proofs

-----------------------------------------------------------------------------
(***************************************************************************)
(* What a step does to the processes that sleep.                           *)
(***************************************************************************)

LEMMA OnTrans ==
    ASSUME NEW k, NEW l, NEW m, SleepOn(k, l), SleepOn(l, m)
    PROVE  SleepOn(k, m)
  BY DEF SleepOn

LEMMA CreateOn ==
    ASSUME NEW k, NEW X, Sound(k, X), NEW l, l = kproc_create(k)
    PROVE  SleepOn(k, l)
  <1>1. \A f \in Entries : Live(k, f) => l.proc[f] = k.proc[f]
    BY CreateSound, ZenonT(40)
  <1> QED
    BY <1>1 DEF SleepOn, Live

LEMMA DestroyOn ==
    ASSUME NEW k, Sound(k, {}), Tight(k), k.active # NULL,
           NEW l, l = kproc_destroy(k, k.active)
    PROVE  SleepOn(k, l)
  <1> DEFINE e == k.active
             d == scheduler_remove(k, e)
  <1>1. e \in Entries /\ k.proc[e].state = "ACTIVE" /\ Live(k, e)
    BY SoundRead DEF IsContext, Tight, Live
  <1>2. d = scheduler_remove(k, e) /\ l = kproc_destroy(k, e)
    OBVIOUS
  <1> HIDE DEF d, e
  <1>3. CASE k.proc[e].pid = 0
    <2>1. l = k
      BY <1>2, <1>3, <1>1, NameAssumption, EntryNumbers DEF kproc_destroy, e
    <2> QED
      BY <2>1 DEF SleepOn
  <1>4. CASE k.proc[e].pid # 0
    <2>1. l = Release(d, e)
      BY <1>2, <1>4 DEF kproc_destroy, e
    <2>2. Sound(d, With({}, e)) /\ \A f \in Entries \ {e} : d.proc[f] = k.proc[f]
      BY <1>1, <1>2, RemoveSound
    <2>3. IsContext(d)
      BY <2>2, SoundRead
    <2>4. l.proc = [d.proc EXCEPT ![e] = FreePCB]
      BY <1>1, <2>1, <2>3, ReleaseFields
    <2>5. \A f \in Entries \ {e} : l.proc[f] = k.proc[f]
      BY <2>2, <2>3, <2>4 DEF IsContext
    <2> QED
      BY <1>1, <2>5 DEF SleepOn
  <1> QED
    BY <1>3, <1>4

LEMMA GoesToSleepOn ==
    ASSUME NEW k, Sound(k, {}), Tight(k), NEW e \in Entries \ {0}, k.active = e,
           NEW time \in Int, NEW l, l = scheduler_sleep(k, e, time)
    PROVE  SleepOn(k, l)
  <1> DEFINE p == [k.proc[e] EXCEPT !.sleep_time = time]
             m == [k EXCEPT !.proc[e].sleep_time = time]
             d == scheduler_remove(m, e)
  <1>0. k.proc[e].state = "ACTIVE"
    BY DEF Tight
  <1>1. TypedContext(k) /\ IsContext(k) /\ k.proc[e] \in PCB
    BY SoundRead
  <1>2. m = [k EXCEPT !.proc[e] = p]
    BY <1>1 DEF IsContext
  <1>3. /\ p \in PCB /\ p.pid = k.proc[e].pid /\ p.state = "ACTIVE"
        /\ p.scheduler_queue = k.proc[e].scheduler_queue
    BY <1>0, <1>1 DEF PCB
  <1>4. l = Block(d, e, "SLEEPING", SleepQ)
    BY <1>0 DEF scheduler_sleep
  <1>5. d = scheduler_remove(m, e)
    OBVIOUS
  <1> HIDE DEF p, m, d
  <1>6. /\ StoredIn(k, m, e, p)
        /\ m.proc[e] = p /\ \A f \in Entries \ {e} : m.proc[f] = k.proc[f]
        /\ m.queue = k.queue
    BY <1>1, <1>2, <1>3, StoreFields
  <1>7. Revises(k, e, p)
    BY <1>0, <1>3 DEF Revises, Sound, PidsOK
  <1>8. Live(k, e)
    BY <1>0 DEF Live
  <1>9. Sound(m, {})
    BY <1>0, <1>1, <1>3, <1>6, <1>7, <1>8, TouchSound
  <1>10. Live(m, e)
    BY <1>3, <1>6 DEF Live
  <1>11. Sound(d, With({}, e)) /\ \A f \in Entries \ {e} : d.proc[f] = m.proc[f]
    BY <1>5, <1>9, <1>10, RemoveSound
  <1>12. IsContext(d) /\ "SLEEPING" \in States /\ SleepQ \in Queues /\ e \in Entries
    BY <1>11, SoundRead, QueueNames DEF States
  <1>13. /\ SameShape(d, l)
         /\ l.proc = [d.proc EXCEPT ![e] = BlockedPCB(@, "SLEEPING", SleepQ)]
         /\ l.queue = IF Full(d.queue[SleepQ]) THEN d.queue
                      ELSE [d.queue EXCEPT ![SleepQ] = Append(@, d.proc[e].pid)]
         /\ l.next = d.next /\ l.active = d.active
    BY <1>4, <1>12, BlockFields
  <1>14. \A f \in Entries \ {e} : l.proc[f] = k.proc[f]
    BY <1>6, <1>11, <1>12, <1>13 DEF IsContext
  <1> QED
    BY <1>0, <1>14 DEF SleepOn

\* The step changes nothing in the PCB of a process that sleeps.
Undisturbed == \A e \in Entries :
    proc_table[e].state = "SLEEPING" => proc_table'[e] = proc_table[e]

LEMMA CommitOn ==
    ASSUME NEW k, SleepOn(Ctx, k), Commit(k)
    PROVE  Undisturbed
  BY CtxFields DEF Commit, SleepOn, Undisturbed

\* The end of a kernel entry leaves sleepers alone.
LEMMA ExitOn ==
    ASSUME NEW k, SleepOn(Ctx, k), ExitKernel(k),
           k.status = "running" => Sound(k, {}) /\ Loose(k)
    PROVE  Undisturbed
  <1>1. PICK m : m = AfterHandler(k) /\ Commit(m)
    BY DEF ExitKernel
  <1>2. CASE k.status = "running"
    <2>1. m = scheduler_run(k)
      BY <1>1, <1>2 DEF AfterHandler
    <2>2. SleepOn(k, m)
      BY <1>2, <2>1, RunLeaves DEF LeavesSleepers
    <2>3. SleepOn(Ctx, m)
      BY <2>2, OnTrans
    <2> QED
      BY <1>1, <2>3, CommitOn
  <1>3. CASE k.status # "running"
    BY <1>1, <1>3, CommitOn DEF AfterHandler
  <1> QED
    BY <1>2, <1>3

LEMMA SameOn ==
    ASSUME NEW k, NEW l, l.proc = k.proc
    PROVE  SleepOn(k, l)
  BY DEF SleepOn

\* Only a tick changes anything in the PCB of a process that sleeps.
LEMMA OnlyTicksWake ==
    ASSUME Inv({}), OtherStep
    PROVE  Undisturbed
  <1>0. Sound(Ctx, {}) /\ Tight(Ctx) /\ Loose(Ctx) /\ Ctx.active = active_proc
          /\ Ctx.status = status /\ Ctx.proc = proc_table /\ IsContext(Ctx)
    BY CtxFields, TightLoose, SoundRead DEF Inv, Safe
  <1>4. CASE BootCreate
    <2>1. PICK k : k = kproc_create(Ctx) /\ Commit(k)
      BY <1>4 DEF BootCreate
    <2>2. SleepOn(Ctx, k)
      BY <1>0, <2>1, CreateOn
    <2> QED
      BY <2>1, <2>2, CommitOn
  <1>5. CASE BootDestroy
    <2>1. PICK k : k = kproc_destroy(Ctx, active_proc) /\ Commit(k)
      BY <1>5 DEF BootDestroy
    <2>2. SleepOn(Ctx, k)
      <3>1. CASE active_proc = NULL
        <4>1. k = kernel_panic(Ctx)
          BY <2>1, <3>1 DEF kproc_destroy
        <4>2. k.proc = Ctx.proc
          BY <1>0, <4>1, PanicFields
        <4> QED
          BY <4>2, SameOn
      <3>2. CASE active_proc # NULL
        BY <1>0, <2>1, <3>2, DestroyOn
      <3> QED
        BY <3>1, <3>2
    <2> QED
      BY <2>1, <2>2, CommitOn
  <1>6. CASE BootKey
    <2>1. PICK k : k = [Ctx EXCEPT !.status = "running"] /\ Commit(k)
      BY <1>6 DEF BootKey
    <2>2. k.proc = Ctx.proc
      BY <2>1 DEF Ctx
    <2> QED
      BY <2>1, <2>2, SameOn, CommitOn
  <1>7. CASE KeyCreate
    <2>1. PICK k : k = kproc_create(Ctx) /\ ExitKernel(k)
      BY <1>7 DEF KeyCreate
    <2>2. SleepOn(Ctx, k)
      BY <1>0, <2>1, CreateOn
    <2>3. /\ Sound(k, {}) /\ k.active = Ctx.active
          /\ \A f \in Entries : Live(Ctx, f) => k.proc[f] = Ctx.proc[f]
          /\ \A f \in Entries : ~Live(Ctx, f) => k.proc[f].state # "ACTIVE"
      BY <1>0, <2>1, CreateSound
    <2>4. Loose(k)
      BY <1>0, <2>3 DEF Loose
    <2> QED
      BY <2>1, <2>2, <2>3, <2>4, ExitOn
  <1>8. ASSUME ExitKernel(kproc_destroy(Ctx, active_proc)) PROVE Undisturbed
    <2>1. PICK k : k = kproc_destroy(Ctx, active_proc) /\ ExitKernel(k)
      BY <1>8
    <2>2. CASE active_proc = NULL
      <3>1. k = kernel_panic(Ctx)
        BY <2>1, <2>2 DEF kproc_destroy
      <3>2. k.proc = Ctx.proc /\ k.status = "panic"
        BY <1>0, <3>1, PanicFields
      <3>3. SleepOn(Ctx, k)
        BY <3>2, SameOn
      <3> QED
        BY <2>1, <3>2, <3>3, ExitOn
    <2>3. CASE active_proc # NULL
      <3>1. SleepOn(Ctx, k)
        BY <1>0, <2>1, <2>3, DestroyOn
      <3>2. Sound(k, {}) /\ Loose(k)
        BY <1>0, <2>1, <2>3, DestroySound
      <3> QED
        BY <2>1, <3>1, <3>2, ExitOn
    <2> QED
      BY <2>2, <2>3
  <1>9. CASE KeyOther
    <2>1. ExitKernel(Ctx)
      BY <1>9 DEF KeyOther
    <2>2. SleepOn(Ctx, Ctx)
      BY SameOn
    <2> QED
      BY <1>0, <2>1, <2>2, ExitOn
  <1>10. ASSUME NEW seconds \in SLEEP_SECONDS, ProcSleep(seconds) PROVE Undisturbed
    <2> DEFINE time == seconds * TICKS_PER_SECOND
    <2>1. time \in Int
      BY TimeAssumption
    <2> HIDE DEF time
    <2>2. PICK k : k = scheduler_sleep(Ctx, active_proc, time) /\ ExitKernel(k)
      BY <1>10 DEF ProcSleep, time
    <2>3. active_proc \in Entries \ {0}
      BY <1>0, <1>10, CtxFields, SoundRead
         DEF ProcSleep, InUserProcess, Sound, PidsOK, IsContext
    <2>4. SleepOn(Ctx, k)
      BY <1>0, <2>1, <2>2, <2>3, GoesToSleepOn
    <2>5. Sound(k, {}) /\ Loose(k)
      BY <1>0, <2>1, <2>2, <2>3, SleepSound
    <2> QED
      BY <2>2, <2>4, <2>5, ExitOn
  <1> QED
    BY <1>4, <1>5, <1>6, <1>7, <1>8, <1>9, <1>10
       DEF OtherStep, BootNext, CallNext, KeyDestroy, ProcExit

\* A tick wakes nobody whose countdown is not below zero, and counts a process
\* that sleeps on down by one, unless the loop misses it.
LEMMA TickOne ==
    ASSUME Inv({}), TimerInterrupt, NEW e \in Entries, proc_table[e].state = "SLEEPING"
    PROVE  /\ proc_table[e].sleep_time \in Int
           /\ \/ /\ proc_table'[e].state = "SLEEPING"
                 /\ proc_table'[e].sleep_time \in {proc_table[e].sleep_time,
                                                   proc_table[e].sleep_time - 1}
              \/ proc_table[e].sleep_time < 0 /\ proc_table'[e].state # "SLEEPING"
  <1> DEFINE k == ChargeActive(Ctx)
             s == k.queue[SleepQ]
             E == Expired(k)
             R == Reached(s, E)
             l == WalkSleepQueue(k)
             m == scheduler_run(l)
  <1>1. /\ Sound(Ctx, {}) /\ Tight(Ctx) /\ Ctx.status = "running"
        /\ Ctx.proc = proc_table
    BY CtxFields DEF Inv, Safe, TimerInterrupt
  <1>2. k = ChargeActive(Ctx) /\ l = WalkSleepQueue(k) /\ m = scheduler_run(l)
    OBVIOUS
  <1>3. Commit(AfterHandler(l))
    BY DEF TimerInterrupt, ExitKernel, scheduler_timer
  <1>4. s = k.queue[SleepQ] /\ E = Expired(k) /\ R = Reached(s, E)
    OBVIOUS
  <1> HIDE DEF k, s, E, R, l, m
  <1>6. Sound(k, {}) /\ Tight(k) /\ k.status = "running"
    BY <1>1, <1>2, ChargeSound
  <1>7. k.proc[e].state = "SLEEPING" /\ k.proc[e].sleep_time = proc_table[e].sleep_time
    BY <1>1, <1>2, ChargeSleepers
  <1>8. Sound(l, {}) /\ Loose(l) /\ l.status = "running"
    <2>1. /\ Sound(l, {}) /\ l.active = k.active /\ l.status = k.status
          /\ \A f \in Entries : l.proc[f].state = "ACTIVE" <=> k.proc[f].state = "ACTIVE"
      BY <1>2, <1>6, WalkSound
    <2> QED
      BY <1>6, <2>1 DEF Tight, Loose
  <1>9. /\ proc_table' = m.proc /\ LeavesSleepers(l, m)
    <2>1. Commit(m)
      BY <1>2, <1>3, <1>8 DEF AfterHandler
    <2>2. LeavesSleepers(l, m)
      BY <1>2, <1>8, RunLeaves
    <2> QED
      BY <2>1, <2>2 DEF Commit
  <1>10. /\ \A i \in R \cap E : /\ l.proc[Sleeper(k, i)].state # "SLEEPING"
                                /\ k.proc[Sleeper(k, i)].sleep_time < 0
         /\ \A i \in R \ E :
               /\ l.proc[Sleeper(k, i)].state = "SLEEPING"
               /\ l.proc[Sleeper(k, i)].sleep_time = k.proc[Sleeper(k, i)].sleep_time - 1
         /\ \A i \in Positions(s) \ R : l.proc[Sleeper(k, i)] = k.proc[Sleeper(k, i)]
    BY <1>2, <1>4, <1>6, WalkSleepers
  <1>11. PICK i \in Positions(s) : Sleeper(k, i) = e
    BY <1>4, <1>6, <1>7, AsleepQueued
  <1>12. \/ /\ l.proc[e].state = "SLEEPING"
            /\ l.proc[e].sleep_time \in {k.proc[e].sleep_time, k.proc[e].sleep_time - 1}
         \/ k.proc[e].sleep_time < 0 /\ l.proc[e].state # "SLEEPING"
    <2>1. CASE i \in R \cap E
      BY <1>10, <1>11, <2>1
    <2>2. CASE i \in R \ E
      BY <1>10, <1>11, <2>2
    <2>3. CASE i \notin R
      BY <1>7, <1>10, <1>11, <2>3
    <2> QED
      BY <2>1, <2>2, <2>3
  <1>13. k.proc[e].sleep_time \in Int
    <2>1. k.proc[e] \in PCB
      BY <1>6, SoundRead
    <2> QED
      BY <2>1 DEF PCB
  <1> QED
    BY <1>7, <1>9, <1>12, <1>13 DEF LeavesSleepers, SleepOn

-----------------------------------------------------------------------------
(***************************************************************************)
(* The invariant of the naps.                                              *)
(***************************************************************************)

Naps == [Entries -> [asked : Int, slept : Nat]]

\* Who sleeps has as many ticks to go as it asked for and did not sleep yet, or
\* more; or it has slept long enough.
CountsDown(e) ==
    proc_table[e].state = "SLEEPING" =>
        \/ nap[e].slept + proc_table[e].sleep_time >= nap[e].asked
        \/ nap[e].slept >= nap[e].asked + 2

NapInv == nap \in Naps /\ \A e \in Entries : CountsDown(e)

LEMMA InitNaps == TimedInit => NapInv
  <1> SUFFICES ASSUME TimedInit PROVE NapInv
    OBVIOUS
  <1>1. nap \in Naps
    BY DEF TimedInit, Naps, Awake
  <1>2. ASSUME NEW e \in Entries PROVE proc_table[e].state # "SLEEPING"
    BY DEF TimedInit, Init, BootPCB, NewPCB, FreePCB
  <1> QED
    BY <1>1, <1>2 DEF NapInv, CountsDown

\* The naps of one process over one step.
LEMMA NapKept ==
    ASSUME Inv({}), TypeOK', NapInv, TimedNext, NEW e \in Entries
    PROVE  /\ nap'[e] \in [asked : Int, slept : Nat] /\ CountsDown(e)'
           /\ proc_table[e].state = "SLEEPING" /\ proc_table'[e].state # "SLEEPING"
                => nap[e].slept + 1 >= nap[e].asked + 2
  <1>1. PICK ticks \in {0, 1} :
            /\ nap'[e] = NapStep(e, ticks)
            /\ ticks = 1 => TimerInterrupt
            /\ ticks = 0 => OtherStep
    BY DEF TimedNext, TimedTick, TimedOther
  <1>2. nap[e] \in [asked : Int, slept : Nat] /\ CountsDown(e)
    BY DEF NapInv, Naps
  <1>3. proc_table'[e].sleep_time \in Int
    <2>1. proc_table' \in [Entries -> PCB]
      BY DEF TypeOK
    <2> QED
      BY <2>1 DEF PCB
  <1>4. CASE proc_table'[e].state # "SLEEPING"
    <2>1. nap'[e] = Awake
      BY <1>1, <1>4 DEF NapStep
    <2>2. nap'[e] \in [asked : Int, slept : Nat] /\ CountsDown(e)'
      BY <1>4, <2>1 DEF Awake, CountsDown
    <2>3. ASSUME proc_table[e].state = "SLEEPING"
          PROVE  nap[e].slept + 1 >= nap[e].asked + 2
      <3>1. TimerInterrupt
        BY <1>1, <1>4, <2>3, OnlyTicksWake DEF Undisturbed
      <3>2. proc_table[e].sleep_time \in Int /\ proc_table[e].sleep_time < 0
        BY <1>4, <2>3, <3>1, TickOne
      <3> QED
        BY <1>2, <2>3, <3>2 DEF CountsDown
    <2> QED
      BY <1>4, <2>2, <2>3
  <1>5. CASE proc_table'[e].state = "SLEEPING" /\ proc_table[e].state # "SLEEPING"
    <2>1. nap'[e] = [asked |-> proc_table'[e].sleep_time, slept |-> 0]
      BY <1>1, <1>5 DEF NapStep
    <2> QED
      BY <1>3, <1>5, <2>1 DEF CountsDown
  <1>6. CASE proc_table'[e].state = "SLEEPING" /\ proc_table[e].state = "SLEEPING"
    <2>1. CASE ticks = 1
      <3>1. proc_table[e].sleep_time \in Int
            /\ proc_table'[e].sleep_time \in {proc_table[e].sleep_time,
                                              proc_table[e].sleep_time - 1}
        BY <1>1, <1>6, <2>1, TickOne
      <3>2. CASE nap[e].slept < nap[e].asked + 2
        <4>1. nap'[e] = [nap[e] EXCEPT !.slept = @ + 1]
          BY <1>1, <1>6, <2>1, <3>2 DEF NapStep
        <4>2. nap'[e].slept = nap[e].slept + 1 /\ nap'[e].asked = nap[e].asked
              /\ nap'[e] \in [asked : Int, slept : Nat]
          BY <1>2, <4>1
        <4> QED
          BY <1>2, <1>6, <3>1, <4>2 DEF CountsDown
      <3>3. CASE ~(nap[e].slept < nap[e].asked + 2)
        <4>1. nap'[e] = nap[e]
          BY <1>1, <1>6, <3>3 DEF NapStep
        <4> QED
          BY <1>2, <1>6, <3>3, <4>1 DEF CountsDown
      <3> QED
        BY <3>2, <3>3
    <2>2. CASE ticks = 0
      <3>1. proc_table'[e] = proc_table[e]
        BY <1>1, <1>6, <2>2, OnlyTicksWake DEF Undisturbed
      <3>2. nap'[e] = nap[e]
        BY <1>1, <1>2, <1>6, <2>2 DEF NapStep
      <3> QED
        BY <1>2, <1>6, <3>1, <3>2 DEF CountsDown
    <2> QED
      BY <1>1, <2>1, <2>2
  <1> QED
    BY <1>4, <1>5, <1>6

Timed == TypeOK /\ Inv({}) /\ NapInv

LEMMA NapsAlways == TimedSpec => []Timed
  <1>1. TimedInit => Timed
    BY InitTyped, InitSafe, InitNaps DEF TimedInit, Timed
  <1>2. Timed /\ [TimedNext]_<<vars, nap>> => Timed'
    <2> SUFFICES ASSUME TypeOK, Inv({}), NapInv, [TimedNext]_<<vars, nap>>
                 PROVE  TypeOK' /\ Inv({})' /\ NapInv'
      BY DEF Timed
    <2>1. [Next]_vars
      BY DEF TimedNext, TimedTick, TimedOther, OtherStep, Next, InterruptNext
    <2>2. TypeOK' /\ Inv({})'
      BY <2>1, NextTyped, NextSafe
    <2>3. CASE TimedNext
      <3>1. \E ticks \in {0, 1} : nap' = [f \in Entries |-> NapStep(f, ticks)]
        BY <2>3 DEF TimedNext, TimedTick, TimedOther
      <3>2. \A e \in Entries : nap'[e] \in [asked : Int, slept : Nat] /\ CountsDown(e)'
        BY <2>2, <2>3, NapKept
      <3>3. nap' \in Naps
        BY <3>1, <3>2 DEF Naps
      <3> QED
        BY <2>2, <3>2, <3>3 DEF NapInv
    <2>4. CASE UNCHANGED <<vars, nap>>
      <3>1. proc_table' = proc_table /\ nap' = nap
        BY <2>4 DEF vars
      <3> QED
        BY <2>2, <3>1 DEF NapInv, CountsDown
    <2> QED
      BY <2>3, <2>4
  <1> QED
    BY <1>1, <1>2, PTL DEF TimedSpec

\* Nobody wakes early: whatever the other processes, the interrupts and the
\* times asked for, a process that leaves the sleep queue has slept two ticks
\* more than it asked for (the countdown in scheduler_timer runs past zero).
THEOREM NobodyWakesEarly == TimedSpec => NeverEarly
  <1>1. Timed /\ Timed' /\ [TimedNext]_<<vars, nap>> =>
           [\A e \in Entries :
               IsAsleep(e) /\ proc_table'[e].state # "SLEEPING"
               => nap[e].slept + 1 >= nap[e].asked + 2]_<<vars, nap>>
    BY NapKept DEF IsAsleep, Timed
  <1> QED
    BY <1>1, NapsAlways, PTL DEF TimedSpec, NeverEarly
=============================================================================
