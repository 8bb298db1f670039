------------------------------ MODULE Scheduler ------------------------------
(***************************************************************************)
(* The process table (kproc.c), the round-robin scheduler (scheduler.c)    *)
(* and the kernel entries that drive them: the timer interrupt, the        *)
(* keyboard's control keys and the PROC_SLEEP and PROC_EXIT system calls.  *)
(*                                                                         *)
(* gmkOS runs on one CPU and every gate is an interrupt gate, so a kernel  *)
(* entry (kernel_context_enter: handler, scheduler_run, context exit) runs *)
(* with interrupts disabled from beginning to end: it is one action here.  *)
(* What interleaves is the order of interrupts and system calls.           *)
(*                                                                         *)
(* A C function is an operator from a kernel context k to the context it   *)
(* leaves behind.  A proc_t pointer is the index of the entry in           *)
(* proc_table; a queue_t pointer is a queue's name; a queue is the         *)
(* sequence of the values it holds (KQueue justifies that).                *)
(***************************************************************************)
EXTENDS Integers, Sequences, FiniteSets, QueueWalk

SeqExt == INSTANCE SequencesExt

CONSTANTS
    PROC_MAX,              \* entries of the process table (20 in the code)
    QUEUE_SIZE,            \* slots of a queue_t (32)
    SCHEDULER_TIMESLICE,   \* ticks a process may run before it is preempted (10)
    TICKS_PER_SECOND,      \* the factor in ksyscall_proc_sleep (100)
    BOOT_PROCS,            \* processes kproc_init creates, the idle task first (11)
    SLEEP_SECONDS,         \* arguments user processes pass to proc_sleep
    MAX_PIDS,              \* bound: Ctrl-N is pressed while next_pid is below it
    WaitQueues,            \* names of the wait queues of mutexes and semaphores
    NULL                   \* the null pointer

Entries == 0 .. (PROC_MAX - 1)

RunQ   == <<"run", 0>>
SleepQ == <<"sleep", 0>>
Queues == {RunQ, SleepQ} \cup WaitQueues

ASSUME SizeAssumption ==
    /\ PROC_MAX \in Nat \ {0}
    /\ BOOT_PROCS \in 1 .. PROC_MAX
    /\ QUEUE_SIZE \in Nat
    /\ PROC_MAX <= QUEUE_SIZE
    /\ SCHEDULER_TIMESLICE \in Nat \ {0}

ASSUME TimeAssumption ==
    /\ TICKS_PER_SECOND \in Nat
    /\ SLEEP_SECONDS \subseteq Int
    /\ MAX_PIDS \in Nat
    /\ BOOT_PROCS <= MAX_PIDS

ASSUME NameAssumption ==
    /\ NULL \notin Nat
    /\ NULL \notin Queues
    /\ RunQ \notin WaitQueues
    /\ SleepQ \notin WaitQueues

VARIABLES
    proc_table,      \* the process control blocks
    queue,           \* contents of the run, sleep and wait queues, as pids
    active_proc,     \* entry of the scheduled process, or NULL
    proc_allocator,  \* entries free to be allocated
    next_pid,        \* next process id to be assigned
    status           \* "boot" (interrupts still off), "running", "panic", or
                     \* "undefined" (a step the C language gives no meaning)

vars == <<proc_table, queue, active_proc, proc_allocator, next_pid, status>>

States == {"NONE", "IDLE", "ACTIVE", "SLEEPING", "WAITING"}

PCB == [pid : Nat, state : States, scheduler_queue : Queues \cup {NULL},
        cpu_time : Nat, sleep_time : Int]

\* memset(proc, 0, sizeof(proc_t))
FreePCB == [pid |-> 0, state |-> "NONE", scheduler_queue |-> NULL,
            cpu_time |-> 0, sleep_time |-> 0]

-----------------------------------------------------------------------------
(***************************************************************************)
(* The kernel context.                                                     *)
(***************************************************************************)

Ctx == [proc |-> proc_table, queue |-> queue, active |-> active_proc,
        free |-> proc_allocator, next |-> next_pid, status |-> status]

Commit(k) ==
    /\ proc_table' = k.proc
    /\ queue' = k.queue
    /\ active_proc' = k.active
    /\ proc_allocator' = k.free
    /\ next_pid' = k.next
    /\ status' = k.status

\* kernel_panic() does not return: nothing after it happens.
kernel_panic(k) == [k EXCEPT !.status = "panic"]

\* A step the C language gives no meaning: nothing is modelled after it.
Undefined(k) == [k EXCEPT !.status = "undefined"]

\* What a handler with a return value leaves behind.
Result(k, rc) == [k |-> k, rc |-> rc]

Full(s) == Len(s) >= QUEUE_SIZE

-----------------------------------------------------------------------------
(***************************************************************************)
(* Process table.                                                          *)
(***************************************************************************)

EntriesOf(k, pid) == {e \in Entries : k.proc[e].pid = pid}

\* The first entry with that pid (free entries have pid 0, like the idle task).
pid_to_proc(k, pid) ==
    IF EntriesOf(k, pid) = {}
    THEN NULL
    ELSE CHOOSE e \in EntriesOf(k, pid) : \A f \in EntriesOf(k, pid) : e <= f

-----------------------------------------------------------------------------
(***************************************************************************)
(* scheduler.c                                                             *)
(***************************************************************************)

scheduler_add(k, e) ==
    IF Full(k.queue[RunQ])
    THEN kernel_panic(k)
    ELSE [k EXCEPT !.proc[e].scheduler_queue = RunQ,
                   !.proc[e].state = "IDLE",
                   !.proc[e].cpu_time = 0,
                   !.queue[RunQ] = Append(@, k.proc[e].pid)]

\* Takes e's pid out of the queue e says it is in.
Unqueue(k, e) ==
    LET q == k.proc[e].scheduler_queue
        found == {i \in 1 .. Len(k.queue[q]) : k.queue[q][i] = k.proc[e].pid}
    IN  IF q = NULL
        THEN k
        ELSE [k EXCEPT !.queue[q] = Rotate(@, found),
                       !.proc[e].scheduler_queue = NULL]

scheduler_remove(k, e) ==
    [Unqueue(k, e) EXCEPT !.active = IF @ = e THEN NULL ELSE @]

\* queue_in() returns an error when the queue is full; it is not looked at.
EnqueueIgnoringErrors(k, q, e) ==
    IF Full(k.queue[q])
    THEN k
    ELSE [k EXCEPT !.queue[q] = Append(@, k.proc[e].pid)]

\* The active process becomes blocked in queue q.
Block(k, e, state, q) ==
    EnqueueIgnoringErrors([k EXCEPT !.proc[e].state = state,
                                    !.proc[e].scheduler_queue = q], q, e)

scheduler_sleep(k, e, time) ==
    LET k1 == [k EXCEPT !.proc[e].sleep_time = time]
    IN  IF k.proc[e].state = "SLEEPING"
        THEN k1
        ELSE Block(scheduler_remove(k1, e), e, "SLEEPING", SleepQ)

\* The positions of the sleep queue whose item is not enqueued again: an item
\* whose process is gone is dropped, a process whose time is up is woken.
Gone(k) ==
    {i \in DOMAIN k.queue[SleepQ] : pid_to_proc(k, k.queue[SleepQ][i]) = NULL}

\* Mutant: the countdown ends at zero.
ExpiredAtZero(k) ==
    {i \in DOMAIN k.queue[SleepQ] \ Gone(k) :
        k.proc[pid_to_proc(k, k.queue[SleepQ][i])].sleep_time <= 0}

Expired(k) ==
    {i \in DOMAIN k.queue[SleepQ] \ Gone(k) :
        k.proc[pid_to_proc(k, k.queue[SleepQ][i])].sleep_time < 0}

Visited(k) == Reached(k.queue[SleepQ], Gone(k) \cup Expired(k))

VisitedProcs(k) ==
    {pid_to_proc(k, k.queue[SleepQ][i]) : i \in Visited(k) \ Gone(k)}

WokenProcs(k) ==
    {pid_to_proc(k, k.queue[SleepQ][i]) : i \in Visited(k) \cap Expired(k)}

\* Mutant: the CPU time of before the sleep is kept.
WokenPCBStaleTime(pcb) ==
    [pcb EXCEPT !.sleep_time = @ - 1, !.scheduler_queue = RunQ, !.state = "IDLE"]

\* The PCB of a process the walk wakes: sleep_time-- and then scheduler_add().
WokenPCB(pcb) ==
    [pcb EXCEPT !.sleep_time = @ - 1, !.scheduler_queue = RunQ,
                !.state = "IDLE", !.cpu_time = 0]

WalkSleepQueue(k) ==
    LET woken == AtIndices(k.queue[SleepQ], Visited(k) \cap Expired(k))
    IN  IF Len(k.queue[RunQ]) + Len(woken) > QUEUE_SIZE
        THEN kernel_panic(k)
        ELSE [k EXCEPT
                !.proc = [e \in Entries |->
                            IF e \in WokenProcs(k) THEN WokenPCB(k.proc[e])
                            ELSE IF e \in VisitedProcs(k)
                                 THEN [k.proc[e] EXCEPT !.sleep_time = @ - 1]
                                 ELSE k.proc[e]],
                !.queue[SleepQ] = Rotate(@, Gone(k) \cup Expired(k)),
                !.queue[RunQ] = @ \o woken]

ChargeActive(k) ==
    IF k.active = NULL
    THEN k
    ELSE [k EXCEPT !.proc[k.active].cpu_time = @ + 1]

scheduler_timer(k) == WalkSleepQueue(ChargeActive(k))

\* Mutant: a process that has blocked stays scheduled.
DropNothing(k) == k

\* A process that is not in the active state is no longer scheduled.
DropInactive(k) ==
    IF k.active # NULL /\ k.proc[k.active].state # "ACTIVE"
    THEN [k EXCEPT !.active = NULL]
    ELSE k

\* A process that has used its time slice goes to the end of the run queue;
\* the idle task is only set aside.
Preempt(k) ==
    LET p  == k.active
        k1 == [k EXCEPT !.proc[p].cpu_time = 0]
    IN  IF k.active = NULL \/ k.proc[p].cpu_time < SCHEDULER_TIMESLICE
        THEN k
        ELSE IF k.proc[p].pid # 0
             THEN [scheduler_add(k1, p) EXCEPT !.active = NULL]
             ELSE [k1 EXCEPT !.proc[p].state = "IDLE", !.active = NULL]

\* Mutants: no idle task to fall back on; the newest process is taken first.
DispatchNoIdle(k) ==
    IF k.active # NULL \/ k.queue[RunQ] = <<>>
    THEN k
    ELSE [k EXCEPT !.active = pid_to_proc(k, Head(k.queue[RunQ])),
                   !.queue[RunQ] = Tail(@)]

DispatchNewest(k) ==
    LET n == Len(k.queue[RunQ])
    IN  IF k.active # NULL
        THEN k
        ELSE IF n = 0
             THEN [k EXCEPT !.active = pid_to_proc(k, 0)]
             ELSE [k EXCEPT !.active = pid_to_proc(k, k.queue[RunQ][n]),
                            !.queue[RunQ] = SubSeq(@, 1, n - 1)]

\* The head of the run queue, or the idle task when the queue is empty.
Dispatch(k) ==
    IF k.active # NULL
    THEN k
    ELSE IF k.queue[RunQ] = <<>>
         THEN [k EXCEPT !.active = pid_to_proc(k, 0)]
         ELSE [k EXCEPT !.active = pid_to_proc(k, Head(k.queue[RunQ])),
                        !.queue[RunQ] = Tail(@)]

Activate(k) ==
    IF k.active = NULL
    THEN kernel_panic(k)
    ELSE [k EXCEPT !.proc[k.active].state = "ACTIVE"]

scheduler_run(k) == Activate(Dispatch(Preempt(DropInactive(k))))

\* The end of every kernel entry: scheduler_run(), if the handler came back.
AfterHandler(k) == IF k.status = "running" THEN scheduler_run(k) ELSE k

ExitKernel(k) == \E out \in {AfterHandler(k)} : Commit(out)

-----------------------------------------------------------------------------
(***************************************************************************)
(* kproc.c                                                                 *)
(***************************************************************************)

NewPCB(pid) ==
    [FreePCB EXCEPT !.pid = pid, !.state = "IDLE"]

\* Mutant: next_pid is not advanced.
kproc_createSamePid(k) ==
    LET e == Head(k.free)
    IN  IF k.free = <<>>
        THEN k
        ELSE scheduler_add([k EXCEPT !.free = Tail(@),
                                     !.proc[e] = NewPCB(k.next)], e)

kproc_create(k) ==
    LET e == Head(k.free)
    IN  IF k.free = <<>>
        THEN k
        ELSE scheduler_add([k EXCEPT !.free = Tail(@),
                                     !.next = @ + 1,
                                     !.proc[e] = NewPCB(k.next)], e)

\* Mutants: the pid is recycled instead of the entry; the PCB is not cleared.
ReleasePid(k, e) ==
    [k EXCEPT !.proc[e] = FreePCB, !.free = Append(@, k.proc[e].pid)]

ReleaseUncleared(k, e) ==
    [k EXCEPT !.proc[e].state = "NONE", !.free = Append(@, e)]

\* proc_to_entry() finds the entry again by the pid it holds.
Release(k, e) ==
    LET entry == pid_to_proc(k, k.proc[e].pid)
    IN  [k EXCEPT !.proc[e] = FreePCB,
                  !.free = IF Full(@) THEN @ ELSE Append(@, entry)]

kproc_destroy(k, e) ==
    IF e = NULL
    THEN kernel_panic(k)
    ELSE IF k.proc[e].pid = 0
         THEN k
         ELSE Release(scheduler_remove(k, e), e)

BootPCB(e) == [NewPCB(e) EXCEPT !.scheduler_queue = RunQ]

\* After main() has run scheduler_init() and kproc_init(): every process that
\* kproc_init() creates is in the run queue and none is scheduled.
Init ==
    /\ proc_table = [e \in Entries |-> IF e < BOOT_PROCS THEN BootPCB(e)
                                                         ELSE FreePCB]
    /\ queue = [q \in Queues |-> IF q = RunQ
                                 THEN [i \in 1 .. BOOT_PROCS |-> i - 1]
                                 ELSE <<>>]
    /\ active_proc = NULL
    /\ proc_allocator = [i \in 1 .. (PROC_MAX - BOOT_PROCS) |-> BOOT_PROCS + i - 1]
    /\ next_pid = BOOT_PROCS
    /\ status = "boot"

-----------------------------------------------------------------------------
(***************************************************************************)
(* While main() waits for a key it polls the keyboard itself: control keys *)
(* act, but no scheduler runs after them.                                  *)
(***************************************************************************)

MayCreate == next_pid < MAX_PIDS

BootCreate ==
    /\ status = "boot"
    /\ MayCreate
    /\ Commit(kproc_create(Ctx))

BootDestroy ==
    /\ status = "boot"
    /\ Commit(kproc_destroy(Ctx, active_proc))

\* Any other key: main() enables interrupts and loops for ever.
BootKey ==
    /\ status = "boot"
    /\ Commit([Ctx EXCEPT !.status = "running"])

-----------------------------------------------------------------------------
(***************************************************************************)
(* Interrupts.  scheduler_timer is registered with an interval of 1.       *)
(***************************************************************************)

TimerInterrupt ==
    /\ status = "running"
    /\ ExitKernel(scheduler_timer(Ctx))

\* Ctrl-N
KeyCreate ==
    /\ status = "running"
    /\ MayCreate
    /\ ExitKernel(kproc_create(Ctx))

\* Ctrl-Q
KeyDestroy ==
    /\ status = "running"
    /\ ExitKernel(kproc_destroy(Ctx, active_proc))

\* Any key that touches no process still runs the scheduler.
KeyOther ==
    /\ status = "running"
    /\ ExitKernel(Ctx)

-----------------------------------------------------------------------------
(***************************************************************************)
(* System calls of the active process.  The idle task makes none.          *)
(***************************************************************************)

InUserProcess ==
    /\ status = "running"
    /\ active_proc # NULL
    /\ proc_table[active_proc].pid # 0

ProcSleep(seconds) ==
    /\ InUserProcess
    /\ ExitKernel(scheduler_sleep(Ctx, active_proc, seconds * TICKS_PER_SECOND))

ProcExit ==
    /\ InUserProcess
    /\ ExitKernel(kproc_destroy(Ctx, active_proc))

BootNext == BootCreate \/ BootDestroy \/ BootKey

InterruptNext == TimerInterrupt \/ KeyCreate \/ KeyDestroy \/ KeyOther

CallNext ==
    \/ \E seconds \in SLEEP_SECONDS : ProcSleep(seconds)
    \/ ProcExit

Next == BootNext \/ InterruptNext \/ CallNext

Spec == Init /\ [][Next]_vars

\* The timer interrupts for ever: nothing masks it once interrupts are on, and
\* TimerInterrupt is enabled in every running state, so that this is its weak
\* fairness, stated without an ENABLED for TLC to evaluate (with a slice of more
\* than one tick no tick leaves the state as it is).
TimerKeepsTicking == <>[](status = "running") => []<><<TimerInterrupt>>_vars

FairSpec == Spec /\ TimerKeepsTicking

-----------------------------------------------------------------------------
(***************************************************************************)
(* Properties.                                                             *)
(***************************************************************************)

IsLive(e) == proc_table[e].state # "NONE"

\* The state a process has while its pid is in queue q.
StateIn(q) ==
    CASE q = RunQ -> "IDLE"
      [] q = SleepQ -> "SLEEPING"
      [] OTHER -> "WAITING"

\* The variables have the types of kproc.h, and no queue exceeds its array.
TypeOK ==
    /\ proc_table \in [Entries -> PCB]
    /\ queue \in [Queues -> Seq(Nat)]
    /\ \A q \in Queues : Len(queue[q]) <= QUEUE_SIZE
    /\ active_proc \in Entries \cup {NULL}
    /\ proc_allocator \in Seq(Entries)
    /\ Len(proc_allocator) <= QUEUE_SIZE
    /\ next_pid \in Nat
    /\ status \in {"boot", "running", "panic", "undefined"}

\* kproc_create and kproc_destroy neither leak nor double-book an entry of the
\* process table: the allocator holds exactly the free entries, each once.
AllocatorExact ==
    /\ \A e \in Entries :
          IsLive(e) <=> ~ \E i \in DOMAIN proc_allocator : proc_allocator[i] = e
    /\ \A i, j \in DOMAIN proc_allocator :
          proc_allocator[i] = proc_allocator[j] => i = j
    /\ \A e \in Entries : ~IsLive(e) => proc_table[e] = FreePCB

\* A pid names one process: queues hold pids, so pid_to_proc must give back the
\* entry that was queued, also after entries have been recycled.
PidsUnique ==
    /\ \A e \in Entries : IsLive(e) => proc_table[e].pid < next_pid
    /\ \A e, f \in Entries :
          IsLive(e) /\ IsLive(f) /\ proc_table[e].pid = proc_table[f].pid => e = f
    /\ proc_table[0].pid = 0 /\ IsLive(0)

\* Whatever a queue holds is a live process that is in the state of that queue
\* and points back at it: no queue keeps the pid of a process that was
\* destroyed, was woken or runs.
QueuedAreQueued ==
    \A q \in Queues : \A i \in DOMAIN queue[q] :
        \E e \in Entries :
            /\ IsLive(e)
            /\ proc_table[e].pid = queue[q][i]
            /\ proc_table[e].scheduler_queue = q
            /\ proc_table[e].state = StateIn(q)

\* A process that is ready, asleep or waiting is in the queue it points at, so
\* it can be scheduled or woken again; only the idle task runs without a queue.
NoLostProcess ==
    \A e \in Entries :
        /\ proc_table[e].state \in {"IDLE", "SLEEPING", "WAITING"}
        /\ proc_table[e].pid # 0
        => \E i \in DOMAIN queue[proc_table[e].scheduler_queue] :
              queue[proc_table[e].scheduler_queue][i] = proc_table[e].pid

\* No queue holds a pid twice: a process is not scheduled or woken twice.
NoDoubleQueueing ==
    \A q \in Queues : \A i, j \in DOMAIN queue[q] :
        queue[q][i] = queue[q][j] => i = j

QueueDiscipline == QueuedAreQueued /\ NoLostProcess /\ NoDoubleQueueing

\* active_proc is the one process in state ACTIVE, it has used less than its
\* time slice whenever the kernel is left, and it exists unless no interrupt
\* has happened yet.
ActiveIsActive ==
    /\ \A e \in Entries : proc_table[e].state = "ACTIVE" <=> active_proc = e
    /\ active_proc # NULL => proc_table[active_proc].cpu_time < SCHEDULER_TIMESLICE

\* kernel_panic is reached by Ctrl-Q before the first process is scheduled (the
\* idle task is still at the head of the run queue) and in no other way: the
\* scheduler always finds a process, and no queue is ever full.
PanicOnlyBeforeFirstDispatch ==
    status = "panic" => /\ active_proc = NULL
                        /\ queue[RunQ] # <<>> /\ Head(queue[RunQ]) = 0

\* Round robin: a kernel entry takes at most the head off the run queue and adds
\* behind what is left, although scheduler_remove rotates the whole run queue
\* every time a process sleeps, blocks or exits.
RunQueueIsFIFO ==
    [][\E taken \in 0 .. 1 :
        LET rest == SubSeq(queue[RunQ], taken + 1, Len(queue[RunQ]))
        IN  SeqExt!IsPrefix(rest, queue'[RunQ])]_vars

\* A process is preempted only on the tick that completes its time slice, and a
\* process that gets the CPU starts a whole slice, also after it slept, was
\* destroyed and recycled, or was preempted and chosen again.
FullSlice ==
    [][/\ \A e \in Entries :
            proc_table[e].state = "ACTIVE" /\ proc_table'[e].state = "IDLE"
            => proc_table[e].cpu_time = SCHEDULER_TIMESLICE - 1
       /\ active_proc' # active_proc /\ active_proc' # NULL
            => proc_table'[active_proc'].cpu_time = 0]_vars

SleepsOn(e) == proc_table[e].state = "SLEEPING" /\ proc_table'[e].state = "SLEEPING"
SkippedByTick == {e \in Entries : SleepsOn(e) /\ proc_table'[e].sleep_time
                                                  = proc_table[e].sleep_time}
WokenByTick == {e \in Entries : proc_table[e].state = "SLEEPING" /\ ~SleepsOn(e)}

\* The tick's walk of the sleep queue may miss sleepers, because the queue gets
\* shorter under the loop: never more of them than it wakes, and the ones it
\* missed are the first that the next tick looks at.
SkippedSleepersGoFirst ==
    [][TimerInterrupt =>
        LET n == Cardinality(SkippedByTick)
        IN  /\ n <= Cardinality(WokenByTick)
            /\ {queue'[SleepQ][i] : i \in 1 .. n}
                 = {proc_table[e].pid : e \in SkippedByTick}]_vars

\* Every sleeper wakes, whatever the other processes do.
SleeperWakes ==
    \A e \in Entries :
        status = "running" /\ proc_table[e].state = "SLEEPING"
            ~> proc_table[e].state # "SLEEPING" \/ status # "running"

\* Every ready user process gets the CPU (while the machine runs).
ReadyRuns ==
    \A e \in Entries :
        status = "running" /\ proc_table[e].state = "IDLE" /\ proc_table[e].pid # 0
            ~> proc_table[e].state = "ACTIVE" \/ status # "running"
=============================================================================
