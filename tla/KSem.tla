-------------------------------- MODULE KSem --------------------------------
(***************************************************************************)
(* Kernel semaphores (ksem.c) and their system calls (ksyscall.c) on top   *)
(* of the scheduler, as operators on the kernel context, which has two     *)
(* more fields here: sem and semfree.  Kernel makes actions of them.       *)
(***************************************************************************)
EXTENDS Scheduler

CONSTANT SEM_MAX    \* entries of the semaphore table (16)

Semaphores == 0 .. (SEM_MAX - 1)

SemQ(s) == <<"sem", s>>

ASSUME SemAssumption ==
    /\ SEM_MAX \in 0 .. QUEUE_SIZE
    /\ \A s \in Semaphores : SemQ(s) \in WaitQueues

VARIABLES
    semaphores,     \* the semaphore table
    sem_queue       \* semaphore ids to be allocated

semVars == <<semaphores, sem_queue>>

FreeSem == [allocated |-> FALSE, count |-> 0]

ksemaphores_init ==
    /\ semaphores = [s \in Semaphores |-> FreeSem]
    /\ sem_queue = [i \in 1 .. SEM_MAX |-> i - 1]

-----------------------------------------------------------------------------
(***************************************************************************)
(* ksem.c                                                                  *)
(***************************************************************************)

\* As for mutexes: with no id left, id is whatever the stack holds.
SemIds(k) == IF k.semfree = <<>> THEN -1 .. (SEM_MAX + 1) ELSE {Head(k.semfree)}

\* The initial value is not used: the count is what the table entry holds, 0.
ksem_init(k, id) ==
    LET k1 == IF k.semfree = <<>> THEN k ELSE [k EXCEPT !.semfree = Tail(@)]
    IN  IF id > SEM_MAX THEN Result(k1, -1)
        ELSE IF id \in Semaphores
             THEN Result([k1 EXCEPT !.sem[id].allocated = TRUE], id)
             ELSE Result(Undefined(k1), id)

\* memset() on the entry also empties its wait queue, whoever is in it.
ksem_destroy(k, id) ==
    IF k.sem[id].count > 0 \/ Full(k.semfree)
    THEN Result(k, -1)
    ELSE Result([k EXCEPT !.semfree = Append(@, id),
                          !.sem[id] = FreeSem,
                          !.queue[SemQ(id)] = <<>>], 0)

\* Mutant: a process that waits is taken off the CPU at once, as for mutexes.
ksem_waitRemoves(k, id) ==
    IF k.sem[id].count = 0
    THEN Result(Block(scheduler_remove(k, k.active), k.active, "WAITING", SemQ(id)), 0)
    ELSE Result([k EXCEPT !.sem[id].count = @ - 1], k.sem[id].count - 1)

\* The process stays active_proc; scheduler_run() finds that it is WAITING.
ksem_wait(k, id) ==
    IF k.sem[id].count = 0
    THEN Result(Block(k, k.active, "WAITING", SemQ(id)), 0)
    ELSE Result([k EXCEPT !.sem[id].count = @ - 1], k.sem[id].count - 1)

\* Mutants: the count is added although somebody takes it; nobody is woken; the
\* woken process stays in the wait queue; the process that came last is woken.
ksem_postKeeps(k, id) ==
    LET wait == k.queue[SemQ(id)]
        k1   == [k EXCEPT !.sem[id].count = @ + 1]
    IN  IF wait = <<>>
        THEN Result(k1, k.sem[id].count + 1)
        ELSE Result(scheduler_add([k1 EXCEPT !.queue[SemQ(id)] = Tail(@)],
                                  pid_to_proc(k, Head(wait))), k.sem[id].count + 1)

ksem_postNoWake(k, id) ==
    Result([k EXCEPT !.sem[id].count = @ + 1], k.sem[id].count + 1)

ksem_postPeek(k, id) ==
    LET wait == k.queue[SemQ(id)]
    IN  IF wait = <<>>
        THEN Result([k EXCEPT !.sem[id].count = @ + 1], k.sem[id].count + 1)
        ELSE Result(scheduler_add(k, pid_to_proc(k, Head(wait))), k.sem[id].count)

ksem_postNewest(k, id) ==
    LET wait == k.queue[SemQ(id)]
        n    == Len(wait)
    IN  IF wait = <<>>
        THEN Result([k EXCEPT !.sem[id].count = @ + 1], k.sem[id].count + 1)
        ELSE Result(scheduler_add([k EXCEPT !.queue[SemQ(id)] = SubSeq(@, 1, n - 1)],
                                  pid_to_proc(k, wait[n])), k.sem[id].count)

\* The process that has waited longest takes the count that was added.
ksem_post(k, id) ==
    LET wait == k.queue[SemQ(id)]
        p    == pid_to_proc(k, Head(wait))
        k1   == [k EXCEPT !.queue[SemQ(id)] = Tail(@)]
    IN  IF wait = <<>>
        THEN Result([k EXCEPT !.sem[id].count = @ + 1], k.sem[id].count + 1)
        ELSE Result(IF p = NULL THEN kernel_panic(k1) ELSE scheduler_add(k1, p),
                    k.sem[id].count)

-----------------------------------------------------------------------------
(***************************************************************************)
(* ksyscall.c: range checks.  Negative ids pass them.                      *)
(***************************************************************************)

Checked(k, id, result) ==
    IF id >= SEM_MAX THEN Result(k, -1)
    ELSE IF id < 0 THEN Result(Undefined(k), -1)
    ELSE result

ksyscall_sem_destroy(k, id) == Checked(k, id, ksem_destroy(k, id))
ksyscall_sem_wait(k, id) == Checked(k, id, ksem_wait(k, id))
ksyscall_sem_post(k, id) == Checked(k, id, ksem_post(k, id))

-----------------------------------------------------------------------------
(***************************************************************************)
(* Properties.                                                             *)
(***************************************************************************)

\* The variables have the types of ksem.h.
SemTypeOK ==
    /\ semaphores \in [Semaphores -> [allocated : BOOLEAN, count : Nat]]
    /\ sem_queue \in Seq(Semaphores)
    /\ Len(sem_queue) <= QUEUE_SIZE

\* No process waits for a semaphore whose count would let it pass.
NoWaitWhilePositive ==
    \A s \in Semaphores : semaphores[s].count > 0 => queue[SemQ(s)] = <<>>

\* The semaphore table and its allocator agree (as for mutexes).
SemIdsExact ==
    /\ \A s \in Semaphores :
          semaphores[s].allocated
            <=> ~ \E i \in DOMAIN sem_queue : sem_queue[i] = s
    /\ \A i, j \in DOMAIN sem_queue : sem_queue[i] = sem_queue[j] => i = j

\* The comment of ksem_destroy: "If the semaphore is locked, prevent it from
\* being destroyed".  A process that waits is in the wait queue of a semaphore,
\* so that a post can wake it.
WaitersAreQueued ==
    \A e \in Entries :
        proc_table[e].state = "WAITING" =>
            \E i \in DOMAIN queue[proc_table[e].scheduler_queue] :
                queue[proc_table[e].scheduler_queue][i] = proc_table[e].pid

\* From sem_init to sem_destroy a semaphore is a counting semaphore, for processes
\* that follow the rules: the value is the count and the waiting processes are the
\* wait queue.
Sem == INSTANCE CountingSemaphore WITH
    Procs <- 1 .. MAX_PIDS,
    Sems <- Semaphores,
    made <- {s \in Semaphores : semaphores[s].allocated},
    value <- [s \in Semaphores |-> semaphores[s].count],
    waiting <- [s \in Semaphores |-> queue[SemQ(s)]]

ImplementsCountingSemaphore == Sem!CountSpec
=============================================================================
