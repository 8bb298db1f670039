------------------------------- MODULE Kernel -------------------------------
(***************************************************************************)
(* The whole kernel side of the processes: interrupts, sleeping, mutexes   *)
(* and semaphores interleaved, entered through the system call handler of  *)
(* ksyscall.c, which takes the call's number from the saved EAX register   *)
(* of the caller and leaves the return value there.                        *)
(***************************************************************************)
EXTENDS KMutex, KSem

CONSTANTS
    MutexArgs,      \* ids that user processes pass to the mutex system calls
    SemArgs,        \* ids that they pass to the semaphore system calls
    MAX_COUNT,      \* bound: sem_post is called while the count is below it
    Discipline      \* what the user processes are assumed to respect, see below

ASSUME KernelAssumption ==
    /\ MutexArgs \subseteq Int
    /\ SemArgs \subseteq Int
    /\ MAX_COUNT \in Nat
    /\ Discipline \subseteq {"owner", "alive", "allocated", "nowaiters"}

VARIABLE eax    \* the saved EAX of each process, as long as it is meaningful

kvars == <<vars, mutexVars, semVars, eax>>

KernelCtx ==
    [proc |-> proc_table, queue |-> queue, active |-> active_proc,
     free |-> proc_allocator, next |-> next_pid, status |-> status,
     mutex |-> mutexes, mutexfree |-> mutex_queue,
     sem |-> semaphores, semfree |-> sem_queue, eax |-> eax]

CommitKernel(k) ==
    /\ Commit(k)
    /\ mutexes' = k.mutex /\ mutex_queue' = k.mutexfree
    /\ semaphores' = k.sem /\ sem_queue' = k.semfree
    /\ eax' = k.eax

\* syscall_common.h
SYSCALL_PROC_SLEEP    == 6
SYSCALL_PROC_EXIT     == 7
SYSCALL_MUTEX_INIT    == 10
SYSCALL_MUTEX_DESTROY == 11
SYSCALL_MUTEX_LOCK    == 12
SYSCALL_MUTEX_UNLOCK  == 13
SYSCALL_SEM_INIT      == 14
SYSCALL_SEM_DESTROY   == 15
SYSCALL_SEM_WAIT      == 16
SYSCALL_SEM_POST      == 17

\* The caller's trapframe is saved with the number of the call in EAX.
Trap(number) == [KernelCtx EXCEPT !.eax[active_proc] = number]

\* The return value is written only if a process is still active then.
Deliver(result) ==
    LET k == result.k
    IN  IF k.active = NULL THEN k ELSE [k EXCEPT !.eax[k.active] = result.rc]

SystemCall(result) ==
    \E out \in {AfterHandler(Deliver(result))} : CommitKernel(out)

-----------------------------------------------------------------------------
(***************************************************************************)
(* System calls.  Discipline names what user processes respect; the kernel *)
(* checks none of it:                                                      *)
(*   "owner"      a process unlocks only a mutex it owns and never locks   *)
(*                one again that it owns;                                  *)
(*   "alive"      a process that owns a mutex neither exits nor is killed; *)
(*   "allocated"  only an allocated mutex or semaphore is used, and none   *)
(*                is asked for when none is left;                          *)
(*   "nowaiters"  a semaphore that a process waits for is not destroyed.   *)
(***************************************************************************)

Respects(rule, condition) == rule \in Discipline => condition

Owns(e, id) == id \in Mutexes /\ mutexes[id].owner = e

OwnsNothing(e) == \A m \in Mutexes : ~Owns(e, m)

MutexAllocated(id) == id \in Mutexes /\ mutexes[id].allocated

SemAllocated(id) == id \in Semaphores /\ semaphores[id].allocated

CallSleep(seconds) ==
    /\ InUserProcess
    /\ SystemCall(Result(scheduler_sleep(Trap(SYSCALL_PROC_SLEEP), active_proc,
                                         seconds * TICKS_PER_SECOND), 0))

CallExit ==
    /\ InUserProcess
    /\ Respects("alive", OwnsNothing(active_proc))
    /\ LET k == kproc_destroy(Trap(SYSCALL_PROC_EXIT), active_proc)
       IN  SystemCall(Result([k EXCEPT !.eax[active_proc] = 0], 0))

CallMutexInit ==
    /\ InUserProcess
    /\ Respects("allocated", mutex_queue # <<>>)
    /\ \E id \in MutexIds(KernelCtx) :
          SystemCall(kmutex_init(Trap(SYSCALL_MUTEX_INIT), id))

CallMutexDestroy(id) ==
    /\ InUserProcess
    /\ Respects("allocated", MutexAllocated(id))
    /\ SystemCall(ksyscall_mutex_destroy(Trap(SYSCALL_MUTEX_DESTROY), id))

CallMutexLock(id) ==
    /\ InUserProcess
    /\ Respects("allocated", MutexAllocated(id))
    /\ Respects("owner", ~Owns(active_proc, id))
    /\ SystemCall(ksyscall_mutex_lock(Trap(SYSCALL_MUTEX_LOCK), id))

CallMutexUnlock(id) ==
    /\ InUserProcess
    /\ Respects("allocated", MutexAllocated(id))
    /\ Respects("owner", Owns(active_proc, id))
    /\ SystemCall(ksyscall_mutex_unlock(Trap(SYSCALL_MUTEX_UNLOCK), id))

CallSemInit ==
    /\ InUserProcess
    /\ Respects("allocated", sem_queue # <<>>)
    /\ \E id \in SemIds(KernelCtx) :
          SystemCall(ksem_init(Trap(SYSCALL_SEM_INIT), id))

CallSemDestroy(id) ==
    /\ InUserProcess
    /\ Respects("allocated", SemAllocated(id))
    /\ Respects("nowaiters", id \notin Semaphores \/ queue[SemQ(id)] = <<>>)
    /\ SystemCall(ksyscall_sem_destroy(Trap(SYSCALL_SEM_DESTROY), id))

CallSemWait(id) ==
    /\ InUserProcess
    /\ Respects("allocated", SemAllocated(id))
    /\ SystemCall(ksyscall_sem_wait(Trap(SYSCALL_SEM_WAIT), id))

CallSemPost(id) ==
    /\ InUserProcess
    /\ Respects("allocated", SemAllocated(id))
    /\ id \in Semaphores => semaphores[id].count < MAX_COUNT
    /\ SystemCall(ksyscall_sem_post(Trap(SYSCALL_SEM_POST), id))

-----------------------------------------------------------------------------
(***************************************************************************)
(* The system.                                                             *)
(***************************************************************************)

\* An interrupt saves whatever the interrupted process has in EAX (0 here: no
\* property reads it), and a destroyed process's trapframe is cleared.
InterruptedEax ==
    [e \in Entries |-> IF e = active_proc \/ proc_table'[e].state = "NONE"
                       THEN 0 ELSE eax[e]]

Interrupt ==
    /\ BootNext \/ InterruptNext
    /\ Respects("alive",
                active_proc # NULL /\ ~OwnsNothing(active_proc)
                  => proc_table'[active_proc].pid = proc_table[active_proc].pid)
    /\ UNCHANGED <<mutexVars, semVars>>
    /\ eax' = InterruptedEax

KernelInit ==
    /\ Init
    /\ kmutexes_init
    /\ ksemaphores_init
    /\ eax = [e \in Entries |-> 0]

KernelNext ==
    \/ Interrupt
    \/ \E seconds \in SLEEP_SECONDS : CallSleep(seconds)
    \/ CallExit
    \/ CallMutexInit
    \/ \E id \in MutexArgs :
          CallMutexDestroy(id) \/ CallMutexLock(id) \/ CallMutexUnlock(id)
    \/ CallSemInit
    \/ \E id \in SemArgs : CallSemDestroy(id) \/ CallSemWait(id) \/ CallSemPost(id)

KernelSpec == KernelInit /\ [][KernelNext]_kvars

-----------------------------------------------------------------------------
(***************************************************************************)
(* Properties.                                                             *)
(***************************************************************************)

\* The variables have their types.
KernelTypeOK ==
    /\ TypeOK
    /\ MutexTypeOK
    /\ SemTypeOK
    /\ eax \in [Entries -> Int]

Runnable(e) == proc_table[e].state \in {"IDLE", "ACTIVE"}

\* A process that comes back from sem_wait, at once or after a post, finds the
\* count in EAX and not what was there before the call: ksem_wait leaves the
\* blocked process in active_proc, so that the value is still delivered.
SemWaitReturns == \A e \in Entries : Runnable(e) => eax[e] # SYSCALL_SEM_WAIT

\* No two callers of mutex_init or of sem_init get the same id, and none is lost, for
\* callers that destroy only what is allocated: the kernel does not check it, and
\* an id that went back twice would be given out twice (kmutex.c:91, ksem.c:95).
IdsExact == MutexIdsExact /\ SemIdsExact

\* The comment of ksyscall_mutex_lock: "@return -1 on error, 0 on sucecss".  A
\* process that comes back from mutex_lock finds such a value in EAX.
MutexLockReturns == \A e \in Entries : Runnable(e) => eax[e] # SYSCALL_MUTEX_LOCK
=============================================================================
