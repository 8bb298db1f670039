------------------------------ MODULE SemValue ------------------------------
(***************************************************************************)
(* The initial value of a semaphore.  The kernel of Kernel with one        *)
(* history variable, which no action reads: what is left of the value that *)
(* sem_init was asked for, with every post added and every wait, one that  *)
(* blocks included, taken off.                                             *)
(***************************************************************************)
EXTENDS Kernel

CONSTANT InitialValues  \* numbers that user processes pass to sem_init

VARIABLE left   \* for each semaphore; of no meaning unless it is allocated

\* The semaphore that this sem_init allocates, if it allocates one.
Allocated(s) == semaphores'[s].allocated /\ ~semaphores[s].allocated

ValuedSemInit(value) ==
    /\ CallSemInit
    /\ left' = [s \in Semaphores |-> IF Allocated(s) THEN value ELSE left[s]]

ValuedSemWait(id) ==
    CallSemWait(id) /\ left' = [s \in Semaphores |-> left[s] - (IF s = id THEN 1 ELSE 0)]

ValuedSemPost(id) ==
    CallSemPost(id) /\ left' = [s \in Semaphores |-> left[s] + (IF s = id THEN 1 ELSE 0)]

OtherCall ==
    \/ Interrupt
    \/ \E seconds \in SLEEP_SECONDS : CallSleep(seconds)
    \/ CallExit
    \/ CallMutexInit
    \/ \E id \in MutexArgs :
          CallMutexDestroy(id) \/ CallMutexLock(id) \/ CallMutexUnlock(id)
    \/ \E id \in SemArgs : CallSemDestroy(id)

ValuedInit == KernelInit /\ left = [s \in Semaphores |-> 0]

ValuedNext ==
    \/ \E value \in InitialValues : ValuedSemInit(value)
    \/ \E id \in SemArgs : ValuedSemWait(id) \/ ValuedSemPost(id)
    \/ OtherCall /\ UNCHANGED left

ValuedSpec == ValuedInit /\ [][ValuedNext]_<<kvars, left>>

\* The comment of ksem_init: "@param value - initial semaphore value".  Nobody waits
\* for a semaphore whose initial value and posts are enough for all who called
\* sem_wait so far.
InitialValueLetsPass ==
    \A s \in Semaphores :
        semaphores[s].allocated /\ left[s] >= 0 => queue[SemQ(s)] = <<>>
=============================================================================
