------------------------------- MODULE KMutex -------------------------------
(***************************************************************************)
(* Kernel mutexes (kmutex.c) and their system calls (ksyscall.c) on top of *)
(* the scheduler, as operators on the kernel context, which has two more   *)
(* fields here: mutex and mutexfree.  Kernel makes actions of them.        *)
(***************************************************************************)
EXTENDS Scheduler

CONSTANT MUTEX_MAX  \* entries of the mutex table (16)

Mutexes == 0 .. (MUTEX_MAX - 1)

MutexQ(m) == <<"mutex", m>>

ASSUME MutexAssumption ==
    /\ MUTEX_MAX \in 0 .. QUEUE_SIZE
    /\ \A m \in Mutexes : MutexQ(m) \in WaitQueues

VARIABLES
    mutexes,        \* the mutex table
    mutex_queue     \* mutex ids to be allocated

mutexVars == <<mutexes, mutex_queue>>

FreeMutex == [allocated |-> FALSE, locks |-> 0, owner |-> NULL]

kmutexes_init ==
    /\ mutexes = [m \in Mutexes |-> FreeMutex]
    /\ mutex_queue = [i \in 1 .. MUTEX_MAX |-> i - 1]

-----------------------------------------------------------------------------
(***************************************************************************)
(* kmutex.c                                                                *)
(***************************************************************************)

\* queue_out() fails when no id is left, which nothing looks at: id is then
\* whatever the stack holds.  Only an id above MUTEX_MAX is refused.
MutexIds(k) == IF k.mutexfree = <<>> THEN -1 .. (MUTEX_MAX + 1)
                                     ELSE {Head(k.mutexfree)}

kmutex_init(k, id) ==
    LET k1 == IF k.mutexfree = <<>> THEN k ELSE [k EXCEPT !.mutexfree = Tail(@)]
    IN  IF id > MUTEX_MAX THEN Result(k1, -1)
        ELSE IF id \in Mutexes
             THEN Result([k1 EXCEPT !.mutex[id].allocated = TRUE], id)
             ELSE Result(Undefined(k1), id)

\* Mutant: the entry is given back without being cleared.
kmutex_destroyUncleared(k, id) ==
    IF k.mutex[id].locks > 0 \/ Full(k.mutexfree)
    THEN Result(k, -1)
    ELSE Result([k EXCEPT !.mutexfree = Append(@, id)], 0)

\* memset() on the entry also empties its wait queue.
kmutex_destroy(k, id) ==
    IF k.mutex[id].locks > 0 \/ Full(k.mutexfree)
    THEN Result(k, -1)
    ELSE Result([k EXCEPT !.mutexfree = Append(@, id),
                          !.mutex[id] = FreeMutex,
                          !.queue[MutexQ(id)] = <<>>], 0)

\* Mutant: a process that has to wait does not count.
kmutex_lockUncounted(k, id) ==
    LET p == k.active
    IN  IF k.mutex[id].locks > 0
        THEN Result(Block(scheduler_remove(k, p), p, "WAITING", MutexQ(id)), 1)
        ELSE Result([k EXCEPT !.mutex[id].owner = p, !.mutex[id].locks = 1], 1)

kmutex_lock(k, id) ==
    LET p  == k.active
        m  == k.mutex[id]
        k1 == IF m.locks > 0
              THEN Block(scheduler_remove(k, p), p, "WAITING", MutexQ(id))
              ELSE [k EXCEPT !.mutex[id].owner = p]
    IN  Result([k1 EXCEPT !.mutex[id].locks = @ + 1], m.locks + 1)

\* Mutants: the new owner is its pid, stays in the wait queue, or is the one that
\* came last.
HandOverPid(k, id) ==
    LET wait == k.queue[MutexQ(id)]
        p    == pid_to_proc(k, Head(wait))
        k1   == [k EXCEPT !.queue[MutexQ(id)] = Tail(@)]
    IN  IF wait = <<>> THEN Undefined(k)
        ELSE [scheduler_add(scheduler_remove(k1, p), p)
                 EXCEPT !.mutex[id].owner = Head(wait)]

HandOverPeek(k, id) ==
    LET wait == k.queue[MutexQ(id)]
        p    == pid_to_proc(k, Head(wait))
    IN  IF wait = <<>> THEN Undefined(k)
        ELSE [scheduler_add(k, p) EXCEPT !.mutex[id].owner = p]

HandOverNewest(k, id) ==
    LET wait == k.queue[MutexQ(id)]
        p    == pid_to_proc(k, wait[Len(wait)])
    IN  IF wait = <<>> THEN Undefined(k)
        ELSE [scheduler_add(scheduler_remove(k, p), p) EXCEPT !.mutex[id].owner = p]

\* The process that has waited longest becomes ready and owns the mutex.  With
\* an empty wait queue the pid to look up would be uninitialized.
HandOver(k, id) ==
    LET wait == k.queue[MutexQ(id)]
        p    == pid_to_proc(k, Head(wait))
        k1   == [k EXCEPT !.queue[MutexQ(id)] = Tail(@)]
    IN  IF wait = <<>> THEN Undefined(k)
        ELSE IF p = NULL THEN k1
             ELSE [scheduler_add(scheduler_remove(k1, p), p)
                      EXCEPT !.mutex[id].owner = p]

kmutex_unlock(k, id) ==
    LET locks == k.mutex[id].locks
        k1 == [k EXCEPT !.mutex[id].locks = @ - 1]
    IN  IF locks = 0 THEN Result(k, 0)
        ELSE IF locks = 1
             THEN Result([k1 EXCEPT !.mutex[id].owner = NULL], 0)
             ELSE Result(HandOver(k1, id), locks - 1)

-----------------------------------------------------------------------------
(***************************************************************************)
(* ksyscall.c: range checks and return values.  Negative ids pass the      *)
(* checks, and so does MUTEX_MAX in ksyscall_mutex_unlock.                 *)
(***************************************************************************)

ksyscall_mutex_destroy(k, id) ==
    IF id >= MUTEX_MAX THEN Result(k, -1)
    ELSE IF id < 0 THEN Result(Undefined(k), -1)
    ELSE kmutex_destroy(k, id)

ksyscall_mutex_lock(k, id) ==
    IF id >= MUTEX_MAX THEN Result(k, -1)
    ELSE IF id < 0 THEN Result(Undefined(k), -1)
    ELSE Result(kmutex_lock(k, id).k, 0)

ksyscall_mutex_unlock(k, id) ==
    IF id > MUTEX_MAX THEN Result(k, -1)
    ELSE IF id \notin Mutexes THEN Result(Undefined(k), -1)
    ELSE Result(kmutex_unlock(k, id).k, 0)

-----------------------------------------------------------------------------
(***************************************************************************)
(* Properties.                                                             *)
(***************************************************************************)

\* The variables have the types of kmutex.h.
MutexTypeOK ==
    /\ mutexes \in [Mutexes -> [allocated : BOOLEAN, locks : Nat,
                                owner : Entries \cup {NULL}]]
    /\ mutex_queue \in Seq(Mutexes)
    /\ Len(mutex_queue) <= QUEUE_SIZE

\* The lock count is the owner and the waiters: an unlocked mutex has neither,
\* a locked one has an owner and locks - 1 processes in its wait queue.  It is
\* why kmutex_unlock always finds somebody to hand the mutex to, and it holds
\* whatever the user processes do with mutex ids, as long as they do not reach
\* outside the table (status "undefined").
LockCount ==
    status # "undefined" =>
        \A m \in Mutexes :
            \/ /\ mutexes[m].locks = 0
               /\ mutexes[m].owner = NULL
               /\ queue[MutexQ(m)] = <<>>
            \/ /\ mutexes[m].locks = 1 + Len(queue[MutexQ(m)])
               /\ mutexes[m].owner # NULL

\* The mutex table and its allocator agree: an id is either allocated or once
\* in the queue of ids, so no two callers of mutex_init share a mutex (kmutex.c:91).
MutexIdsExact ==
    /\ \A m \in Mutexes :
          mutexes[m].allocated
            <=> ~ \E i \in DOMAIN mutex_queue : mutex_queue[i] = m
    /\ \A i, j \in DOMAIN mutex_queue : mutex_queue[i] = mutex_queue[j] => i = j

\* The comment in kmutex.h on owner: "The process that currently holds the
\* mutex".
OwnerIsLive ==
    \A m \in Mutexes : mutexes[m].owner # NULL => IsLive(mutexes[m].owner)

\* The mutexes implement FIFO locks for processes that follow the rules: the
\* abstract holder is the pid of the owner, the waiting processes are the wait
\* queue, and scheduling, sleeping and the other processes are stuttering.
HolderPid(m) ==
    IF mutexes[m].owner = NULL THEN NULL ELSE proc_table[mutexes[m].owner].pid

Lock == INSTANCE FifoLock WITH
    Procs <- 1 .. MAX_PIDS,
    Locks <- Mutexes,
    Nobody <- NULL,
    holder <- [m \in Mutexes |-> HolderPid(m)],
    waiters <- [m \in Mutexes |-> queue[MutexQ(m)]]

ImplementsFifoLock == Lock!LockSpec
=============================================================================
