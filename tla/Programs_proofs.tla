--------------------------- MODULE Programs_proofs ---------------------------
(***************************************************************************)
(* Theorems about Programs: what the shells, ping and pong promise one     *)
(* another on top of the kernel.  The kernel's invariant KInv gives the    *)
(* mutexes, the semaphores and the queues; the programs' own invariant     *)
(* says who is between two calls where, and with which ids.                *)
(***************************************************************************)
EXTENDS Programs, Kernel_proofs

\* The programs destroy no semaphore, so no process is lost.
LEMMA NobodyLost ==
    /\ Lost = {} /\ ~("alive" \in Discipline) /\ ~("allocated" \in Discipline)
    /\ ~("owner" \in Discipline)
  BY ProgramsAssumption DEF Lost

-----------------------------------------------------------------------------
(***************************************************************************)
(* What each system call changes that the programs can see.                *)
(***************************************************************************)

QueuesStay == \A q \in WaitQueues : queue'[q] = queue[q]

\* The system runs on; the processes of E are still there; nobody's EAX but the
\* caller's is written.
GoesOn(E) ==
    /\ KInv' /\ status' = "running"
    /\ \A e \in E : IsLive(e) => IsLive(e)' /\ proc_table'[e].pid = proc_table[e].pid
    /\ \A e \in Entries \ {active_proc} : eax'[e] = eax[e]

OwnersStay(M) == \A m \in M : mutexes'[m].owner = mutexes[m].owner

CountsStay(S) == \A s \in S : semaphores'[s].count = semaphores[s].count

MutexesStay == mutex_queue' = mutex_queue /\ OwnersStay(Mutexes)

SemsStay == sem_queue' = sem_queue /\ CountsStay(Semaphores)

\* The scheduled process is a live user process and in no queue.
LEMMA InUserFacts ==
    ASSUME KInv, InUserProcess
    PROVE  /\ active_proc \in Entries \ {0} /\ active_proc \in Entries
           /\ IsLive(active_proc) /\ status = "running"
           /\ proc_table[active_proc].pid \in Nat
           /\ \A q \in WaitQueues : \A i \in 1 .. Len(queue[q]) :
                  queue[q][i] # proc_table[active_proc].pid
  <1>1. PICK k : k = Trap(6)
    OBVIOUS
  <1>2. 6 \in Int
    OBVIOUS
  <1>3. Calling(k, active_proc) /\ SameScheduler(KernelCtx, k)
    BY <1>1, <1>2, TrapCalling
  <1>4. /\ active_proc \in Entries \ {0} /\ Live(k, active_proc) /\ NotQueued(k, active_proc)
        /\ k.proc[active_proc].pid \in Nat
    BY <1>3, CallerFacts
  <1>5. k.proc = proc_table /\ k.queue = queue
    BY <1>3, KernelCtxFields DEF SameScheduler
  <1>6. \A q \in WaitQueues : q \in Queues
    BY DEF Queues
  <1>7. IsLive(active_proc)
    BY <1>4, <1>5 DEF Live, IsLive
  <1>8. ASSUME NEW q \in WaitQueues, NEW i \in 1 .. Len(queue[q])
        PROVE  queue[q][i] # proc_table[active_proc].pid
    BY <1>4, <1>5, <1>6, <1>8 DEF NotQueued, InQueue
  <1> QED
    BY <1>4, <1>5, <1>7, <1>8 DEF InUserProcess

LEMMA CallGoesOn ==
    ASSUME KInv, NEW number, NEW k, NEW l, NEW rc, Called(number, k, l, rc),
           l.status = "running", l.active \in {NULL, active_proc},
           l.eax = k.eax \/ l.eax = [k.eax EXCEPT ![active_proc] = 0],
           NEW E \in SUBSET Entries,
           \A e \in E : Live(k, e) => Live(l, e) /\ l.proc[e].pid = k.proc[e].pid
    PROVE  GoesOn(E)
  <1>1. /\ k.eax = [eax EXCEPT ![active_proc] = number] /\ eax \in [Entries -> Int]
        /\ k.proc = proc_table
    BY KInvReads, KernelCtxFields DEF Called, Tabled, SameScheduler
  <1>2. eax' = IF l.active = NULL THEN l.eax ELSE [l.eax EXCEPT ![l.active] = rc]
    BY DEF Called, Delivered
  <1>3. active_proc \in Entries
    BY DEF Called, Calling
  <1>4. \A e \in Entries \ {active_proc} : eax'[e] = eax[e]
    <2>1. /\ k.eax \in [Entries -> {eax[e] : e \in Entries} \cup {number}]
          /\ \A e \in Entries \ {active_proc} : k.eax[e] = eax[e]
      BY <1>1
    <2>2. /\ DOMAIN l.eax = Entries
          /\ \A e \in Entries \ {active_proc} : l.eax[e] = eax[e]
      BY <2>1
    <2> QED
      BY <1>2, <1>3, <2>2
  <1>5. KInv' /\ status' = "running"
    BY DEF Called, Committed
  <1>6. ASSUME NEW e \in E, IsLive(e)
        PROVE  IsLive(e)' /\ proc_table'[e].pid = proc_table[e].pid
    <2>1. Live(k, e)
      BY <1>1, <1>6 DEF Live, IsLive
    <2> QED
      BY <1>1, <1>6, <2>1 DEF Called, Committed
  <1> QED
    BY <1>4, <1>5, <1>6 DEF GoesOn

\* What Called says of the variables before and after.
LEMMA CallReads ==
    ASSUME NEW number, NEW k, NEW l, NEW rc, Called(number, k, l, rc)
    PROVE  /\ Calling(k, active_proc) /\ k.active = active_proc /\ k.status = "running"
           /\ k.proc = proc_table /\ k.queue = queue /\ k.mutex = mutexes
           /\ k.mutexfree = mutex_queue /\ k.sem = semaphores /\ k.semfree = sem_queue
           /\ mutexes' = l.mutex /\ mutex_queue' = l.mutexfree
           /\ semaphores' = l.sem /\ sem_queue' = l.semfree
           /\ \A q \in WaitQueues : queue'[q] = l.queue[q]
  BY KernelCtxFields DEF Called, Calling, Committed, SameScheduler, Tabled

LEMMA SleepStep ==
    ASSUME KInv, NEW seconds \in SLEEP_SECONDS, CallSleep(seconds)
    PROVE  GoesOn(Entries) /\ QueuesStay /\ MutexesStay /\ SemsStay
  <1>1. PICK k, l : /\ Called(6, k, l, 0) /\ Frame(k, l, {}) /\ SameTables(k, l)
                    /\ l.status = "running" /\ l.active = NULL
    BY SleepAction
  <1>2. /\ Called(6, k, l, 0)
        /\ l.status = "running" /\ l.active \in {NULL, active_proc}
        /\ l.eax = k.eax \/ l.eax = [k.eax EXCEPT ![active_proc] = 0]
        /\ Entries \in SUBSET Entries
        /\ \A e \in Entries : Live(k, e) => Live(l, e) /\ l.proc[e].pid = k.proc[e].pid
    BY <1>1 DEF SameTables, Frame
  <1>4. GoesOn(Entries)
    BY <1>2, CallGoesOn
  <1>5. QueuesStay /\ MutexesStay /\ SemsStay
    BY <1>1, CallReads DEF Frame, SameTables, QueuesStay, MutexesStay, SemsStay,
                           OwnersStay, CountsStay
  <1> QED
    BY <1>4, <1>5

LEMMA ExitStep ==
    ASSUME KInv, CallExit
    PROVE  GoesOn(Entries \ {active_proc}) /\ QueuesStay /\ MutexesStay /\ SemsStay
  <1>1. PICK k, l : Called(7, k, l, 0) /\ OnlyGone(k, l, active_proc)
    BY ExitAction
  <1>2. /\ l.status = "running" /\ l.active \in {NULL, active_proc}
        /\ l.eax = [k.eax EXCEPT ![active_proc] = 0]
        /\ Entries \ {active_proc} \in SUBSET Entries
        /\ \A e \in Entries \ {active_proc} :
               Live(k, e) => Live(l, e) /\ l.proc[e].pid = k.proc[e].pid
    BY <1>1, CallReads DEF OnlyGone
  <1>4. GoesOn(Entries \ {active_proc})
    BY <1>1, <1>2, CallGoesOn
  <1>5. QueuesStay /\ MutexesStay /\ SemsStay
    BY <1>1, CallReads DEF OnlyGone, QueuesStay, MutexesStay, SemsStay,
                           OwnersStay, CountsStay
  <1> QED
    BY <1>4, <1>5

\* A handler that came back without taking a process away.
LEMMA BackGoesOn ==
    ASSUME KInv, NEW number, NEW k, NEW l, NEW rc, Called(number, k, l, rc), Back(k, l),
           l.eax = k.eax
    PROVE  GoesOn(Entries)
  <1>1. l.status = "running" /\ l.active \in {NULL, active_proc}
    BY CallReads DEF Back
  <1>2. /\ Entries \in SUBSET Entries
        /\ \A e \in Entries : Live(k, e) => Live(l, e) /\ l.proc[e].pid = k.proc[e].pid
    BY DEF Back
  <1> QED
    BY <1>1, <1>2, CallGoesOn

OthersStay(q) == \A r \in WaitQueues \ {q} : queue'[r] = queue[r]

\* The caller owns the mutex now, or waits for it.
LEMMA LockStep ==
    ASSUME KInv, NEW id \in Mutexes, CallMutexLock(id)
    PROVE  /\ GoesOn(Entries) /\ mutex_queue' = mutex_queue /\ SemsStay
           /\ OwnersStay(Mutexes \ {id})
           /\ \/ mutexes[id].owner = NULL /\ mutexes'[id].owner = active_proc /\ QueuesStay
              \/ /\ mutexes'[id].owner = mutexes[id].owner /\ OthersStay(MutexQ(id))
                 /\ queue'[MutexQ(id)] = Append(queue[MutexQ(id)], proc_table[active_proc].pid)
  <1>1. id \in Int
    BY MutexAssumption, SizeAssumption DEF Mutexes
  <1>2. PICK k, l, rc : Called(12, k, l, rc) /\ l = kmutex_lock(k, id).k
    BY <1>1, LockAction
  <1>3. Locked(k, l, active_proc, id)
    BY <1>2, LockResult DEF Called
  <1>4. GoesOn(Entries)
    BY <1>2, <1>3, BackGoesOn DEF Locked
  <1>5. k.mutex \in [Mutexes -> MutexEntry] /\ MutexQ(id) \in WaitQueues
    BY <1>2, WaitNames DEF Called, Calling, KernelOK, Tables
  <1>6. /\ mutex_queue' = mutex_queue /\ SemsStay
        /\ OwnersStay(Mutexes \ {id}) /\ OthersStay(MutexQ(id))
    BY <1>2, <1>3, <1>5, CallReads DEF Locked, SemsStay, CountsStay, OwnersStay, OthersStay
  <1>7. CASE k.mutex[id].locks = 0
    <2>1. k.mutex[id].owner = NULL
      BY <1>2, <1>7 DEF Called, Calling, KernelOK, LocksOK, Counted
    <2>2. mutexes'[id].owner = active_proc
      BY <1>2, <1>3, <1>5, <1>7, CallReads DEF Locked
    <2>3. QueuesStay
      BY <1>2, <1>3, <1>5, <1>7, CallReads DEF Locked, QueuesStay
    <2> QED
      BY <1>2, <1>4, <1>6, <2>1, <2>2, <2>3, CallReads
  <1>8. CASE k.mutex[id].locks # 0
    <2>1. mutexes'[id].owner = mutexes[id].owner
      BY <1>2, <1>3, <1>5, <1>8, CallReads DEF Locked
    <2>2. l.queue[MutexQ(id)] = Append(k.queue[MutexQ(id)], k.proc[active_proc].pid)
      BY <1>3, <1>8 DEF Locked
    <2>3. queue'[MutexQ(id)] = Append(queue[MutexQ(id)], proc_table[active_proc].pid)
      <3>1. k.queue = queue /\ k.proc = proc_table /\ queue'[MutexQ(id)] = l.queue[MutexQ(id)]
        BY <1>2, <1>5, CallReads
      <3> QED
        BY <2>2, <3>1
    <2> QED
      BY <1>4, <1>6, <2>1, <2>3
  <1> QED
    BY <1>7, <1>8

\* Whoever unlocks.
LEMMA UnlockGoesOn ==
    ASSUME KInv, NEW id \in Mutexes, CallMutexUnlock(id)
    PROVE  GoesOn(Entries) /\ mutex_queue' = mutex_queue /\ SemsStay
  <1>1. id \in Int
    BY MutexAssumption, SizeAssumption DEF Mutexes
  <1>2. PICK k, l, rc : Called(13, k, l, rc) /\ l = kmutex_unlock(k, id).k
    BY <1>1, UnlockAction
  <1>3. Unlocked(k, l, id)
    BY <1>2, UnlockResult DEF Called
  <1>4. GoesOn(Entries)
    BY <1>2, <1>3, BackGoesOn DEF Unlocked
  <1>5. mutex_queue' = mutex_queue /\ SemsStay
    BY <1>2, <1>3, CallReads DEF Unlocked, SemsStay, CountsStay
  <1> QED
    BY <1>4, <1>5

\* The owner gives the mutex back, or to the process that has waited longest.
LEMMA UnlockStep ==
    ASSUME KInv, NEW id \in Mutexes, Owns(active_proc, id), CallMutexUnlock(id)
    PROVE  /\ GoesOn(Entries) /\ mutex_queue' = mutex_queue /\ SemsStay
           /\ OwnersStay(Mutexes \ {id})
           /\ \/ mutexes'[id].owner = NULL /\ queue[MutexQ(id)] = <<>> /\ QueuesStay
              \/ \E f \in Entries :
                    /\ IsLive(f) /\ queue[MutexQ(id)] # <<>>
                    /\ proc_table[f].pid = Head(queue[MutexQ(id)])
                    /\ mutexes'[id].owner = f /\ OthersStay(MutexQ(id))
                    /\ queue'[MutexQ(id)] = Tail(queue[MutexQ(id)])
  <1>1. id \in Int
    BY MutexAssumption, SizeAssumption DEF Mutexes
  <1>2. PICK k, l, rc : Called(13, k, l, rc) /\ l = kmutex_unlock(k, id).k
    BY <1>1, UnlockAction
  <1>3. Unlocked(k, l, id)
    BY <1>2, UnlockResult DEF Called
  <1>4. GoesOn(Entries)
    BY <1>2, <1>3, BackGoesOn DEF Unlocked
  <1>5. /\ k.mutex \in [Mutexes -> MutexEntry] /\ MutexQ(id) \in WaitQueues
        /\ k.mutex[id].owner # NULL
    <2>1. k.mutex \in [Mutexes -> MutexEntry] /\ k.mutex = mutexes
      BY <1>2, CallReads DEF Called, Calling, KernelOK, Tables
    <2>2. active_proc \in Entries
      BY <1>2 DEF Called, Calling
    <2> QED
      BY <2>1, <2>2, WaitNames, EntryNumbers DEF Owns
  <1>6. k.mutex[id].locks # 0
    BY <1>2, <1>5 DEF Called, Calling, KernelOK, LocksOK, Counted
  <1>7. /\ mutex_queue' = mutex_queue /\ SemsStay
        /\ OwnersStay(Mutexes \ {id}) /\ OthersStay(MutexQ(id))
    <2>1. mutex_queue' = mutex_queue /\ SemsStay /\ OthersStay(MutexQ(id))
      BY <1>2, <1>3, CallReads DEF Unlocked, SemsStay, CountsStay, OthersStay
    <2>2. \E r : l.mutex = [k.mutex EXCEPT ![id] = r]
      BY <1>3, <1>6 DEF Unlocked
    <2>3. OwnersStay(Mutexes \ {id})
      BY <1>2, <1>5, <2>2, CallReads DEF OwnersStay
    <2> QED
      BY <2>1, <2>3
  <1>8. CASE /\ k.mutex[id].locks = 1 /\ k.queue[MutexQ(id)] = <<>>
             /\ l.queue[MutexQ(id)] = <<>>
             /\ l.mutex = [k.mutex EXCEPT ![id] =
                    [allocated |-> k.mutex[id].allocated, locks |-> 0, owner |-> NULL]]
    <2>1. mutexes'[id].owner = NULL /\ queue[MutexQ(id)] = <<>>
      BY <1>2, <1>5, <1>8, CallReads
    <2>2. QueuesStay
      BY <1>2, <1>5, <1>7, <1>8, CallReads DEF QueuesStay, OthersStay
    <2> QED
      BY <1>4, <1>7, <2>1, <2>2
  <1>9. ASSUME NEW f \in Entries \ {0},
               k.queue[MutexQ(id)] # <<>>, l.queue[MutexQ(id)] = Tail(k.queue[MutexQ(id)]),
               k.proc[f].pid = Head(k.queue[MutexQ(id)]), Live(k, f),
               l.mutex = [k.mutex EXCEPT ![id] =
                   [allocated |-> k.mutex[id].allocated, locks |-> k.mutex[id].locks - 1,
                    owner |-> f]]
        PROVE  /\ IsLive(f) /\ queue[MutexQ(id)] # <<>>
               /\ proc_table[f].pid = Head(queue[MutexQ(id)])
               /\ mutexes'[id].owner = f
               /\ queue'[MutexQ(id)] = Tail(queue[MutexQ(id)])
    BY <1>2, <1>5, <1>9, CallReads DEF Live, IsLive
  <1> QED
    BY <1>3, <1>4, <1>6, <1>7, <1>8, <1>9 DEF Unlocked

\* The first id that is left becomes the caller's.
LEMMA MutexInitStep ==
    ASSUME KInv, mutex_queue # <<>>, CallMutexInit
    PROVE  /\ GoesOn(Entries) /\ QueuesStay /\ SemsStay /\ OwnersStay(Mutexes)
           /\ mutex_queue' = Tail(mutex_queue) /\ eax'[active_proc] = Head(mutex_queue)
  <1>1. PICK k, l, rc, id : /\ Called(10, k, l, rc) /\ id \in MutexIds(k)
                            /\ l = kmutex_init(k, id).k
                            /\ id \in Mutexes => rc = id
    BY MutexInitAction
  <1>2. /\ Calling(k, active_proc) /\ k.mutexfree = mutex_queue /\ k.queue = queue
        /\ k.mutex = mutexes /\ k.sem = semaphores /\ k.semfree = sem_queue
        /\ k.active = active_proc
    BY <1>1, CallReads
  <1>3. /\ MutexWritten(k, l, id, [k.mutex[id] EXCEPT !.allocated = TRUE], Tail(mutex_queue))
        /\ id = Head(mutex_queue)
    BY <1>1, <1>2, MutexInitResult
  <1>4. /\ SameScheduler(k, l) /\ id \in Mutexes /\ rc = id /\ KernelFields \subseteq DOMAIN l
        /\ l.mutex = [k.mutex EXCEPT ![id] = [k.mutex[id] EXCEPT !.allocated = TRUE]]
        /\ l.mutexfree = Tail(mutex_queue) /\ l.sem = k.sem /\ l.semfree = k.semfree
        /\ l.eax = k.eax
    BY <1>1, <1>3 DEF MutexWritten, Tabled
  <1>5. Back(k, l)
    BY <1>2, <1>4, CallerFacts, BackTwin
  <1>6. GoesOn(Entries)
    BY <1>1, <1>4, <1>5, BackGoesOn
  <1>7. QueuesStay /\ SemsStay
    BY <1>1, <1>2, <1>4, CallReads DEF QueuesStay, SemsStay, CountsStay, SameScheduler
  <1>8. k.mutex \in [Mutexes -> MutexEntry]
    BY <1>2 DEF Calling, KernelOK, Tables
  <1>9. OwnersStay(Mutexes)
    <2> SUFFICES ASSUME NEW m \in Mutexes PROVE l.mutex[m].owner = k.mutex[m].owner
      BY <1>1, <1>2, CallReads DEF OwnersStay
    <2> QED
      BY <1>4, <1>8 DEF MutexEntry
  <1>10. mutex_queue' = Tail(mutex_queue)
    BY <1>1, <1>4, CallReads
  <1>11. eax'[active_proc] = id
    <2>1. eax' = IF l.active = NULL THEN l.eax ELSE [l.eax EXCEPT ![l.active] = id]
      BY <1>1, <1>4 DEF Called, Delivered
    <2>2. l.active = active_proc /\ active_proc \in Entries /\ active_proc # NULL
      BY <1>2, <1>4, EntryNumbers DEF SameScheduler, Calling
    <2>3. l.eax \in [Entries -> Int]
      BY <1>2, <1>4 DEF Calling, KernelOK, Tables
    <2> QED
      BY <2>1, <2>2, <2>3
  <1> QED
    BY <1>3, <1>6, <1>7, <1>9, <1>10, <1>11

LEMMA SemInitStep ==
    ASSUME KInv, sem_queue # <<>>, CallSemInit
    PROVE  /\ GoesOn(Entries) /\ QueuesStay /\ MutexesStay /\ CountsStay(Semaphores)
           /\ sem_queue' = Tail(sem_queue) /\ eax'[active_proc] = Head(sem_queue)
  <1>1. PICK k, l, rc, id : /\ Called(14, k, l, rc) /\ id \in SemIds(k)
                            /\ l = ksem_init(k, id).k
                            /\ id \in Semaphores => rc = id
    BY SemInitAction
  <1>2. /\ Calling(k, active_proc) /\ k.mutexfree = mutex_queue /\ k.queue = queue
        /\ k.mutex = mutexes /\ k.sem = semaphores /\ k.semfree = sem_queue
        /\ k.active = active_proc
    BY <1>1, CallReads
  <1>3. /\ SemWritten(k, l, id, [k.sem[id] EXCEPT !.allocated = TRUE], Tail(sem_queue))
        /\ id = Head(sem_queue)
    BY <1>1, <1>2, SemInitResult
  <1>4. /\ SameScheduler(k, l) /\ id \in Semaphores /\ rc = id /\ KernelFields \subseteq DOMAIN l
        /\ l.sem = [k.sem EXCEPT ![id] = [k.sem[id] EXCEPT !.allocated = TRUE]]
        /\ l.semfree = Tail(sem_queue) /\ l.mutex = k.mutex /\ l.mutexfree = k.mutexfree
        /\ l.eax = k.eax
    BY <1>1, <1>3 DEF SemWritten, Tabled
  <1>5. Back(k, l)
    BY <1>2, <1>4, CallerFacts, BackTwin
  <1>6. GoesOn(Entries)
    BY <1>1, <1>4, <1>5, BackGoesOn
  <1>7. QueuesStay /\ MutexesStay
    BY <1>1, <1>2, <1>4, CallReads DEF QueuesStay, MutexesStay, OwnersStay, SameScheduler
  <1>8. k.sem \in [Semaphores -> SemEntry]
    BY <1>2 DEF Calling, KernelOK, Tables
  <1>9. CountsStay(Semaphores)
    <2> SUFFICES ASSUME NEW m \in Semaphores PROVE l.sem[m].count = k.sem[m].count
      BY <1>1, <1>2, CallReads DEF CountsStay
    <2> QED
      BY <1>4, <1>8 DEF SemEntry
  <1>10. sem_queue' = Tail(sem_queue)
    BY <1>1, <1>4, CallReads
  <1>11. eax'[active_proc] = id
    <2>1. eax' = IF l.active = NULL THEN l.eax ELSE [l.eax EXCEPT ![l.active] = id]
      BY <1>1, <1>4 DEF Called, Delivered
    <2>2. l.active = active_proc /\ active_proc \in Entries /\ active_proc # NULL
      BY <1>2, <1>4, EntryNumbers DEF SameScheduler, Calling
    <2>3. l.eax \in [Entries -> Int]
      BY <1>2, <1>4 DEF Calling, KernelOK, Tables
    <2> QED
      BY <2>1, <2>2, <2>3
  <1> QED
    BY <1>3, <1>6, <1>7, <1>9, <1>10, <1>11

\* The caller takes one from the count, or waits.
LEMMA SemWaitStep ==
    ASSUME KInv, NEW id \in Semaphores, CallSemWait(id)
    PROVE  /\ GoesOn(Entries) /\ sem_queue' = sem_queue /\ MutexesStay
           /\ CountsStay(Semaphores \ {id})
           /\ \/ /\ semaphores[id].count > 0 /\ QueuesStay
                 /\ semaphores'[id].count = semaphores[id].count - 1
              \/ /\ semaphores'[id].count = semaphores[id].count /\ OthersStay(SemQ(id))
                 /\ queue'[SemQ(id)] = Append(queue[SemQ(id)], proc_table[active_proc].pid)
  <1>1. id \in Int
    BY SemAssumption, SizeAssumption DEF Semaphores
  <1>2. PICK k, l, rc : Called(16, k, l, rc) /\ l = ksem_wait(k, id).k
    BY <1>1, SemWaitAction
  <1>3. /\ Calling(k, active_proc) /\ k.mutexfree = mutex_queue /\ k.queue = queue
        /\ k.mutex = mutexes /\ k.sem = semaphores /\ k.semfree = sem_queue
        /\ k.proc = proc_table /\ SemQ(id) \in WaitQueues
        /\ k.sem \in [Semaphores -> SemEntry]
    BY <1>2, CallReads, WaitNames DEF Calling, KernelOK, Tables
  <1>4. SemTaken(k, l, active_proc, id)
    BY <1>2, <1>3, SemWaitResult
  <1>5. CASE /\ k.sem[id].count > 0
             /\ SemWritten(k, l, id, [k.sem[id] EXCEPT !.count = @ - 1], k.semfree)
    <2>1. /\ SameScheduler(k, l) /\ KernelFields \subseteq DOMAIN l
          /\ l.sem = [k.sem EXCEPT ![id] = [k.sem[id] EXCEPT !.count = @ - 1]]
          /\ l.semfree = k.semfree /\ l.mutex = k.mutex /\ l.mutexfree = k.mutexfree
          /\ l.eax = k.eax
      BY <1>5 DEF SemWritten, Tabled
    <2>2. Back(k, l)
      BY <1>3, <2>1, CallerFacts, BackTwin
    <2>3. GoesOn(Entries)
      BY <1>2, <2>1, <2>2, BackGoesOn
    <2>4. QueuesStay /\ MutexesStay /\ sem_queue' = sem_queue
      BY <1>2, <1>3, <2>1, CallReads DEF QueuesStay, MutexesStay, OwnersStay, SameScheduler
    <2>5. k.sem[id] \in SemEntry /\ semaphores' = l.sem
      BY <1>2, <1>3, CallReads
    <2>6. semaphores'[id].count = semaphores[id].count - 1 /\ CountsStay(Semaphores \ {id})
      BY <1>3, <2>1, <2>5 DEF SemEntry, CountsStay
    <2> QED
      BY <1>3, <1>5, <2>3, <2>4, <2>6
  <1>6. CASE /\ k.sem[id].count = 0 /\ Back(k, l) /\ SameTables(k, l) /\ l.active = k.active
             /\ l.queue[SemQ(id)] = Append(k.queue[SemQ(id)], k.proc[active_proc].pid)
             /\ \A q \in WaitQueues \ {SemQ(id)} : l.queue[q] = k.queue[q]
    <2>1. GoesOn(Entries)
      BY <1>2, <1>6, BackGoesOn DEF SameTables
    <2>2. MutexesStay /\ sem_queue' = sem_queue /\ CountsStay(Semaphores)
      BY <1>2, <1>3, <1>6, CallReads DEF MutexesStay, OwnersStay, CountsStay, SameTables
    <2>3. OthersStay(SemQ(id))
      BY <1>2, <1>3, <1>6, CallReads DEF OthersStay
    <2>4. queue'[SemQ(id)] = l.queue[SemQ(id)]
      BY <1>2, <1>3, CallReads
    <2>5. queue'[SemQ(id)] = Append(queue[SemQ(id)], proc_table[active_proc].pid)
      BY <1>3, <1>6, <2>4
    <2> QED
      BY <2>1, <2>2, <2>3, <2>5 DEF CountsStay
  <1> QED
    BY <1>4, <1>5, <1>6 DEF SemTaken

\* One is added to the count, or the process that has waited longest goes on.
LEMMA SemPostStep ==
    ASSUME KInv, NEW id \in Semaphores, CallSemPost(id)
    PROVE  /\ GoesOn(Entries) /\ sem_queue' = sem_queue /\ MutexesStay
           /\ CountsStay(Semaphores \ {id})
           /\ \/ /\ queue[SemQ(id)] = <<>> /\ QueuesStay
                 /\ semaphores'[id].count = semaphores[id].count + 1
              \/ /\ semaphores'[id].count = semaphores[id].count /\ OthersStay(SemQ(id))
                 /\ queue[SemQ(id)] # <<>> /\ queue'[SemQ(id)] = Tail(queue[SemQ(id)])
  <1>1. id \in Int
    BY SemAssumption, SizeAssumption DEF Semaphores
  <1>2. PICK k, l, rc : Called(17, k, l, rc) /\ l = ksem_post(k, id).k
    BY <1>1, SemPostAction
  <1>3. /\ Calling(k, active_proc) /\ k.mutexfree = mutex_queue /\ k.queue = queue
        /\ k.mutex = mutexes /\ k.sem = semaphores /\ k.semfree = sem_queue
        /\ SemQ(id) \in WaitQueues /\ k.sem \in [Semaphores -> SemEntry]
    BY <1>2, CallReads, WaitNames DEF Calling, KernelOK, Tables
  <1>4. SemGiven(k, l, id)
    BY <1>2, <1>3, SemPostResult
  <1>5. CASE /\ k.queue[SemQ(id)] = <<>>
             /\ SemWritten(k, l, id, [k.sem[id] EXCEPT !.count = @ + 1], k.semfree)
    <2>1. /\ SameScheduler(k, l) /\ KernelFields \subseteq DOMAIN l
          /\ l.sem = [k.sem EXCEPT ![id] = [k.sem[id] EXCEPT !.count = @ + 1]]
          /\ l.semfree = k.semfree /\ l.mutex = k.mutex /\ l.mutexfree = k.mutexfree
          /\ l.eax = k.eax
      BY <1>5 DEF SemWritten, Tabled
    <2>2. Back(k, l)
      BY <1>3, <2>1, CallerFacts, BackTwin
    <2>3. GoesOn(Entries)
      BY <1>2, <2>1, <2>2, BackGoesOn
    <2>4. QueuesStay /\ MutexesStay /\ sem_queue' = sem_queue
      BY <1>2, <1>3, <2>1, CallReads DEF QueuesStay, MutexesStay, OwnersStay, SameScheduler
    <2>5. k.sem[id] \in SemEntry /\ semaphores' = l.sem
      BY <1>2, <1>3, CallReads
    <2>6. semaphores'[id].count = semaphores[id].count + 1 /\ CountsStay(Semaphores \ {id})
      BY <1>3, <2>1, <2>5 DEF SemEntry, CountsStay
    <2> QED
      BY <1>3, <1>5, <2>3, <2>4, <2>6
  <1>6. CASE /\ k.queue[SemQ(id)] # <<>> /\ Back(k, l) /\ SameTables(k, l)
             /\ l.queue[SemQ(id)] = Tail(k.queue[SemQ(id)])
             /\ \A q \in WaitQueues \ {SemQ(id)} : l.queue[q] = k.queue[q]
    <2>1. GoesOn(Entries)
      BY <1>2, <1>6, BackGoesOn DEF SameTables
    <2>2. MutexesStay /\ sem_queue' = sem_queue /\ CountsStay(Semaphores)
      BY <1>2, <1>3, <1>6, CallReads DEF MutexesStay, OwnersStay, CountsStay, SameTables
    <2>3. OthersStay(SemQ(id))
      BY <1>2, <1>3, <1>6, CallReads DEF OthersStay
    <2>4. queue'[SemQ(id)] = l.queue[SemQ(id)]
      BY <1>2, <1>3, CallReads
    <2>5. queue'[SemQ(id)] = Tail(queue[SemQ(id)]) /\ queue[SemQ(id)] # <<>>
      BY <1>3, <1>6, <2>4
    <2> QED
      BY <2>1, <2>2, <2>3, <2>5 DEF CountsStay
  <1> QED
    BY <1>4, <1>5, <1>6 DEF SemGiven

-----------------------------------------------------------------------------
(***************************************************************************)
(* Interrupts, and steps in which the kernel has no part.                  *)
(***************************************************************************)

\* The scheduler moves, the mutexes and semaphores do not.
LEMMA SchedulerOnly ==
    ASSUME KInv, Inv(Lost)', next_pid' <= MAX_PIDS, QueuesStay,
           UNCHANGED <<mutexVars, semVars, eax>>
    PROVE  KInv'
  <1> DEFINE c == [proc |-> proc_table', queue |-> queue', active |-> active_proc',
                   free |-> proc_allocator', next |-> next_pid', status |-> status',
                   mutex |-> mutexes', mutexfree |-> mutex_queue',
                   sem |-> semaphores', semfree |-> sem_queue', eax |-> eax']
             s == [proc |-> proc_table', queue |-> queue', active |-> active_proc',
                   free |-> proc_allocator', next |-> next_pid', status |-> status']
  <1>1. /\ IsRecord(c) /\ ContextFields \cup KernelFields \subseteq DOMAIN c
        /\ c.proc = proc_table' /\ c.queue = queue' /\ c.active = active_proc'
        /\ c.free = proc_allocator' /\ c.next = next_pid' /\ c.status = status'
        /\ c.mutex = mutexes' /\ c.mutexfree = mutex_queue'
        /\ c.sem = semaphores' /\ c.semfree = sem_queue' /\ c.eax = eax'
    BY DEF IsRecord, ContextFields, KernelFields
  <1>2. /\ s.proc = c.proc /\ s.queue = c.queue /\ s.active = c.active
        /\ s.free = c.free /\ s.next = c.next /\ s.status = c.status
    BY DEF IsRecord, ContextFields
  <1>3. KernelCtx' = c /\ Ctx' = s
    BY DEF KernelCtx, Ctx
  <1> HIDE DEF c, s
  <1>4. /\ mutexes' = mutexes /\ mutex_queue' = mutex_queue
        /\ semaphores' = semaphores /\ sem_queue' = sem_queue /\ eax' = eax
        /\ KernelOK(KernelCtx) /\ \A q \in WaitQueues : queue'[q] = queue[q]
    BY DEF KInv, mutexVars, semVars, QueuesStay
  <1>5. Safe(s, Lost)
    BY <1>3 DEF Inv
  <1>6. SameScheduler(s, c)
    BY <1>1, <1>2 DEF SameScheduler
  <1>7. Safe(c, Lost)
    BY <1>5, <1>6, TwinSound DEF Safe
  <1>8. Tables(c)
    BY <1>1, <1>4, KernelCtxFields DEF KernelOK, Tables
  <1>9. LocksOK(c) /\ CountsOK(c)
    BY <1>1, <1>4, WaitNames, KernelCtxFields DEF KernelOK, LocksOK, CountsOK
  <1>10. KernelOK(c)
    BY <1>8, <1>9, NobodyLost DEF KernelOK
  <1> QED
    BY <1>3, <1>7, <1>10 DEF KInv

\* The processes, the owners, the counts and the ids stay as they are.
AllStays ==
    /\ KInv' /\ QueuesStay /\ MutexesStay /\ SemsStay /\ eax' = eax
    /\ \A e \in Entries : IsLive(e) => IsLive(e)' /\ proc_table'[e].pid = proc_table[e].pid

LEMMA TickStep ==
    ASSUME KInv, Tick
    PROVE  AllStays /\ status' = "running"
  <1>1. Inv(Lost) /\ Next /\ TimerInterrupt /\ status = "running"
    BY KInvScheduler DEF Tick, TimerInterrupt, Next, InterruptNext
  <1>2. Inv(Lost)' /\ Sound(Ctx, Lost) /\ Tight(Ctx) /\ Ctx.status = "running"
    BY <1>1, NextSafe, CtxFields DEF Inv, Safe
  <1>3. PICK k : k = scheduler_timer(Ctx)
    OBVIOUS
  <1>4. Sound(k, Lost) /\ Tight(k) /\ k.status = "running"
    BY <1>2, <1>3, TimerSound
  <1>5. Frame(Ctx, k, {}) /\ k.next = Ctx.next
    BY <1>2, <1>3, TimerFrame
  <1>6. PICK out : out = scheduler_run(k) /\ Commit(out)
    BY <1>1, <1>3, <1>4 DEF TimerInterrupt, ExitKernel, AfterHandler
  <1>7. Loose(k)
    BY <1>4, TightLoose
  <1>8. out.status = "running"
    BY <1>4, <1>6, <1>7, RunSound
  <1>9. Frame(Ctx, out, {}) /\ out.next = Ctx.next
    <2>1. Frame(k, out, {}) /\ out.next = k.next
      BY <1>4, <1>6, <1>7, RunFrame
    <2> QED
      BY <1>5, <2>1 DEF Frame, SameShape
  <1>10. /\ queue' = out.queue /\ proc_table' = out.proc /\ next_pid' = out.next
         /\ status' = out.status
    BY <1>6 DEF Commit
  <1>11. QueuesStay /\ next_pid' = next_pid
    BY <1>9, <1>10, CtxFields DEF Frame, QueuesStay
  <1>12. \A e \in Entries : IsLive(e) => IsLive(e)' /\ proc_table'[e].pid = proc_table[e].pid
    BY <1>9, <1>10, CtxFields DEF Frame, IsLive, Live
  <1>13. KInv'
    BY <1>2, <1>11, SchedulerOnly DEF KInv, Tick
  <1> QED
    BY <1>8, <1>10, <1>11, <1>12, <1>13
       DEF AllStays, MutexesStay, SemsStay, OwnersStay, CountsStay, Tick, mutexVars, semVars

LEMMA StartStep ==
    ASSUME KInv, Started
    PROVE  AllStays /\ status' = "running"
  <1>1. Inv(Lost) /\ Next /\ BootKey
    BY KInvScheduler DEF Started, Next, BootNext
  <1>2. Inv(Lost)'
    BY <1>1, NextSafe
  <1>3. PICK k : k = [Ctx EXCEPT !.status = "running"]
    OBVIOUS
  <1>4. /\ k.proc = proc_table /\ k.queue = queue /\ k.next = next_pid
        /\ k.status = "running"
    BY <1>3 DEF Ctx
  <1>5. Commit(k)
    BY <1>1, <1>3 DEF BootKey
  <1>6. queue' = queue /\ proc_table' = proc_table /\ next_pid' = next_pid /\ status' = "running"
    BY <1>4, <1>5 DEF Commit
  <1>7. QueuesStay
    BY <1>6 DEF QueuesStay
  <1>8. KInv'
    BY <1>2, <1>6, <1>7, SchedulerOnly DEF KInv, Started
  <1> QED
    BY <1>6, <1>7, <1>8
       DEF AllStays, MutexesStay, SemsStay, OwnersStay, CountsStay, Started, mutexVars, semVars,
           IsLive

\* A call of the library alone.
LEMMA QuietStep ==
    ASSUME KInv, UNCHANGED kvars
    PROVE  AllStays /\ status' = status
  <1>1. KInv'
    BY KernelStutter
  <1> QED
    BY <1>1 DEF AllStays, QueuesStay, MutexesStay, SemsStay, OwnersStay, CountsStay,
                kvars, vars, mutexVars, semVars, IsLive

\* A program reads or writes past the end of its buffer.
LEMMA OverrunStep ==
    ASSUME KInv, InUserProcess, Commit(Undefined(Ctx)), UNCHANGED <<mutexVars, semVars, eax>>
    PROVE  AllStays /\ status' = "undefined"
  <1>1. PICK l : l = Undefined(KernelCtx)
    OBVIOUS
  <1>2. active_proc \in Entries \ {0} /\ status = "running"
    BY InUserFacts
  <1>3. Calling(KernelCtx, active_proc)
    BY <1>2, KernelCtxFields DEF Calling, KInv
  <1>4. /\ Safe(l, Lost) /\ KernelOK(l) /\ l.status = "undefined"
        /\ SameTables(KernelCtx, l) /\ l.next = next_pid
    BY <1>1, <1>3, UndefinedSafe, KernelCtxFields
  <1>5. /\ proc_table' = proc_table /\ queue' = queue /\ active_proc' = active_proc
        /\ proc_allocator' = proc_allocator /\ next_pid' = next_pid
        /\ status' = "undefined"
    BY DEF Commit, Undefined, Ctx
  <1>6. /\ l.proc = proc_table /\ l.queue = queue /\ l.active = active_proc
        /\ l.free = proc_allocator /\ l.next = next_pid
    BY <1>1 DEF Undefined, KernelCtx
  <1>7. CommitKernel(l)
    BY <1>4, <1>5, <1>6, KernelCtxFields
       DEF CommitKernel, Commit, SameTables, mutexVars, semVars
  <1>8. KInv'
    BY <1>4, <1>7, KernelCommit DEF KInv
  <1> QED
    BY <1>5, <1>8
       DEF AllStays, QueuesStay, MutexesStay, SemsStay, OwnersStay, CountsStay,
           mutexVars, semVars, IsLive

-----------------------------------------------------------------------------
(***************************************************************************)
(* Who still asks for an id, and which ids there are.                      *)
(***************************************************************************)

\* The places before a program has the first id, and before it has both.
FirstPlaces == {"test", "init", "store"}
AskPlaces == FirstPlaces \cup {"testPong", "initPong", "storePong"}

Places ==
    AskPlaces \cup
    {"loop", "nap", "lock", "read", "unlock", "unlockEnd", "command", "exit", "gone",
     "cmdLock", "cmdNap", "cmdUnlock", "serve", "wait", "sleep", "post"}

MutexAskers == {e \in Shells : pc[e] \in {"test", "init"}}
PingAskers == {e \in Players : pc[e] \in {"test", "init"}}
PongAskers == {e \in Players : pc[e] \in AskPlaces \ {"storePong"}}

\* The ids that are left are the last ones, in order; the others are given.
InOrder(left, max) ==
    Len(left) <= max /\ \A i \in 1 .. Len(left) : left[i] = max - Len(left) + i - 1

GivenMutexes == 0 .. (MUTEX_MAX - Len(mutex_queue) - 1)
GivenSems == 0 .. (SEM_MAX - Len(sem_queue) - 1)

MutexSlots == {<<"shell_mutex", 0>>, <<"shell_mutex", 1>>}

ProgramTypes ==
    /\ program \in Assignments
    /\ pc \in [Entries -> Places]
    /\ input_len \in [Entries -> Nat]
    /\ ids \in [Slots -> Int]
    /\ races \in Nat

\* There is an id for everyone who may still ask.
IdsLeft ==
    /\ InOrder(mutex_queue, MUTEX_MAX) /\ InOrder(sem_queue, SEM_MAX)
    /\ Cardinality(MutexAskers) <= Len(mutex_queue)
    /\ Cardinality(PingAskers) + Cardinality(PongAskers) <= Len(sem_queue)

\* What is stored, or about to be, was given.
IdsKept ==
    /\ \A slot \in MutexSlots : ids[slot] = -1 \/ ids[slot] \in GivenMutexes
    /\ \A slot \in {Ping, Pong} : ids[slot] = -1 \/ ids[slot] \in GivenSems
    /\ \A e \in Shells : pc[e] = "store" => eax[e] \in GivenMutexes
    /\ \A e \in Players : pc[e] \in {"store", "storePong"} => eax[e] \in GivenSems

IdsKnown ==
    /\ \A e \in Shells : pc[e] \notin FirstPlaces => ids[ShellSlot(e)] # -1
    /\ \A e \in Players : pc[e] \notin FirstPlaces => ids[Ping] # -1
    /\ \A e \in Players : pc[e] \notin AskPlaces => ids[Pong] # -1

\* The system runs on, or a line of input filled its buffer.
EndsWell ==
    \/ status \in {"boot", "running"}
    \/ status = "undefined" /\ \E e \in Shells : input_len[e] >= INPUT_SIZE

LiveUntilGone == \A e \in Entries : pc[e] # "gone" => IsLive(e)

OnlyPingServes == \A e \in Entries : pc[e] = "serve" => program[e] = "ping"

IdsInv ==
    /\ KInv /\ ProgramTypes /\ IdsLeft /\ IdsKept /\ IdsKnown
    /\ EndsWell /\ LiveUntilGone /\ OnlyPingServes

LEMMA AskersFinite ==
    /\ IsFiniteSet(MutexAskers) /\ IsFiniteSet(PingAskers) /\ IsFiniteSet(PongAskers)
    /\ Cardinality(MutexAskers) \in Nat /\ Cardinality(PingAskers) \in Nat
    /\ Cardinality(PongAskers) \in Nat
    /\ MutexAskers \subseteq Entries /\ PingAskers \subseteq Entries /\ PongAskers \subseteq Entries
  <1>1. MutexAskers \subseteq Entries /\ PingAskers \subseteq Entries /\ PongAskers \subseteq Entries
    BY DEF MutexAskers, PingAskers, PongAskers, Shells, Players
  <1>2. IsFiniteSet(MutexAskers) /\ IsFiniteSet(PingAskers) /\ IsFiniteSet(PongAskers)
    BY <1>1, EntryNumbers, FS_Subset
  <1> QED
    BY <1>1, <1>2, FS_CardinalityType

\* Parities and the ids that are given.
LEMMA SlotFacts ==
    /\ \A e \in Entries : ShellSlot(e) \in MutexSlots
    /\ MutexSlots \cup {Ping, Pong} = Slots /\ Ping # Pong
    /\ \A slot \in MutexSlots : slot \notin {Ping, Pong}
    /\ \A e : Own(e) \in {Ping, Pong} /\ Others(e) \in {Ping, Pong}
  <1>1. \A e \in Entries : e % 2 \in {0, 1}
    BY EntryNumbers
  <1>2. 0 .. 1 = {0, 1}
    OBVIOUS
  <1>3. \A e \in Entries : ShellSlot(e) \in MutexSlots
    BY <1>1 DEF ShellSlot, MutexSlots
  <1>4. MutexSlots \cup {Ping, Pong} = Slots
    BY <1>2 DEF MutexSlots, Slots, Ping, Pong
  <1>5. Ping # Pong /\ \A slot \in MutexSlots : slot \notin {Ping, Pong}
    BY DEF MutexSlots, Ping, Pong
  <1> QED
    BY <1>3, <1>4, <1>5 DEF Own, Others

LEMMA GivenFacts ==
    ASSUME KInv
    PROVE  /\ GivenMutexes \subseteq Mutexes /\ GivenSems \subseteq Semaphores
           /\ Len(mutex_queue) \in Nat /\ Len(sem_queue) \in Nat
           /\ MUTEX_MAX \in Nat /\ SEM_MAX \in Nat
  <1>1. Len(mutex_queue) \in Nat /\ Len(sem_queue) \in Nat
    BY KInvReads
  <1> QED
    BY <1>1, MutexAssumption, SemAssumption
       DEF GivenMutexes, GivenSems, Mutexes, Semaphores

\* Nobody asks anew.
LEMMA AskersShrink ==
    ASSUME ProgramTypes, NEW e \in Entries, NEW place \in Places,
           program' = program, pc' = [pc EXCEPT ![e] = place],
           place \in {"test", "init"} => pc[e] \in {"test", "init"},
           place \in AskPlaces \ {"storePong"} => pc[e] \in AskPlaces \ {"storePong"}
    PROVE  /\ MutexAskers' \subseteq MutexAskers /\ PingAskers' \subseteq PingAskers
           /\ PongAskers' \subseteq PongAskers
  <1>1. \A f \in Entries : pc'[f] = IF f = e THEN place ELSE pc[f]
    BY DEF ProgramTypes
  <1>2. Shells' = Shells /\ Players' = Players
    BY DEF Shells, Players
  <1>3. Shells \subseteq Entries /\ Players \subseteq Entries
    BY DEF Shells, Players
  <1>4. ASSUME NEW f \in MutexAskers' PROVE f \in MutexAskers
    BY <1>1, <1>2, <1>3, <1>4 DEF MutexAskers
  <1>5. ASSUME NEW f \in PingAskers' PROVE f \in PingAskers
    BY <1>1, <1>2, <1>3, <1>5 DEF PingAskers
  <1>6. ASSUME NEW f \in PongAskers' PROVE f \in PongAskers
    BY <1>1, <1>2, <1>3, <1>6 DEF PongAskers
  <1> QED
    BY <1>4, <1>5, <1>6

LEMMA IdsLeftStays ==
    ASSUME IdsLeft, KInv, mutex_queue' = mutex_queue, sem_queue' = sem_queue,
           MutexAskers' \subseteq MutexAskers, PingAskers' \subseteq PingAskers,
           PongAskers' \subseteq PongAskers
    PROVE  IdsLeft'
  <1>1. /\ Cardinality(MutexAskers') <= Cardinality(MutexAskers)
        /\ Cardinality(PingAskers') <= Cardinality(PingAskers)
        /\ Cardinality(PongAskers') <= Cardinality(PongAskers)
        /\ Cardinality(MutexAskers') \in Nat /\ Cardinality(PingAskers') \in Nat
        /\ Cardinality(PongAskers') \in Nat
    BY AskersFinite, FS_Subset, FS_CardinalityType
  <1>2. /\ Cardinality(MutexAskers) \in Nat /\ Cardinality(PingAskers) \in Nat
        /\ Cardinality(PongAskers) \in Nat /\ Len(mutex_queue) \in Nat /\ Len(sem_queue) \in Nat
    BY AskersFinite, GivenFacts
  <1>3. InOrder(mutex_queue, MUTEX_MAX)' /\ InOrder(sem_queue, SEM_MAX)'
    BY DEF IdsLeft, InOrder
  <1>4. /\ Cardinality(MutexAskers') <= Len(mutex_queue)
        /\ Cardinality(PingAskers') + Cardinality(PongAskers') <= Len(sem_queue)
    BY <1>1, <1>2 DEF IdsLeft
  <1> QED
    BY <1>3, <1>4 DEF IdsLeft

\* A step of a program that neither stores an id nor is given one.
LEMMA ProgramGoesOn ==
    ASSUME IdsInv, NEW e \in Entries, IsLive(e), NEW place \in Places,
           program' = program, pc' = [pc EXCEPT ![e] = place], ids' = ids,
           input_len' \in [Entries -> Nat], races' \in Nat,
           mutex_queue' = mutex_queue, sem_queue' = sem_queue,
           KInv', EndsWell', \A f \in Entries \ {e} : eax'[f] = eax[f],
           \A f \in Entries : (f # e \/ place # "gone") /\ IsLive(f) => IsLive(f)',
           place \notin {"store", "storePong"},
           place = "serve" => program[e] = "ping",
           place \in {"test", "init"} => pc[e] \in {"test", "init"},
           place \in AskPlaces => pc[e] \in AskPlaces \ {"storePong"},
           e \in Shells /\ place \notin FirstPlaces => ids[ShellSlot(e)] # -1,
           e \in Players /\ place \notin FirstPlaces => ids[Ping] # -1,
           e \in Players /\ place \notin AskPlaces => ids[Pong] # -1
    PROVE  IdsInv'
  <1>1. \A f \in Entries : pc'[f] = IF f = e THEN place ELSE pc[f]
    BY DEF IdsInv, ProgramTypes
  <1>2. /\ Shells' = Shells /\ Players' = Players
        /\ Shells \subseteq Entries /\ Players \subseteq Entries
    BY DEF Shells, Players
  <1>3. ProgramTypes'
    BY DEF IdsInv, ProgramTypes
  <1>4. IdsLeft'
    <2>1. /\ MutexAskers' \subseteq MutexAskers /\ PingAskers' \subseteq PingAskers
          /\ PongAskers' \subseteq PongAskers
      BY AskersShrink DEF IdsInv
    <2> QED
      BY <2>1, IdsLeftStays DEF IdsInv
  <1>5. IdsKept'
    <2>1. GivenMutexes' = GivenMutexes /\ GivenSems' = GivenSems
      BY DEF GivenMutexes, GivenSems
    <2>2. \A f \in Shells : pc'[f] = "store" => eax'[f] \in GivenMutexes
      BY <1>1, <1>2 DEF IdsInv, IdsKept
    <2>3. \A f \in Players : pc'[f] \in {"store", "storePong"} => eax'[f] \in GivenSems
      BY <1>1, <1>2 DEF IdsInv, IdsKept
    <2>4. Ping' = Ping /\ Pong' = Pong /\ MutexSlots' = MutexSlots
      BY DEF Ping, Pong, MutexSlots
    <2> QED
      BY <1>2, <2>1, <2>2, <2>3, <2>4 DEF IdsInv, IdsKept
  <1>6. IdsKnown'
    <2>1. \A f \in Shells : pc'[f] \notin FirstPlaces => ids[ShellSlot(f)] # -1
      BY <1>1, <1>2 DEF IdsInv, IdsKnown
    <2>2. \A f \in Players : pc'[f] \notin FirstPlaces => ids[Ping] # -1
      BY <1>1, <1>2 DEF IdsInv, IdsKnown
    <2>3. \A f \in Players : pc'[f] \notin AskPlaces => ids[Pong] # -1
      BY <1>1, <1>2 DEF IdsInv, IdsKnown
    <2>4. Ping' = Ping /\ Pong' = Pong /\ \A f : ShellSlot(f)' = ShellSlot(f)
      BY DEF Ping, Pong, ShellSlot
    <2> QED
      BY <1>2, <2>1, <2>2, <2>3, <2>4 DEF IdsKnown, FirstPlaces, AskPlaces
  <1>7. LiveUntilGone'
    <2> SUFFICES ASSUME NEW f \in Entries, pc'[f] # "gone" PROVE IsLive(f)'
      BY DEF LiveUntilGone, IsLive
    <2>1. pc[f] # "gone" \/ f = e
      BY <1>1
    <2>2. IsLive(f)
      BY <2>1 DEF IdsInv, LiveUntilGone
    <2> QED
      BY <1>1, <2>2
  <1>8. OnlyPingServes'
    BY <1>1 DEF IdsInv, OnlyPingServes
  <1> QED
    BY <1>3, <1>4, <1>5, <1>6, <1>7, <1>8 DEF IdsInv

\* The processes run as before; no program goes on.
LEMMA ProgramsStay ==
    ASSUME IdsInv, AllStays, UNCHANGED progVars, EndsWell'
    PROVE  IdsInv'
  <1>1. /\ program' = program /\ pc' = pc /\ input_len' = input_len /\ ids' = ids
        /\ races' = races /\ eax' = eax /\ KInv'
        /\ mutex_queue' = mutex_queue /\ sem_queue' = sem_queue
    BY DEF progVars, AllStays, MutexesStay, SemsStay
  <1>2. ProgramTypes'
    BY <1>1 DEF IdsInv, ProgramTypes
  <1>3. IdsLeft'
    <2>1. MutexAskers' = MutexAskers /\ PingAskers' = PingAskers /\ PongAskers' = PongAskers
      BY <1>1 DEF MutexAskers, PingAskers, PongAskers, Shells, Players
    <2> QED
      BY <1>1, <2>1, IdsLeftStays DEF IdsInv
  <1>4. IdsKept' /\ IdsKnown'
    BY <1>1 DEF IdsInv, IdsKept, IdsKnown, GivenMutexes, GivenSems, MutexSlots, Ping, Pong,
                Shells, Players, ShellSlot
  <1>5. LiveUntilGone' /\ OnlyPingServes'
    BY <1>1 DEF IdsInv, LiveUntilGone, OnlyPingServes, AllStays
  <1> QED
    BY <1>1, <1>2, <1>3, <1>4, <1>5 DEF IdsInv

\* A program stores the id that it was given.
LEMMA ProgramStores ==
    ASSUME IdsInv, NEW e \in Entries, NEW place \in Places, AllStays, EndsWell',
           pc' = [pc EXCEPT ![e] = place], NEW slot \in Slots,
           ids' = [ids EXCEPT ![slot] = eax[e]], UNCHANGED <<program, input_len, races>>,
           \/ /\ e \in Shells /\ pc[e] = "store" /\ slot = ShellSlot(e)
              /\ place \notin AskPlaces
           \/ /\ e \in Players /\ pc[e] = "store" /\ slot = Ping /\ place = "testPong"
           \/ /\ e \in Players /\ pc[e] = "storePong" /\ slot = Pong
              /\ place \notin AskPlaces,
           place = "serve" => program[e] = "ping"
    PROVE  IdsInv'
  <1>1. /\ \A f \in Entries : pc'[f] = IF f = e THEN place ELSE pc[f]
        /\ \A s \in Slots : ids'[s] = IF s = slot THEN eax[e] ELSE ids[s]
    BY DEF IdsInv, ProgramTypes
  <1>2. /\ Shells' = Shells /\ Players' = Players
        /\ Shells \subseteq Entries /\ Players \subseteq Entries
        /\ \A f \in Shells : f \notin Players
    BY DEF Shells, Players
  <1>3. /\ eax' = eax /\ KInv' /\ eax \in [Entries -> Int]
        /\ mutex_queue' = mutex_queue /\ sem_queue' = sem_queue
    BY KInvReads DEF AllStays, MutexesStay, SemsStay, IdsInv
  <1>4. ProgramTypes'
    BY <1>3 DEF IdsInv, ProgramTypes
  <1>5. IdsLeft'
    <2>1. /\ MutexAskers' \subseteq MutexAskers /\ PingAskers' \subseteq PingAskers
          /\ PongAskers' \subseteq PongAskers
      BY AskersShrink DEF IdsInv, AskPlaces, FirstPlaces
    <2> QED
      BY <1>3, <2>1, IdsLeftStays DEF IdsInv
  <1>6. eax[e] # -1 /\ (e \in Shells => eax[e] \in GivenMutexes)
                    /\ (e \in Players => eax[e] \in GivenSems)
    <2>1. (e \in Shells => eax[e] \in GivenMutexes) /\ (e \in Players => eax[e] \in GivenSems)
      BY <1>2 DEF IdsInv, IdsKept
    <2>2. \A id \in Mutexes \cup Semaphores : id # -1
      BY DEF Mutexes, Semaphores
    <2> QED
      BY <2>1, <2>2, GivenFacts DEF IdsInv
  <1>7. IdsKept'
    <2>1. GivenMutexes' = GivenMutexes /\ GivenSems' = GivenSems
      BY <1>3 DEF GivenMutexes, GivenSems
    <2>2. \A f \in Shells : pc'[f] = "store" => eax'[f] \in GivenMutexes
      BY <1>1, <1>2, <1>3 DEF IdsInv, IdsKept, AskPlaces, FirstPlaces
    <2>3. \A f \in Players : pc'[f] \in {"store", "storePong"} => eax'[f] \in GivenSems
      BY <1>1, <1>2, <1>3 DEF IdsInv, IdsKept, AskPlaces, FirstPlaces
    <2>4. Ping' = Ping /\ Pong' = Pong /\ MutexSlots' = MutexSlots
      BY DEF Ping, Pong, MutexSlots
    <2>5. \A s \in MutexSlots : ids'[s] = -1 \/ ids'[s] \in GivenMutexes
      BY <1>1, <1>6, SlotFacts DEF IdsInv, IdsKept
    <2>6. \A s \in {Ping, Pong} : ids'[s] = -1 \/ ids'[s] \in GivenSems
      BY <1>1, <1>2, <1>6, SlotFacts DEF IdsInv, IdsKept
    <2> QED
      BY <1>2, <2>1, <2>2, <2>3, <2>4, <2>5, <2>6 DEF IdsKept
  <1>8. IdsKnown'
    <2>1. \A f \in Shells : pc'[f] \notin FirstPlaces => ids'[ShellSlot(f)] # -1
      BY <1>1, <1>2, <1>6, SlotFacts DEF IdsInv, IdsKnown, AskPlaces, FirstPlaces
    <2>2. \A f \in Players : pc'[f] \notin FirstPlaces => ids'[Ping] # -1
      BY <1>1, <1>2, <1>6, SlotFacts DEF IdsInv, IdsKnown, AskPlaces, FirstPlaces
    <2>3. \A f \in Players : pc'[f] \notin AskPlaces => ids'[Pong] # -1
      BY <1>1, <1>2, <1>6, SlotFacts DEF IdsInv, IdsKnown, AskPlaces, FirstPlaces
    <2>4. Ping' = Ping /\ Pong' = Pong /\ \A f : ShellSlot(f)' = ShellSlot(f)
      BY DEF Ping, Pong, ShellSlot
    <2> QED
      BY <1>2, <2>1, <2>2, <2>3, <2>4 DEF IdsKnown, FirstPlaces, AskPlaces
  <1>9. LiveUntilGone'
    BY <1>1 DEF IdsInv, LiveUntilGone, AllStays
  <1>10. OnlyPingServes'
    BY <1>1 DEF IdsInv, OnlyPingServes
  <1> QED
    BY <1>3, <1>4, <1>5, <1>7, <1>8, <1>9, <1>10 DEF IdsInv

\* The first of the ids that are left is given.
LEMMA GiveOne ==
    ASSUME NEW S, NEW left \in Seq(S), left # <<>>, NEW max \in Nat, InOrder(left, max)
    PROVE  /\ InOrder(Tail(left), max) /\ Len(Tail(left)) = Len(left) - 1
           /\ Head(left) = max - Len(left) /\ Len(left) \in Nat \ {0} /\ Len(left) <= max
  <1>1. Len(left) \in Nat \ {0} /\ Len(Tail(left)) = Len(left) - 1 /\ Head(left) = left[1]
    BY HeadTailProperties, EmptySeq
  <1>2. \A i \in 1 .. Len(left) - 1 : Tail(left)[i] = left[i + 1]
    BY HeadTailProperties, <1>1
  <1>3. Head(left) = max - Len(left) /\ Len(left) <= max
    BY <1>1 DEF InOrder
  <1>4. \A i \in 1 .. Len(left) - 1 : left[i + 1] = max - (Len(left) - 1) + i - 1
    BY <1>1 DEF InOrder
  <1>5. InOrder(Tail(left), max)
    <2> DEFINE tail == Tail(left)
    <2>1. Len(tail) = Len(left) - 1 /\ \A i \in 1 .. Len(tail) : tail[i] = max - Len(tail) + i - 1
      BY <1>1, <1>2, <1>4
    <2> QED
      BY <1>1, <1>3, <2>1 DEF InOrder
  <1> QED
    BY <1>1, <1>3, <1>5

LEMMA OneAskerLess ==
    ASSUME NEW A \in SUBSET Entries, NEW e \in A
    PROVE  /\ Cardinality(A \ {e}) = Cardinality(A) - 1
           /\ Cardinality(A) \in Nat \ {0}
  <1>1. IsFiniteSet(A)
    BY EntryNumbers, FS_Subset
  <1>2. Cardinality(A \ {e}) = Cardinality(A) - 1 /\ Cardinality(A) # 0
    BY <1>1, FS_RemoveElement, FS_EmptySet
  <1> QED
    BY <1>1, <1>2, FS_CardinalityType

\* A shell is given a mutex.
LEMMA MutexIsGiven ==
    ASSUME IdsInv, NEW e \in Shells, pc[e] = "init", pc' = [pc EXCEPT ![e] = "store"],
           UNCHANGED <<program, input_len, ids, races>>,
           KInv', EndsWell', sem_queue' = sem_queue, mutex_queue # <<>>,
           mutex_queue' = Tail(mutex_queue), eax'[e] = Head(mutex_queue),
           \A f \in Entries \ {e} : eax'[f] = eax[f],
           \A f \in Entries : IsLive(f) => IsLive(f)'
    PROVE  IdsInv'
  <1>1. /\ \A f \in Entries : pc'[f] = IF f = e THEN "store" ELSE pc[f]
        /\ e \in Entries
    BY DEF IdsInv, ProgramTypes, Shells
  <1>2. /\ Shells' = Shells /\ Players' = Players
        /\ Shells \subseteq Entries /\ Players \subseteq Entries
        /\ e \notin Players
    BY DEF Shells, Players
  <1>3. ProgramTypes'
    <2>1. pc' \in [Entries -> Places]
      BY <1>1 DEF IdsInv, ProgramTypes, Places, AskPlaces, FirstPlaces
    <2> QED
      BY <2>1 DEF IdsInv, ProgramTypes
  <1>4. /\ InOrder(mutex_queue, MUTEX_MAX)' /\ Len(mutex_queue') = Len(mutex_queue) - 1
        /\ Head(mutex_queue) = MUTEX_MAX - Len(mutex_queue)
        /\ Len(mutex_queue) \in Nat \ {0} /\ Len(mutex_queue) <= MUTEX_MAX /\ MUTEX_MAX \in Nat
    <2>1. /\ mutex_queue \in Seq(Mutexes) /\ MUTEX_MAX \in Nat /\ InOrder(mutex_queue, MUTEX_MAX)
      BY KInvReads, GivenFacts DEF IdsInv, IdsLeft
    <2>2. /\ InOrder(Tail(mutex_queue), MUTEX_MAX)
          /\ Len(Tail(mutex_queue)) = Len(mutex_queue) - 1
          /\ Head(mutex_queue) = MUTEX_MAX - Len(mutex_queue)
          /\ Len(mutex_queue) \in Nat \ {0} /\ Len(mutex_queue) <= MUTEX_MAX
      BY <2>1, GiveOne
    <2>3. InOrder(mutex_queue, MUTEX_MAX)' <=> InOrder(mutex_queue', MUTEX_MAX)
      BY DEF InOrder
    <2> QED
      BY <2>1, <2>2, <2>3
  <1>5. IdsLeft'
    <2>1. MutexAskers' = MutexAskers \ {e} /\ e \in MutexAskers
      <3>1. ASSUME NEW f \in MutexAskers' PROVE f \in MutexAskers \ {e}
        BY <1>1, <1>2, <3>1 DEF MutexAskers
      <3>2. ASSUME NEW f \in MutexAskers \ {e} PROVE f \in MutexAskers'
        BY <1>1, <1>2, <3>2 DEF MutexAskers
      <3> QED
        BY <3>1, <3>2 DEF MutexAskers
    <2>2. PingAskers' = PingAskers /\ PongAskers' = PongAskers
      BY <1>1, <1>2 DEF PingAskers, PongAskers
    <2>3. /\ Cardinality(MutexAskers') = Cardinality(MutexAskers) - 1
          /\ Cardinality(MutexAskers) \in Nat
      BY <2>1, AskersFinite, OneAskerLess
    <2>4. InOrder(sem_queue, SEM_MAX)'
      BY DEF IdsInv, IdsLeft, InOrder
    <2> QED
      BY <1>4, <2>2, <2>3, <2>4 DEF IdsInv, IdsLeft
  <1>6. IdsKept'
    <2>1. /\ GivenMutexes \subseteq GivenMutexes' /\ GivenSems' = GivenSems
          /\ eax'[e] \in GivenMutexes'
      BY <1>4 DEF GivenMutexes, GivenSems
    <2>2. \A f \in Shells : pc'[f] = "store" => eax'[f] \in GivenMutexes'
      BY <1>1, <1>2, <2>1 DEF IdsInv, IdsKept
    <2>3. \A f \in Players : pc'[f] \in {"store", "storePong"} => eax'[f] \in GivenSems
      BY <1>1, <1>2 DEF IdsInv, IdsKept
    <2>4. Ping' = Ping /\ Pong' = Pong /\ MutexSlots' = MutexSlots
      BY DEF Ping, Pong, MutexSlots
    <2>5. /\ \A slot \in MutexSlots : ids[slot] = -1 \/ ids[slot] \in GivenMutexes'
          /\ \A slot \in {Ping, Pong} : ids[slot] = -1 \/ ids[slot] \in GivenSems
      BY <2>1 DEF IdsInv, IdsKept
    <2> QED
      BY <1>2, <2>1, <2>2, <2>3, <2>4, <2>5 DEF IdsKept
  <1>7. IdsKnown'
    BY <1>1, <1>2 DEF IdsInv, IdsKnown, FirstPlaces, AskPlaces, Ping, Pong, ShellSlot
  <1>8. LiveUntilGone'
    BY <1>1 DEF IdsInv, LiveUntilGone
  <1>9. OnlyPingServes'
    BY <1>1 DEF IdsInv, OnlyPingServes
  <1> QED
    BY <1>3, <1>5, <1>6, <1>7, <1>8, <1>9 DEF IdsInv

\* A ping or pong is given a semaphore.
LEMMA SemIsGiven ==
    ASSUME IdsInv, NEW e \in Players, NEW place, pc' = [pc EXCEPT ![e] = place],
           \/ pc[e] = "init" /\ place = "store"
           \/ pc[e] = "initPong" /\ place = "storePong",
           UNCHANGED <<program, input_len, ids, races>>,
           KInv', EndsWell', mutex_queue' = mutex_queue, sem_queue # <<>>,
           sem_queue' = Tail(sem_queue), eax'[e] = Head(sem_queue),
           \A f \in Entries \ {e} : eax'[f] = eax[f],
           \A f \in Entries : IsLive(f) => IsLive(f)'
    PROVE  IdsInv'
  <1>1. /\ \A f \in Entries : pc'[f] = IF f = e THEN place ELSE pc[f]
        /\ e \in Entries /\ place \in Places
    <2>1. e \in Entries /\ place \in Places
      BY DEF Players, Places, AskPlaces, FirstPlaces
    <2> QED
      BY <2>1 DEF IdsInv, ProgramTypes
  <1>2. /\ Shells' = Shells /\ Players' = Players
        /\ Shells \subseteq Entries /\ Players \subseteq Entries
        /\ e \notin Shells
    BY DEF Shells, Players
  <1>3. ProgramTypes'
    BY <1>1 DEF IdsInv, ProgramTypes
  <1>4. /\ InOrder(sem_queue, SEM_MAX)' /\ Len(sem_queue') = Len(sem_queue) - 1
        /\ Head(sem_queue) = SEM_MAX - Len(sem_queue)
        /\ Len(sem_queue) \in Nat \ {0} /\ Len(sem_queue) <= SEM_MAX /\ SEM_MAX \in Nat
    <2>1. /\ sem_queue \in Seq(Semaphores) /\ SEM_MAX \in Nat /\ InOrder(sem_queue, SEM_MAX)
      BY KInvReads, GivenFacts DEF IdsInv, IdsLeft
    <2>2. /\ InOrder(Tail(sem_queue), SEM_MAX)
          /\ Len(Tail(sem_queue)) = Len(sem_queue) - 1
          /\ Head(sem_queue) = SEM_MAX - Len(sem_queue)
          /\ Len(sem_queue) \in Nat \ {0} /\ Len(sem_queue) <= SEM_MAX
      BY <2>1, GiveOne
    <2>3. InOrder(sem_queue, SEM_MAX)' <=> InOrder(sem_queue', SEM_MAX)
      BY DEF InOrder
    <2> QED
      BY <2>1, <2>2, <2>3
  <1>5. /\ Cardinality(PingAskers') + Cardinality(PongAskers')
              = Cardinality(PingAskers) + Cardinality(PongAskers) - 1
        /\ Cardinality(PingAskers) \in Nat /\ Cardinality(PongAskers) \in Nat
        /\ Cardinality(PingAskers') \in Nat /\ Cardinality(PongAskers') \in Nat
    <2>1. /\ PingAskers' \subseteq Entries /\ PongAskers' \subseteq Entries
          /\ Cardinality(PingAskers) \in Nat /\ Cardinality(PongAskers) \in Nat
      BY <1>2, AskersFinite DEF PingAskers, PongAskers
    <2>2. Cardinality(PingAskers') \in Nat /\ Cardinality(PongAskers') \in Nat
      BY <2>1, EntryNumbers, FS_Subset, FS_CardinalityType
    <2>3. CASE pc[e] = "init" /\ place = "store"
      <3>1. PingAskers' = PingAskers \ {e} /\ e \in PingAskers
        <4>1. ASSUME NEW f \in PingAskers' PROVE f \in PingAskers \ {e}
          BY <1>1, <1>2, <2>3, <4>1 DEF PingAskers
        <4>2. ASSUME NEW f \in PingAskers \ {e} PROVE f \in PingAskers'
          BY <1>1, <1>2, <2>3, <4>2 DEF PingAskers
        <4> QED
          BY <2>3, <4>1, <4>2 DEF PingAskers
      <3>2. PongAskers' = PongAskers
        BY <1>1, <1>2, <2>3 DEF PongAskers, AskPlaces, FirstPlaces
      <3>3. Cardinality(PingAskers') = Cardinality(PingAskers) - 1
        BY <3>1, AskersFinite, OneAskerLess
      <3> QED
        BY <2>1, <2>2, <3>2, <3>3
    <2>4. CASE pc[e] = "initPong" /\ place = "storePong"
      <3>1. PongAskers' = PongAskers \ {e} /\ e \in PongAskers
        <4>1. ASSUME NEW f \in PongAskers' PROVE f \in PongAskers \ {e}
          BY <1>1, <1>2, <2>4, <4>1 DEF PongAskers, AskPlaces, FirstPlaces
        <4>2. ASSUME NEW f \in PongAskers \ {e} PROVE f \in PongAskers'
          BY <1>1, <1>2, <2>4, <4>2 DEF PongAskers, AskPlaces, FirstPlaces
        <4> QED
          BY <2>4, <4>1, <4>2 DEF PongAskers, AskPlaces, FirstPlaces
      <3>2. PingAskers' = PingAskers
        BY <1>1, <1>2, <2>4 DEF PingAskers
      <3>3. Cardinality(PongAskers') = Cardinality(PongAskers) - 1
        BY <3>1, AskersFinite, OneAskerLess
      <3> QED
        BY <2>1, <2>2, <3>2, <3>3
    <2> QED
      BY <2>1, <2>2, <2>3, <2>4
  <1>6. IdsLeft'
    <2>1. MutexAskers' = MutexAskers
      BY <1>1, <1>2 DEF MutexAskers
    <2>2. InOrder(mutex_queue, MUTEX_MAX)'
      BY DEF IdsInv, IdsLeft, InOrder
    <2>3. /\ Cardinality(MutexAskers') <= Len(mutex_queue')
          /\ Cardinality(PingAskers') + Cardinality(PongAskers') <= Len(sem_queue')
      <3>1. /\ Cardinality(MutexAskers) <= Len(mutex_queue)
            /\ Cardinality(PingAskers) + Cardinality(PongAskers) <= Len(sem_queue)
        BY DEF IdsInv, IdsLeft
      <3>2. Cardinality(MutexAskers') <= Len(mutex_queue')
        BY <2>1, <3>1
      <3>3. Cardinality(PingAskers') + Cardinality(PongAskers') <= Len(sem_queue')
        BY <1>4, <1>5, <3>1
      <3> QED
        BY <3>2, <3>3
    <2> QED
      BY <1>4, <2>2, <2>3 DEF IdsLeft
  <1>7. IdsKept'
    <2>1. /\ GivenSems \subseteq GivenSems' /\ GivenMutexes' = GivenMutexes
          /\ eax'[e] \in GivenSems'
      BY <1>4 DEF GivenMutexes, GivenSems
    <2>2. \A f \in Shells : pc'[f] = "store" => eax'[f] \in GivenMutexes
      BY <1>1, <1>2 DEF IdsInv, IdsKept
    <2>3. \A f \in Players : pc'[f] \in {"store", "storePong"} => eax'[f] \in GivenSems'
      BY <1>1, <1>2, <2>1 DEF IdsInv, IdsKept
    <2>4. Ping' = Ping /\ Pong' = Pong /\ MutexSlots' = MutexSlots
      BY DEF Ping, Pong, MutexSlots
    <2>5. /\ \A slot \in MutexSlots : ids[slot] = -1 \/ ids[slot] \in GivenMutexes
          /\ \A slot \in {Ping, Pong} : ids[slot] = -1 \/ ids[slot] \in GivenSems'
      BY <2>1 DEF IdsInv, IdsKept
    <2> QED
      BY <1>2, <2>1, <2>2, <2>3, <2>4, <2>5 DEF IdsKept
  <1>8. IdsKnown'
    <2>1. ASSUME NEW f \in Shells, pc'[f] \notin FirstPlaces
          PROVE  pc[f] \notin FirstPlaces
      BY <1>1, <1>2, <2>1
    <2>2. ASSUME NEW f \in Players
          PROVE  /\ pc'[f] \notin FirstPlaces => pc[f] \notin FirstPlaces
                 /\ pc'[f] \notin AskPlaces => pc[f] \notin AskPlaces
      BY <1>1, <1>2 DEF FirstPlaces, AskPlaces
    <2>3. /\ ids' = ids /\ Ping' = Ping /\ Pong' = Pong
          /\ \A f : ShellSlot(f)' = ShellSlot(f)
      BY DEF Ping, Pong, ShellSlot
    <2>4. \A f \in Shells : pc'[f] \notin FirstPlaces => ids[ShellSlot(f)] # -1
      BY <2>1 DEF IdsInv, IdsKnown
    <2>5. \A f \in Players : /\ pc'[f] \notin FirstPlaces => ids[Ping] # -1
                             /\ pc'[f] \notin AskPlaces => ids[Pong] # -1
      BY <2>2 DEF IdsInv, IdsKnown
    <2> QED
      BY <1>2, <2>3, <2>4, <2>5 DEF IdsKnown, FirstPlaces, AskPlaces
  <1>9. LiveUntilGone'
    BY <1>1 DEF IdsInv, LiveUntilGone
  <1>10. OnlyPingServes'
    BY <1>1 DEF IdsInv, OnlyPingServes
  <1> QED
    BY <1>3, <1>6, <1>7, <1>8, <1>9, <1>10 DEF IdsInv

-----------------------------------------------------------------------------
(***************************************************************************)
(* The steps of the programs, races or not.                                *)
(***************************************************************************)

LEMMA IdsUsed ==
    ASSUME IdsInv
    PROVE  /\ \A e \in Shells : pc[e] \notin FirstPlaces => ids[ShellSlot(e)] \in Mutexes
           /\ \A e \in Players : pc[e] \notin AskPlaces =>
                  ids[Own(e)] \in Semaphores /\ ids[Others(e)] \in Semaphores
  <1>1. Shells \subseteq Entries
    BY DEF Shells
  <1>2. GivenMutexes \subseteq Mutexes /\ GivenSems \subseteq Semaphores
    BY GivenFacts DEF IdsInv
  <1>3. \A e \in Shells : pc[e] \notin FirstPlaces => ids[ShellSlot(e)] \in Mutexes
    BY <1>1, <1>2, SlotFacts DEF IdsInv, IdsKept, IdsKnown
  <1>4. \A e \in Players : pc[e] \notin AskPlaces =>
            ids[Ping] \in Semaphores /\ ids[Pong] \in Semaphores
    BY <1>2 DEF IdsInv, IdsKept, IdsKnown, AskPlaces
  <1>5. \A e \in Players : pc[e] \notin AskPlaces =>
            ids[Own(e)] \in Semaphores /\ ids[Others(e)] \in Semaphores
    BY <1>4, SlotFacts
  <1> QED
    BY <1>3, <1>5

\* The active program is one of Programs and stands at one of its places.
LEMMA AtFacts ==
    ASSUME IdsInv, NEW kinds, NEW places, At(kinds, places)
    PROVE  /\ active_proc \in Entries /\ active_proc \in Entries \ {0} /\ IsLive(active_proc)
           /\ InUserProcess /\ KInv /\ status = "running"
           /\ program[active_proc] \in kinds /\ pc[active_proc] \in places
           /\ (kinds = {"shell"} => active_proc \in Shells /\ active_proc \notin Players)
           /\ (kinds = {"ping", "pong"} => active_proc \in Players /\ active_proc \notin Shells)
  <1>1. active_proc \in Entries \ {0} /\ IsLive(active_proc) /\ status = "running"
    BY InUserFacts DEF At, IdsInv
  <1> QED
    BY <1>1 DEF At, IdsInv, pid, Shells, Players

\* A program between its system calls: it has its ids, and keeps them.
LEMMA ProgramCalls ==
    ASSUME IdsInv, IsLive(active_proc), active_proc \in Entries, NEW E, GoesOn(E),
           NEW place \in Places \ AskPlaces,
           E = Entries \/ (E = Entries \ {active_proc} /\ place = "gone"),
           pc' = [pc EXCEPT ![active_proc] = place],
           program' = program, ids' = ids, races' = races, input_len' \in [Entries -> Nat],
           mutex_queue' = mutex_queue, sem_queue' = sem_queue,
           pc[active_proc] \notin AskPlaces, place # "serve"
    PROVE  IdsInv'
  <1>1. KInv' /\ EndsWell'
    BY DEF GoesOn, EndsWell
  <1>2. \A f \in Entries \ {active_proc} : eax'[f] = eax[f]
    BY DEF GoesOn
  <1>3. \A f \in Entries : (f # active_proc \/ place # "gone") /\ IsLive(f) => IsLive(f)'
    BY DEF GoesOn
  <1>4. /\ active_proc \in Shells => ids[ShellSlot(active_proc)] # -1
        /\ active_proc \in Players => ids[Ping] # -1 /\ ids[Pong] # -1
    BY DEF IdsInv, IdsKnown, AskPlaces
  <1>5. /\ place \notin {"store", "storePong"} /\ place \notin {"test", "init"}
        /\ place \notin AskPlaces /\ place \in Places /\ races' \in Nat
        /\ place = "serve" => program[active_proc] = "ping"
    BY DEF AskPlaces, FirstPlaces, IdsInv, ProgramTypes
  <1> QED
    BY <1>1, <1>2, <1>3, <1>4, <1>5, ProgramGoesOn

LEMMA StaysGoesOn ==
    ASSUME AllStays, status' = "running"
    PROVE  GoesOn(Entries) /\ mutex_queue' = mutex_queue /\ sem_queue' = sem_queue
  BY DEF AllStays, GoesOn, MutexesStay, SemsStay

\* A line that comes in, and perhaps fills the buffer.
LEMMA ReadStep ==
    ASSUME IdsInv, ShellRead
    PROVE  /\ AllStays
           /\ \E len \in Nat : /\ input_len' = [input_len EXCEPT ![active_proc] = len]
                               /\ \/ status' = "running"
                                  \/ status' = "undefined" /\ len > INPUT_SIZE
  <1>1. /\ InUserProcess /\ status = "running" /\ KInv
        /\ active_proc \in Entries /\ input_len[active_proc] \in Nat
    <2>1. At({"shell"}, {"read"})
      BY DEF ShellRead
    <2> QED
      BY <2>1, AtFacts DEF IdsInv, ProgramTypes
  <1>2. PICK n \in 0 .. 1 :
           /\ input_len' = [input_len EXCEPT ![active_proc] = input_len[active_proc] + n]
           /\ Commit(IF input_len[active_proc] + n > INPUT_SIZE THEN Undefined(Ctx) ELSE Ctx)
    BY DEF ShellRead, pid
  <1>3. UNCHANGED <<mutexVars, semVars, eax>>
    BY DEF ShellRead
  <1>4. CASE input_len[active_proc] + n > INPUT_SIZE
    <2>1. AllStays /\ status' = "undefined"
      BY <1>1, <1>2, <1>3, <1>4, OverrunStep
    <2>2. input_len[active_proc] + n \in Nat
      BY <1>1, <1>2
    <2> QED
      BY <1>2, <1>4, <2>1, <2>2
  <1>5. CASE ~(input_len[active_proc] + n > INPUT_SIZE)
    <2>1. Commit(Ctx)
      BY <1>2, <1>5
    <2>2. UNCHANGED kvars
      BY <1>3, <2>1 DEF Commit, Ctx, kvars, vars
    <2>3. AllStays /\ status' = status
      BY <1>1, <2>2, QuietStep
    <2>4. input_len[active_proc] + n \in Nat
      BY <1>1, <1>2
    <2> QED
      BY <1>1, <1>2, <2>3, <2>4
  <1> QED
    BY <1>4, <1>5

LEMMA ShellsKeepIds ==
    ASSUME IdsInv, ShellStep
    PROVE  IdsInv'
  <1>1. KInv /\ input_len \in [Entries -> Nat] /\ INPUT_SIZE \in Nat
    BY ProgramsAssumption DEF IdsInv, ProgramTypes
  <1>2. ASSUME NEW place \in Places, program' = program, ids' = ids, races' = races,
               At({"shell"}, Places \ AskPlaces), GoesOn(Entries), Goto(place),
               mutex_queue' = mutex_queue, sem_queue' = sem_queue,
               place \notin AskPlaces, place \notin {"serve", "gone"},
               \/ input_len' = input_len
               \/ input_len' = [input_len EXCEPT ![active_proc] = 0]
        PROVE  IdsInv'
    <2>1. /\ IsLive(active_proc) /\ active_proc \in Entries /\ Entries = Entries
          /\ pc[active_proc] \notin AskPlaces
      BY <1>2, AtFacts
    <2>2. /\ input_len' \in [Entries -> Nat] /\ place \in Places \ AskPlaces /\ place # "serve"
          /\ pc' = [pc EXCEPT ![active_proc] = place]
      BY <1>1, <1>2 DEF Goto, pid
    <2> QED
      BY <1>2, <2>1, <2>2, ProgramCalls
  <1>3. CASE ShellTest
    <2> DEFINE place == IF ids[ShellSlot(active_proc)] < 0 THEN "init" ELSE "nap"
    <2>1. /\ At({"shell"}, {"test"}) /\ InUser /\ Goto(place)
          /\ races' = races + Races(ShellSlot(active_proc))
          /\ program' = program /\ input_len' = input_len /\ ids' = ids
      BY <1>3 DEF ShellTest, TestSlot, pid
    <2>2. /\ active_proc \in Entries /\ IsLive(active_proc) /\ status = "running"
          /\ pc[active_proc] = "test" /\ active_proc \in Shells /\ active_proc \notin Players
      BY <2>1, AtFacts
    <2>3. AllStays /\ status' = status
      BY <1>1, <2>1, QuietStep DEF InUser
    <2>4. GoesOn(Entries) /\ mutex_queue' = mutex_queue /\ sem_queue' = sem_queue
      BY <2>2, <2>3, StaysGoesOn
    <2>5. /\ KInv' /\ EndsWell' /\ \A f \in Entries \ {active_proc} : eax'[f] = eax[f]
          /\ \A f \in Entries : (f # active_proc \/ place # "gone") /\ IsLive(f) => IsLive(f)'
      BY <2>4 DEF GoesOn, EndsWell
    <2>6. /\ place \in Places /\ place \notin {"store", "storePong"}
          /\ place = "serve" => program[active_proc] = "ping"
          /\ place \in {"test", "init"} => pc[active_proc] \in {"test", "init"}
          /\ place \in AskPlaces => pc[active_proc] \in AskPlaces \ {"storePong"}
          /\ pc' = [pc EXCEPT ![active_proc] = place]
      BY <2>1, <2>2 DEF Places, AskPlaces, FirstPlaces, Goto, pid
    <2>7. /\ active_proc \in Shells /\ place \notin FirstPlaces =>
                ids[ShellSlot(active_proc)] # -1
          /\ active_proc \in Players /\ place \notin FirstPlaces => ids[Ping] # -1
          /\ active_proc \in Players /\ place \notin AskPlaces => ids[Pong] # -1
      BY <2>2 DEF FirstPlaces
    <2>8. races' \in Nat
      BY <2>1 DEF Races, IdsInv, ProgramTypes
    <2> HIDE DEF place
    <2> QED
      BY <1>1, <2>1, <2>2, <2>4, <2>5, <2>6, <2>7, <2>8, ProgramGoesOn
  <1>4. CASE ShellInit
    <2>1. /\ At({"shell"}, {"init"}) /\ CallMutexInit /\ Goto("store")
          /\ UNCHANGED <<program, input_len, ids, races>>
      BY <1>4 DEF ShellInit, Quietly
    <2>2. active_proc \in Shells /\ active_proc \in Entries /\ pc[active_proc] = "init"
      BY <2>1, AtFacts
    <2>3. mutex_queue # <<>>
      <3>1. active_proc \in MutexAskers /\ MutexAskers \in SUBSET Entries
        BY <2>2, AskersFinite DEF MutexAskers
      <3>2. Cardinality(MutexAskers) \in Nat \ {0}
        BY <3>1, OneAskerLess
      <3>3. Cardinality(MutexAskers) <= Len(mutex_queue)
        BY DEF IdsInv, IdsLeft
      <3> QED
        BY <3>2, <3>3
    <2>4. /\ GoesOn(Entries) /\ mutex_queue' = Tail(mutex_queue) /\ SemsStay
          /\ eax'[active_proc] = Head(mutex_queue)
      BY <1>1, <2>1, <2>3, MutexInitStep
    <2>5. /\ KInv' /\ EndsWell' /\ \A f \in Entries \ {active_proc} : eax'[f] = eax[f]
          /\ \A f \in Entries : IsLive(f) => IsLive(f)'
          /\ sem_queue' = sem_queue
      BY <2>4 DEF GoesOn, EndsWell, SemsStay
    <2>6. pc' = [pc EXCEPT ![active_proc] = "store"]
      BY <2>1 DEF Goto, pid
    <2> QED
      BY <2>1, <2>2, <2>3, <2>4, <2>5, <2>6, MutexIsGiven
  <1>5. CASE ShellStore
    <2>1. /\ At({"shell"}, {"store"}) /\ InUser /\ Goto("nap")
          /\ ids' = [ids EXCEPT ![ShellSlot(active_proc)] = eax[active_proc]]
          /\ UNCHANGED <<program, input_len, races>>
      BY <1>5 DEF ShellStore, StoreSlot, pid
    <2>2. /\ active_proc \in Shells /\ active_proc \in Entries /\ pc[active_proc] = "store"
          /\ status = "running" /\ ShellSlot(active_proc) \in Slots
      BY <2>1, AtFacts, SlotFacts
    <2>3. AllStays /\ status' = status
      BY <1>1, <2>1, QuietStep DEF InUser
    <2>4. /\ EndsWell' /\ "nap" \in Places /\ "nap" \notin AskPlaces
          /\ pc' = [pc EXCEPT ![active_proc] = "nap"]
      BY <2>1, <2>2, <2>3 DEF EndsWell, Places, AskPlaces, FirstPlaces, Goto, pid
    <2> QED
      BY <2>1, <2>2, <2>3, <2>4, ProgramStores
  <1>6. CASE ShellSleep
    <2>1. PICK seconds \in SLEEP_SECONDS : CallSleep(seconds)
      BY <1>6 DEF ShellSleep
    <2>2. /\ At({"shell"}, {"nap"}) /\ Goto("lock")
          /\ program' = program /\ ids' = ids /\ races' = races
          /\ input_len' = [input_len EXCEPT ![active_proc] = 0]
      BY <1>6 DEF ShellSleep, Quietly, pid
    <2>3. GoesOn(Entries) /\ mutex_queue' = mutex_queue /\ sem_queue' = sem_queue
      BY <1>1, <2>1, SleepStep DEF MutexesStay, SemsStay
    <2>4. /\ At({"shell"}, Places \ AskPlaces) /\ "lock" \in Places
          /\ "lock" \notin AskPlaces /\ "lock" \notin {"serve", "gone"}
      BY <2>2 DEF At, Places, AskPlaces, FirstPlaces
    <2> QED
      BY <1>2, <2>2, <2>3, <2>4
  <1>7. CASE ShellLock
    <2>1. /\ At({"shell"}, {"lock"}) /\ CallMutexLock(ids[ShellSlot(active_proc)])
          /\ Goto("read") /\ program' = program /\ ids' = ids /\ races' = races
          /\ input_len' = input_len
      BY <1>7 DEF ShellLock, Quietly, pid
    <2>2. active_proc \in Shells /\ pc[active_proc] \in {"lock"}
      BY <2>1, AtFacts
    <2>3. ids[ShellSlot(active_proc)] \in Mutexes
      BY <2>2, IdsUsed DEF FirstPlaces
    <2>4. GoesOn(Entries) /\ mutex_queue' = mutex_queue /\ sem_queue' = sem_queue
      BY <1>1, <2>1, <2>3, LockStep DEF SemsStay
    <2>5. /\ At({"shell"}, Places \ AskPlaces) /\ "read" \in Places
          /\ "read" \notin AskPlaces /\ "read" \notin {"serve", "gone"}
      BY <2>1 DEF At, Places, AskPlaces, FirstPlaces
    <2> QED
      BY <1>2, <2>1, <2>4, <2>5
  <1>8. CASE ShellRead
    <2>1. /\ AllStays
          /\ \E len \in Nat : /\ input_len' = [input_len EXCEPT ![active_proc] = len]
                              /\ \/ status' = "running"
                                 \/ status' = "undefined" /\ len > INPUT_SIZE
      BY <1>8, ReadStep
    <2>2. PICK place \in {"unlock", "unlockEnd"} : Goto(place)
      BY <1>8 DEF ShellRead
    <2>3. PICK len \in Nat : /\ input_len' = [input_len EXCEPT ![active_proc] = len]
                             /\ \/ status' = "running"
                                \/ status' = "undefined" /\ len > INPUT_SIZE
      BY <2>1
    <2>4. At({"shell"}, {"read"}) /\ program' = program /\ ids' = ids /\ races' = races
      BY <1>8 DEF ShellRead
    <2>5. /\ active_proc \in Shells /\ active_proc \in Entries /\ IsLive(active_proc)
          /\ pc[active_proc] = "read" /\ active_proc \notin Players
      BY <2>4, AtFacts
    <2>6. EndsWell' /\ input_len' \in [Entries -> Nat]
      <3>1. input_len'[active_proc] = len /\ input_len' \in [Entries -> Nat]
        BY <1>1, <2>3, <2>5
      <3>2. active_proc \in Shells'
        BY <2>4, <2>5 DEF Shells
      <3> QED
        BY <1>1, <2>3, <3>1, <3>2 DEF EndsWell
    <2>7. /\ KInv' /\ \A f \in Entries \ {active_proc} : eax'[f] = eax[f]
          /\ \A f \in Entries : (f # active_proc \/ place # "gone") /\ IsLive(f) => IsLive(f)'
          /\ mutex_queue' = mutex_queue /\ sem_queue' = sem_queue /\ races' \in Nat
      BY <2>1, <2>4 DEF AllStays, MutexesStay, SemsStay, IdsInv, ProgramTypes
    <2>8. /\ place \in Places /\ place \notin {"store", "storePong"}
          /\ place = "serve" => program[active_proc] = "ping"
          /\ place \in {"test", "init"} => pc[active_proc] \in {"test", "init"}
          /\ place \in AskPlaces => pc[active_proc] \in AskPlaces \ {"storePong"}
          /\ pc' = [pc EXCEPT ![active_proc] = place]
      BY <2>2 DEF Places, AskPlaces, FirstPlaces, Goto, pid
    <2>9. /\ active_proc \in Shells /\ place \notin FirstPlaces =>
                ids[ShellSlot(active_proc)] # -1
          /\ active_proc \in Players /\ place \notin FirstPlaces => ids[Ping] # -1
          /\ active_proc \in Players /\ place \notin AskPlaces => ids[Pong] # -1
      BY <2>5 DEF IdsInv, IdsKnown, FirstPlaces
    <2> QED
      BY <2>4, <2>5, <2>6, <2>7, <2>8, <2>9, ProgramGoesOn
  <1>9. CASE ShellUnlock
    <2> DEFINE place == IF pc[active_proc] = "unlock" THEN "lock" ELSE "command"
    <2>1. /\ At({"shell"}, {"unlock", "unlockEnd"}) /\ CallMutexUnlock(ids[ShellSlot(active_proc)])
          /\ Goto(place) /\ program' = program /\ ids' = ids /\ races' = races
          /\ input_len' = input_len
      BY <1>9 DEF ShellUnlock, Quietly, pid
    <2>2. active_proc \in Shells /\ pc[active_proc] \in {"unlock", "unlockEnd"}
      BY <2>1, AtFacts
    <2>3. ids[ShellSlot(active_proc)] \in Mutexes
      BY <2>2, IdsUsed DEF FirstPlaces
    <2>4. GoesOn(Entries) /\ mutex_queue' = mutex_queue /\ sem_queue' = sem_queue
      BY <1>1, <2>1, <2>3, UnlockGoesOn DEF SemsStay
    <2>5. /\ At({"shell"}, Places \ AskPlaces) /\ place \in Places
          /\ place \notin AskPlaces /\ place \notin {"serve", "gone"}
      BY <2>1 DEF At, Places, AskPlaces, FirstPlaces
    <2> HIDE DEF place
    <2> QED
      BY <1>2, <2>1, <2>4, <2>5
  <1>10. CASE ShellCommand
    <2>1. PICK place \in {"nap", "exit", "cmdLock"} : Goto(place)
      BY <1>10 DEF ShellCommand
    <2>2. /\ At({"shell"}, {"command"}) /\ InUser
          /\ program' = program /\ ids' = ids /\ races' = races /\ input_len' = input_len
      BY <1>10 DEF ShellCommand, Quietly
    <2>3. GoesOn(Entries) /\ mutex_queue' = mutex_queue /\ sem_queue' = sem_queue
      <3>1. status = "running"
        BY <2>2, AtFacts
      <3>2. AllStays /\ status' = status
        BY <1>1, <2>2, QuietStep DEF InUser
      <3> QED
        BY <3>1, <3>2, StaysGoesOn
    <2>4. /\ At({"shell"}, Places \ AskPlaces) /\ place \in Places
          /\ place \notin AskPlaces /\ place \notin {"serve", "gone"}
      BY <2>2, <2>1 DEF At, Places, AskPlaces, FirstPlaces
    <2> QED
      BY <1>2, <2>1, <2>2, <2>3, <2>4
  <1>11. CASE ShellPrint
    <2>1. /\ At({"shell"}, {"command"})
          /\ program' = program /\ ids' = ids /\ races' = races
      BY <1>11 DEF ShellPrint
    <2>2. /\ active_proc \in Shells /\ active_proc \in Entries /\ InUserProcess
          /\ status = "running"
      BY <2>1, AtFacts
    <2>3. CASE /\ InUser /\ Goto("lock")
               /\ input_len' = [input_len EXCEPT ![active_proc] = 0]
      <3>1. AllStays /\ status' = status
        BY <1>1, <2>3, QuietStep DEF InUser
      <3>2. GoesOn(Entries) /\ mutex_queue' = mutex_queue /\ sem_queue' = sem_queue
        BY <2>2, <3>1, StaysGoesOn
      <3>3. /\ At({"shell"}, Places \ AskPlaces) /\ "lock" \in Places
            /\ "lock" \notin AskPlaces /\ "lock" \notin {"serve", "gone"}
        BY <2>1 DEF At, Places, AskPlaces, FirstPlaces
      <3> QED
        BY <1>2, <2>1, <2>3, <3>2, <3>3
    <2>4. CASE /\ input_len[active_proc] = INPUT_SIZE /\ Commit(Undefined(Ctx))
               /\ UNCHANGED <<mutexVars, semVars, eax, pc, input_len>>
      <3>1. AllStays /\ status' = "undefined"
        BY <1>1, <2>2, <2>4, OverrunStep
      <3>2. UNCHANGED progVars
        BY <2>1, <2>4 DEF progVars
      <3>3. active_proc \in Shells' /\ input_len'[active_proc] >= INPUT_SIZE
        BY <1>1, <2>1, <2>2, <2>4 DEF Shells
      <3>4. EndsWell'
        BY <3>1, <3>3 DEF EndsWell
      <3> QED
        BY <3>1, <3>2, <3>4, ProgramsStay
    <2> QED
      BY <1>11, <2>3, <2>4 DEF ShellPrint, pid
  <1>12. CASE ShellExit
    <2>1. /\ At({"shell"}, {"exit"}) /\ CallExit /\ Goto("gone")
          /\ program' = program /\ ids' = ids /\ races' = races /\ input_len' = input_len
      BY <1>12 DEF ShellExit, Quietly
    <2>2. active_proc \in Entries /\ IsLive(active_proc) /\ pc[active_proc] = "exit"
      BY <2>1, AtFacts
    <2>3. /\ GoesOn(Entries \ {active_proc})
          /\ mutex_queue' = mutex_queue /\ sem_queue' = sem_queue
      BY <1>1, <2>1, ExitStep DEF MutexesStay, SemsStay
    <2>4. /\ pc[active_proc] \notin AskPlaces /\ "gone" # "serve"
          /\ "gone" \in Places \ AskPlaces /\ pc' = [pc EXCEPT ![active_proc] = "gone"]
          /\ \/ Entries \ {active_proc} = Entries
             \/ Entries \ {active_proc} = Entries \ {active_proc} /\ "gone" = "gone"
          /\ input_len' \in [Entries -> Nat]
      BY <1>1, <2>1, <2>2 DEF Places, AskPlaces, FirstPlaces, Goto, pid
    <2> QED
      BY <2>1, <2>2, <2>3, <2>4, ProgramCalls
  <1>13. CASE CommandLock
    <2>1. /\ At({"shell"}, {"cmdLock"}) /\ CallMutexLock(ids[ShellSlot(active_proc)])
          /\ Goto("cmdNap") /\ program' = program /\ ids' = ids /\ races' = races
          /\ input_len' = input_len
      BY <1>13 DEF CommandLock, Quietly, pid
    <2>2. active_proc \in Shells /\ pc[active_proc] \in {"cmdLock"}
      BY <2>1, AtFacts
    <2>3. ids[ShellSlot(active_proc)] \in Mutexes
      BY <2>2, IdsUsed DEF FirstPlaces
    <2>4. GoesOn(Entries) /\ mutex_queue' = mutex_queue /\ sem_queue' = sem_queue
      BY <1>1, <2>1, <2>3, LockStep DEF SemsStay
    <2>5. /\ At({"shell"}, Places \ AskPlaces) /\ "cmdNap" \in Places
          /\ "cmdNap" \notin AskPlaces /\ "cmdNap" \notin {"serve", "gone"}
      BY <2>1 DEF At, Places, AskPlaces, FirstPlaces
    <2> QED
      BY <1>2, <2>1, <2>4, <2>5
  <1>14. CASE CommandSleep
    <2>1. PICK seconds \in SLEEP_SECONDS : CallSleep(seconds)
      BY <1>14 DEF CommandSleep
    <2>2. /\ At({"shell"}, {"cmdNap"}) /\ Goto("cmdUnlock")
          /\ program' = program /\ ids' = ids /\ races' = races
          /\ input_len' = input_len
      BY <1>14 DEF CommandSleep, Quietly, pid
    <2>3. GoesOn(Entries) /\ mutex_queue' = mutex_queue /\ sem_queue' = sem_queue
      BY <1>1, <2>1, SleepStep DEF MutexesStay, SemsStay
    <2>4. /\ At({"shell"}, Places \ AskPlaces) /\ "cmdUnlock" \in Places
          /\ "cmdUnlock" \notin AskPlaces /\ "cmdUnlock" \notin {"serve", "gone"}
      BY <2>2 DEF At, Places, AskPlaces, FirstPlaces
    <2> QED
      BY <1>2, <2>2, <2>3, <2>4
  <1>15. CASE CommandUnlock
    <2>1. /\ At({"shell"}, {"cmdUnlock"}) /\ CallMutexUnlock(ids[ShellSlot(active_proc)])
          /\ Goto("lock") /\ program' = program /\ ids' = ids /\ races' = races
          /\ input_len' = [input_len EXCEPT ![active_proc] = 0]
      BY <1>15 DEF CommandUnlock, Quietly, pid
    <2>2. active_proc \in Shells /\ pc[active_proc] \in {"cmdUnlock"}
      BY <2>1, AtFacts
    <2>3. ids[ShellSlot(active_proc)] \in Mutexes
      BY <2>2, IdsUsed DEF FirstPlaces
    <2>4. GoesOn(Entries) /\ mutex_queue' = mutex_queue /\ sem_queue' = sem_queue
      BY <1>1, <2>1, <2>3, UnlockGoesOn DEF SemsStay
    <2>5. /\ At({"shell"}, Places \ AskPlaces) /\ "lock" \in Places
          /\ "lock" \notin AskPlaces /\ "lock" \notin {"serve", "gone"}
      BY <2>1 DEF At, Places, AskPlaces, FirstPlaces
    <2> QED
      BY <1>2, <2>1, <2>4, <2>5
  <1> QED
    BY <1>3, <1>4, <1>5, <1>6, <1>7, <1>8, <1>9, <1>10, <1>11, <1>12, <1>13, <1>14, <1>15
       DEF ShellStep

LEMMA PlayersKeepIds ==
    ASSUME IdsInv, PlayerStep
    PROVE  IdsInv'
  <1>1. KInv /\ input_len \in [Entries -> Nat]
    BY DEF IdsInv, ProgramTypes
  <1>2. ASSUME NEW place \in Places, program' = program, ids' = ids, races' = races,
               At({"ping", "pong"}, Places \ AskPlaces), GoesOn(Entries), Goto(place),
               mutex_queue' = mutex_queue, sem_queue' = sem_queue,
               place \notin AskPlaces, place \notin {"serve", "gone"},
               input_len' = input_len
        PROVE  IdsInv'
    <2>1. /\ IsLive(active_proc) /\ active_proc \in Entries /\ Entries = Entries
          /\ pc[active_proc] \notin AskPlaces
      BY <1>2, AtFacts
    <2>2. /\ input_len' \in [Entries -> Nat] /\ place \in Places \ AskPlaces /\ place # "serve"
          /\ pc' = [pc EXCEPT ![active_proc] = place]
      BY <1>1, <1>2 DEF Goto, pid
    <2> QED
      BY <1>2, <2>1, <2>2, ProgramCalls
  <1>3. CASE PlayerTest
    <2> DEFINE place == IF ids[Ping] < 0 THEN "init" ELSE "testPong"
    <2>1. /\ At({"ping", "pong"}, {"test"}) /\ InUser /\ Goto(place)
          /\ races' = races + Races(Ping)
          /\ program' = program /\ input_len' = input_len /\ ids' = ids
      BY <1>3 DEF PlayerTest, TestSlot, PlayerBegins, pid
    <2>2. /\ active_proc \in Entries /\ IsLive(active_proc) /\ status = "running"
          /\ pc[active_proc] = "test" /\ active_proc \in Players /\ active_proc \notin Shells
      BY <2>1, AtFacts
    <2>3. AllStays /\ status' = status
      BY <1>1, <2>1, QuietStep DEF InUser
    <2>4. GoesOn(Entries) /\ mutex_queue' = mutex_queue /\ sem_queue' = sem_queue
      BY <2>2, <2>3, StaysGoesOn
    <2>5. /\ KInv' /\ EndsWell' /\ \A f \in Entries \ {active_proc} : eax'[f] = eax[f]
          /\ \A f \in Entries : (f # active_proc \/ place # "gone") /\ IsLive(f) => IsLive(f)'
      BY <2>4 DEF GoesOn, EndsWell
    <2>6. /\ place \in Places /\ place \notin {"store", "storePong"}
          /\ place = "serve" => program[active_proc] = "ping"
          /\ place \in {"test", "init"} => pc[active_proc] \in {"test", "init"}
          /\ place \in AskPlaces => pc[active_proc] \in AskPlaces \ {"storePong"}
          /\ pc' = [pc EXCEPT ![active_proc] = place]
      BY <2>1, <2>2 DEF Places, AskPlaces, FirstPlaces, Goto, pid
    <2>7. /\ active_proc \in Shells /\ place \notin FirstPlaces =>
                ids[ShellSlot(active_proc)] # -1
          /\ active_proc \in Players /\ place \notin FirstPlaces => ids[Ping] # -1
          /\ active_proc \in Players /\ place \notin AskPlaces => ids[Pong] # -1
      BY <2>2 DEF FirstPlaces, AskPlaces
    <2>8. races' \in Nat
      BY <2>1 DEF Races, IdsInv, ProgramTypes
    <2> HIDE DEF place
    <2> QED
      BY <1>1, <2>1, <2>2, <2>4, <2>5, <2>6, <2>7, <2>8, ProgramGoesOn
  <1>4. CASE PlayerTestPong
    <2> DEFINE place == IF ids[Pong] < 0 THEN "initPong" ELSE IF program[active_proc] = "ping" THEN "serve" ELSE "wait"
    <2>1. /\ At({"ping", "pong"}, {"testPong"}) /\ InUser /\ Goto(place)
          /\ races' = races + Races(Pong)
          /\ program' = program /\ input_len' = input_len /\ ids' = ids
      BY <1>4 DEF PlayerTestPong, TestSlot, PlayerBegins, pid
    <2>2. /\ active_proc \in Entries /\ IsLive(active_proc) /\ status = "running"
          /\ pc[active_proc] = "testPong" /\ active_proc \in Players /\ active_proc \notin Shells
      BY <2>1, AtFacts
    <2>3. AllStays /\ status' = status
      BY <1>1, <2>1, QuietStep DEF InUser
    <2>4. GoesOn(Entries) /\ mutex_queue' = mutex_queue /\ sem_queue' = sem_queue
      BY <2>2, <2>3, StaysGoesOn
    <2>5. /\ KInv' /\ EndsWell' /\ \A f \in Entries \ {active_proc} : eax'[f] = eax[f]
          /\ \A f \in Entries : (f # active_proc \/ place # "gone") /\ IsLive(f) => IsLive(f)'
      BY <2>4 DEF GoesOn, EndsWell
    <2>6. /\ place \in Places /\ place \notin {"store", "storePong"}
          /\ place = "serve" => program[active_proc] = "ping"
          /\ place \in {"test", "init"} => pc[active_proc] \in {"test", "init"}
          /\ place \in AskPlaces => pc[active_proc] \in AskPlaces \ {"storePong"}
          /\ pc' = [pc EXCEPT ![active_proc] = place]
      BY <2>1, <2>2 DEF Places, AskPlaces, FirstPlaces, Goto, pid
    <2>7. /\ active_proc \in Shells /\ place \notin FirstPlaces =>
                ids[ShellSlot(active_proc)] # -1
          /\ active_proc \in Players /\ place \notin FirstPlaces => ids[Ping] # -1
          /\ active_proc \in Players /\ place \notin AskPlaces => ids[Pong] # -1
      BY <2>2 DEF FirstPlaces, AskPlaces, IdsInv, IdsKnown
    <2>8. races' \in Nat
      BY <2>1 DEF Races, IdsInv, ProgramTypes
    <2> HIDE DEF place
    <2> QED
      BY <1>1, <2>1, <2>2, <2>4, <2>5, <2>6, <2>7, <2>8, ProgramGoesOn
  <1>5. CASE PlayerInit
    <2> DEFINE place == IF pc[active_proc] = "init" THEN "store" ELSE "storePong"
    <2>1. /\ At({"ping", "pong"}, {"init", "initPong"}) /\ CallSemInit /\ Goto(place)
          /\ UNCHANGED <<program, input_len, ids, races>>
      BY <1>5 DEF PlayerInit, Quietly, pid
    <2>2. /\ active_proc \in Players /\ active_proc \in Entries
          /\ pc[active_proc] \in {"init", "initPong"}
      BY <2>1, AtFacts
    <2>3. sem_queue # <<>>
      <3>1. /\ PingAskers \in SUBSET Entries /\ PongAskers \in SUBSET Entries
            /\ Cardinality(PingAskers) \in Nat
            /\ active_proc \in PongAskers
        BY <2>2, AskersFinite DEF PongAskers, AskPlaces, FirstPlaces
      <3>2. Cardinality(PongAskers) \in Nat \ {0}
        BY <3>1, OneAskerLess
      <3>3. Cardinality(PingAskers) + Cardinality(PongAskers) <= Len(sem_queue)
        BY DEF IdsInv, IdsLeft
      <3>4. Len(sem_queue) # 0
        BY <3>1, <3>2, <3>3, GivenFacts DEF IdsInv
      <3> QED
        BY <3>4
    <2>4. /\ GoesOn(Entries) /\ sem_queue' = Tail(sem_queue) /\ MutexesStay
          /\ eax'[active_proc] = Head(sem_queue)
      BY <1>1, <2>1, <2>3, SemInitStep
    <2>5. /\ KInv' /\ EndsWell' /\ \A f \in Entries \ {active_proc} : eax'[f] = eax[f]
          /\ \A f \in Entries : IsLive(f) => IsLive(f)'
          /\ mutex_queue' = mutex_queue
      BY <2>4 DEF GoesOn, EndsWell, MutexesStay
    <2>6. /\ pc' = [pc EXCEPT ![active_proc] = place]
          /\ \/ pc[active_proc] = "init" /\ place = "store"
             \/ pc[active_proc] = "initPong" /\ place = "storePong"
      BY <2>1, <2>2 DEF Goto, pid
    <2> HIDE DEF place
    <2> QED
      BY <2>1, <2>2, <2>3, <2>4, <2>5, <2>6, SemIsGiven
  <1>6. CASE PlayerStore
    <2>1. /\ At({"ping", "pong"}, {"store"}) /\ InUser /\ Goto("testPong")
          /\ ids' = [ids EXCEPT ![Ping] = eax[active_proc]]
          /\ UNCHANGED <<program, input_len, races>>
      BY <1>6 DEF PlayerStore, StoreSlot, PlayerBegins, pid
    <2>2. /\ active_proc \in Players /\ active_proc \in Entries /\ pc[active_proc] = "store"
          /\ status = "running" /\ Ping \in Slots /\ program[active_proc] \in {"ping", "pong"}
      BY <2>1, AtFacts, SlotFacts
    <2>3. AllStays /\ status' = status
      BY <1>1, <2>1, QuietStep DEF InUser
    <2>4. /\ EndsWell' /\ "testPong" \in Places
          /\ "testPong" = "serve" => program[active_proc] = "ping"
          /\ pc' = [pc EXCEPT ![active_proc] = "testPong"]
      BY <2>1, <2>2, <2>3 DEF EndsWell, Places, AskPlaces, FirstPlaces, Goto, pid
    <2> QED
      BY <2>1, <2>2, <2>3, <2>4, ProgramStores
  <1>7. CASE PlayerStorePong
    <2> DEFINE place == IF program[active_proc] = "ping" THEN "serve" ELSE "wait"
    <2>1. /\ At({"ping", "pong"}, {"storePong"}) /\ InUser /\ Goto(place)
          /\ ids' = [ids EXCEPT ![Pong] = eax[active_proc]]
          /\ UNCHANGED <<program, input_len, races>>
      BY <1>7 DEF PlayerStorePong, StoreSlot, PlayerBegins, pid
    <2>2. /\ active_proc \in Players /\ active_proc \in Entries /\ pc[active_proc] = "storePong"
          /\ status = "running" /\ Pong \in Slots /\ program[active_proc] \in {"ping", "pong"}
      BY <2>1, AtFacts, SlotFacts
    <2>3. AllStays /\ status' = status
      BY <1>1, <2>1, QuietStep DEF InUser
    <2>4. /\ EndsWell' /\ place \in Places
          /\ place = "serve" => program[active_proc] = "ping"
          /\ pc' = [pc EXCEPT ![active_proc] = place]
      BY <2>1, <2>2, <2>3 DEF EndsWell, Places, AskPlaces, FirstPlaces, Goto, pid
    <2>5. place \notin AskPlaces
      BY DEF AskPlaces, FirstPlaces
    <2> HIDE DEF place
    <2> QED
      BY <2>1, <2>2, <2>3, <2>4, <2>5, ProgramStores
  <1>8. CASE PlayerWait
    <2>1. /\ At({"ping", "pong"}, {"wait"}) /\ CallSemWait(ids[Own(active_proc)]) /\ Goto("sleep")
          /\ program' = program /\ ids' = ids /\ races' = races /\ input_len' = input_len
      BY <1>8 DEF PlayerWait, Quietly, pid
    <2>2. active_proc \in Players /\ pc[active_proc] \in {"wait"}
      BY <2>1, AtFacts
    <2>3. ids[Own(active_proc)] \in Semaphores
      BY <2>2, IdsUsed DEF AskPlaces, FirstPlaces
    <2>4. GoesOn(Entries) /\ mutex_queue' = mutex_queue /\ sem_queue' = sem_queue
      BY <1>1, <2>1, <2>3, SemWaitStep DEF MutexesStay
    <2>5. /\ At({"ping", "pong"}, Places \ AskPlaces) /\ "sleep" \in Places
          /\ "sleep" \notin AskPlaces /\ "sleep" \notin {"serve", "gone"}
      BY <2>1 DEF At, Places, AskPlaces, FirstPlaces
    <2> QED
      BY <1>2, <2>1, <2>4, <2>5
  <1>9. CASE PlayerSleep
    <2>1. PICK seconds \in SLEEP_SECONDS : CallSleep(seconds)
      BY <1>9 DEF PlayerSleep
    <2>2. /\ At({"ping", "pong"}, {"sleep"}) /\ Goto("post")
          /\ program' = program /\ ids' = ids /\ races' = races /\ input_len' = input_len
      BY <1>9 DEF PlayerSleep, Quietly, pid
    <2>3. GoesOn(Entries) /\ mutex_queue' = mutex_queue /\ sem_queue' = sem_queue
      BY <1>1, <2>1, SleepStep DEF MutexesStay, SemsStay
    <2>4. /\ At({"ping", "pong"}, Places \ AskPlaces) /\ "post" \in Places
          /\ "post" \notin AskPlaces /\ "post" \notin {"serve", "gone"}
      BY <2>2 DEF At, Places, AskPlaces, FirstPlaces
    <2> QED
      BY <1>2, <2>2, <2>3, <2>4
  <1>10. CASE PlayerPost
    <2>1. /\ At({"ping", "pong"}, {"serve", "post"}) /\ CallSemPost(ids[Others(active_proc)]) /\ Goto("wait")
          /\ program' = program /\ ids' = ids /\ races' = races /\ input_len' = input_len
      BY <1>10 DEF PlayerPost, Quietly, pid
    <2>2. active_proc \in Players /\ pc[active_proc] \in {"serve", "post"}
      BY <2>1, AtFacts
    <2>3. ids[Others(active_proc)] \in Semaphores
      BY <2>2, IdsUsed DEF AskPlaces, FirstPlaces
    <2>4. GoesOn(Entries) /\ mutex_queue' = mutex_queue /\ sem_queue' = sem_queue
      BY <1>1, <2>1, <2>3, SemPostStep DEF MutexesStay
    <2>5. /\ At({"ping", "pong"}, Places \ AskPlaces) /\ "wait" \in Places
          /\ "wait" \notin AskPlaces /\ "wait" \notin {"serve", "gone"}
      BY <2>1 DEF At, Places, AskPlaces, FirstPlaces
    <2> QED
      BY <1>2, <2>1, <2>4, <2>5
  <1> QED
    BY <1>3, <1>4, <1>5, <1>6, <1>7, <1>8, <1>9, <1>10 DEF PlayerStep

LEMMA IdsInvInit == ProgramsInit => IdsInv
  <1> SUFFICES ASSUME ProgramsInit PROVE IdsInv
    OBVIOUS
  <1>1. /\ KernelInit /\ program \in Assignments
        /\ pc = [e \in Entries |-> IF program[e] = "idle" THEN "loop" ELSE "test"]
        /\ input_len = [e \in Entries |-> 0] /\ ids = [slot \in Slots |-> -1] /\ races = 0
    BY DEF ProgramsInit
  <1>2. KInv /\ Init /\ status = "boot"
    BY <1>1, KernelInitInv DEF KernelInit, Init
  <1>3. /\ program \in [Entries -> {"idle", "shell", "ping", "pong"}] /\ EnoughIds(program)
        /\ BOOT_PROCS = PROC_MAX
    BY <1>1, ProgramsAssumption
  <1>4. ProgramTypes
    <2>1. "loop" \in Places /\ "test" \in Places
      BY DEF Places, AskPlaces, FirstPlaces
    <2> QED
      BY <1>1, <2>1 DEF ProgramTypes
  <1>5. /\ \A e \in Entries : pc[e] \in {"test", "loop"}
        /\ \A e \in Shells \cup Players : e \in Entries /\ pc[e] = "test"
    <2>1. \A e \in Entries : pc[e] = IF program[e] = "idle" THEN "loop" ELSE "test"
      BY <1>1
    <2>2. \A e \in Shells \cup Players : e \in Entries /\ program[e] # "idle"
      BY DEF Shells, Players
    <2> QED
      BY <2>1, <2>2
  <1>6. /\ mutex_queue = [i \in 1 .. MUTEX_MAX |-> i - 1]
        /\ sem_queue = [i \in 1 .. SEM_MAX |-> i - 1]
        /\ Len(mutex_queue) = MUTEX_MAX /\ Len(sem_queue) = SEM_MAX
        /\ MUTEX_MAX \in Nat /\ SEM_MAX \in Nat
    <2>1. /\ mutex_queue = [i \in 1 .. MUTEX_MAX |-> i - 1]
          /\ sem_queue = [i \in 1 .. SEM_MAX |-> i - 1]
          /\ MUTEX_MAX \in Nat /\ SEM_MAX \in Nat
      BY <1>1, <1>2, GivenFacts DEF KernelInit, kmutexes_init, ksemaphores_init
    <2>2. mutex_queue \in Seq(Int) /\ sem_queue \in Seq(Int)
      BY <2>1
    <2> QED
      BY <2>1, <2>2
  <1>7. IdsLeft
    <2>1. InOrder(mutex_queue, MUTEX_MAX) /\ InOrder(sem_queue, SEM_MAX)
      BY <1>6 DEF InOrder
    <2>2. /\ MutexAskers = {e \in Entries : program[e] = "shell"}
          /\ PingAskers = {e \in Entries : program[e] \in {"ping", "pong"}}
          /\ PongAskers = {e \in Entries : program[e] \in {"ping", "pong"}}
      BY <1>5 DEF MutexAskers, PingAskers, PongAskers, Shells, Players, AskPlaces, FirstPlaces
    <2>3. Cardinality(MutexAskers) <= MUTEX_MAX /\ 2 * Cardinality(PingAskers) <= SEM_MAX
      BY <1>3, <2>2 DEF EnoughIds
    <2>4. /\ Cardinality(PingAskers) \in Nat
          /\ Cardinality(PongAskers) = Cardinality(PingAskers)
      BY <2>2, AskersFinite
    <2>5. Cardinality(PingAskers) + Cardinality(PongAskers) <= SEM_MAX
      BY <1>6, <2>3, <2>4
    <2> QED
      BY <1>6, <2>1, <2>3, <2>5 DEF IdsLeft
  <1>8. IdsKept
    <2>1. \A slot \in Slots : ids[slot] = -1
      BY <1>1
    <2> QED
      BY <1>5, <2>1, SlotFacts DEF IdsKept
  <1>9. IdsKnown
    BY <1>5 DEF IdsKnown, AskPlaces, FirstPlaces
  <1>10. EndsWell
    BY <1>2 DEF EndsWell
  <1>11. LiveUntilGone
    <2>1. \A e \in Entries : e < BOOT_PROCS
      BY <1>3, SizeAssumption DEF Entries
    <2>2. \A e \in Entries : proc_table[e].state # "NONE"
      <3>1. \A e \in Entries : proc_table[e] = BootPCB(e)
        BY <1>2, <2>1 DEF Init
      <3>2. \A e \in Nat : BootPCB(e).state = "IDLE"
        BY DEF BootPCB, NewPCB, FreePCB
      <3> QED
        BY <3>1, <3>2, EntryNumbers
    <2> QED
      BY <2>2 DEF LiveUntilGone, IsLive
  <1>12. OnlyPingServes
    BY <1>5 DEF OnlyPingServes
  <1> QED
    BY <1>2, <1>4, <1>7, <1>8, <1>9, <1>10, <1>11, <1>12 DEF IdsInv

LEMMA IdsInductive ==
    ASSUME IdsInv, [ProgramsNext]_pvars
    PROVE  IdsInv'
  <1>1. KInv
    BY DEF IdsInv
  <1>2. CASE Started
    <2>1. AllStays /\ status' = "running"
      BY <1>1, <1>2, StartStep
    <2> QED
      BY <1>2, <2>1, ProgramsStay DEF Started, EndsWell
  <1>3. CASE Tick
    <2>1. AllStays /\ status' = "running"
      BY <1>1, <1>3, TickStep
    <2> QED
      BY <1>3, <2>1, ProgramsStay DEF Tick, EndsWell
  <1>4. CASE UNCHANGED pvars
    <2>1. AllStays /\ status' = status
      BY <1>1, <1>4, QuietStep DEF pvars
    <2>2. UNCHANGED progVars
      BY <1>4 DEF pvars
    <2>3. EndsWell'
      BY <2>1, <2>2 DEF IdsInv, EndsWell, progVars, Shells
    <2> QED
      BY <2>1, <2>2, <2>3, ProgramsStay
  <1> QED
    BY <1>2, <1>3, <1>4, ShellsKeepIds, PlayersKeepIds DEF ProgramsNext

LEMMA IdsInvAlways == ProgramsFairSpec => []IdsInv
  BY IdsInvInit, IdsInductive, PTL DEF ProgramsFairSpec

\* No program makes the kernel panic, whatever races there are for the ids: what leaves
\* C is a line of input that fills its buffer, and nothing else (prog_user.c:89, 119).
THEOREM ProgramSafety == ProgramsFairSpec => []ProgramsStayDefined
  <1>1. IdsInv => ProgramsStayDefined
    BY DEF IdsInv, EndsWell, ProgramsStayDefined
  <1> QED
    BY <1>1, IdsInvAlways, PTL

-----------------------------------------------------------------------------
(***************************************************************************)
(* Nine kinds of steps: what a program does to the queues, the owners, the *)
(* counts and the ids, and where it goes on.                               *)
(***************************************************************************)

LockPlaces == {"read", "unlock", "unlockEnd", "cmdNap", "cmdUnlock"}
TurnPlaces == {"sleep", "post"}

\* The active program goes on at place, and the others are where they were.
Moves(place) ==
    /\ InUserProcess /\ active_proc \in Entries
    /\ program' = program /\ pc' = [pc EXCEPT ![active_proc] = place]
    /\ \A f \in Entries \ {active_proc} :
          /\ eax'[f] = eax[f]
          /\ IsLive(f) => IsLive(f)' /\ proc_table'[f].pid = proc_table[f].pid

\* It takes and gives nothing, and asks for nothing.
Calm(place) ==
    /\ place \in LockPlaces => pc[active_proc] \in LockPlaces
    /\ place \in TurnPlaces <=> pc[active_proc] \in TurnPlaces
    /\ place = "wait" => program[active_proc] = "pong"
    /\ pc[active_proc] # "wait"
    /\ place \in {"init", "store", "initPong", "storePong"} =>
          active_proc \in Shells /\ place = "store" /\ pc[active_proc] = "init"

TablesStay ==
    QueuesStay /\ OwnersStay(Mutexes) /\ CountsStay(Semaphores) /\ ids' = ids

StepStill == AllStays /\ UNCHANGED progVars

StepQuiet ==
    \E place \in Places :
        Moves(place) /\ Calm(place) /\ TablesStay /\ races' = races /\ sem_queue' = sem_queue

StepGiven ==
    \E place \in Places :
        /\ Moves(place) /\ TablesStay /\ races' = races /\ active_proc \in Players
        /\ \/ pc[active_proc] = "init" /\ place = "store"
           \/ pc[active_proc] = "initPong" /\ place = "storePong"
        /\ sem_queue # <<>> /\ sem_queue' = Tail(sem_queue)
        /\ eax'[active_proc] = Head(sem_queue)

StepAsks ==
    \E place \in Places, slot \in Slots :
        /\ Moves(place) /\ TablesStay /\ races' = races + Races(slot) /\ sem_queue' = sem_queue
        /\ ids[slot] = -1
        /\ \/ active_proc \in Shells /\ pc[active_proc] = "test" /\ place = "init"
              /\ slot = ShellSlot(active_proc)
           \/ active_proc \in Players /\ pc[active_proc] = "test" /\ place = "init"
              /\ slot = Ping
           \/ active_proc \in Players /\ pc[active_proc] = "testPong" /\ place = "initPong"
              /\ slot = Pong

StepStores ==
    \E place \in Places, slot \in Slots :
        /\ Moves(place) /\ AllStays /\ races' = races
        /\ ids' = [ids EXCEPT ![slot] = eax[active_proc]]
        /\ \/ active_proc \in Shells /\ pc[active_proc] = "store" /\ place = "nap"
              /\ slot = ShellSlot(active_proc)
           \/ active_proc \in Players /\ pc[active_proc] = "store" /\ place = "testPong"
              /\ slot = Ping
           \/ active_proc \in Players /\ pc[active_proc] = "storePong"
              /\ place = (IF program[active_proc] = "ping" THEN "serve" ELSE "wait")
              /\ slot = Pong

StepLocks ==
    \E place \in {"read", "cmdNap"} :
        /\ Moves(place) /\ ids' = ids /\ races' = races /\ active_proc \in Shells
        /\ pc[active_proc] \in {"lock", "cmdLock"}
        /\ CallMutexLock(ids[ShellSlot(active_proc)])

StepUnlocks ==
    \E place \in {"lock", "command"} :
        /\ Moves(place) /\ ids' = ids /\ races' = races /\ active_proc \in Shells
        /\ pc[active_proc] \in {"unlock", "unlockEnd", "cmdUnlock"}
        /\ CallMutexUnlock(ids[ShellSlot(active_proc)])

StepWaits ==
    /\ Moves("sleep") /\ ids' = ids /\ races' = races /\ active_proc \in Players
    /\ pc[active_proc] = "wait"
    /\ CallSemWait(ids[Own(active_proc)])

StepPosts ==
    /\ Moves("wait") /\ ids' = ids /\ races' = races /\ active_proc \in Players
    /\ pc[active_proc] \in {"serve", "post"}
    /\ CallSemPost(ids[Others(active_proc)])

LEMMA GoesOnMoves ==
    ASSUME InUserProcess, active_proc \in Entries, GoesOn(Entries) \/ GoesOn(Entries \ {active_proc}),
           program' = program, NEW place, Goto(place)
    PROVE  Moves(place)
  BY DEF GoesOn, Moves, Goto, pid

LEMMA StaysMoves ==
    ASSUME InUserProcess, active_proc \in Entries, AllStays,
           program' = program, NEW place, Goto(place)
    PROVE  Moves(place)
  BY DEF AllStays, Moves, Goto, pid

\* An id that is missing or given.
LEMMA MissingId ==
    ASSUME IdsInv, NEW slot \in Slots
    PROVE  ids[slot] < 0 <=> ids[slot] = -1
  <1>1. \A id \in Mutexes \cup Semaphores : id \in Nat
    BY MutexAssumption, SemAssumption, SizeAssumption DEF Mutexes, Semaphores
  <1>2. ids[slot] = -1 \/ ids[slot] \in Mutexes \cup Semaphores
    BY SlotFacts, GivenFacts DEF IdsInv, IdsKept
  <1> QED
    BY <1>1, <1>2

LEMMA ShellSteps ==
    ASSUME IdsInv, ShellStep
    PROVE  StepStill \/ StepQuiet \/ StepAsks \/ StepStores \/ StepLocks \/ StepUnlocks
  <1>1. KInv
    BY DEF IdsInv
  <1>2. CASE ShellTest
    <2> DEFINE place == IF ids[ShellSlot(active_proc)] < 0 THEN "init" ELSE "nap"
    <2>1. /\ At({"shell"}, {"test"}) /\ InUser /\ Goto(place)
          /\ races' = races + Races(ShellSlot(active_proc))
          /\ program' = program /\ ids' = ids
      BY <1>2 DEF ShellTest, TestSlot, PlayerBegins, pid
    <2>2. /\ active_proc \in Entries /\ InUserProcess /\ status = "running"
          /\ active_proc \in Shells /\ active_proc \notin Players /\ pc[active_proc] \in {"test"}
          /\ program[active_proc] \in {"shell"}
      BY <2>1, AtFacts
    <2>3. AllStays
      BY <1>1, <2>1, QuietStep DEF InUser
    <2>4. Moves(place)
      BY <2>1, <2>2, <2>3, StaysMoves
    <2>5. TablesStay /\ sem_queue' = sem_queue /\ ShellSlot(active_proc) \in Slots
      BY <2>1, <2>2, <2>3, SlotFacts DEF TablesStay, AllStays, MutexesStay, SemsStay
    <2>6. CASE ids[ShellSlot(active_proc)] < 0
      <3>1. ids[ShellSlot(active_proc)] = -1 /\ place = "init"
        BY <2>5, <2>6, MissingId
      <3>2. "init" \in Places
        BY DEF Places, AskPlaces, FirstPlaces
      <3> HIDE DEF place
      <3> QED
        BY <2>1, <2>2, <2>4, <2>5, <3>1, <3>2 DEF StepAsks
    <2>7. CASE ~(ids[ShellSlot(active_proc)] < 0)
      <3>1. races' = races
        BY <2>1, <2>7 DEF Races, IdsInv, ProgramTypes
      <3>2. place \in Places /\ Calm(place)
        BY <2>2, <2>7 DEF Places, AskPlaces, FirstPlaces, LockPlaces, TurnPlaces, Calm
      <3> HIDE DEF place
      <3> QED
        BY <2>4, <2>5, <3>1, <3>2 DEF StepQuiet
    <2> QED
      BY <2>6, <2>7
  <1>3. CASE ShellInit
    <2>1. /\ At({"shell"}, {"init"}) /\ CallMutexInit /\ Goto("store")
          /\ program' = program /\ ids' = ids /\ races' = races
      BY <1>3 DEF ShellInit, Quietly, pid
    <2>2. /\ active_proc \in Entries /\ InUserProcess /\ status = "running"
          /\ active_proc \in Shells /\ active_proc \notin Players /\ pc[active_proc] \in {"init"}
          /\ program[active_proc] \in {"shell"}
      BY <2>1, AtFacts
    <2>3. mutex_queue # <<>>
      <3>1. active_proc \in MutexAskers /\ MutexAskers \in SUBSET Entries
        BY <2>2, AskersFinite DEF MutexAskers
      <3>2. Cardinality(MutexAskers) \in Nat \ {0}
        BY <3>1, OneAskerLess
      <3>3. Cardinality(MutexAskers) <= Len(mutex_queue)
        BY DEF IdsInv, IdsLeft
      <3> QED
        BY <3>2, <3>3
    <2>4. /\ GoesOn(Entries) /\ QueuesStay /\ OwnersStay(Mutexes) /\ CountsStay(Semaphores)
          /\ sem_queue' = sem_queue
      BY <1>1, <2>1, <2>3, MutexInitStep DEF SemsStay
    <2>5. Moves("store")
      BY <2>1, <2>2, <2>4, GoesOnMoves
    <2>6. "store" \in Places /\ Calm("store")
      BY <2>1, <2>2 DEF Places, AskPlaces, FirstPlaces, LockPlaces, TurnPlaces, Calm
    <2> QED
      BY <2>1, <2>4, <2>5, <2>6 DEF StepQuiet, TablesStay
  <1>4. CASE ShellStore
    <2> DEFINE place == "nap"
    <2>1. /\ At({"shell"}, {"store"}) /\ InUser /\ Goto(place)
          /\ ids' = [ids EXCEPT ![ShellSlot(active_proc)] = eax[active_proc]]
          /\ program' = program /\ races' = races
      BY <1>4 DEF ShellStore, StoreSlot, PlayerBegins, pid
    <2>2. /\ active_proc \in Entries /\ InUserProcess /\ status = "running"
          /\ active_proc \in Shells /\ active_proc \notin Players /\ pc[active_proc] \in {"store"}
          /\ program[active_proc] \in {"shell"}
      BY <2>1, AtFacts
    <2>3. AllStays
      BY <1>1, <2>1, QuietStep DEF InUser
    <2>4. Moves(place)
      BY <2>1, <2>2, <2>3, StaysMoves
    <2>5. place \in Places /\ ShellSlot(active_proc) \in Slots
      BY <2>2, SlotFacts DEF Places, AskPlaces, FirstPlaces
    <2>6. place = "nap"
      OBVIOUS
    <2> HIDE DEF place
    <2> QED
      BY <2>1, <2>2, <2>3, <2>4, <2>5, <2>6 DEF StepStores
  <1>5. CASE ShellSleep
    <2>1. /\ At({"shell"}, {"nap"}) /\ Goto("lock")
          /\ program' = program /\ ids' = ids /\ races' = races
      BY <1>5 DEF ShellSleep, Quietly
    <2>2. /\ active_proc \in Entries /\ InUserProcess /\ status = "running"
          /\ active_proc \in Shells /\ active_proc \notin Players /\ pc[active_proc] \in {"nap"}
          /\ program[active_proc] \in {"shell"}
      BY <2>1, AtFacts
    <2>3. /\ GoesOn(Entries) /\ QueuesStay /\ OwnersStay(Mutexes) /\ CountsStay(Semaphores)
          /\ sem_queue' = sem_queue
      <3>1. PICK seconds \in SLEEP_SECONDS : CallSleep(seconds)
        BY <1>5 DEF ShellSleep
      <3> QED
        BY <1>1, <3>1, SleepStep DEF MutexesStay, SemsStay
    <2>4. Moves("lock")
      BY <2>1, <2>2, <2>3, GoesOnMoves
    <2>5. "lock" \in Places /\ Calm("lock")
      BY <2>1, <2>2 DEF Places, AskPlaces, FirstPlaces, LockPlaces, TurnPlaces, Calm
    <2> QED
      BY <2>1, <2>3, <2>4, <2>5 DEF StepQuiet, TablesStay
  <1>6. CASE ShellLock
    <2>1. /\ At({"shell"}, {"lock"}) /\ CallMutexLock(ids[ShellSlot(active_proc)])
          /\ Goto("read") /\ program' = program /\ ids' = ids /\ races' = races
      BY <1>6 DEF ShellLock, Quietly, pid
    <2>2. /\ active_proc \in Entries /\ InUserProcess /\ status = "running"
          /\ active_proc \in Shells /\ active_proc \notin Players /\ pc[active_proc] \in {"lock"}
          /\ program[active_proc] \in {"shell"}
      BY <2>1, AtFacts
    <2>3. ids[ShellSlot(active_proc)] \in Mutexes
      BY <2>2, IdsUsed DEF FirstPlaces
    <2>4. GoesOn(Entries)
      BY <1>1, <2>1, <2>3, LockStep
    <2>5. Moves("read")
      BY <2>1, <2>2, <2>4, GoesOnMoves
    <2> QED
      BY <2>1, <2>2, <2>5 DEF StepLocks
  <1>7. CASE ShellRead
    <2>1. /\ At({"shell"}, {"read"}) /\ program' = program /\ ids' = ids /\ races' = races
          /\ \E place \in {"unlock", "unlockEnd"} : Goto(place)
      BY <1>7 DEF ShellRead
    <2>2. /\ active_proc \in Entries /\ InUserProcess /\ status = "running"
          /\ active_proc \in Shells /\ active_proc \notin Players /\ pc[active_proc] \in {"read"}
          /\ program[active_proc] \in {"shell"}
      BY <2>1, AtFacts
    <2>3. AllStays
      BY <1>7, ReadStep
    <2>4. PICK place \in {"unlock", "unlockEnd"} : Goto(place)
      BY <2>1
    <2>5. Moves(place)
      BY <2>1, <2>2, <2>3, <2>4, StaysMoves
    <2>6. place \in Places /\ Calm(place)
      BY <2>1, <2>2 DEF Places, AskPlaces, FirstPlaces, LockPlaces, TurnPlaces, Calm
    <2>7. TablesStay /\ sem_queue' = sem_queue
      BY <2>1, <2>3 DEF TablesStay, AllStays, MutexesStay, SemsStay
    <2> QED
      BY <2>1, <2>5, <2>6, <2>7 DEF StepQuiet
  <1>8. CASE ShellUnlock
    <2> DEFINE place == IF pc[active_proc] = "unlock" THEN "lock" ELSE "command"
    <2>1. /\ At({"shell"}, {"unlock", "unlockEnd"}) /\ CallMutexUnlock(ids[ShellSlot(active_proc)])
          /\ Goto(place) /\ program' = program /\ ids' = ids /\ races' = races
      BY <1>8 DEF ShellUnlock, Quietly, pid
    <2>2. /\ active_proc \in Entries /\ InUserProcess /\ status = "running"
          /\ active_proc \in Shells /\ active_proc \notin Players /\ pc[active_proc] \in {"unlock", "unlockEnd"}
          /\ program[active_proc] \in {"shell"}
      BY <2>1, AtFacts
    <2>3. ids[ShellSlot(active_proc)] \in Mutexes
      BY <2>2, IdsUsed DEF FirstPlaces
    <2>4. GoesOn(Entries)
      BY <1>1, <2>1, <2>3, UnlockGoesOn
    <2>5. Moves(place)
      BY <2>1, <2>2, <2>4, GoesOnMoves
    <2>6. place \in {"lock", "command"}
      OBVIOUS
    <2> HIDE DEF place
    <2> QED
      BY <2>1, <2>2, <2>5, <2>6 DEF StepUnlocks
  <1>9. CASE ShellCommand
    <2>1. /\ At({"shell"}, {"command"}) /\ InUser
          /\ program' = program /\ ids' = ids /\ races' = races
          /\ \E place \in {"nap", "exit", "cmdLock"} : Goto(place)
      BY <1>9 DEF ShellCommand, Quietly
    <2>2. /\ active_proc \in Entries /\ InUserProcess /\ status = "running"
          /\ active_proc \in Shells /\ active_proc \notin Players /\ pc[active_proc] \in {"command"}
          /\ program[active_proc] \in {"shell"}
      BY <2>1, AtFacts
    <2>3. AllStays
      BY <1>1, <2>1, QuietStep DEF InUser
    <2>4. PICK place \in {"nap", "exit", "cmdLock"} : Goto(place)
      BY <2>1
    <2>5. Moves(place)
      BY <2>1, <2>2, <2>3, <2>4, StaysMoves
    <2>6. place \in Places /\ Calm(place)
      BY <2>1, <2>2 DEF Places, AskPlaces, FirstPlaces, LockPlaces, TurnPlaces, Calm
    <2>7. TablesStay /\ sem_queue' = sem_queue
      BY <2>1, <2>3 DEF TablesStay, AllStays, MutexesStay, SemsStay
    <2> QED
      BY <2>1, <2>5, <2>6, <2>7 DEF StepQuiet
  <1>10. CASE ShellPrint
    <2>1. /\ At({"shell"}, {"command"}) /\ program' = program /\ ids' = ids /\ races' = races
      BY <1>10 DEF ShellPrint
    <2>2. /\ active_proc \in Entries /\ InUserProcess /\ status = "running"
          /\ active_proc \in Shells /\ active_proc \notin Players /\ pc[active_proc] \in {"command"}
          /\ program[active_proc] \in {"shell"}
      BY <2>1, AtFacts
    <2>3. CASE InUser /\ Goto("lock")
      <3>1. AllStays
        BY <1>1, <2>3, QuietStep DEF InUser
      <3>2. Moves("lock")
        BY <2>1, <2>2, <2>3, <3>1, StaysMoves
      <3>3. "lock" \in Places /\ Calm("lock")
        BY <2>1, <2>2 DEF Places, AskPlaces, FirstPlaces, LockPlaces, TurnPlaces, Calm
      <3>4. TablesStay /\ sem_queue' = sem_queue
        BY <2>1, <3>1 DEF TablesStay, AllStays, MutexesStay, SemsStay
      <3> QED
        BY <2>1, <3>2, <3>3, <3>4 DEF StepQuiet
    <2>4. CASE /\ Commit(Undefined(Ctx))
               /\ UNCHANGED <<mutexVars, semVars, eax, pc, input_len>>
      <3>1. AllStays
        BY <1>1, <2>2, <2>4, OverrunStep
      <3>2. UNCHANGED progVars
        BY <2>1, <2>4 DEF progVars
      <3> QED
        BY <3>1, <3>2 DEF StepStill
    <2> QED
      BY <1>10, <2>3, <2>4 DEF ShellPrint, pid
  <1>11. CASE ShellExit
    <2>1. /\ At({"shell"}, {"exit"}) /\ CallExit /\ Goto("gone")
          /\ program' = program /\ ids' = ids /\ races' = races
      BY <1>11 DEF ShellExit, Quietly, pid
    <2>2. /\ active_proc \in Entries /\ InUserProcess /\ status = "running"
          /\ active_proc \in Shells /\ active_proc \notin Players /\ pc[active_proc] \in {"exit"}
          /\ program[active_proc] \in {"shell"}
      BY <2>1, AtFacts
    <2>3. /\ GoesOn(Entries \ {active_proc}) /\ QueuesStay /\ OwnersStay(Mutexes)
          /\ CountsStay(Semaphores) /\ sem_queue' = sem_queue
      BY <1>1, <2>1, ExitStep DEF MutexesStay, SemsStay
    <2>4. Moves("gone")
      BY <2>1, <2>2, <2>3, GoesOnMoves
    <2>5. "gone" \in Places /\ Calm("gone")
      BY <2>1, <2>2 DEF Places, AskPlaces, FirstPlaces, LockPlaces, TurnPlaces, Calm
    <2> QED
      BY <2>1, <2>3, <2>4, <2>5 DEF StepQuiet, TablesStay
  <1>12. CASE CommandLock
    <2>1. /\ At({"shell"}, {"cmdLock"}) /\ CallMutexLock(ids[ShellSlot(active_proc)])
          /\ Goto("cmdNap") /\ program' = program /\ ids' = ids /\ races' = races
      BY <1>12 DEF CommandLock, Quietly, pid
    <2>2. /\ active_proc \in Entries /\ InUserProcess /\ status = "running"
          /\ active_proc \in Shells /\ active_proc \notin Players /\ pc[active_proc] \in {"cmdLock"}
          /\ program[active_proc] \in {"shell"}
      BY <2>1, AtFacts
    <2>3. ids[ShellSlot(active_proc)] \in Mutexes
      BY <2>2, IdsUsed DEF FirstPlaces
    <2>4. GoesOn(Entries)
      BY <1>1, <2>1, <2>3, LockStep
    <2>5. Moves("cmdNap")
      BY <2>1, <2>2, <2>4, GoesOnMoves
    <2> QED
      BY <2>1, <2>2, <2>5 DEF StepLocks
  <1>13. CASE CommandSleep
    <2>1. /\ At({"shell"}, {"cmdNap"}) /\ Goto("cmdUnlock")
          /\ program' = program /\ ids' = ids /\ races' = races
      BY <1>13 DEF CommandSleep, Quietly
    <2>2. /\ active_proc \in Entries /\ InUserProcess /\ status = "running"
          /\ active_proc \in Shells /\ active_proc \notin Players /\ pc[active_proc] \in {"cmdNap"}
          /\ program[active_proc] \in {"shell"}
      BY <2>1, AtFacts
    <2>3. /\ GoesOn(Entries) /\ QueuesStay /\ OwnersStay(Mutexes) /\ CountsStay(Semaphores)
          /\ sem_queue' = sem_queue
      <3>1. PICK seconds \in SLEEP_SECONDS : CallSleep(seconds)
        BY <1>13 DEF CommandSleep
      <3> QED
        BY <1>1, <3>1, SleepStep DEF MutexesStay, SemsStay
    <2>4. Moves("cmdUnlock")
      BY <2>1, <2>2, <2>3, GoesOnMoves
    <2>5. "cmdUnlock" \in Places /\ Calm("cmdUnlock")
      BY <2>1, <2>2 DEF Places, AskPlaces, FirstPlaces, LockPlaces, TurnPlaces, Calm
    <2> QED
      BY <2>1, <2>3, <2>4, <2>5 DEF StepQuiet, TablesStay
  <1>14. CASE CommandUnlock
    <2>1. /\ At({"shell"}, {"cmdUnlock"}) /\ CallMutexUnlock(ids[ShellSlot(active_proc)])
          /\ Goto("lock") /\ program' = program /\ ids' = ids /\ races' = races
      BY <1>14 DEF CommandUnlock, Quietly, pid
    <2>2. /\ active_proc \in Entries /\ InUserProcess /\ status = "running"
          /\ active_proc \in Shells /\ active_proc \notin Players /\ pc[active_proc] \in {"cmdUnlock"}
          /\ program[active_proc] \in {"shell"}
      BY <2>1, AtFacts
    <2>3. ids[ShellSlot(active_proc)] \in Mutexes
      BY <2>2, IdsUsed DEF FirstPlaces
    <2>4. GoesOn(Entries)
      BY <1>1, <2>1, <2>3, UnlockGoesOn
    <2>5. Moves("lock")
      BY <2>1, <2>2, <2>4, GoesOnMoves
    <2> QED
      BY <2>1, <2>2, <2>5 DEF StepUnlocks
  <1> QED
    BY <1>2, <1>3, <1>4, <1>5, <1>6, <1>7, <1>8, <1>9, <1>10, <1>11, <1>12, <1>13, <1>14
       DEF ShellStep

LEMMA PlayerSteps ==
    ASSUME IdsInv, PlayerStep
    PROVE  StepQuiet \/ StepGiven \/ StepAsks \/ StepStores \/ StepWaits \/ StepPosts
  <1>1. KInv
    BY DEF IdsInv
  <1>2. CASE PlayerTest
    <2> DEFINE place == IF ids[Ping] < 0 THEN "init" ELSE "testPong"
    <2>1. /\ At({"ping", "pong"}, {"test"}) /\ InUser /\ Goto(place)
          /\ races' = races + Races(Ping)
          /\ program' = program /\ ids' = ids
      BY <1>2 DEF PlayerTest, TestSlot, PlayerBegins, pid
    <2>2. /\ active_proc \in Entries /\ InUserProcess /\ status = "running"
          /\ active_proc \in Players /\ active_proc \notin Shells /\ pc[active_proc] \in {"test"}
          /\ program[active_proc] \in {"ping", "pong"}
      BY <2>1, AtFacts
    <2>3. AllStays
      BY <1>1, <2>1, QuietStep DEF InUser
    <2>4. Moves(place)
      BY <2>1, <2>2, <2>3, StaysMoves
    <2>5. TablesStay /\ sem_queue' = sem_queue /\ Ping \in Slots
      BY <2>1, <2>2, <2>3, SlotFacts DEF TablesStay, AllStays, MutexesStay, SemsStay
    <2>6. CASE ids[Ping] < 0
      <3>1. ids[Ping] = -1 /\ place = "init"
        BY <2>5, <2>6, MissingId
      <3>2. "init" \in Places
        BY DEF Places, AskPlaces, FirstPlaces
      <3> HIDE DEF place
      <3> QED
        BY <2>1, <2>2, <2>4, <2>5, <3>1, <3>2 DEF StepAsks
    <2>7. CASE ~(ids[Ping] < 0)
      <3>1. races' = races
        BY <2>1, <2>7 DEF Races, IdsInv, ProgramTypes
      <3>2. place \in Places /\ Calm(place)
        BY <2>2, <2>7 DEF Places, AskPlaces, FirstPlaces, LockPlaces, TurnPlaces, Calm
      <3> HIDE DEF place
      <3> QED
        BY <2>4, <2>5, <3>1, <3>2 DEF StepQuiet
    <2> QED
      BY <2>6, <2>7
  <1>3. CASE PlayerTestPong
    <2> DEFINE place == IF ids[Pong] < 0 THEN "initPong" ELSE (IF program[active_proc] = "ping" THEN "serve" ELSE "wait")
    <2>1. /\ At({"ping", "pong"}, {"testPong"}) /\ InUser /\ Goto(place)
          /\ races' = races + Races(Pong)
          /\ program' = program /\ ids' = ids
      BY <1>3 DEF PlayerTestPong, TestSlot, PlayerBegins, pid
    <2>2. /\ active_proc \in Entries /\ InUserProcess /\ status = "running"
          /\ active_proc \in Players /\ active_proc \notin Shells /\ pc[active_proc] \in {"testPong"}
          /\ program[active_proc] \in {"ping", "pong"}
      BY <2>1, AtFacts
    <2>3. AllStays
      BY <1>1, <2>1, QuietStep DEF InUser
    <2>4. Moves(place)
      BY <2>1, <2>2, <2>3, StaysMoves
    <2>5. TablesStay /\ sem_queue' = sem_queue /\ Pong \in Slots
      BY <2>1, <2>2, <2>3, SlotFacts DEF TablesStay, AllStays, MutexesStay, SemsStay
    <2>6. CASE ids[Pong] < 0
      <3>1. ids[Pong] = -1 /\ place = "initPong"
        BY <2>5, <2>6, MissingId
      <3>2. "initPong" \in Places
        BY DEF Places, AskPlaces, FirstPlaces
      <3> HIDE DEF place
      <3> QED
        BY <2>1, <2>2, <2>4, <2>5, <3>1, <3>2 DEF StepAsks
    <2>7. CASE ~(ids[Pong] < 0)
      <3>1. races' = races
        BY <2>1, <2>7 DEF Races, IdsInv, ProgramTypes
      <3>2. place \in Places /\ Calm(place)
        BY <2>2, <2>7 DEF Places, AskPlaces, FirstPlaces, LockPlaces, TurnPlaces, Calm
      <3> HIDE DEF place
      <3> QED
        BY <2>4, <2>5, <3>1, <3>2 DEF StepQuiet
    <2> QED
      BY <2>6, <2>7
  <1>4. CASE PlayerInit
    <2> DEFINE place == IF pc[active_proc] = "init" THEN "store" ELSE "storePong"
    <2>1. /\ At({"ping", "pong"}, {"init", "initPong"}) /\ CallSemInit /\ Goto(place)
          /\ program' = program /\ ids' = ids /\ races' = races
      BY <1>4 DEF PlayerInit, Quietly, pid
    <2>2. /\ active_proc \in Entries /\ InUserProcess /\ status = "running"
          /\ active_proc \in Players /\ active_proc \notin Shells /\ pc[active_proc] \in {"init", "initPong"}
          /\ program[active_proc] \in {"ping", "pong"}
      BY <2>1, AtFacts
    <2>3. sem_queue # <<>>
      <3>1. /\ PingAskers \in SUBSET Entries /\ PongAskers \in SUBSET Entries
            /\ Cardinality(PingAskers) \in Nat
            /\ active_proc \in PongAskers
        BY <2>2, AskersFinite DEF PongAskers, AskPlaces, FirstPlaces
      <3>2. Cardinality(PongAskers) \in Nat \ {0}
        BY <3>1, OneAskerLess
      <3>3. Cardinality(PingAskers) + Cardinality(PongAskers) <= Len(sem_queue)
        BY DEF IdsInv, IdsLeft
      <3>4. Len(sem_queue) # 0
        BY <3>1, <3>2, <3>3, GivenFacts DEF IdsInv
      <3> QED
        BY <3>4
    <2>4. /\ GoesOn(Entries) /\ QueuesStay /\ OwnersStay(Mutexes) /\ CountsStay(Semaphores)
          /\ sem_queue' = Tail(sem_queue) /\ eax'[active_proc] = Head(sem_queue)
      BY <1>1, <2>1, <2>3, SemInitStep DEF MutexesStay
    <2>5. Moves(place)
      BY <2>1, <2>2, <2>4, GoesOnMoves
    <2>6. /\ place \in Places
          /\ \/ pc[active_proc] = "init" /\ place = "store"
             \/ pc[active_proc] = "initPong" /\ place = "storePong"
      BY <2>2 DEF Places, AskPlaces, FirstPlaces
    <2> HIDE DEF place
    <2> QED
      BY <2>1, <2>2, <2>3, <2>4, <2>5, <2>6 DEF StepGiven, TablesStay
  <1>5. CASE PlayerStore
    <2> DEFINE place == "testPong"
    <2>1. /\ At({"ping", "pong"}, {"store"}) /\ InUser /\ Goto(place)
          /\ ids' = [ids EXCEPT ![Ping] = eax[active_proc]]
          /\ program' = program /\ races' = races
      BY <1>5 DEF PlayerStore, StoreSlot, PlayerBegins, pid
    <2>2. /\ active_proc \in Entries /\ InUserProcess /\ status = "running"
          /\ active_proc \in Players /\ active_proc \notin Shells /\ pc[active_proc] \in {"store"}
          /\ program[active_proc] \in {"ping", "pong"}
      BY <2>1, AtFacts
    <2>3. AllStays
      BY <1>1, <2>1, QuietStep DEF InUser
    <2>4. Moves(place)
      BY <2>1, <2>2, <2>3, StaysMoves
    <2>5. place \in Places /\ Ping \in Slots
      BY <2>2, SlotFacts DEF Places, AskPlaces, FirstPlaces
    <2>6. place = "testPong"
      OBVIOUS
    <2> HIDE DEF place
    <2> QED
      BY <2>1, <2>2, <2>3, <2>4, <2>5, <2>6 DEF StepStores
  <1>6. CASE PlayerStorePong
    <2> DEFINE place == IF program[active_proc] = "ping" THEN "serve" ELSE "wait"
    <2>1. /\ At({"ping", "pong"}, {"storePong"}) /\ InUser /\ Goto(place)
          /\ ids' = [ids EXCEPT ![Pong] = eax[active_proc]]
          /\ program' = program /\ races' = races
      BY <1>6 DEF PlayerStorePong, StoreSlot, PlayerBegins, pid
    <2>2. /\ active_proc \in Entries /\ InUserProcess /\ status = "running"
          /\ active_proc \in Players /\ active_proc \notin Shells /\ pc[active_proc] \in {"storePong"}
          /\ program[active_proc] \in {"ping", "pong"}
      BY <2>1, AtFacts
    <2>3. AllStays
      BY <1>1, <2>1, QuietStep DEF InUser
    <2>4. Moves(place)
      BY <2>1, <2>2, <2>3, StaysMoves
    <2>5. place \in Places /\ Pong \in Slots
      BY <2>2, SlotFacts DEF Places, AskPlaces, FirstPlaces
    <2>6. place = (IF program[active_proc] = "ping" THEN "serve" ELSE "wait")
      OBVIOUS
    <2> HIDE DEF place
    <2> QED
      BY <2>1, <2>2, <2>3, <2>4, <2>5, <2>6 DEF StepStores
  <1>7. CASE PlayerWait
    <2>1. /\ At({"ping", "pong"}, {"wait"}) /\ CallSemWait(ids[Own(active_proc)])
          /\ Goto("sleep") /\ program' = program /\ ids' = ids /\ races' = races
      BY <1>7 DEF PlayerWait, Quietly, pid
    <2>2. /\ active_proc \in Entries /\ InUserProcess /\ status = "running"
          /\ active_proc \in Players /\ active_proc \notin Shells /\ pc[active_proc] \in {"wait"}
          /\ program[active_proc] \in {"ping", "pong"}
      BY <2>1, AtFacts
    <2>3. ids[Own(active_proc)] \in Semaphores
      BY <2>2, IdsUsed DEF AskPlaces, FirstPlaces
    <2>4. GoesOn(Entries)
      BY <1>1, <2>1, <2>3, SemWaitStep
    <2>5. Moves("sleep")
      BY <2>1, <2>2, <2>4, GoesOnMoves
    <2> QED
      BY <2>1, <2>2, <2>5 DEF StepWaits
  <1>8. CASE PlayerSleep
    <2>1. /\ At({"ping", "pong"}, {"sleep"}) /\ Goto("post")
          /\ program' = program /\ ids' = ids /\ races' = races
      BY <1>8 DEF PlayerSleep, Quietly
    <2>2. /\ active_proc \in Entries /\ InUserProcess /\ status = "running"
          /\ active_proc \in Players /\ active_proc \notin Shells /\ pc[active_proc] \in {"sleep"}
          /\ program[active_proc] \in {"ping", "pong"}
      BY <2>1, AtFacts
    <2>3. /\ GoesOn(Entries) /\ QueuesStay /\ OwnersStay(Mutexes) /\ CountsStay(Semaphores)
          /\ sem_queue' = sem_queue
      <3>1. PICK seconds \in SLEEP_SECONDS : CallSleep(seconds)
        BY <1>8 DEF PlayerSleep
      <3> QED
        BY <1>1, <3>1, SleepStep DEF MutexesStay, SemsStay
    <2>4. Moves("post")
      BY <2>1, <2>2, <2>3, GoesOnMoves
    <2>5. "post" \in Places /\ Calm("post")
      BY <2>1, <2>2 DEF Places, AskPlaces, FirstPlaces, LockPlaces, TurnPlaces, Calm
    <2> QED
      BY <2>1, <2>3, <2>4, <2>5 DEF StepQuiet, TablesStay
  <1>9. CASE PlayerPost
    <2>1. /\ At({"ping", "pong"}, {"serve", "post"}) /\ CallSemPost(ids[Others(active_proc)])
          /\ Goto("wait") /\ program' = program /\ ids' = ids /\ races' = races
      BY <1>9 DEF PlayerPost, Quietly, pid
    <2>2. /\ active_proc \in Entries /\ InUserProcess /\ status = "running"
          /\ active_proc \in Players /\ active_proc \notin Shells /\ pc[active_proc] \in {"serve", "post"}
          /\ program[active_proc] \in {"ping", "pong"}
      BY <2>1, AtFacts
    <2>3. ids[Others(active_proc)] \in Semaphores
      BY <2>2, IdsUsed DEF AskPlaces, FirstPlaces
    <2>4. GoesOn(Entries)
      BY <1>1, <2>1, <2>3, SemPostStep
    <2>5. Moves("wait")
      BY <2>1, <2>2, <2>4, GoesOnMoves
    <2> QED
      BY <2>1, <2>2, <2>5 DEF StepPosts
  <1> QED
    BY <1>2, <1>3, <1>4, <1>5, <1>6, <1>7, <1>8, <1>9 DEF PlayerStep

-----------------------------------------------------------------------------
(***************************************************************************)
(* Without races: who waits where, and who owns the mutexes.               *)
(***************************************************************************)

Waits(e, q) == \E i \in 1 .. Len(queue[q]) : queue[q][i] = proc_table[e].pid

\* Only one program asks for an id, and nobody has stored it.
Alone ==
    /\ \A slot \in Slots : \A e \in Entries : slot \in Asking(e) => ids[slot] = -1
    /\ \A slot \in Slots : \A e, f \in Entries :
          slot \in Asking(e) /\ slot \in Asking(f) => e = f

Parked(e, q) ==
    \/ e \in Shells /\ pc[e] \in {"read", "cmdNap"} /\ q = MutexQ(ids[ShellSlot(e)])
    \/ e \in Players /\ pc[e] = "sleep" /\ q = SemQ(ids[Own(e)])

\* A process that waits is a program at the place behind its lock or its wait.
WaitersParked ==
    \A q \in WaitQueues : \A i \in 1 .. Len(queue[q]) :
        \E e \in Entries : IsLive(e) /\ proc_table[e].pid = queue[q][i] /\ Parked(e, q)

Inside(e) == e \in Shells /\ pc[e] \in LockPlaces

OwnsOrWaits(e, m) == Owns(e, m) \/ Waits(e, MutexQ(m))

\* Between lock and unlock a shell owns the mutex, or is in its queue still.
InsideOwns == \A e \in Entries : Inside(e) => OwnsOrWaits(e, ids[ShellSlot(e)])

LockInv == Alone /\ WaitersParked /\ InsideOwns

\* What the queues tell of a process.
LEMMA WaitFacts ==
    ASSUME KInv, NEW e \in Entries, IsLive(e)
    PROVE  /\ proc_table[e].pid \in Nat
           /\ \A q \in WaitQueues : Waits(e, q) => Blocked(e)
           /\ \A q, r \in WaitQueues : Waits(e, q) /\ Waits(e, r) => q = r
           /\ \A f \in Entries : IsLive(f) /\ proc_table[f].pid = proc_table[e].pid => f = e
           /\ Blocked(e) => \E q \in WaitQueues : Waits(e, q)
  <1>1. /\ Sound(KernelCtx, {}) /\ KernelCtx.proc = proc_table /\ KernelCtx.queue = queue
        /\ proc_table \in [Entries -> PCB]
    BY KernelCtxFields, NobodyLost DEF KInv, Safe, Sound, TypedContext, IsContext
  <1>2. /\ \A f, g \in Entries :
              IsLive(f) /\ IsLive(g) /\ proc_table[f].pid = proc_table[g].pid => f = g
        /\ proc_table[0].pid = 0 /\ proc_table[0].state \in {"IDLE", "ACTIVE"}
    BY <1>1 DEF Sound, PidsOK, Live, IsLive
  <1>3. ASSUME NEW q \in WaitQueues, Waits(e, q)
        PROVE  Blocked(e) /\ proc_table[e].scheduler_queue = q
    <2>1. q \in Queues /\ StateIn(q) = "WAITING"
      BY NameAssumption DEF StateIn, Queues
    <2>2. PICK i \in 1 .. Len(queue[q]) : queue[q][i] = proc_table[e].pid
      BY <1>3 DEF Waits
    <2>3. PICK f \in Entries : BelongsTo(KernelCtx, f, q) /\ proc_table[f].pid = queue[q][i]
      BY <1>1, <2>1, <2>2 DEF Sound, QueuedOK
    <2>4. IsLive(f) /\ proc_table[f].scheduler_queue = q /\ Blocked(f)
      BY <1>1, <2>1, <2>3 DEF BelongsTo, Live, IsLive, Blocked
    <2> QED
      BY <1>2, <2>2, <2>3, <2>4
  <1>4. ASSUME Blocked(e) PROVE \E q \in WaitQueues : Waits(e, q)
    <2>1. proc_table[e].pid # 0
      BY <1>2, <1>4, EntryNumbers DEF Blocked, IsLive
    <2>2. /\ proc_table[e].scheduler_queue \in Queues
          /\ InQueue(KernelCtx, proc_table[e].scheduler_queue, proc_table[e].pid)
      BY <1>1, <1>4, <2>1 DEF Sound, NoneLost, Blocked, Inactive
    <2> DEFINE q == proc_table[e].scheduler_queue
    <2>3. PICK i \in 1 .. Len(queue[q]) : queue[q][i] = proc_table[e].pid
      BY <1>1, <2>2 DEF InQueue
    <2>4. PICK f \in Entries : BelongsTo(KernelCtx, f, q) /\ proc_table[f].pid = queue[q][i]
      BY <1>1, <2>2, <2>3 DEF Sound, QueuedOK
    <2>5. IsLive(f)
      BY <1>1, <2>4 DEF BelongsTo, Live, IsLive
    <2>6. f = e
      BY <1>2, <2>3, <2>4, <2>5
    <2>7. StateIn(q) = "WAITING"
      BY <1>1, <1>4, <2>4, <2>6 DEF BelongsTo, Blocked
    <2>8. q \in WaitQueues
      BY <2>2, <2>7, QueueStates DEF StateIn, Queues
    <2> QED
      BY <2>3, <2>8 DEF Waits
  <1>5. proc_table[e].pid \in Nat
    BY <1>1, PCBFields
  <1>6. \A q, r \in WaitQueues : Waits(e, q) /\ Waits(e, r) => q = r
    BY <1>3
  <1> QED
    BY <1>2, <1>3, <1>4, <1>5, <1>6

-----------------------------------------------------------------------------
(***************************************************************************)
(* The programs that do not move stay where they are.                      *)
(***************************************************************************)

IdsStay == \A slot \in Slots : ids[slot] # -1 => ids'[slot] = ids[slot]

LEMMA PlacesStay ==
    ASSUME IdsInv, NEW M, program' = program, IdsStay,
           \A f \in Entries \ M : pc'[f] = pc[f]
    PROVE  \A f \in Entries \ M :
              /\ Inside(f)' <=> Inside(f)
              /\ Inside(f) => /\ ids'[ShellSlot(f)] = ids[ShellSlot(f)]
                              /\ ids[ShellSlot(f)] \in Mutexes
              /\ \A q : Parked(f, q) => Parked(f, q)'
  <1> SUFFICES ASSUME NEW f \in Entries \ M
               PROVE  /\ Inside(f)' <=> Inside(f)
                      /\ Inside(f) => /\ ids'[ShellSlot(f)] = ids[ShellSlot(f)]
                                      /\ ids[ShellSlot(f)] \in Mutexes
                      /\ \A q : Parked(f, q) => Parked(f, q)'
    OBVIOUS
  <1>1. /\ Shells' = Shells /\ Players' = Players /\ pc'[f] = pc[f]
        /\ ShellSlot(f)' = ShellSlot(f) /\ Own(f)' = Own(f) /\ LockPlaces' = LockPlaces
    BY DEF Shells, Players, ShellSlot, Own, Ping, Pong, LockPlaces
  <1>2. Inside(f)' <=> Inside(f)
    BY <1>1 DEF Inside
  <1>3. ASSUME f \in Shells, pc[f] \in LockPlaces
        PROVE  /\ ids'[ShellSlot(f)] = ids[ShellSlot(f)] /\ ids[ShellSlot(f)] \in Mutexes
    <2>1. pc[f] \notin FirstPlaces
      BY <1>3 DEF LockPlaces, FirstPlaces
    <2>2. ids[ShellSlot(f)] # -1 /\ ids[ShellSlot(f)] \in Mutexes /\ ShellSlot(f) \in Slots
      BY <1>3, <2>1, IdsUsed, SlotFacts DEF IdsInv, IdsKnown
    <2> QED
      BY <2>2 DEF IdsStay
  <1>4. ASSUME f \in Players, pc[f] = "sleep"
        PROVE  ids'[Own(f)] = ids[Own(f)]
    <2>1. pc[f] \notin FirstPlaces /\ pc[f] \notin AskPlaces
      BY <1>4 DEF AskPlaces, FirstPlaces
    <2>2. ids[Ping] # -1 /\ ids[Pong] # -1
      BY <1>4, <2>1 DEF IdsInv, IdsKnown
    <2>3. Own(f) \in {Ping, Pong} /\ Ping \in Slots /\ Pong \in Slots
      BY SlotFacts
    <2> QED
      BY <2>2, <2>3 DEF IdsStay
  <1>5. ASSUME NEW q, Parked(f, q) PROVE Parked(f, q)'
    <2>1. CASE f \in Shells /\ pc[f] \in {"read", "cmdNap"} /\ q = MutexQ(ids[ShellSlot(f)])
      <3>1. ids'[ShellSlot(f)] = ids[ShellSlot(f)]
        BY <1>3, <2>1 DEF LockPlaces
      <3> QED
        BY <1>1, <2>1, <3>1 DEF Parked
    <2>2. CASE f \in Players /\ pc[f] = "sleep" /\ q = SemQ(ids[Own(f)])
      BY <1>1, <1>4, <2>2 DEF Parked
    <2> QED
      BY <1>5, <2>1, <2>2 DEF Parked
  <1> QED
    BY <1>2, <1>3, <1>5 DEF Inside

\* Whoever waits after the step waited before it, or has just come to the queue.
QueuedBy(M) ==
    \A q \in WaitQueues : \A i \in 1 .. Len(queue'[q]) :
        \/ \E j \in 1 .. Len(queue[q]) : queue[q][j] = queue'[q][i]
        \/ \E e \in M : /\ queue'[q][i] = proc_table'[e].pid
                        /\ IsLive(e)' /\ Parked(e, q)'

LiveOn(M) ==
    \A f \in Entries \ M : IsLive(f) => IsLive(f)' /\ proc_table'[f].pid = proc_table[f].pid

IdleIn(M) == \A e \in M : \A q \in WaitQueues : ~Waits(e, q)

\* Whoever owns or waits for a mutex before the step does so after it.
OwnersKept(M) ==
    \A f \in Entries \ M : \A m \in Mutexes :
        IsLive(f) /\ OwnsOrWaits(f, m) => OwnsOrWaits(f, m)'

LEMMA WaitersStayParked ==
    ASSUME IdsInv, WaitersParked, NEW M \in SUBSET Entries, program' = program, IdsStay,
           \A f \in Entries \ M : pc'[f] = pc[f],
           QueuedBy(M), LiveOn(M), IdleIn(M)
    PROVE  WaitersParked'
  <1>1. SUFFICES ASSUME NEW q \in WaitQueues, NEW i \in 1 .. Len(queue'[q])
                 PROVE  \E e \in Entries : /\ IsLive(e)' /\ proc_table'[e].pid = queue'[q][i]
                                           /\ Parked(e, q)'
    BY DEF WaitersParked
  <1>2. CASE \E j \in 1 .. Len(queue[q]) : queue[q][j] = queue'[q][i]
    <2>1. PICK j \in 1 .. Len(queue[q]) : queue[q][j] = queue'[q][i]
      BY <1>2
    <2>2. PICK f \in Entries : IsLive(f) /\ proc_table[f].pid = queue[q][j] /\ Parked(f, q)
      BY DEF WaitersParked
    <2>3. f \notin M
      BY <2>2 DEF IdleIn, Waits
    <2>4. Parked(f, q)'
      BY <2>2, <2>3, PlacesStay
    <2>5. IsLive(f)' /\ proc_table'[f].pid = proc_table[f].pid
      BY <2>2, <2>3 DEF LiveOn
    <2> QED
      BY <2>1, <2>2, <2>4, <2>5
  <1>3. CASE \E e \in M : /\ queue'[q][i] = proc_table'[e].pid
                          /\ IsLive(e)' /\ Parked(e, q)'
    BY <1>3
  <1> QED
    BY <1>2, <1>3 DEF QueuedBy

LEMMA OthersOwn ==
    ASSUME IdsInv, InsideOwns, NEW M \in SUBSET Entries, program' = program, IdsStay,
           \A f \in Entries \ M : pc'[f] = pc[f], OwnersKept(M),
           \A e \in M : Inside(e)' => OwnsOrWaits(e, ids[ShellSlot(e)])'
    PROVE  InsideOwns'
  <1>1. SUFFICES ASSUME NEW f \in Entries, Inside(f)'
                 PROVE  OwnsOrWaits(f, ids[ShellSlot(f)])'
    BY DEF InsideOwns
  <1>2. CASE f \in M
    BY <1>1, <1>2
  <1>3. CASE f \notin M
    <2>1. /\ Inside(f) /\ ids'[ShellSlot(f)] = ids[ShellSlot(f)]
          /\ ids[ShellSlot(f)] \in Mutexes
      BY <1>1, <1>3, PlacesStay
    <2>2. pc[f] # "gone"
      BY <2>1 DEF Inside, LockPlaces
    <2>3. IsLive(f) /\ OwnsOrWaits(f, ids[ShellSlot(f)])
      BY <2>1, <2>2 DEF InsideOwns, IdsInv, LiveUntilGone
    <2>4. PICK m \in Mutexes : m = ids[ShellSlot(f)]
      BY <2>1
    <2>5. OwnsOrWaits(f, m)'
      BY <1>3, <2>3, <2>4 DEF OwnersKept
    <2>6. (ids[ShellSlot(f)])' = m
      BY <2>1, <2>4 DEF ShellSlot
    <2> QED
      BY <2>5, <2>6 DEF OwnsOrWaits, Owns, Waits
  <1> QED
    BY <1>2, <1>3

\* Nobody comes to a queue or leaves it, and the owners stay.
LEMMA QueuesKept ==
    ASSUME KInv, NEW M, QueuesStay
    PROVE  QueuedBy(M)
  BY DEF QueuedBy, QueuesStay

LEMMA OwnersStayKept ==
    ASSUME KInv, NEW M \in SUBSET Entries, LiveOn(M), OwnersStay(Mutexes),
           \A m \in Mutexes : queue'[MutexQ(m)] = queue[MutexQ(m)]
    PROVE  OwnersKept(M)
  <1> SUFFICES ASSUME NEW f \in Entries \ M, NEW m \in Mutexes, IsLive(f), OwnsOrWaits(f, m)
               PROVE  OwnsOrWaits(f, m)'
    BY DEF OwnersKept
  <1>1. /\ proc_table'[f].pid = proc_table[f].pid /\ mutexes'[m].owner = mutexes[m].owner
        /\ queue'[MutexQ(m)] = queue[MutexQ(m)]
    BY DEF LiveOn, OwnersStay
  <1> QED
    BY <1>1 DEF OwnsOrWaits, Owns, Waits

LEMMA MutexQueuesStay ==
    ASSUME QueuesStay
    PROVE  \A m \in Mutexes : queue'[MutexQ(m)] = queue[MutexQ(m)]
  BY WaitNames DEF QueuesStay

\* The asker is alone: nobody else begins to ask, and an id is stored by its asker.
LEMMA StillAlone ==
    ASSUME IdsInv, Alone, NEW e \in Entries, program' = program,
           \A f \in Entries \ {e} : pc'[f] = pc[f],
           \A slot \in Slots : slot \in Asking(e)' =>
               /\ ids'[slot] = -1
               /\ slot \in Asking(e) \/ \A f \in Entries : slot \notin Asking(f),
           \A slot \in Slots : ids'[slot] = ids[slot] \/ slot \in Asking(e)
    PROVE  Alone'
  <1>1. \A f \in Entries \ {e} : Asking(f)' = Asking(f)
    BY DEF Asking, ShellSlot, Ping, Pong
  <1>2. ASSUME NEW slot \in Slots, NEW f \in Entries, slot \in Asking(f)'
        PROVE  ids'[slot] = -1
    BY <1>1, <1>2 DEF Alone
  <1>3. ASSUME NEW slot \in Slots, NEW f \in Entries, NEW g \in Entries,
               slot \in Asking(f)', slot \in Asking(g)'
        PROVE  f = g
    BY <1>1, <1>3 DEF Alone
  <1> QED
    BY <1>2, <1>3 DEF Alone, Slots

LEMMA MovesFacts ==
    ASSUME IdsInv, NEW place, Moves(place)
    PROVE  /\ {active_proc} \in SUBSET Entries /\ active_proc \in Entries /\ KInv
           /\ IsLive(active_proc) /\ LiveOn({active_proc}) /\ IdleIn({active_proc})
           /\ \A f \in Entries \ {active_proc} : pc'[f] = pc[f]
           /\ pc'[active_proc] = place /\ program' = program
           /\ Shells' = Shells /\ Players' = Players /\ Shells \cap Players = {}
           /\ Shells \subseteq Entries /\ Players \subseteq Entries
  <1>1. /\ active_proc \in Entries /\ InUserProcess /\ KInv /\ program' = program
        /\ pc' = [pc EXCEPT ![active_proc] = place] /\ pc \in [Entries -> Places]
    BY DEF Moves, IdsInv, ProgramTypes
  <1>2. /\ \A f \in Entries \ {active_proc} : pc'[f] = pc[f]
        /\ pc'[active_proc] = place
    BY <1>1
  <1>3. IdleIn({active_proc}) /\ IsLive(active_proc)
    BY <1>1, InUserFacts DEF IdleIn, Waits
  <1>4. LiveOn({active_proc})
    BY DEF Moves, LiveOn
  <1>5. /\ Shells' = Shells /\ Players' = Players /\ Shells \cap Players = {}
        /\ Shells \subseteq Entries /\ Players \subseteq Entries
    BY <1>1 DEF Shells, Players
  <1> QED
    BY <1>1, <1>2, <1>3, <1>4, <1>5

\* The active program is in no queue, so inside it owns its mutex.
LEMMA MoverOwns ==
    ASSUME IdsInv, InsideOwns, NEW place, Moves(place), Inside(active_proc)
    PROVE  /\ Owns(active_proc, ids[ShellSlot(active_proc)])
           /\ ids[ShellSlot(active_proc)] \in Mutexes
  <1>1. IdleIn({active_proc}) /\ active_proc \in Entries
    BY MovesFacts
  <1>2. ids[ShellSlot(active_proc)] \in Mutexes
    BY IdsUsed DEF Inside, LockPlaces, FirstPlaces
  <1>3. ~Waits(active_proc, MutexQ(ids[ShellSlot(active_proc)]))
    BY <1>1, <1>2, WaitNames DEF IdleIn
  <1> QED
    BY <1>1, <1>2, <1>3 DEF InsideOwns, OwnsOrWaits

\* The part that all steps of a program share.
LEMMA LockInvMoves ==
    ASSUME IdsInv, LockInv, NEW place, Moves(place), IdsStay, QueuedBy({active_proc}),
           OwnersKept({active_proc}), Alone', NEW e, e = active_proc,
           Inside(e)' => OwnsOrWaits(e, ids[ShellSlot(e)])'
    PROVE  LockInv'
  <1>1. /\ {e} \in SUBSET Entries /\ LiveOn({e}) /\ IdleIn({e})
        /\ \A f \in Entries \ {e} : pc'[f] = pc[f]
        /\ program' = program /\ QueuedBy({e}) /\ OwnersKept({e})
    BY MovesFacts
  <1>2. WaitersParked'
    BY <1>1, WaitersStayParked DEF LockInv
  <1>3. InsideOwns'
    BY <1>1, OthersOwn DEF LockInv
  <1> QED
    BY <1>2, <1>3 DEF LockInv

\* The active program goes on where the queues and the owners stay.
LEMMA LockInvCalm ==
    ASSUME IdsInv, LockInv, NEW place, Moves(place), IdsStay, QueuesStay, OwnersStay(Mutexes),
           Alone', place \in LockPlaces => pc[active_proc] \in LockPlaces
    PROVE  LockInv'
  <1>1. /\ {active_proc} \in SUBSET Entries /\ LiveOn({active_proc}) /\ KInv
        /\ pc'[active_proc] = place /\ Shells' = Shells /\ active_proc \in Entries
    BY MovesFacts
  <1>2. QueuedBy({active_proc}) /\ OwnersKept({active_proc})
    BY <1>1, QueuesKept, OwnersStayKept, MutexQueuesStay
  <1>3. PICK e \in Entries : e = active_proc
    BY <1>1
  <1>4. ASSUME Inside(e)'
        PROVE  OwnsOrWaits(e, ids[ShellSlot(e)])'
    <2>1. Inside(active_proc) /\ e \in Shells
      BY <1>1, <1>3, <1>4 DEF Inside, LockPlaces
    <2>2. PICK m \in Mutexes : m = ids[ShellSlot(e)] /\ Owns(e, m)
      BY <1>3, <2>1, MoverOwns DEF LockInv
    <2>3. m # -1 /\ ShellSlot(e) \in Slots
      BY <1>1, SlotFacts, MutexAssumption, SizeAssumption DEF Mutexes
    <2>4. (ids[ShellSlot(e)])' = m
      BY <2>2, <2>3 DEF IdsStay, ShellSlot
    <2>5. mutexes'[m].owner = e /\ m \in Mutexes'
      BY <2>2 DEF Owns, OwnersStay, Mutexes
    <2> QED
      BY <2>4, <2>5 DEF OwnsOrWaits, Owns
  <1> QED
    BY <1>2, <1>3, <1>4, LockInvMoves

-----------------------------------------------------------------------------
(***************************************************************************)
(* Each kind of step keeps LockInv, as long as nobody races.               *)
(***************************************************************************)

LEMMA IdsUnchanged ==
    ASSUME ids' = ids
    PROVE  IdsStay
  BY DEF IdsStay

\* A step that leaves the ids, by a program that asks for nothing new.
LEMMA AloneStays ==
    ASSUME IdsInv, LockInv, NEW place, Moves(place), ids' = ids, NEW e, e = active_proc,
           Asking(e)' \subseteq Asking(e)
    PROVE  Alone'
  <1>1. /\ e \in Entries /\ program' = program /\ \A f \in Entries \ {e} : pc'[f] = pc[f]
    BY MovesFacts
  <1>2. \A slot \in Slots : slot \in Asking(e)' =>
            /\ ids'[slot] = -1
            /\ slot \in Asking(e) \/ \A f \in Entries : slot \notin Asking(f)
    BY <1>1 DEF LockInv, Alone
  <1>3. \A slot \in Slots : ids'[slot] = ids[slot] \/ slot \in Asking(e)
    OBVIOUS
  <1> QED
    BY <1>1, <1>2, <1>3, StillAlone DEF LockInv

LEMMA NothingAsked ==
    ASSUME NEW e, pc'[e] \notin {"init", "store", "initPong", "storePong"}
    PROVE  Asking(e)' = {}
  BY DEF Asking

LEMMA StillLocks ==
    ASSUME IdsInv, LockInv, StepStill
    PROVE  LockInv'
  <1>1. /\ program' = program /\ pc' = pc /\ ids' = ids /\ KInv
        /\ QueuesStay /\ OwnersStay(Mutexes)
        /\ \A e \in Entries : IsLive(e) => IsLive(e)' /\ proc_table'[e].pid = proc_table[e].pid
    BY DEF StepStill, progVars, AllStays, MutexesStay, IdsInv
  <1>2. Alone'
    BY <1>1 DEF LockInv, Alone, Asking, ShellSlot, Ping, Pong, Slots
  <1>3. {} \in SUBSET Entries /\ LiveOn({}) /\ IdleIn({}) /\ IdsStay
    BY <1>1 DEF LiveOn, IdleIn, IdsStay
  <1>4. QueuedBy({}) /\ OwnersKept({})
    BY <1>1, <1>3, QueuesKept, OwnersStayKept, MutexQueuesStay
  <1>5. \A f \in Entries \ {} : pc'[f] = pc[f]
    BY <1>1
  <1>6. WaitersParked'
    BY <1>1, <1>3, <1>4, <1>5, WaitersStayParked DEF LockInv
  <1>7. InsideOwns'
    BY <1>1, <1>3, <1>4, <1>5, OthersOwn DEF LockInv
  <1> QED
    BY <1>2, <1>6, <1>7 DEF LockInv

LEMMA QuietLocks ==
    ASSUME IdsInv, LockInv, StepQuiet
    PROVE  LockInv'
  <1>1. PICK place \in Places : Moves(place) /\ Calm(place) /\ TablesStay
    BY DEF StepQuiet
  <1>2. PICK e \in Entries : e = active_proc
    BY <1>1, MovesFacts
  <1>3. /\ pc'[e] = place /\ program' = program /\ ids' = ids /\ IdsStay
        /\ QueuesStay /\ OwnersStay(Mutexes)
    BY <1>1, <1>2, MovesFacts, IdsUnchanged DEF TablesStay
  <1>4. Asking(e)' \subseteq Asking(e)
    <2>1. CASE place \notin {"init", "store", "initPong", "storePong"}
      BY <1>3, <2>1, NothingAsked
    <2>2. CASE place \in {"init", "store", "initPong", "storePong"}
      <3>1. program[e] = "shell" /\ place = "store" /\ pc[e] = "init"
        BY <1>1, <1>2, <2>2 DEF Calm, Shells
      <3> QED
        BY <1>3, <3>1 DEF Asking, ShellSlot
    <2> QED
      BY <2>1, <2>2
  <1>5. Alone'
    BY <1>1, <1>2, <1>3, <1>4, AloneStays
  <1> QED
    BY <1>1, <1>3, <1>5, LockInvCalm DEF Calm

LEMMA GivenLocks ==
    ASSUME IdsInv, LockInv, StepGiven
    PROVE  LockInv'
  <1>1. PICK place \in Places :
            /\ Moves(place) /\ TablesStay /\ active_proc \in Players
            /\ \/ pc[active_proc] = "init" /\ place = "store"
               \/ pc[active_proc] = "initPong" /\ place = "storePong"
    BY DEF StepGiven
  <1>2. PICK e \in Entries : e = active_proc
    BY <1>1, MovesFacts
  <1>3. /\ pc'[e] = place /\ program' = program /\ ids' = ids /\ IdsStay
        /\ QueuesStay /\ OwnersStay(Mutexes)
    BY <1>1, <1>2, MovesFacts, IdsUnchanged DEF TablesStay
  <1>4. Asking(e)' \subseteq Asking(e)
    <2>1. program[e] # "shell"
      BY <1>1, <1>2 DEF Players
    <2> QED
      BY <1>1, <1>2, <1>3, <2>1 DEF Asking, Ping, Pong
  <1>5. Alone'
    BY <1>1, <1>2, <1>3, <1>4, AloneStays
  <1>6. place \in LockPlaces => pc[active_proc] \in LockPlaces
    BY <1>1 DEF LockPlaces
  <1> QED
    BY <1>1, <1>3, <1>5, <1>6, LockInvCalm

LEMMA AsksLocks ==
    ASSUME IdsInv, LockInv, StepAsks, races' = 0
    PROVE  LockInv'
  <1>1. PICK place \in Places, slot \in Slots :
            /\ Moves(place) /\ TablesStay /\ races' = races + Races(slot) /\ ids[slot] = -1
            /\ \/ active_proc \in Shells /\ pc[active_proc] = "test" /\ place = "init"
                  /\ slot = ShellSlot(active_proc)
               \/ active_proc \in Players /\ pc[active_proc] = "test" /\ place = "init"
                  /\ slot = Ping
               \/ active_proc \in Players /\ pc[active_proc] = "testPong" /\ place = "initPong"
                  /\ slot = Pong
    BY DEF StepAsks
  <1>2. PICK e \in Entries : e = active_proc
    BY <1>1, MovesFacts
  <1>3. /\ pc'[e] = place /\ program' = program /\ ids' = ids /\ IdsStay
        /\ QueuesStay /\ OwnersStay(Mutexes) /\ \A f \in Entries \ {e} : pc'[f] = pc[f]
    BY <1>1, <1>2, MovesFacts, IdsUnchanged DEF TablesStay
  <1>4. Asking(e)' = {slot}
    BY <1>1, <1>2, <1>3 DEF Asking, Shells, Players, ShellSlot, Ping, Pong
  <1>5. \A f \in Entries : slot \notin Asking(f)
    <2>1. Races(slot) = 0
      <3>1. Races(slot) \in {0, 1} /\ races \in Nat
        BY DEF Races, IdsInv, ProgramTypes
      <3> QED
        BY <1>1, <3>1
    <2>2. ids[slot] < 0
      BY <1>1
    <2> QED
      BY <2>1, <2>2 DEF Races
  <1>6. Alone'
    <2>1. \A s \in Slots : s \in Asking(e)' =>
              /\ ids'[s] = -1
              /\ s \in Asking(e) \/ \A f \in Entries : s \notin Asking(f)
      BY <1>1, <1>3, <1>4, <1>5
    <2>2. \A s \in Slots : ids'[s] = ids[s] \/ s \in Asking(e)
      BY <1>3
    <2> QED
      BY <1>3, <2>1, <2>2, StillAlone DEF LockInv
  <1>7. place \in LockPlaces => pc[active_proc] \in LockPlaces
    BY <1>1 DEF LockPlaces
  <1> QED
    BY <1>1, <1>3, <1>6, <1>7, LockInvCalm

LEMMA StoresLocks ==
    ASSUME IdsInv, LockInv, StepStores
    PROVE  LockInv'
  <1>1. PICK place \in Places, slot \in Slots :
            /\ Moves(place) /\ AllStays
            /\ ids' = [ids EXCEPT ![slot] = eax[active_proc]]
            /\ \/ active_proc \in Shells /\ pc[active_proc] = "store" /\ place = "nap"
                  /\ slot = ShellSlot(active_proc)
               \/ active_proc \in Players /\ pc[active_proc] = "store" /\ place = "testPong"
                  /\ slot = Ping
               \/ active_proc \in Players /\ pc[active_proc] = "storePong"
                  /\ place = (IF program[active_proc] = "ping" THEN "serve" ELSE "wait")
                  /\ slot = Pong
    BY DEF StepStores
  <1>2. PICK e \in Entries : e = active_proc
    BY <1>1, MovesFacts
  <1>3. /\ pc'[e] = place /\ program' = program
        /\ QueuesStay /\ OwnersStay(Mutexes) /\ \A f \in Entries \ {e} : pc'[f] = pc[f]
    BY <1>1, <1>2, MovesFacts DEF AllStays, MutexesStay
  <1>4. slot \in Asking(e)
    BY <1>1, <1>2 DEF Asking, Shells, Players
  <1>5. \A s \in Slots : s # slot => ids'[s] = ids[s]
    BY <1>1 DEF IdsInv, ProgramTypes
  <1>6. IdsStay
    BY <1>4, <1>5 DEF IdsStay, LockInv, Alone
  <1>7. Alone'
    <2>1. Asking(e)' = {}
      BY <1>1, <1>3, NothingAsked
    <2> QED
      BY <1>3, <1>4, <1>5, <2>1, StillAlone DEF LockInv
  <1>8. place \in LockPlaces => pc[active_proc] \in LockPlaces
    BY <1>1 DEF LockPlaces
  <1> QED
    BY <1>1, <1>3, <1>6, <1>7, <1>8, LockInvCalm

LEMMA WaitQueueSeqs ==
    ASSUME KInv
    PROVE  \A q \in WaitQueues : queue[q] \in Seq(Nat)
  <1>1. KernelCtx.queue \in [Queues -> Seq(Nat)] /\ WaitQueues \subseteq Queues
    BY DEF KInv, Safe, Sound, TypedContext, IsContext, Queues
  <1> QED
    BY <1>1, KernelCtxFields

LEMMA QueuedAtEnd ==
    ASSUME KInv, NEW e \in Entries, NEW q \in WaitQueues, OthersStay(q),
           queue'[q] = Append(queue[q], proc_table[e].pid),
           IsLive(e)', proc_table'[e].pid = proc_table[e].pid
    PROVE  /\ Parked(e, q)' => QueuedBy({e})
           /\ Waits(e, q)'
           /\ \A f \in Entries, r \in WaitQueues :
                  proc_table'[f].pid = proc_table[f].pid /\ Waits(f, r) => Waits(f, r)'
  <1>1. queue[q] \in Seq(Nat) /\ proc_table[e].pid \in Nat
    <2>1. KernelCtx.proc \in [Entries -> PCB]
      BY DEF KInv, Safe, Sound, TypedContext, IsContext
    <2> QED
      BY <2>1, WaitQueueSeqs, PCBFields, KernelCtxFields
  <1>2. /\ Len(queue'[q]) = Len(queue[q]) + 1 /\ Len(queue[q]) \in Nat
        /\ \A i \in 1 .. Len(queue[q]) : queue'[q][i] = queue[q][i]
        /\ queue'[q][Len(queue[q]) + 1] = proc_table[e].pid
    BY <1>1
  <1>3. ASSUME Parked(e, q)', NEW r \in WaitQueues, NEW i \in 1 .. Len(queue'[r])
        PROVE  \/ \E j \in 1 .. Len(queue[r]) : queue[r][j] = queue'[r][i]
               \/ \E f \in {e} : /\ queue'[r][i] = proc_table'[f].pid
                                 /\ IsLive(f)' /\ Parked(f, r)'
    <2>1. CASE r # q
      BY <2>1 DEF OthersStay
    <2>2. CASE r = q /\ i \in 1 .. Len(queue[q])
      BY <1>2, <2>2
    <2>3. CASE r = q /\ i = Len(queue[q]) + 1
      BY <1>2, <1>3, <2>3
    <2> QED
      BY <1>2, <2>1, <2>2, <2>3
  <1>4. Waits(e, q)'
    <2>1. Len(queue[q]) + 1 \in 1 .. Len(queue'[q])
      BY <1>2
    <2> QED
      BY <1>2, <2>1 DEF Waits
  <1>5. ASSUME NEW f \in Entries, NEW r \in WaitQueues, Waits(f, r),
               proc_table'[f].pid = proc_table[f].pid
        PROVE  Waits(f, r)'
    <2>1. PICK i \in 1 .. Len(queue[r]) : queue[r][i] = proc_table[f].pid
      BY <1>5 DEF Waits
    <2>2. i \in 1 .. Len(queue'[r]) /\ queue'[r][i] = queue[r][i]
      BY <1>2, <2>1 DEF OthersStay
    <2> QED
      BY <1>5, <2>1, <2>2 DEF Waits
  <1> QED
    BY <1>3, <1>4, <1>5 DEF QueuedBy

LEMMA HeadLeaves ==
    ASSUME KInv, NEW q \in WaitQueues, OthersStay(q), queue[q] # <<>>,
           queue'[q] = Tail(queue[q])
    PROVE  /\ \A M : QueuedBy(M)
           /\ \A f \in Entries, r \in WaitQueues :
                  proc_table'[f].pid = proc_table[f].pid /\ Waits(f, r)
                  => Waits(f, r)' \/ (r = q /\ proc_table[f].pid = Head(queue[q]))
  <1>1. queue[q] \in Seq(Nat)
    BY WaitQueueSeqs
  <1>2. /\ Len(queue'[q]) = Len(queue[q]) - 1 /\ Len(queue[q]) \in Nat \ {0}
        /\ Head(queue[q]) = queue[q][1]
        /\ \A i \in 1 .. Len(queue[q]) - 1 : queue'[q][i] = queue[q][i + 1]
    BY <1>1, HeadTailProperties, EmptySeq
  <1>3. ASSUME NEW M, NEW r \in WaitQueues, NEW i \in 1 .. Len(queue'[r])
        PROVE  \E j \in 1 .. Len(queue[r]) : queue[r][j] = queue'[r][i]
    <2>1. CASE r # q
      BY <2>1 DEF OthersStay
    <2>2. CASE r = q
      <3>1. i \in 1 .. Len(queue'[q])
        BY <2>2
      <3>2. i + 1 \in 1 .. Len(queue[q]) /\ queue'[q][i] = queue[q][i + 1]
        BY <1>2, <3>1
      <3> QED
        BY <2>2, <3>2
    <2> QED
      BY <2>1, <2>2
  <1>4. ASSUME NEW f \in Entries, NEW r \in WaitQueues, Waits(f, r),
               proc_table'[f].pid = proc_table[f].pid,
               ~(r = q /\ proc_table[f].pid = Head(queue[q]))
        PROVE  Waits(f, r)'
    <2>1. PICK i \in 1 .. Len(queue[r]) : queue[r][i] = proc_table[f].pid
      BY <1>4 DEF Waits
    <2>2. CASE r # q
      BY <1>4, <2>1, <2>2 DEF Waits, OthersStay
    <2>3. CASE r = q
      <3>1. i # 1
        BY <1>2, <1>4, <2>1, <2>3
      <3>2. PICK j : j = i - 1
        OBVIOUS
      <3>3. j \in 1 .. Len(queue'[q]) /\ queue'[q][j] = queue[q][i]
        BY <1>2, <2>1, <2>3, <3>1, <3>2
      <3> QED
        BY <1>4, <2>1, <2>3, <3>3 DEF Waits
    <2> QED
      BY <2>2, <2>3
  <1>5. \A M : QueuedBy(M)
    BY <1>3 DEF QueuedBy
  <1> QED
    BY <1>4, <1>5

LEMMA LocksLocks ==
    ASSUME IdsInv, LockInv, StepLocks
    PROVE  LockInv'
  <1>1. PICK place \in {"read", "cmdNap"} :
            /\ Moves(place) /\ ids' = ids /\ active_proc \in Shells
            /\ pc[active_proc] \in {"lock", "cmdLock"}
            /\ CallMutexLock(ids[ShellSlot(active_proc)])
    BY DEF StepLocks
  <1>2. PICK e \in Entries : e = active_proc
    BY <1>1, MovesFacts
  <1>3. /\ pc'[e] = place /\ program' = program /\ KInv /\ IdsStay /\ e \in Shells /\ IsLive(e)
        /\ LiveOn({e}) /\ e \in Shells' /\ Shells \cap Players = {}
    BY <1>1, <1>2, MovesFacts, IdsUnchanged
  <1>4. PICK m \in Mutexes : m = ids[ShellSlot(e)]
    BY <1>1, <1>2, IdsUsed DEF FirstPlaces
  <1>5. /\ GoesOn(Entries) /\ OwnersStay(Mutexes \ {m})
        /\ \/ mutexes[m].owner = NULL /\ mutexes'[m].owner = e /\ QueuesStay
           \/ /\ mutexes'[m].owner = mutexes[m].owner /\ OthersStay(MutexQ(m))
              /\ queue'[MutexQ(m)] = Append(queue[MutexQ(m)], proc_table[e].pid)
    <2>1. CallMutexLock(m)
      BY <1>1, <1>2, <1>4
    <2> QED
      BY <1>2, <1>3, <2>1, LockStep
  <1>6. /\ Parked(e, MutexQ(m))' /\ IsLive(e)' /\ proc_table'[e].pid = proc_table[e].pid
        /\ MutexQ(m) \in WaitQueues /\ (ids[ShellSlot(e)])' = m
        /\ \A f \in Entries : IsLive(f) => proc_table'[f].pid = proc_table[f].pid
        /\ \A n \in Mutexes : MutexQ(n) \in WaitQueues
    BY <1>1, <1>3, <1>4, <1>5, WaitNames DEF Parked, GoesOn, ShellSlot
  <1>7. Alone'
    <2>1. Asking(e)' \subseteq Asking(e)
      BY <1>3, NothingAsked
    <2> QED
      BY <1>1, <1>2, <2>1, AloneStays
  <1>8. CASE mutexes[m].owner = NULL /\ mutexes'[m].owner = e /\ QueuesStay
    <2>1. QueuedBy({e})
      BY <1>3, <1>8, QueuesKept
    <2>2. OwnersKept({e})
      <3>1. ASSUME NEW f \in Entries \ {e}, NEW n \in Mutexes, IsLive(f), OwnsOrWaits(f, n)
            PROVE  OwnsOrWaits(f, n)'
        <4>1. CASE Owns(f, n)
          <5>1. n # m
            BY <1>8, <4>1, EntryNumbers DEF Owns
          <5> QED
            BY <1>5, <4>1, <5>1 DEF OwnersStay, Owns, OwnsOrWaits, Mutexes
        <4>2. CASE Waits(f, MutexQ(n))
          BY <1>6, <1>8, <3>1, <4>2 DEF Waits, OwnsOrWaits, QueuesStay
        <4> QED
          BY <3>1, <4>1, <4>2 DEF OwnsOrWaits
      <3> QED
        BY <3>1 DEF OwnersKept
    <2>3. OwnsOrWaits(e, ids[ShellSlot(e)])'
      BY <1>6, <1>8 DEF OwnsOrWaits, Owns, Mutexes
    <2> QED
      BY <1>1, <1>2, <1>3, <1>7, <2>1, <2>2, <2>3, LockInvMoves
  <1>9. CASE /\ mutexes'[m].owner = mutexes[m].owner /\ OthersStay(MutexQ(m))
             /\ queue'[MutexQ(m)] = Append(queue[MutexQ(m)], proc_table[e].pid)
    <2>1. /\ QueuedBy({e}) /\ Waits(e, MutexQ(m))'
          /\ \A f \in Entries, r \in WaitQueues :
                 proc_table'[f].pid = proc_table[f].pid /\ Waits(f, r) => Waits(f, r)'
      BY <1>3, <1>6, <1>9, QueuedAtEnd
    <2>2. OwnersKept({e})
      <3>1. ASSUME NEW f \in Entries \ {e}, NEW n \in Mutexes, IsLive(f), OwnsOrWaits(f, n)
            PROVE  OwnsOrWaits(f, n)'
        <4>1. CASE Owns(f, n)
          BY <1>5, <1>9, <4>1 DEF OwnersStay, Owns, OwnsOrWaits, Mutexes
        <4>2. CASE Waits(f, MutexQ(n))
          BY <1>6, <2>1, <3>1, <4>2 DEF OwnsOrWaits
        <4> QED
          BY <3>1, <4>1, <4>2 DEF OwnsOrWaits
      <3> QED
        BY <3>1 DEF OwnersKept
    <2>3. OwnsOrWaits(e, ids[ShellSlot(e)])'
      BY <1>6, <2>1 DEF OwnsOrWaits
    <2> QED
      BY <1>1, <1>2, <1>3, <1>7, <2>1, <2>2, <2>3, LockInvMoves
  <1> QED
    BY <1>5, <1>8, <1>9

LEMMA UnlocksLocks ==
    ASSUME IdsInv, LockInv, StepUnlocks
    PROVE  LockInv'
  <1>1. PICK place \in {"lock", "command"} :
            /\ Moves(place) /\ ids' = ids /\ active_proc \in Shells
            /\ pc[active_proc] \in {"unlock", "unlockEnd", "cmdUnlock"}
            /\ CallMutexUnlock(ids[ShellSlot(active_proc)])
    BY DEF StepUnlocks
  <1>2. PICK e \in Entries : e = active_proc
    BY <1>1, MovesFacts
  <1>3. /\ pc'[e] = place /\ program' = program /\ KInv /\ IdsStay /\ e \in Shells /\ IsLive(e)
        /\ LiveOn({e})
    BY <1>1, <1>2, MovesFacts, IdsUnchanged
  <1>4. PICK m \in Mutexes : m = ids[ShellSlot(e)] /\ Owns(e, m)
    <2>1. Inside(active_proc)
      BY <1>1 DEF Inside, LockPlaces
    <2> QED
      BY <1>1, <1>2, <2>1, MoverOwns DEF LockInv
  <1>5. /\ GoesOn(Entries) /\ OwnersStay(Mutexes \ {m})
        /\ \/ mutexes'[m].owner = NULL /\ queue[MutexQ(m)] = <<>> /\ QueuesStay
           \/ \E f \in Entries :
                 /\ IsLive(f) /\ queue[MutexQ(m)] # <<>>
                 /\ proc_table[f].pid = Head(queue[MutexQ(m)])
                 /\ mutexes'[m].owner = f /\ OthersStay(MutexQ(m))
                 /\ queue'[MutexQ(m)] = Tail(queue[MutexQ(m)])
    <2>1. CallMutexUnlock(m) /\ Owns(active_proc, m)
      BY <1>1, <1>2, <1>4
    <2> QED
      BY <1>3, <2>1, UnlockStep
  <1>6. /\ \A f \in Entries : IsLive(f) => proc_table'[f].pid = proc_table[f].pid
        /\ \A n \in Mutexes : MutexQ(n) \in WaitQueues /\ (MutexQ(n) = MutexQ(m) => n = m)
    BY <1>5, WaitNames DEF GoesOn
  <1>7. Alone'
    <2>1. Asking(e)' \subseteq Asking(e)
      BY <1>3, NothingAsked
    <2> QED
      BY <1>1, <1>2, <2>1, AloneStays
  <1>8. Inside(e)' => OwnsOrWaits(e, ids[ShellSlot(e)])'
    BY <1>3 DEF Inside, LockPlaces
  <1>9. ASSUME NEW f \in Entries \ {e}, NEW n \in Mutexes, Owns(f, n)
        PROVE  Owns(f, n)'
    <2>1. n # m
      BY <1>4, <1>9 DEF Owns
    <2> QED
      BY <1>5, <1>9, <2>1 DEF OwnersStay, Owns, Mutexes
  <1>10. CASE mutexes'[m].owner = NULL /\ queue[MutexQ(m)] = <<>> /\ QueuesStay
    <2>1. QueuedBy({e})
      BY <1>3, <1>10, QueuesKept
    <2>2. OwnersKept({e})
      <3>1. ASSUME NEW f \in Entries \ {e}, NEW n \in Mutexes, IsLive(f), OwnsOrWaits(f, n)
            PROVE  OwnsOrWaits(f, n)'
        <4>1. CASE Owns(f, n)
          BY <1>9, <4>1 DEF OwnsOrWaits
        <4>2. CASE Waits(f, MutexQ(n))
          BY <1>6, <1>10, <3>1, <4>2 DEF Waits, OwnsOrWaits, QueuesStay
        <4> QED
          BY <3>1, <4>1, <4>2 DEF OwnsOrWaits
      <3> QED
        BY <3>1 DEF OwnersKept
    <2> QED
      BY <1>1, <1>2, <1>3, <1>7, <1>8, <2>1, <2>2, LockInvMoves
  <1>11. CASE \E f \in Entries :
                 /\ IsLive(f) /\ queue[MutexQ(m)] # <<>>
                 /\ proc_table[f].pid = Head(queue[MutexQ(m)])
                 /\ mutexes'[m].owner = f /\ OthersStay(MutexQ(m))
                 /\ queue'[MutexQ(m)] = Tail(queue[MutexQ(m)])
    <2>1. PICK g \in Entries :
                 /\ IsLive(g) /\ queue[MutexQ(m)] # <<>>
                 /\ proc_table[g].pid = Head(queue[MutexQ(m)])
                 /\ mutexes'[m].owner = g /\ OthersStay(MutexQ(m))
                 /\ queue'[MutexQ(m)] = Tail(queue[MutexQ(m)])
      BY <1>11
    <2>2. /\ QueuedBy({e})
          /\ \A f \in Entries, r \in WaitQueues :
                 proc_table'[f].pid = proc_table[f].pid /\ Waits(f, r)
                 => Waits(f, r)' \/ (r = MutexQ(m) /\ proc_table[f].pid = Head(queue[MutexQ(m)]))
      BY <1>3, <1>6, <2>1, HeadLeaves
    <2>3. OwnersKept({e})
      <3>1. ASSUME NEW f \in Entries \ {e}, NEW n \in Mutexes, IsLive(f), OwnsOrWaits(f, n)
            PROVE  OwnsOrWaits(f, n)'
        <4>1. CASE Owns(f, n)
          BY <1>9, <4>1 DEF OwnsOrWaits
        <4>2. CASE Waits(f, MutexQ(n))
          <5>1. \/ Waits(f, MutexQ(n))'
                \/ MutexQ(n) = MutexQ(m) /\ proc_table[f].pid = Head(queue[MutexQ(m)])
            BY <1>6, <2>2, <3>1, <4>2
          <5>2. CASE Waits(f, MutexQ(n))'
            BY <5>2 DEF OwnsOrWaits
          <5>3. CASE MutexQ(n) = MutexQ(m) /\ proc_table[f].pid = Head(queue[MutexQ(m)])
            <6>1. f = g
              BY <1>3, <2>1, <3>1, <5>3, WaitFacts
            <6>2. n = m
              BY <1>6, <5>3
            <6> QED
              BY <2>1, <6>1, <6>2 DEF OwnsOrWaits, Owns, Mutexes
          <5> QED
            BY <5>1, <5>2, <5>3
        <4> QED
          BY <3>1, <4>1, <4>2 DEF OwnsOrWaits
      <3> QED
        BY <3>1 DEF OwnersKept
    <2> QED
      BY <1>1, <1>2, <1>3, <1>7, <1>8, <2>2, <2>3, LockInvMoves
  <1> QED
    BY <1>5, <1>10, <1>11

\* The semaphores' queues are not the mutexes'.
LEMMA SemQueueAlone ==
    ASSUME NEW s \in Semaphores, QueuesStay \/ OthersStay(SemQ(s))
    PROVE  \A m \in Mutexes : queue'[MutexQ(m)] = queue[MutexQ(m)]
  BY WaitNames DEF QueuesStay, OthersStay

LEMMA WaitsLocks ==
    ASSUME IdsInv, LockInv, StepWaits
    PROVE  LockInv'
  <1>1. /\ Moves("sleep") /\ ids' = ids /\ active_proc \in Players
        /\ pc[active_proc] = "wait" /\ CallSemWait(ids[Own(active_proc)])
    BY DEF StepWaits
  <1>2. PICK e \in Entries : e = active_proc
    BY <1>1, MovesFacts
  <1>3. /\ pc'[e] = "sleep" /\ program' = program /\ KInv /\ IdsStay /\ e \in Players /\ IsLive(e)
        /\ LiveOn({e}) /\ e \in Players' /\ {e} \in SUBSET Entries
    BY <1>1, <1>2, MovesFacts, IdsUnchanged
  <1>4. PICK s \in Semaphores : s = ids[Own(e)]
    BY <1>1, <1>2, IdsUsed DEF AskPlaces, FirstPlaces
  <1>5. /\ GoesOn(Entries) /\ OwnersStay(Mutexes)
        /\ \/ QueuesStay
           \/ /\ OthersStay(SemQ(s))
              /\ queue'[SemQ(s)] = Append(queue[SemQ(s)], proc_table[e].pid)
    <2>1. CallSemWait(s)
      BY <1>1, <1>2, <1>4
    <2> QED
      BY <1>2, <1>3, <2>1, SemWaitStep DEF MutexesStay
  <1>6. /\ Parked(e, SemQ(s))' /\ IsLive(e)' /\ proc_table'[e].pid = proc_table[e].pid
        /\ SemQ(s) \in WaitQueues
    BY <1>1, <1>3, <1>4, <1>5, WaitNames DEF Parked, GoesOn, Own, Ping, Pong
  <1>7. Alone'
    <2>1. Asking(e)' \subseteq Asking(e)
      BY <1>3, NothingAsked
    <2> QED
      BY <1>1, <1>2, <2>1, AloneStays
  <1>8. QueuedBy({e})
    <2>1. CASE QueuesStay
      BY <1>3, <2>1, QueuesKept
    <2>2. CASE /\ OthersStay(SemQ(s))
               /\ queue'[SemQ(s)] = Append(queue[SemQ(s)], proc_table[e].pid)
      BY <1>3, <1>6, <2>2, QueuedAtEnd
    <2> QED
      BY <1>5, <2>1, <2>2
  <1>9. OwnersKept({e})
    <2>1. \A m \in Mutexes : queue'[MutexQ(m)] = queue[MutexQ(m)]
      BY <1>5, SemQueueAlone
    <2> QED
      BY <1>3, <1>5, <2>1, OwnersStayKept
  <1>10. Inside(e)' => OwnsOrWaits(e, ids[ShellSlot(e)])'
    BY <1>3 DEF Inside, LockPlaces
  <1> QED
    BY <1>1, <1>2, <1>3, <1>7, <1>8, <1>9, <1>10, LockInvMoves

LEMMA PostsLocks ==
    ASSUME IdsInv, LockInv, StepPosts
    PROVE  LockInv'
  <1>1. /\ Moves("wait") /\ ids' = ids /\ active_proc \in Players
        /\ pc[active_proc] \in {"serve", "post"} /\ CallSemPost(ids[Others(active_proc)])
    BY DEF StepPosts
  <1>2. PICK e \in Entries : e = active_proc
    BY <1>1, MovesFacts
  <1>3. /\ pc'[e] = "wait" /\ program' = program /\ KInv /\ IdsStay
        /\ LiveOn({e}) /\ {e} \in SUBSET Entries
    BY <1>1, <1>2, MovesFacts, IdsUnchanged
  <1>4. PICK s \in Semaphores : s = ids[Others(e)] /\ SemQ(s) \in WaitQueues
    BY <1>1, <1>2, IdsUsed, WaitNames DEF AskPlaces, FirstPlaces
  <1>5. /\ GoesOn(Entries) /\ OwnersStay(Mutexes)
        /\ \/ QueuesStay
           \/ /\ OthersStay(SemQ(s)) /\ queue[SemQ(s)] # <<>>
              /\ queue'[SemQ(s)] = Tail(queue[SemQ(s)])
    <2>1. CallSemPost(s)
      BY <1>1, <1>2, <1>4
    <2> QED
      BY <1>3, <2>1, SemPostStep DEF MutexesStay
  <1>6. Alone'
    <2>1. Asking(e)' \subseteq Asking(e)
      BY <1>3, NothingAsked
    <2> QED
      BY <1>1, <1>2, <2>1, AloneStays
  <1>7. QueuedBy({e})
    <2>1. CASE QueuesStay
      BY <1>3, <2>1, QueuesKept
    <2>2. CASE /\ OthersStay(SemQ(s)) /\ queue[SemQ(s)] # <<>>
               /\ queue'[SemQ(s)] = Tail(queue[SemQ(s)])
      BY <1>3, <1>4, <2>2, HeadLeaves
    <2> QED
      BY <1>5, <2>1, <2>2
  <1>8. OwnersKept({e})
    <2>1. \A m \in Mutexes : queue'[MutexQ(m)] = queue[MutexQ(m)]
      BY <1>5, SemQueueAlone
    <2> QED
      BY <1>3, <1>5, <2>1, OwnersStayKept
  <1>9. Inside(e)' => OwnsOrWaits(e, ids[ShellSlot(e)])'
    BY <1>3 DEF Inside, LockPlaces
  <1> QED
    BY <1>1, <1>2, <1>3, <1>6, <1>7, <1>8, <1>9, LockInvMoves

\* Every step is of one of the nine kinds.
StepKinds ==
    \/ StepStill \/ StepQuiet \/ StepGiven \/ StepAsks \/ StepStores
    \/ StepLocks \/ StepUnlocks \/ StepWaits \/ StepPosts

LEMMA KindsOfSteps ==
    ASSUME IdsInv, [ProgramsNext]_pvars
    PROVE  StepKinds
  <1>1. KInv
    BY DEF IdsInv
  <1>2. CASE Started
    BY <1>1, <1>2, StartStep DEF Started, StepStill, StepKinds
  <1>3. CASE Tick
    BY <1>1, <1>3, TickStep DEF Tick, StepStill, StepKinds
  <1>4. CASE UNCHANGED pvars
    BY <1>1, <1>4, QuietStep DEF pvars, StepStill, StepKinds
  <1>5. CASE ShellStep
    BY <1>5, ShellSteps DEF StepKinds
  <1>6. CASE PlayerStep
    BY <1>6, PlayerSteps DEF StepKinds
  <1> QED
    BY <1>2, <1>3, <1>4, <1>5, <1>6 DEF ProgramsNext

\* A race that was is not forgotten.
LEMMA RacesStay ==
    ASSUME IdsInv, StepKinds, races' = 0
    PROVE  races = 0
  <1>1. CASE StepAsks
    <2>1. PICK slot \in Slots : races' = races + Races(slot)
      BY <1>1 DEF StepAsks
    <2>2. Races(slot) \in {0, 1} /\ races \in Nat
      BY DEF Races, IdsInv, ProgramTypes
    <2> QED
      BY <2>1, <2>2
  <1>2. CASE ~StepAsks
    <2>1. races' = races
      BY <1>2 DEF StepKinds, StepStill, StepQuiet, StepGiven, StepStores, StepLocks, StepUnlocks,
                  StepWaits, StepPosts, progVars
    <2> QED
      BY <2>1
  <1> QED
    BY <1>1, <1>2

LockInvariant == IdsInv /\ (races = 0 => LockInv)

LEMMA LockInvInit == ProgramsInit => LockInvariant
  <1> SUFFICES ASSUME ProgramsInit PROVE LockInvariant
    OBVIOUS
  <1>1. IdsInv
    BY IdsInvInit
  <1>2. \A e \in Entries : pc[e] \in {"loop", "test"}
    BY DEF ProgramsInit
  <1>3. \A q \in WaitQueues : queue[q] = <<>>
    BY NameAssumption DEF ProgramsInit, KernelInit, Init, Queues
  <1>4. Alone
    BY <1>2 DEF Alone, Asking
  <1>5. WaitersParked
    BY <1>3 DEF WaitersParked
  <1>6. InsideOwns
    BY <1>2 DEF InsideOwns, Inside, LockPlaces, Shells
  <1> QED
    BY <1>1, <1>4, <1>5, <1>6 DEF LockInvariant, LockInv

LEMMA LockInvInductive ==
    ASSUME LockInvariant, [ProgramsNext]_pvars
    PROVE  LockInvariant'
  <1>1. IdsInv /\ StepKinds
    BY KindsOfSteps DEF LockInvariant
  <1>2. IdsInv'
    BY <1>1, IdsInductive
  <1>3. ASSUME races' = 0 PROVE LockInv'
    <2>1. LockInv
      BY <1>1, <1>3, RacesStay DEF LockInvariant
    <2> QED
      BY <1>1, <1>3, <2>1, StillLocks, QuietLocks, GivenLocks, AsksLocks, StoresLocks,
         LocksLocks, UnlocksLocks, WaitsLocks, PostsLocks DEF StepKinds
  <1> QED
    BY <1>2, <1>3 DEF LockInvariant

LEMMA LockInvAlways == ProgramsFairSpec => []LockInvariant
  BY LockInvInit, LockInvInductive, PTL DEF ProgramsFairSpec

\* A shell that reads a line, or sleeps in the command "lock", owns the mutex that its
\* unlock will name: two shells of one parity are never in there together, unless
\* they raced for the mutex (prog_user.c:44).
THEOREM ShellExclusion == ProgramsFairSpec => []HolderOwnsLock
  <1>1. LockInvariant => HolderOwnsLock
    <2> SUFFICES ASSUME LockInvariant, races = 0, NEW e \in Shells, pc[e] \in LockPlaces,
                        ~Blocked(e)
                 PROVE  Owns(e, ids[ShellSlot(e)])
      BY DEF HolderOwnsLock, LockPlaces
    <2>1. IdsInv /\ KInv /\ InsideOwns /\ e \in Entries
      BY DEF LockInvariant, IdsInv, LockInv, Shells
    <2>2. Inside(e) /\ IsLive(e) /\ ids[ShellSlot(e)] \in Mutexes
      BY <2>1, IdsUsed DEF Inside, LockPlaces, FirstPlaces, IdsInv, LiveUntilGone
    <2>3. ~Waits(e, MutexQ(ids[ShellSlot(e)]))
      BY <2>1, <2>2, WaitFacts, WaitNames
    <2> QED
      BY <2>1, <2>2, <2>3 DEF InsideOwns, OwnsOrWaits
  <1> QED
    BY <1>1, LockInvAlways, PTL

-----------------------------------------------------------------------------
(***************************************************************************)
(* Without races: two semaphores, and as many balls as pings have served.  *)
(***************************************************************************)

\* The two semaphores are different, also while their ids are on the way to a variable.
SemsApart ==
    /\ ids[Ping] # -1 => ids[Ping] # ids[Pong]
    /\ \A e \in Players : pc[e] \in {"store", "storePong"} => eax[e] \notin {ids[Ping], ids[Pong]}
    /\ \A e, f \in Players :
          /\ pc[e] \in {"store", "storePong"} /\ pc[f] \in {"store", "storePong"}
          /\ eax[e] = eax[f]
          => e = f

\* Only the two that ping and pong use count anything.
OthersZero ==
    \A s \in Semaphores : s \notin {ids[Ping], ids[Pong]} => semaphores[s].count = 0

\* Who has the ball: behind its wait, and in the semaphore's queue no longer.
Turns == {e \in Players : pc[e] \in TurnPlaces /\ ~Waits(e, SemQ(ids[Own(e)]))}

Balls == Waiting(Ping) + Waiting(Pong) + Cardinality(Turns) = Cardinality(Served)

BallInv == SemsApart /\ OthersZero /\ Balls

SemQueuesStay == \A s \in Semaphores : queue'[SemQ(s)] = queue[SemQ(s)]

LEMMA BallSets ==
    ASSUME IdsInv
    PROVE  /\ Turns \in SUBSET Entries /\ Served \in SUBSET Entries
           /\ Players \subseteq Entries
           /\ Cardinality(Turns) \in Nat /\ Cardinality(Served) \in Nat
           /\ \A s \in Semaphores : semaphores[s].count \in Nat /\ s # -1 /\ s >= 0
           /\ Waiting(Ping) \in Nat /\ Waiting(Pong) \in Nat
  <1>1. Turns \in SUBSET Entries /\ Served \in SUBSET Entries /\ Players \subseteq Entries
    BY DEF Turns, Served, Players
  <1>2. Cardinality(Turns) \in Nat /\ Cardinality(Served) \in Nat
    BY <1>1, EntryNumbers, FS_Subset, FS_CardinalityType
  <1>3. \A s \in Semaphores : semaphores[s].count \in Nat
    BY KInvReads DEF IdsInv, SemEntry
  <1>4. \A s \in Semaphores : s # -1 /\ s >= 0
    BY SemAssumption, SizeAssumption DEF Semaphores
  <1>5. \A slot \in {Ping, Pong} : ids[slot] = -1 \/ ids[slot] \in Semaphores
    BY GivenFacts DEF IdsInv, IdsKept
  <1>6. \A slot \in {Ping, Pong} : Waiting(slot) \in Nat
    BY <1>3, <1>4, <1>5 DEF Waiting
  <1> QED
    BY <1>1, <1>2, <1>3, <1>4, <1>6

ServedCounts == Cardinality(Served) \in Nat

LEMMA ServedIsCounted == IdsInv => ServedCounts
  BY BallSets DEF ServedCounts

LEMMA BallSetsNext ==
    ASSUME IdsInv'
    PROVE  Cardinality(Served') \in Nat
  <1>1. IdsInv' => ServedCounts'
    BY ServedIsCounted, PTL
  <1> QED
    BY <1>1 DEF ServedCounts

\* Adding one and taking one away.
LEMMA OneMore ==
    ASSUME NEW A \in SUBSET Entries, NEW e \in Entries \ A
    PROVE  Cardinality(A \cup {e}) = Cardinality(A) + 1 /\ Cardinality(A) \in Nat
  <1>1. IsFiniteSet(A)
    BY EntryNumbers, FS_Subset
  <1> QED
    BY <1>1, FS_AddElement, FS_CardinalityType

\* A player that does not move has the ball as before, if its queue tells the same of it.
LEMMA TurnStays ==
    ASSUME IdsInv, program' = program, IdsStay, NEW f \in Entries, pc'[f] = pc[f],
           \A s \in Semaphores : IsLive(f) => (Waits(f, SemQ(s))' <=> Waits(f, SemQ(s)))
    PROVE  (f \in Turns' <=> f \in Turns) /\ (f \in Served' <=> f \in Served)
  <1>1. Players' = Players /\ Own(f)' = Own(f) /\ TurnPlaces' = TurnPlaces
    BY DEF Players, Own, Ping, Pong, TurnPlaces
  <1>2. f \in Served' <=> f \in Served
    BY <1>1 DEF Served
  <1>3. CASE f \in Players /\ pc[f] \in TurnPlaces
    <2>1. pc[f] \notin AskPlaces /\ pc[f] \notin FirstPlaces /\ pc[f] # "gone"
      BY <1>3 DEF TurnPlaces, AskPlaces, FirstPlaces
    <2>2. IsLive(f) /\ ids[Ping] # -1 /\ ids[Pong] # -1
      BY <1>3, <2>1 DEF IdsInv, LiveUntilGone, IdsKnown
    <2>3. PICK s \in Semaphores : s = ids[Own(f)]
      BY <1>3, <2>1, IdsUsed
    <2>4. ids'[Own(f)] = s
      BY <2>2, <2>3, SlotFacts DEF IdsStay
    <2>5. (ids[Own(f)])' = s
      BY <1>1, <2>4
    <2>6. Waits(f, SemQ(s))' <=> Waits(f, SemQ(s))
      BY <2>2
    <2>7. f \in Turns <=> ~Waits(f, SemQ(s))
      BY <1>3, <2>3 DEF Turns
    <2>8. f \in Turns' <=> ~Waits(f, SemQ(s))'
      BY <1>1, <1>3, <2>5 DEF Turns
    <2> QED
      BY <1>2, <2>6, <2>7, <2>8
  <1>4. CASE ~(f \in Players /\ pc[f] \in TurnPlaces)
    BY <1>1, <1>2, <1>4 DEF Turns
  <1> QED
    BY <1>3, <1>4

PidsTell ==
    \A f, g \in Entries :
        IsLive(f) /\ IsLive(g) /\ proc_table[f].pid = proc_table[g].pid => f = g

LEMMA PidsDiffer == KInv => PidsTell
  <1>1. ASSUME KInv PROVE PidsTell
    <2>1. Sound(KernelCtx, {}) /\ KernelCtx.proc = proc_table
      BY <1>1, KernelCtxFields, NobodyLost DEF KInv, Safe
    <2> QED
      BY <2>1 DEF Sound, PidsOK, Live, IsLive, PidsTell
  <1> QED
    BY <1>1

LEMMA PidsTellNext == KInv' => PidsTell'
  BY PidsDiffer, PTL

\* The program that moves is in no queue before, nor after if nobody came to it.
LEMMA StillIdle ==
    ASSUME IdsInv, KInv', LockInv, NEW M \in SUBSET Entries, LiveOn(M), IdleIn(M),
           NEW q \in WaitQueues,
           \A i \in 1 .. Len(queue'[q]) : \E j \in 1 .. Len(queue[q]) : queue[q][j] = queue'[q][i],
           NEW e \in M, IsLive(e)'
    PROVE  ~Waits(e, q)'
  <1>1. SUFFICES ASSUME Waits(e, q)' PROVE FALSE
    OBVIOUS
  <1>2. PICK i \in 1 .. Len(queue'[q]) : queue'[q][i] = proc_table'[e].pid
    BY <1>1 DEF Waits
  <1>3. PICK j \in 1 .. Len(queue[q]) : queue[q][j] = proc_table'[e].pid
    BY <1>2
  <1>4. PICK f \in Entries : IsLive(f) /\ proc_table[f].pid = queue[q][j] /\ Parked(f, q)
    BY DEF LockInv, WaitersParked
  <1>5. f \notin M
    BY <1>4 DEF IdleIn, Waits
  <1>6. IsLive(f)' /\ proc_table'[f].pid = proc_table'[e].pid
    BY <1>3, <1>4, <1>5 DEF LiveOn
  <1>7. PidsTell'
    BY PidsTellNext
  <1>8. f = e
    BY <1>6, <1>7 DEF PidsTell
  <1> QED
    BY <1>5, <1>8

LEMMA WaitingStays ==
    ASSUME IdsInv, NEW slot \in {Ping, Pong}, ids'[slot] = ids[slot],
           NEW S, ids[slot] \in Semaphores => ids[slot] \in S, CountsStay(S)
    PROVE  Waiting(slot)' = Waiting(slot)
  <1>1. ids[slot] = -1 \/ ids[slot] \in Semaphores
    BY GivenFacts DEF IdsInv, IdsKept
  <1>2. CASE ids[slot] = -1
    BY <1>2 DEF Waiting
  <1>3. CASE ids[slot] \in Semaphores
    <2>1. semaphores'[ids[slot]].count = semaphores[ids[slot]].count
      BY <1>3 DEF CountsStay
    <2> QED
      BY <2>1 DEF Waiting
  <1> QED
    BY <1>1, <1>2, <1>3

\* The queues tell the same of the processes that do not move.
WaitsKept(M) ==
    \A f \in Entries \ M : IsLive(f) =>
        \A s \in Semaphores : Waits(f, SemQ(s))' <=> Waits(f, SemQ(s))

LEMMA OthersTurns ==
    ASSUME IdsInv, program' = program, IdsStay, NEW M \in SUBSET Entries,
           \A f \in Entries \ M : pc'[f] = pc[f], WaitsKept(M)
    PROVE  Turns' \ M = Turns \ M /\ Served' \ M = Served \ M
  <1>1. ASSUME NEW f \in Entries \ M
        PROVE  (f \in Turns' <=> f \in Turns) /\ (f \in Served' <=> f \in Served)
    <2>1. \A s \in Semaphores : IsLive(f) => (Waits(f, SemQ(s))' <=> Waits(f, SemQ(s)))
      BY DEF WaitsKept
    <2>2. pc'[f] = pc[f] /\ f \in Entries
      OBVIOUS
    <2> QED
      BY <2>1, <2>2, TurnStays
  <1>2. Players' = Players /\ Players \subseteq Entries
    BY DEF Players
  <1>3. /\ Turns \subseteq Entries /\ Turns' \subseteq Entries
        /\ Served \subseteq Entries /\ Served' \subseteq Entries
    BY <1>2 DEF Turns, Served
  <1> QED
    BY <1>1, <1>3

LEMMA SameQueues ==
    ASSUME NEW M, LiveOn(M), SemQueuesStay
    PROVE  WaitsKept(M)
  BY DEF LiveOn, SemQueuesStay, Waits, WaitsKept

\* The active program keeps the ball or stays without it.
LEMMA SameTurns ==
    ASSUME IdsInv, program' = program, IdsStay, NEW M \in SUBSET Entries,
           \A f \in Entries \ M : pc'[f] = pc[f], LiveOn(M), SemQueuesStay,
           \A e \in M : (e \in Turns' <=> e \in Turns) /\ (e \in Served' <=> e \in Served)
    PROVE  Turns' = Turns /\ Served' = Served
  <1>1. WaitsKept(M)
    BY SameQueues
  <1>2. Turns' \ M = Turns \ M /\ Served' \ M = Served \ M
    BY <1>1, OthersTurns
  <1> QED
    BY <1>2

LEMMA SemQueuesKept ==
    ASSUME QueuesStay
    PROVE  SemQueuesStay
  BY WaitNames DEF QueuesStay, SemQueuesStay

OwnKnown == \A e \in Players : pc[e] \notin AskPlaces => ids[Own(e)] \in Semaphores

LEMMA OwnIsKnown == IdsInv => OwnKnown
  BY IdsUsed DEF OwnKnown

LEMMA UsedNext ==
    ASSUME IdsInv', NEW e \in Players', pc'[e] \notin AskPlaces
    PROVE  (ids[Own(e)])' \in Semaphores
  <1>1. IdsInv' => OwnKnown'
    BY OwnIsKnown, PTL
  <1> QED
    BY <1>1 DEF OwnKnown, AskPlaces, FirstPlaces, Semaphores

\* The active program, when nobody comes to a queue or leaves it.
LEMMA MoverTurn ==
    ASSUME IdsInv, IdsInv', LockInv, NEW place, Moves(place), IdsStay, QueuesStay,
           NEW e, e = active_proc
    PROVE  e \in Turns' <=> e \in Players /\ place \in TurnPlaces
  <1>1. /\ {e} \in SUBSET Entries /\ e \in Entries /\ LiveOn({e}) /\ IdleIn({e})
        /\ pc'[e] = place /\ program' = program
    BY MovesFacts
  <1>2. Players' = Players /\ Own(e)' = Own(e) /\ TurnPlaces' = TurnPlaces
    BY <1>1 DEF Players, Own, Ping, Pong, TurnPlaces
  <1>3. KInv' /\ LiveUntilGone' /\ IdsKnown' /\ IdsKept'
    BY DEF IdsInv
  <1>4. ASSUME e \in Players, place \in TurnPlaces PROVE e \in Turns'
    <2>1. pc'[e] # "gone" /\ pc'[e] \notin AskPlaces
      BY <1>1, <1>4 DEF TurnPlaces, AskPlaces, FirstPlaces
    <2>2. IsLive(e)'
      BY <1>1, <1>3, <2>1 DEF LiveUntilGone
    <2>3. (ids[Own(e)])' \in Semaphores
      BY <1>1, <1>2, <1>4, <2>1, UsedNext
    <2>4. PICK s \in Semaphores : s = (ids[Own(e)])'
      BY <2>3
    <2>5. SemQ(s) \in WaitQueues
      BY WaitNames
    <2>6. queue'[SemQ(s)] = queue[SemQ(s)]
      BY <2>5 DEF QueuesStay
    <2>7. ~Waits(e, SemQ(s))'
      BY <1>1, <1>3, <2>2, <2>5, <2>6, StillIdle
    <2> QED
      BY <1>1, <1>2, <1>4, <2>4, <2>7 DEF Turns
  <1> QED
    BY <1>1, <1>2, <1>4 DEF Turns

LEMMA MoverHad ==
    ASSUME IdsInv, NEW place, Moves(place), NEW e, e = active_proc
    PROVE  e \in Turns <=> e \in Players /\ pc[e] \in TurnPlaces
  <1>1. e \in Entries /\ IdleIn({e})
    BY MovesFacts
  <1>2. ASSUME e \in Players, pc[e] \in TurnPlaces PROVE e \in Turns
    <2>1. pc[e] \notin AskPlaces
      BY <1>2 DEF TurnPlaces, AskPlaces, FirstPlaces
    <2>2. PICK s \in Semaphores : s = ids[Own(e)]
      BY <1>2, <2>1, IdsUsed
    <2>3. ~Waits(e, SemQ(s))
      BY <1>1, WaitNames DEF IdleIn
    <2> QED
      BY <1>2, <2>2, <2>3 DEF Turns
  <1> QED
    BY <1>2 DEF Turns

LEMMA ApartStays ==
    ASSUME IdsInv, SemsApart, NEW place, Moves(place), ids' = ids,
           active_proc \in Players => place \notin {"store", "storePong"}
    PROVE  SemsApart'
  <1>1. PICK e \in Entries : e = active_proc
    BY MovesFacts
  <1>2. /\ pc'[e] = place /\ Players' = Players /\ Players \subseteq Entries
        /\ \A f \in Entries \ {e} : pc'[f] = pc[f] /\ eax'[f] = eax[f]
        /\ Ping' = Ping /\ Pong' = Pong
    BY <1>1, MovesFacts DEF Moves, Ping, Pong
  <1>3. \A f \in Players : pc'[f] \in {"store", "storePong"} =>
            pc[f] \in {"store", "storePong"} /\ eax'[f] = eax[f]
    BY <1>1, <1>2
  <1> QED
    BY <1>2, <1>3 DEF SemsApart

\* The counts and the ids stay.
LEMMA CountsKept ==
    ASSUME IdsInv, OthersZero, CountsStay(Semaphores), ids' = ids
    PROVE  /\ OthersZero'
           /\ Balls /\ Turns' = Turns /\ Served' = Served => Balls'
  <1>1. OthersZero'
    BY DEF OthersZero, CountsStay, Ping, Pong, Semaphores
  <1>2. Waiting(Ping)' = Waiting(Ping) /\ Waiting(Pong)' = Waiting(Pong)
    BY WaitingStays
  <1> QED
    BY <1>1, <1>2 DEF Balls

-----------------------------------------------------------------------------
(***************************************************************************)
(* Each kind of step keeps BallInv, as long as nobody races.               *)
(***************************************************************************)

LEMMA StillBalls ==
    ASSUME IdsInv, BallInv, StepStill
    PROVE  BallInv'
  <1>1. /\ program' = program /\ pc' = pc /\ ids' = ids /\ eax' = eax /\ IdsStay
        /\ QueuesStay /\ CountsStay(Semaphores)
        /\ \A e \in Entries : IsLive(e) => IsLive(e)' /\ proc_table'[e].pid = proc_table[e].pid
    BY DEF StepStill, progVars, AllStays, SemsStay, IdsStay
  <1>2. /\ {} \in SUBSET Entries /\ LiveOn({}) /\ SemQueuesStay
        /\ \A f \in Entries \ {} : pc'[f] = pc[f]
    BY <1>1, SemQueuesKept DEF LiveOn
  <1>3. Turns' = Turns /\ Served' = Served
    BY <1>1, <1>2, SameTurns
  <1>4. SemsApart'
    BY <1>1 DEF BallInv, SemsApart, Players, Ping, Pong
  <1> QED
    BY <1>1, <1>3, <1>4, CountsKept DEF BallInv

\* The queues, the counts and the ids stay, and the active program gets no ball and
\* gives none.
LEMMA NoBallMoves ==
    ASSUME IdsInv, IdsInv', LockInv, OthersZero, Balls, NEW place, Moves(place), TablesStay,
           place \in TurnPlaces <=> pc[active_proc] \in TurnPlaces,
           program[active_proc] = "ping" =>
               (place \in {"wait", "sleep", "post"}
                    <=> pc[active_proc] \in {"wait", "sleep", "post"})
    PROVE  OthersZero' /\ Balls'
  <1>1. PICK e \in Entries : e = active_proc
    BY MovesFacts
  <1>2. /\ {e} \in SUBSET Entries /\ LiveOn({e}) /\ pc'[e] = place /\ program' = program
        /\ \A f \in Entries \ {e} : pc'[f] = pc[f]
        /\ Players' = Players
    BY <1>1, MovesFacts
  <1>3. /\ QueuesStay /\ SemQueuesStay /\ IdsStay /\ ids' = ids /\ CountsStay(Semaphores)
    BY SemQueuesKept, IdsUnchanged DEF TablesStay
  <1>4. e \in Turns' <=> e \in Turns
    BY <1>1, <1>3, MoverTurn, MoverHad
  <1>5. e \in Served' <=> e \in Served
    BY <1>1, <1>2 DEF Served
  <1>6. Turns' = Turns /\ Served' = Served
    BY <1>2, <1>3, <1>4, <1>5, SameTurns
  <1> QED
    BY <1>3, <1>6, CountsKept

LEMMA QuietBalls ==
    ASSUME IdsInv, IdsInv', LockInv, BallInv, StepQuiet
    PROVE  BallInv'
  <1>1. PICK place \in Places : Moves(place) /\ Calm(place) /\ TablesStay
    BY DEF StepQuiet
  <1>2. active_proc \in Players => active_proc \notin Shells
    BY <1>1, MovesFacts
  <1>3. SemsApart'
    BY <1>1, <1>2, ApartStays DEF BallInv, Calm, TablesStay
  <1>4. program[active_proc] = "ping" =>
            (place \in {"wait", "sleep", "post"}
                 <=> pc[active_proc] \in {"wait", "sleep", "post"})
    BY <1>1 DEF Calm, TurnPlaces
  <1>5. OthersZero' /\ Balls'
    BY <1>1, <1>4, NoBallMoves DEF BallInv, Calm
  <1> QED
    BY <1>3, <1>5 DEF BallInv

LEMMA AsksBalls ==
    ASSUME IdsInv, IdsInv', LockInv, BallInv, StepAsks
    PROVE  BallInv'
  <1>1. PICK place \in {"init", "initPong"} :
            Moves(place) /\ TablesStay /\ pc[active_proc] \in {"test", "testPong"}
    BY DEF StepAsks
  <1>2. SemsApart'
    BY <1>1, ApartStays DEF BallInv, TablesStay
  <1>3. OthersZero' /\ Balls'
    BY <1>1, NoBallMoves DEF BallInv, TurnPlaces
  <1> QED
    BY <1>2, <1>3 DEF BallInv

\* A new id is no other's.
LEMMA GivenBalls ==
    ASSUME IdsInv, IdsInv', LockInv, BallInv, StepGiven
    PROVE  BallInv'
  <1>1. PICK place \in {"store", "storePong"} :
            /\ Moves(place) /\ TablesStay /\ active_proc \in Players
            /\ pc[active_proc] \in {"init", "initPong"}
            /\ sem_queue # <<>> /\ eax'[active_proc] = Head(sem_queue)
    BY DEF StepGiven
  <1>2. PICK e \in Entries : e = active_proc
    BY <1>1, MovesFacts
  <1>3. /\ pc'[e] = place /\ Players' = Players /\ ids' = ids /\ Players \subseteq Entries
        /\ \A f \in Entries \ {e} : pc'[f] = pc[f] /\ eax'[f] = eax[f]
        /\ Ping' = Ping /\ Pong' = Pong
    BY <1>1, <1>2, MovesFacts DEF Moves, Ping, Pong, TablesStay
  <1>4. eax'[e] \notin GivenSems /\ eax'[e] # -1
    <2>1. /\ sem_queue \in Seq(Semaphores) /\ SEM_MAX \in Nat /\ InOrder(sem_queue, SEM_MAX)
      BY KInvReads, GivenFacts DEF IdsInv, IdsLeft
    <2>2. /\ Head(sem_queue) = SEM_MAX - Len(sem_queue)
          /\ Len(sem_queue) \in Nat \ {0} /\ Len(sem_queue) <= SEM_MAX
      BY <1>1, <2>1, GiveOne
    <2> QED
      BY <1>1, <1>2, <2>1, <2>2 DEF GivenSems
  <1>5. SemsApart'
    <2>1. \A slot \in {Ping, Pong} : ids[slot] # eax'[e]
      BY <1>4 DEF IdsInv, IdsKept
    <2>2. \A f \in Players : pc[f] \in {"store", "storePong"} => eax[f] # eax'[e]
      BY <1>4 DEF IdsInv, IdsKept
    <2>3. ASSUME NEW f \in Players, pc'[f] \in {"store", "storePong"}
          PROVE  eax'[f] \notin {ids[Ping], ids[Pong]}
      BY <1>3, <2>1, <2>3 DEF BallInv, SemsApart
    <2>4. ASSUME NEW f \in Players, NEW g \in Players, pc'[f] \in {"store", "storePong"},
                 pc'[g] \in {"store", "storePong"}, eax'[f] = eax'[g]
          PROVE  f = g
      <3>1. CASE f = e
        BY <1>3, <2>2, <2>4, <3>1
      <3>2. CASE g = e
        BY <1>3, <2>2, <2>4, <3>2
      <3>3. CASE f # e /\ g # e
        BY <1>3, <2>4, <3>3 DEF BallInv, SemsApart
      <3> QED
        BY <3>1, <3>2, <3>3
    <2> QED
      BY <1>3, <2>3, <2>4 DEF BallInv, SemsApart
  <1>6. OthersZero' /\ Balls'
    BY <1>1, NoBallMoves DEF BallInv, TurnPlaces
  <1> QED
    BY <1>5, <1>6 DEF BallInv

\* Who stores an id finds none there, and the semaphore has counted nothing yet.
LEMMA StoresBalls ==
    ASSUME IdsInv, IdsInv', LockInv, BallInv, StepStores
    PROVE  BallInv'
  <1>1. PICK place \in Places, slot \in Slots :
            /\ Moves(place) /\ AllStays
            /\ ids' = [ids EXCEPT ![slot] = eax[active_proc]]
            /\ \/ active_proc \in Shells /\ pc[active_proc] = "store" /\ place = "nap"
                  /\ slot = ShellSlot(active_proc)
               \/ active_proc \in Players /\ pc[active_proc] = "store" /\ place = "testPong"
                  /\ slot = Ping
               \/ active_proc \in Players /\ pc[active_proc] = "storePong"
                  /\ place = (IF program[active_proc] = "ping" THEN "serve" ELSE "wait")
                  /\ slot = Pong
    BY DEF StepStores
  <1>2. PICK e \in Entries : e = active_proc
    BY <1>1, MovesFacts
  <1>3. /\ {e} \in SUBSET Entries /\ LiveOn({e}) /\ pc'[e] = place /\ program' = program
        /\ \A f \in Entries \ {e} : pc'[f] = pc[f] /\ eax'[f] = eax[f]
        /\ Players' = Players /\ Players \subseteq Entries /\ Shells \cap Players = {}
        /\ Ping' = Ping /\ Pong' = Pong
    BY <1>1, <1>2, MovesFacts DEF Moves, Ping, Pong
  <1>4. /\ QueuesStay /\ SemQueuesStay /\ CountsStay(Semaphores)
    BY <1>1, SemQueuesKept DEF AllStays, SemsStay
  <1>5. slot \in Asking(e)
    BY <1>1, <1>2 DEF Asking, Shells, Players
  <1>6. ids[slot] = -1 /\ ids'[slot] = eax[e] /\ \A t \in Slots : t # slot => ids'[t] = ids[t]
    BY <1>1, <1>2, <1>5 DEF IdsInv, ProgramTypes, LockInv, Alone
  <1>7. IdsStay
    BY <1>6 DEF IdsStay
  <1>8. Turns' = Turns /\ Served' = Served
    <2>1. place \notin TurnPlaces /\ pc[e] \notin TurnPlaces
      BY <1>1, <1>2 DEF TurnPlaces
    <2>2. e \in Turns' <=> e \in Turns
      BY <1>1, <1>2, <1>4, <1>7, <2>1, MoverTurn, MoverHad
    <2>3. e \in Served' <=> e \in Served
      BY <1>1, <1>2, <1>3 DEF Served, Shells
    <2> QED
      BY <1>3, <1>4, <1>7, <2>2, <2>3, SameTurns
  <1>9. Ping \in Slots /\ Pong \in Slots /\ Ping # Pong
        /\ (e \in Shells => slot \notin {Ping, Pong})
    BY <1>1, <1>2, <1>3, SlotFacts
  <1>10. e \in Players => /\ eax[e] \in Semaphores /\ eax[e] \notin {ids[Ping], ids[Pong]}
                          /\ \A f \in Players \ {e} :
                                pc[f] \in {"store", "storePong"} => eax[f] # eax[e]
    <2>1. e \in Players => pc[e] \in {"store", "storePong"}
      BY <1>1, <1>2, <1>3
    <2> QED
      BY <2>1, GivenFacts DEF BallInv, SemsApart, IdsInv, IdsKept
  <1>11. ASSUME NEW t \in {Ping, Pong}
         PROVE  Waiting(t)' = Waiting(t)
    <2>1. CASE t # slot
      BY <1>4, <1>6, <1>9, <2>1, WaitingStays
    <2>2. CASE t = slot
      <3>1. e \in Players
        BY <1>1, <1>2, <1>9, <2>2
      <3>2. PICK s \in Semaphores : s = eax[e]
        BY <1>10, <3>1
      <3>3. semaphores'[s].count = 0
        BY <1>4, <1>10, <3>1, <3>2 DEF BallInv, OthersZero, CountsStay
      <3>4. s >= 0 /\ ids'[t] = s /\ ids[t] = -1
        BY <1>6, <2>2, <3>2, BallSets
      <3> QED
        BY <3>3, <3>4, SemAssumption, SizeAssumption DEF Waiting, Semaphores
    <2> QED
      BY <2>1, <2>2
  <1>12. Balls'
    BY <1>8, <1>11 DEF BallInv, Balls
  <1>13. OthersZero'
    <2>1. ASSUME NEW s \in Semaphores, s \notin {ids'[Ping], ids'[Pong]}
          PROVE  semaphores'[s].count = 0
      <3>1. s # -1
        BY BallSets
      <3>2. s \notin {ids[Ping], ids[Pong]}
        BY <1>6, <1>9, <2>1, <3>1
      <3> QED
        BY <1>4, <3>2 DEF BallInv, OthersZero, CountsStay
    <2> QED
      BY <1>3, <2>1 DEF OthersZero, Semaphores
  <1>14. SemsApart'
    <2>1. CASE slot \notin {Ping, Pong}
      <3>1. ids'[Ping] = ids[Ping] /\ ids'[Pong] = ids[Pong]
        BY <1>6, <1>9, <2>1
      <3>2. \A f \in Players : pc'[f] \in {"store", "storePong"} =>
                pc[f] \in {"store", "storePong"} /\ eax'[f] = eax[f]
        BY <1>1, <1>2, <1>3, <2>1
      <3> QED
        BY <1>3, <3>1, <3>2 DEF BallInv, SemsApart
    <2>2. CASE slot \in {Ping, Pong}
      <3>1. e \in Players
        BY <1>1, <1>2, <1>9, <2>2
      <3>2. \A f \in Players : pc'[f] \in {"store", "storePong"} =>
                f # e /\ pc[f] \in {"store", "storePong"} /\ eax'[f] = eax[f]
        BY <1>1, <1>2, <1>3
      <3>3. ids'[Ping] # -1 => ids'[Ping] # ids'[Pong]
        BY <1>6, <1>9, <1>10, <2>2, <3>1 DEF BallInv, SemsApart
      <3>4. ASSUME NEW f \in Players, pc'[f] \in {"store", "storePong"}
            PROVE  eax'[f] \notin {ids'[Ping], ids'[Pong]}
        <4>1. eax[f] # eax[e] /\ eax[f] \notin {ids[Ping], ids[Pong]} /\ eax'[f] = eax[f]
          BY <1>10, <3>1, <3>2, <3>4 DEF BallInv, SemsApart
        <4> QED
          BY <1>6, <1>9, <4>1
      <3> QED
        BY <1>3, <3>2, <3>3, <3>4 DEF BallInv, SemsApart
    <2> QED
      BY <2>1, <2>2
  <1> QED
    BY <1>12, <1>13, <1>14 DEF BallInv

\* What a shell does to a mutex.
LEMMA ShellBalls ==
    ASSUME IdsInv, BallInv, NEW place, Moves(place), ids' = ids, active_proc \in Shells,
           SemsStay, SemQueuesStay
    PROVE  BallInv'
  <1>1. PICK e \in Entries : e = active_proc
    BY MovesFacts
  <1>2. /\ {e} \in SUBSET Entries /\ LiveOn({e}) /\ program' = program
        /\ \A f \in Entries \ {e} : pc'[f] = pc[f]
        /\ Players' = Players /\ e \notin Players
    BY <1>1, MovesFacts
  <1>3. e \notin Turns /\ e \notin Turns' /\ e \notin Served /\ e \notin Served'
    BY <1>2 DEF Turns, Served
  <1>4. Turns' = Turns /\ Served' = Served
    BY <1>2, <1>3, SameTurns, IdsUnchanged
  <1>5. SemsApart'
    BY <1>1, <1>2, ApartStays DEF BallInv
  <1> QED
    BY <1>4, <1>5, CountsKept DEF BallInv, SemsStay

LEMMA LocksBalls ==
    ASSUME IdsInv, BallInv, StepLocks
    PROVE  BallInv'
  <1>1. PICK place \in {"read", "cmdNap"} :
            /\ Moves(place) /\ ids' = ids /\ active_proc \in Shells
            /\ pc[active_proc] \in {"lock", "cmdLock"}
            /\ CallMutexLock(ids[ShellSlot(active_proc)])
    BY DEF StepLocks
  <1>2. PICK m \in Mutexes : m = ids[ShellSlot(active_proc)]
    BY <1>1, IdsUsed DEF FirstPlaces
  <1>3. CallMutexLock(m)
    BY <1>1, <1>2
  <1>4. SemsStay /\ (QueuesStay \/ OthersStay(MutexQ(m)))
    BY <1>3, LockStep DEF IdsInv
  <1>5. SemQueuesStay
    BY <1>4, WaitNames DEF SemQueuesStay, QueuesStay, OthersStay
  <1> QED
    BY <1>1, <1>4, <1>5, ShellBalls

LEMMA UnlocksBalls ==
    ASSUME IdsInv, LockInv, BallInv, StepUnlocks
    PROVE  BallInv'
  <1>1. PICK place \in {"lock", "command"} :
            /\ Moves(place) /\ ids' = ids /\ active_proc \in Shells
            /\ pc[active_proc] \in {"unlock", "unlockEnd", "cmdUnlock"}
            /\ CallMutexUnlock(ids[ShellSlot(active_proc)])
    BY DEF StepUnlocks
  <1>2. Inside(active_proc)
    BY <1>1 DEF Inside, LockPlaces
  <1>3. PICK m \in Mutexes : m = ids[ShellSlot(active_proc)] /\ Owns(active_proc, m)
    BY <1>1, <1>2, MoverOwns DEF LockInv
  <1>4. CallMutexUnlock(m) /\ Owns(active_proc, m)
    BY <1>1, <1>3
  <1>5. SemsStay /\ (QueuesStay \/ OthersStay(MutexQ(m)))
    BY <1>4, UnlockStep DEF IdsInv
  <1>6. SemQueuesStay
    BY <1>5, WaitNames DEF SemQueuesStay, QueuesStay, OthersStay
  <1> QED
    BY <1>1, <1>5, <1>6, ShellBalls

\* What one semaphore counts is what there is more or less of.
LEMMA SemCounts ==
    ASSUME IdsInv, SemsApart, OthersZero, ids' = ids, NEW slot \in {Ping, Pong},
           NEW s \in Semaphores, s = ids[slot], CountsStay(Semaphores \ {s}),
           NEW d \in Int, semaphores'[s].count = semaphores[s].count + d
    PROVE  /\ OthersZero'
           /\ Waiting(Ping)' + Waiting(Pong)' = Waiting(Ping) + Waiting(Pong) + d
           /\ Waiting(slot) = semaphores[s].count
  <1>1. s >= 0 /\ s # -1 /\ Waiting(Ping) \in Nat /\ Waiting(Pong) \in Nat
    BY BallSets
  <1>2. Waiting(slot)' = Waiting(slot) + d /\ Waiting(slot) = semaphores[s].count
    BY <1>1, SemAssumption, SizeAssumption DEF Waiting, Semaphores
  <1>3. ASSUME NEW t \in {Ping, Pong}, t # slot PROVE Waiting(t)' = Waiting(t)
    <2>1. ids[t] # s
      BY <1>1, <1>3 DEF SemsApart
    <2> QED
      BY <2>1, WaitingStays
  <1>4. Waiting(Ping)' + Waiting(Pong)' = Waiting(Ping) + Waiting(Pong) + d
    <2>1. Ping # Pong
      BY SlotFacts
    <2>2. CASE slot = Ping
      BY <1>1, <1>2, <1>3, <2>1, <2>2
    <2>3. CASE slot = Pong
      BY <1>1, <1>2, <1>3, <2>1, <2>3
    <2> QED
      BY <2>2, <2>3
  <1>5. OthersZero'
    <2>1. ASSUME NEW t \in Semaphores, t \notin {ids[Ping], ids[Pong]}
          PROVE  semaphores'[t].count = 0
      BY <2>1 DEF OthersZero, CountsStay
    <2> QED
      BY <2>1 DEF OthersZero, Ping, Pong, Semaphores
  <1> QED
    BY <1>2, <1>4, <1>5

LEMMA OnlyEndIsNew ==
    ASSUME KInv, NEW e \in Entries, NEW q \in WaitQueues, OthersStay(q),
           queue'[q] = Append(queue[q], proc_table[e].pid),
           NEW f \in Entries, NEW r \in WaitQueues, Waits(f, r)',
           proc_table'[f].pid = proc_table[f].pid, proc_table[f].pid # proc_table[e].pid
    PROVE  Waits(f, r)
  <1>1. queue[q] \in Seq(Nat) /\ proc_table[e].pid \in Nat
    <2>1. KernelCtx.proc \in [Entries -> PCB]
      BY DEF KInv, Safe, Sound, TypedContext, IsContext
    <2> QED
      BY <2>1, WaitQueueSeqs, PCBFields, KernelCtxFields
  <1>2. PICK i \in 1 .. Len(queue'[r]) : queue'[r][i] = proc_table[f].pid
    BY DEF Waits
  <1>3. CASE r # q
    BY <1>2, <1>3 DEF OthersStay, Waits
  <1>4. CASE r = q
    <2>1. /\ Len(queue'[q]) = Len(queue[q]) + 1 /\ Len(queue[q]) \in Nat
          /\ \A j \in 1 .. Len(queue[q]) : queue'[q][j] = queue[q][j]
          /\ queue'[q][Len(queue[q]) + 1] = proc_table[e].pid
      BY <1>1
    <2>2. i \in 1 .. Len(queue[q])
      BY <1>2, <1>4, <2>1
    <2> QED
      BY <1>2, <1>4, <2>1, <2>2 DEF Waits
  <1> QED
    BY <1>3, <1>4

\* Who takes the ball has it; who waits for it has it not.
LEMMA WaitsBalls ==
    ASSUME IdsInv, IdsInv', LockInv, BallInv, StepWaits
    PROVE  BallInv'
  <1>1. /\ Moves("sleep") /\ ids' = ids /\ active_proc \in Players
        /\ pc[active_proc] = "wait" /\ CallSemWait(ids[Own(active_proc)])
    BY DEF StepWaits
  <1>2. PICK e \in Entries : e = active_proc
    BY <1>1, MovesFacts
  <1>3. /\ {e} \in SUBSET Entries /\ LiveOn({e}) /\ pc'[e] = "sleep" /\ program' = program
        /\ \A f \in Entries \ {e} : pc'[f] = pc[f]
        /\ Players' = Players /\ e \in Players /\ KInv /\ IdsStay /\ IdleIn({e}) /\ IsLive(e)
    BY <1>1, <1>2, MovesFacts, IdsUnchanged
  <1>4. PICK s \in Semaphores : s = ids[Own(e)]
    BY <1>1, <1>2, IdsUsed DEF AskPlaces, FirstPlaces
  <1>5. /\ GoesOn(Entries) /\ CountsStay(Semaphores \ {s})
        /\ \/ /\ semaphores[s].count > 0 /\ QueuesStay
              /\ semaphores'[s].count = semaphores[s].count - 1
           \/ /\ semaphores'[s].count = semaphores[s].count /\ OthersStay(SemQ(s))
              /\ queue'[SemQ(s)] = Append(queue[SemQ(s)], proc_table[e].pid)
    <2>1. CallSemWait(s)
      BY <1>1, <1>2, <1>4
    <2> QED
      BY <1>2, <1>3, <2>1, SemWaitStep
  <1>6. SemsApart'
    BY <1>1, ApartStays DEF BallInv
  <1>7. Own(e) \in {Ping, Pong} /\ -1 \in Int /\ 0 \in Int /\ semaphores[s].count \in Nat
    BY SlotFacts, BallSets
  <1>8. e \notin Turns
    BY <1>1, <1>2, MoverHad DEF TurnPlaces
  <1>9. e \in Served' <=> e \in Served
    BY <1>1, <1>2, <1>3 DEF Served
  <1>10. /\ Cardinality(Turns) \in Nat /\ Cardinality(Served) \in Nat
         /\ Waiting(Ping) \in Nat /\ Waiting(Pong) \in Nat /\ Turns \in SUBSET Entries
         /\ Waiting(Ping) + Waiting(Pong) + Cardinality(Turns) = Cardinality(Served)
    BY BallSets DEF BallInv, Balls
  <1>11. CASE /\ semaphores[s].count > 0 /\ QueuesStay
              /\ semaphores'[s].count = semaphores[s].count - 1
    <2>1. e \in Turns'
      BY <1>1, <1>2, <1>3, <1>11, MoverTurn DEF TurnPlaces
    <2>2. Turns' = Turns \cup {e} /\ Served' = Served
      <3>1. WaitsKept({e})
        BY <1>3, <1>11, SemQueuesKept, SameQueues
      <3>2. Turns' \ {e} = Turns \ {e} /\ Served' \ {e} = Served \ {e}
        BY <1>3, <3>1, OthersTurns
      <3> QED
        BY <1>9, <2>1, <3>2
    <2>3. Cardinality(Turns') = Cardinality(Turns) + 1
      BY <1>8, <1>10, <2>2, OneMore
    <2>4. semaphores'[s].count = semaphores[s].count + (-1)
      BY <1>7, <1>11
    <2>5. /\ OthersZero'
          /\ Waiting(Ping)' + Waiting(Pong)' = Waiting(Ping) + Waiting(Pong) + (-1)
      BY <1>1, <1>4, <1>5, <1>7, <2>4, SemCounts DEF BallInv
    <2>6. Balls'
      BY <1>10, <2>2, <2>3, <2>5 DEF Balls
    <2> QED
      BY <1>6, <2>5, <2>6 DEF BallInv
  <1>12. CASE /\ semaphores'[s].count = semaphores[s].count /\ OthersStay(SemQ(s))
              /\ queue'[SemQ(s)] = Append(queue[SemQ(s)], proc_table[e].pid)
    <2>1. IsLive(e)' /\ proc_table'[e].pid = proc_table[e].pid /\ SemQ(s) \in WaitQueues
      BY <1>3, <1>5, WaitNames DEF GoesOn
    <2>2. /\ Waits(e, SemQ(s))'
          /\ \A f \in Entries, r \in WaitQueues :
                 proc_table'[f].pid = proc_table[f].pid /\ Waits(f, r) => Waits(f, r)'
      BY <1>3, <1>12, <2>1, QueuedAtEnd
    <2>3. ASSUME NEW f \in Entries \ {e}, IsLive(f), NEW t \in Semaphores
          PROVE  Waits(f, SemQ(t))' <=> Waits(f, SemQ(t))
      <3>1. SemQ(t) \in WaitQueues /\ proc_table'[f].pid = proc_table[f].pid
        BY <1>3, <2>3, WaitNames DEF LiveOn
      <3>2. ASSUME Waits(f, SemQ(t))' PROVE Waits(f, SemQ(t))
        <4>1. proc_table[f].pid # proc_table[e].pid
          BY <1>3, <2>3, WaitFacts
        <4> QED
          BY <1>3, <1>12, <2>1, <3>1, <3>2, <4>1, OnlyEndIsNew
      <3> QED
        BY <2>2, <3>1, <3>2
    <2>4. e \notin Turns'
      <3>1. (ids[Own(e)])' = s
        BY <1>1, <1>3, <1>4 DEF Own, Ping, Pong
      <3> QED
        BY <2>2, <3>1 DEF Turns
    <2>5. Turns' = Turns /\ Served' = Served
      <3>1. WaitsKept({e})
        BY <2>3 DEF WaitsKept
      <3>2. Turns' \ {e} = Turns \ {e} /\ Served' \ {e} = Served \ {e}
        BY <1>3, <3>1, OthersTurns
      <3> QED
        BY <1>8, <1>9, <2>4, <3>2
    <2>6. semaphores'[s].count = semaphores[s].count + 0
      BY <1>7, <1>12
    <2>7. /\ OthersZero'
          /\ Waiting(Ping)' + Waiting(Pong)' = Waiting(Ping) + Waiting(Pong) + 0
      BY <1>1, <1>4, <1>5, <1>7, <2>6, SemCounts DEF BallInv
    <2>8. Balls'
      BY <1>10, <2>5, <2>7 DEF Balls
    <2> QED
      BY <1>6, <2>7, <2>8 DEF BallInv
  <1> QED
    BY <1>5, <1>11, <1>12

\* The process at the head of a queue is in it once.
LEMMA HeadGone ==
    ASSUME KInv, NEW q \in WaitQueues, queue[q] # <<>>, queue'[q] = Tail(queue[q]),
           NEW f \in Entries, proc_table'[f].pid = proc_table[f].pid,
           proc_table[f].pid = Head(queue[q])
    PROVE  ~Waits(f, q)'
  <1>1. queue[q] \in Seq(Nat) /\ NoItemTwice(queue[q])
    <2>1. OnceOK(KernelCtx) /\ q \in Queues /\ KernelCtx.queue = queue
      BY KernelCtxFields DEF KInv, Safe, Sound, Queues
    <2> QED
      BY <2>1, WaitQueueSeqs DEF OnceOK
  <1>2. /\ Len(queue'[q]) = Len(queue[q]) - 1 /\ Len(queue[q]) \in Nat \ {0}
        /\ Head(queue[q]) = queue[q][1]
        /\ \A i \in 1 .. Len(queue[q]) - 1 : queue'[q][i] = queue[q][i + 1]
    BY <1>1, HeadTailProperties, EmptySeq
  <1>3. SUFFICES ASSUME Waits(f, q)' PROVE FALSE
    OBVIOUS
  <1>4. PICK i \in 1 .. Len(queue'[q]) : queue'[q][i] = proc_table[f].pid
    BY <1>3 DEF Waits
  <1>5. PICK j : j = i + 1
    OBVIOUS
  <1>6. j \in 1 .. Len(queue[q]) /\ 1 \in 1 .. Len(queue[q]) /\ j # 1 /\ queue[q][j] = queue[q][1]
    BY <1>2, <1>4, <1>5
  <1> QED
    BY <1>1, <1>6 DEF NoItemTwice

\* Who waits for a semaphore is a player that will have the ball.
LEMMA HeadPlays ==
    ASSUME IdsInv, LockInv, NEW s \in Semaphores, queue[SemQ(s)] # <<>>
    PROVE  \E g \in Players :
              /\ g \in Entries /\ IsLive(g) /\ proc_table[g].pid = Head(queue[SemQ(s)])
              /\ pc[g] = "sleep" /\ ids[Own(g)] = s /\ Waits(g, SemQ(s))
  <1>1. SemQ(s) \in WaitQueues /\ queue[SemQ(s)] \in Seq(Nat)
    BY WaitNames, WaitQueueSeqs DEF IdsInv
  <1>2. 1 \in 1 .. Len(queue[SemQ(s)]) /\ Head(queue[SemQ(s)]) = queue[SemQ(s)][1]
    BY <1>1, HeadTailProperties, EmptySeq
  <1>3. PICK g \in Entries : IsLive(g) /\ proc_table[g].pid = queue[SemQ(s)][1] /\ Parked(g, SemQ(s))
    BY <1>1, <1>2 DEF LockInv, WaitersParked
  <1>4. ASSUME g \in Shells, pc[g] \in {"read", "cmdNap"}
        PROVE  SemQ(s) # MutexQ(ids[ShellSlot(g)])
    <2>1. ids[ShellSlot(g)] \in Mutexes
      BY <1>4, IdsUsed DEF FirstPlaces
    <2> QED
      BY <2>1, WaitNames
  <1>5. g \in Players /\ pc[g] = "sleep" /\ SemQ(s) = SemQ(ids[Own(g)])
    BY <1>3, <1>4 DEF Parked
  <1>6. ids[Own(g)] \in Semaphores
    BY <1>5, IdsUsed DEF AskPlaces, FirstPlaces
  <1>7. ids[Own(g)] = s
    BY <1>5, <1>6, WaitNames
  <1> QED
    BY <1>2, <1>3, <1>5, <1>7 DEF Waits

\* The ball is passed on, or laid down, or a ping serves.
LEMMA PostsBalls ==
    ASSUME IdsInv, IdsInv', LockInv, BallInv, StepPosts
    PROVE  BallInv'
  <1>1. /\ Moves("wait") /\ ids' = ids /\ active_proc \in Players
        /\ pc[active_proc] \in {"serve", "post"} /\ CallSemPost(ids[Others(active_proc)])
    BY DEF StepPosts
  <1>2. PICK e \in Entries : e = active_proc
    BY <1>1, MovesFacts
  <1>3. /\ {e} \in SUBSET Entries /\ LiveOn({e}) /\ pc'[e] = "wait" /\ program' = program
        /\ \A f \in Entries \ {e} : pc'[f] = pc[f]
        /\ Players' = Players /\ e \in Players /\ KInv /\ IdsStay /\ IdleIn({e}) /\ IsLive(e)
    BY <1>1, <1>2, MovesFacts, IdsUnchanged
  <1>4. PICK s \in Semaphores : s = ids[Others(e)] /\ SemQ(s) \in WaitQueues
    BY <1>1, <1>2, IdsUsed, WaitNames DEF AskPlaces, FirstPlaces
  <1>5. /\ GoesOn(Entries) /\ CountsStay(Semaphores \ {s})
        /\ \/ /\ queue[SemQ(s)] = <<>> /\ QueuesStay
              /\ semaphores'[s].count = semaphores[s].count + 1
           \/ /\ semaphores'[s].count = semaphores[s].count /\ OthersStay(SemQ(s))
              /\ queue[SemQ(s)] # <<>> /\ queue'[SemQ(s)] = Tail(queue[SemQ(s)])
    <2>1. CallSemPost(s)
      BY <1>1, <1>2, <1>4
    <2> QED
      BY <1>3, <2>1, SemPostStep
  <1>6. SemsApart'
    BY <1>1, ApartStays DEF BallInv
  <1>7. /\ Others(e) \in {Ping, Pong} /\ 1 \in Int /\ 0 \in Int
        /\ semaphores[s].count \in Nat
    BY SlotFacts, BallSets
  <1>8. e \notin Turns'
    BY <1>3 DEF Turns, TurnPlaces
  <1>9. /\ Cardinality(Turns) \in Nat /\ Cardinality(Served) \in Nat
        /\ Waiting(Ping) \in Nat /\ Waiting(Pong) \in Nat
        /\ Turns \in SUBSET Entries /\ Served \in SUBSET Entries
        /\ Waiting(Ping) + Waiting(Pong) + Cardinality(Turns) = Cardinality(Served)
    BY BallSets DEF BallInv, Balls
  <1>10. ASSUME Served' \ {e} = Served \ {e}
         PROVE  /\ Cardinality(Served') + Cardinality(Turns)
                       = Cardinality(Served) + Cardinality(Turns \ {e}) + 1
                /\ Cardinality(Turns \ {e}) \in Nat
    <2>1. e \in Served' <=> program[e] = "ping"
      BY <1>3 DEF Served
    <2>2. e \in Served <=> program[e] = "ping" /\ pc[e] # "serve"
      BY <1>1, <1>2, <1>3 DEF Served
    <2>3. CASE pc[e] = "serve"
      <3>1. program[e] = "ping"
        BY <2>3 DEF IdsInv, OnlyPingServes
      <3>2. Served' = Served \cup {e} /\ e \notin Served
        BY <1>10, <2>1, <2>2, <2>3, <3>1
      <3>3. Cardinality(Served') = Cardinality(Served) + 1
        BY <1>9, <3>2, OneMore
      <3>4. Turns \ {e} = Turns
        BY <1>1, <1>2, <2>3, MoverHad DEF TurnPlaces
      <3>5. Cardinality(Turns \ {e}) = Cardinality(Turns)
        BY <3>4
      <3>6. Cardinality(Served) \in Nat /\ Cardinality(Turns) \in Nat
        BY <1>9
      <3> QED
        BY <3>3, <3>5, <3>6
    <2>4. CASE pc[e] = "post"
      <3>1. Served' = Served
        BY <1>10, <2>1, <2>2, <2>4
      <3>2. e \in Turns
        BY <1>1, <1>2, <1>3, <2>4, MoverHad DEF TurnPlaces
      <3>3. Cardinality(Turns \ {e}) = Cardinality(Turns) - 1 /\ Cardinality(Turns) \in Nat \ {0}
        BY <1>9, <3>2, OneAskerLess
      <3> QED
        BY <1>9, <3>1, <3>3
    <2> QED
      BY <1>1, <1>2, <2>3, <2>4
  <1>11. CASE /\ queue[SemQ(s)] = <<>> /\ QueuesStay
              /\ semaphores'[s].count = semaphores[s].count + 1
    <2>1. WaitsKept({e})
      BY <1>3, <1>11, SemQueuesKept, SameQueues
    <2>2. Turns' \ {e} = Turns \ {e} /\ Served' \ {e} = Served \ {e}
      BY <1>3, <2>1, OthersTurns
    <2>3. Turns' = Turns \ {e}
      BY <1>8, <2>2
    <2>4. /\ OthersZero'
          /\ Waiting(Ping)' + Waiting(Pong)' = Waiting(Ping) + Waiting(Pong) + 1
      BY <1>1, <1>4, <1>5, <1>7, <1>11, SemCounts DEF BallInv
    <2>5. /\ Cardinality(Served') + Cardinality(Turns)
                 = Cardinality(Served) + Cardinality(Turns \ {e}) + 1
          /\ Cardinality(Turns \ {e}) \in Nat
      BY <1>10, <2>2
    <2>6. Cardinality(Served') \in Nat
      BY BallSetsNext
    <2>7. Waiting(Ping)' + Waiting(Pong)' + Cardinality(Turns') = Cardinality(Served')
      BY <1>9, <2>3, <2>4, <2>5, <2>6
    <2> QED
      BY <1>6, <2>4, <2>7 DEF BallInv, Balls
  <1>12. CASE /\ semaphores'[s].count = semaphores[s].count /\ OthersStay(SemQ(s))
              /\ queue[SemQ(s)] # <<>> /\ queue'[SemQ(s)] = Tail(queue[SemQ(s)])
    <2>1. PICK g \in Entries :
              /\ g \in Players /\ IsLive(g) /\ proc_table[g].pid = Head(queue[SemQ(s)])
              /\ pc[g] = "sleep" /\ ids[Own(g)] = s /\ Waits(g, SemQ(s))
      BY <1>12, HeadPlays
    <2>2. g # e
      BY <1>3, <1>4, <2>1 DEF IdleIn
    <2>3. proc_table'[g].pid = proc_table[g].pid /\ pc'[g] = "sleep"
      BY <1>3, <2>1, <2>2 DEF LiveOn
    <2>4. g \notin Turns
      BY <2>1 DEF Turns
    <2>5. g \in Turns'
      <3>1. ~Waits(g, SemQ(s))'
        BY <1>3, <1>4, <1>12, <2>1, <2>3, HeadGone
      <3>2. (ids[Own(g)])' = s
        BY <1>1, <1>3, <2>1 DEF Own, Ping, Pong
      <3> QED
        BY <1>3, <2>1, <2>3, <3>1, <3>2 DEF Turns, TurnPlaces
    <2>6. /\ QueuedBy({})
          /\ \A f \in Entries, r \in WaitQueues :
                 proc_table'[f].pid = proc_table[f].pid /\ Waits(f, r)
                 => Waits(f, r)' \/ (r = SemQ(s) /\ proc_table[f].pid = Head(queue[SemQ(s)]))
      BY <1>3, <1>4, <1>12, HeadLeaves
    <2>7. WaitsKept({e, g})
      <3>1. ASSUME NEW f \in Entries \ {e, g}, IsLive(f), NEW t \in Semaphores
            PROVE  Waits(f, SemQ(t))' <=> Waits(f, SemQ(t))
        <4>1. /\ SemQ(t) \in WaitQueues /\ proc_table'[f].pid = proc_table[f].pid
              /\ proc_table[f].pid # Head(queue[SemQ(s)])
          BY <1>3, <2>1, <3>1, WaitNames, WaitFacts DEF LiveOn
        <4>2. ASSUME Waits(f, SemQ(t))' PROVE Waits(f, SemQ(t))
          BY <2>6, <4>1, <4>2 DEF QueuedBy, Waits
        <4> QED
          BY <2>6, <4>1, <4>2
      <3> QED
        BY <3>1 DEF WaitsKept
    <2>8. Turns' \ {e, g} = Turns \ {e, g} /\ Served' \ {e, g} = Served \ {e, g}
      <3>1. {e, g} \in SUBSET Entries /\ \A f \in Entries \ {e, g} : pc'[f] = pc[f]
        BY <1>3
      <3> QED
        BY <1>3, <2>7, <3>1, OthersTurns
    <2>9. g \in Served' <=> g \in Served
      BY <1>3, <2>1, <2>3 DEF Served
    <2>10. Turns' = (Turns \ {e}) \cup {g} /\ Served' \ {e} = Served \ {e}
      BY <1>8, <2>2, <2>4, <2>5, <2>8, <2>9
    <2>11. Cardinality(Turns') = Cardinality(Turns \ {e}) + 1
      <3>1. Turns \ {e} \in SUBSET Entries /\ g \in Entries \ (Turns \ {e})
        BY <1>9, <2>4
      <3> QED
        BY <2>10, <3>1, OneMore
    <2>12. semaphores'[s].count = semaphores[s].count + 0
      BY <1>7, <1>12
    <2>13. /\ OthersZero'
           /\ Waiting(Ping)' + Waiting(Pong)' = Waiting(Ping) + Waiting(Pong) + 0
      BY <1>1, <1>4, <1>5, <1>7, <2>12, SemCounts DEF BallInv
    <2>14. /\ Cardinality(Served') + Cardinality(Turns)
                  = Cardinality(Served) + Cardinality(Turns \ {e}) + 1
           /\ Cardinality(Turns \ {e}) \in Nat
      BY <1>10, <2>10
    <2>15. Cardinality(Served') \in Nat
      BY BallSetsNext
    <2>16. Waiting(Ping)' + Waiting(Pong)' + Cardinality(Turns') = Cardinality(Served')
      BY <1>9, <2>11, <2>13, <2>14, <2>15
    <2> QED
      BY <1>6, <2>13, <2>16 DEF BallInv, Balls
  <1> QED
    BY <1>5, <1>11, <1>12

-----------------------------------------------------------------------------
BallsInvariant == LockInvariant /\ (races = 0 => BallInv)

LEMMA BallsInvInit == ProgramsInit => BallsInvariant
  <1> SUFFICES ASSUME ProgramsInit PROVE BallsInvariant
    OBVIOUS
  <1>1. LockInvariant
    BY LockInvInit
  <1>2. \A e \in Entries : pc[e] \in {"loop", "test"}
    BY DEF ProgramsInit
  <1>3. ids[Ping] = -1 /\ ids[Pong] = -1
    BY SlotFacts DEF ProgramsInit
  <1>4. SemsApart
    BY <1>2, <1>3 DEF SemsApart, Players
  <1>5. OthersZero
    BY DEF OthersZero, ProgramsInit, KernelInit, ksemaphores_init, FreeSem
  <1>6. Turns = {} /\ Served = {}
    BY <1>2 DEF Turns, Served, Players, TurnPlaces
  <1>7. Waiting(Ping) = 0 /\ Waiting(Pong) = 0
    BY <1>3 DEF Waiting
  <1>8. Balls
    BY <1>6, <1>7, FS_EmptySet DEF Balls
  <1> QED
    BY <1>1, <1>4, <1>5, <1>8 DEF BallsInvariant, BallInv

LEMMA BallsInvInductive ==
    ASSUME BallsInvariant, [ProgramsNext]_pvars
    PROVE  BallsInvariant'
  <1>1. IdsInv /\ StepKinds
    BY KindsOfSteps DEF BallsInvariant, LockInvariant
  <1>2. LockInvariant'
    BY LockInvInductive DEF BallsInvariant
  <1>3. ASSUME races' = 0 PROVE BallInv'
    <2>1. LockInv /\ BallInv
      BY <1>1, <1>3, RacesStay DEF BallsInvariant, LockInvariant
    <2>2. IdsInv'
      BY <1>2 DEF LockInvariant
    <2> QED
      BY <1>1, <2>1, <2>2, StillBalls, QuietBalls, GivenBalls, AsksBalls, StoresBalls,
         LocksBalls, UnlocksBalls, WaitsBalls, PostsBalls DEF StepKinds
  <1> QED
    BY <1>2, <1>3 DEF BallsInvariant

LEMMA BallsInvAlways == ProgramsFairSpec => []BallsInvariant
  BY BallsInvInit, BallsInvInductive, PTL DEF ProgramsFairSpec

\* There are as many balls as pings that have served, whoever is preempted, blocks or
\* sleeps where: a turn that is passed is neither lost nor doubled, unless the programs
\* raced for an id (prog_user.c:150, 172, ksem.c:160).
THEOREM BallsKept == ProgramsFairSpec => []BallsConserved
  <1>1. BallsInvariant => BallsConserved
    <2> SUFFICES ASSUME BallsInvariant, races = 0
                 PROVE  Waiting(Ping) + Waiting(Pong) + Cardinality({e \in Players : HasBall(e)})
                            = Cardinality(Served)
      BY DEF BallsConserved
    <2>1. IdsInv /\ KInv /\ LockInv /\ Balls
      BY DEF BallsInvariant, LockInvariant, IdsInv, BallInv
    <2>2. ASSUME NEW e \in Players, pc[e] \in TurnPlaces
          PROVE  Blocked(e) <=> Waits(e, SemQ(ids[Own(e)]))
      <3>1. e \in Entries /\ IsLive(e) /\ ids[Own(e)] \in Semaphores
        BY <2>1, <2>2, IdsUsed
           DEF Players, IdsInv, LiveUntilGone, TurnPlaces, AskPlaces, FirstPlaces
      <3>2. SemQ(ids[Own(e)]) \in WaitQueues
        BY <3>1, WaitNames
      <3>3. Waits(e, SemQ(ids[Own(e)])) => Blocked(e)
        BY <2>1, <3>1, <3>2, WaitFacts
      <3>4. ASSUME Blocked(e) PROVE Waits(e, SemQ(ids[Own(e)]))
        <4>1. PICK q \in WaitQueues : Waits(e, q)
          BY <2>1, <3>1, <3>4, WaitFacts
        <4>2. PICK i \in 1 .. Len(queue[q]) : queue[q][i] = proc_table[e].pid
          BY <4>1 DEF Waits
        <4>3. PICK f \in Entries : IsLive(f) /\ proc_table[f].pid = queue[q][i] /\ Parked(f, q)
          BY <2>1 DEF LockInv, WaitersParked
        <4>4. f = e
          BY <2>1, <3>1, <4>2, <4>3, WaitFacts
        <4>5. e \notin Shells
          BY <2>2 DEF Shells, Players
        <4>6. q = SemQ(ids[Own(e)])
          BY <4>3, <4>4, <4>5 DEF Parked
        <4> QED
          BY <4>1, <4>6
      <3> QED
        BY <3>3, <3>4
    <2>3. {e \in Players : HasBall(e)} = Turns
      BY <2>2 DEF HasBall, Turns, TurnPlaces
    <2> QED
      BY <2>1, <2>3 DEF Balls
  <1> QED
    BY <1>1, BallsInvAlways, PTL
=============================================================================
