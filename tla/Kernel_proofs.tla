---------------------------- MODULE Kernel_proofs ----------------------------
(***************************************************************************)
(* Theorems about Kernel: mutexes and semaphores, used by processes that   *)
(* follow no rule and by processes that follow some.  The invariant is the *)
(* scheduler's, Safe, on the larger context of Kernel, and KernelOK, which *)
(* says what the tables of mutexes and semaphores have to do with the wait *)
(* queues.                                                                 *)
(***************************************************************************)
EXTENDS Kernel, Scheduler_proofs

KernelFields == {"mutex", "mutexfree", "sem", "semfree", "eax"}

MutexEntry == [allocated : BOOLEAN, locks : Nat, owner : Entries \cup {NULL}]

SemEntry == [allocated : BOOLEAN, count : Nat]

Tables(k) ==
    /\ KernelFields \subseteq DOMAIN k
    /\ k.mutex \in [Mutexes -> MutexEntry]
    /\ k.mutexfree \in Seq(Mutexes) /\ Len(k.mutexfree) <= QUEUE_SIZE
    /\ k.sem \in [Semaphores -> SemEntry]
    /\ k.semfree \in Seq(Semaphores) /\ Len(k.semfree) <= QUEUE_SIZE
    /\ k.eax \in [Entries -> Int]

\* A free mutex has no owner and nobody waits for it; a locked one counts both.
Counted(entry, wait) ==
    \/ entry.locks = 0 /\ entry.owner = NULL /\ wait = <<>>
    \/ entry.locks = 1 + Len(wait) /\ entry.owner # NULL

LocksOK(k) == \A m \in Mutexes : Counted(k.mutex[m], k.queue[MutexQ(m)])

CountsOK(k) ==
    \A s \in Semaphores :
        k.sem[s].count <= MAX_COUNT /\ (k.sem[s].count > 0 => k.queue[SemQ(s)] = <<>>)

\* A table and the ids that are left to give out.
Given(table, ids) ==
    /\ \A x \in DOMAIN table :
          table[x].allocated <=> ~ \E i \in 1 .. Len(ids) : ids[i] = x
    /\ NoItemTwice(ids)

IdsOK(k) == Given(k.mutex, k.mutexfree) /\ Given(k.sem, k.semfree)

OwnersOK(k) ==
    \A m \in Mutexes : k.mutex[m].owner # NULL =>
        Live(k, k.mutex[m].owner) /\ k.proc[k.mutex[m].owner].pid # 0

KernelOK(k) ==
    /\ Tables(k) /\ LocksOK(k) /\ CountsOK(k)
    /\ "allocated" \in Discipline => IdsOK(k)
    /\ "alive" \in Discipline => OwnersOK(k)

\* Only the processes of a semaphore that was destroyed are lost.
Lost == IF "nowaiters" \in Discipline THEN {} ELSE Entries

KInv == Safe(KernelCtx, Lost) /\ KernelOK(KernelCtx) /\ next_pid <= MAX_PIDS

-----------------------------------------------------------------------------
(***************************************************************************)
(* Names and fields.                                                       *)
(***************************************************************************)

LEMMA WaitNames ==
    /\ \A m \in Mutexes : /\ MutexQ(m) \in WaitQueues /\ MutexQ(m) \in Queues \ {RunQ}
                          /\ StateIn(MutexQ(m)) = "WAITING"
    /\ \A s \in Semaphores : /\ SemQ(s) \in WaitQueues /\ SemQ(s) \in Queues \ {RunQ}
                             /\ StateIn(SemQ(s)) = "WAITING"
    /\ \A m, n \in Mutexes : MutexQ(m) = MutexQ(n) => m = n
    /\ \A s, t \in Semaphores : SemQ(s) = SemQ(t) => s = t
    /\ \A m \in Mutexes, s \in Semaphores : MutexQ(m) # SemQ(s)
  <1>1. \A q \in WaitQueues : q \in Queues /\ q # RunQ /\ q # SleepQ
    BY NameAssumption DEF Queues
  <1>2. \A q \in WaitQueues : StateIn(q) = "WAITING"
    BY <1>1 DEF StateIn
  <1>3. /\ \A m, n : MutexQ(m) = MutexQ(n) => m = n
        /\ \A m, n : SemQ(m) = SemQ(n) => m = n
        /\ \A m, n : MutexQ(m) # SemQ(n)
    BY DEF MutexQ, SemQ
  <1> QED
    BY <1>1, <1>2, <1>3, MutexAssumption, SemAssumption

\* l has the scheduler's fields as k has them; the tables, as k has them.
SameScheduler(k, l) ==
    /\ IsRecord(l) /\ ContextFields \subseteq DOMAIN l
    /\ l.proc = k.proc /\ l.queue = k.queue /\ l.active = k.active
    /\ l.free = k.free /\ l.next = k.next /\ l.status = k.status

SameTables(k, l) ==
    /\ KernelFields \subseteq DOMAIN l
    /\ l.mutex = k.mutex /\ l.mutexfree = k.mutexfree
    /\ l.sem = k.sem /\ l.semfree = k.semfree /\ l.eax = k.eax

LEMMA ShapeKeepsTables ==
    ASSUME NEW k, KernelFields \subseteq DOMAIN k, NEW l, SameShape(k, l)
    PROVE  SameTables(k, l)
  BY DEF SameShape, SameTables, KernelFields, ContextFields

LEMMA TwinTyped ==
    ASSUME NEW k, TypedContext(k), NEW l, SameScheduler(k, l)
    PROVE  TypedContext(l)
  BY DEF TypedContext, IsContext, IsBounded, SameScheduler

LEMMA TwinSound ==
    ASSUME NEW k, NEW X, Sound(k, X), NEW l, SameScheduler(k, l)
    PROVE  /\ Sound(l, X) /\ (Loose(k) => Loose(l)) /\ (Safe(k, X) => Safe(l, X))
           /\ \A e \in Entries : Live(k, e) => Live(l, e) /\ l.proc[e].pid = k.proc[e].pid
  <1>1. TypedContext(l)
    BY SoundRead, TwinTyped
  <1>2. Sound(l, X)
    BY <1>1, SoundByFields DEF SameScheduler
  <1>3. Loose(k) => Loose(l)
    BY DEF SameScheduler, Loose
  <1>4. Safe(k, X) => Safe(l, X)
    BY <1>2 DEF SameScheduler, Safe, Tight, InSlice, IdleFirst
  <1>5. \A e \in Entries : Live(k, e) => Live(l, e) /\ l.proc[e].pid = k.proc[e].pid
    BY DEF SameScheduler, Live
  <1> QED
    BY <1>2, <1>3, <1>4, <1>5

\* The tables change as the handlers change them.
Tabled(l, mutex, mutexfree, sem, semfree, saved) ==
    /\ KernelFields \subseteq DOMAIN l
    /\ l.mutex = mutex /\ l.mutexfree = mutexfree
    /\ l.sem = sem /\ l.semfree = semfree /\ l.eax = saved

LEMMA MutexUpdate ==
    ASSUME NEW k, IsRecord(k), ContextFields \cup KernelFields \subseteq DOMAIN k, NEW t,
           NEW l, l = [k EXCEPT !.mutex = t]
    PROVE  SameScheduler(k, l) /\ Tabled(l, t, k.mutexfree, k.sem, k.semfree, k.eax)
  BY DEF IsRecord, ContextFields, KernelFields, SameScheduler, Tabled

LEMMA MutexFreeUpdate ==
    ASSUME NEW k, IsRecord(k), ContextFields \cup KernelFields \subseteq DOMAIN k, NEW t,
           NEW l, l = [k EXCEPT !.mutexfree = t]
    PROVE  SameScheduler(k, l) /\ Tabled(l, k.mutex, t, k.sem, k.semfree, k.eax)
  BY DEF IsRecord, ContextFields, KernelFields, SameScheduler, Tabled

LEMMA SemUpdate ==
    ASSUME NEW k, IsRecord(k), ContextFields \cup KernelFields \subseteq DOMAIN k, NEW t,
           NEW l, l = [k EXCEPT !.sem = t]
    PROVE  SameScheduler(k, l) /\ Tabled(l, k.mutex, k.mutexfree, t, k.semfree, k.eax)
  BY DEF IsRecord, ContextFields, KernelFields, SameScheduler, Tabled

LEMMA SemFreeUpdate ==
    ASSUME NEW k, IsRecord(k), ContextFields \cup KernelFields \subseteq DOMAIN k, NEW t,
           NEW l, l = [k EXCEPT !.semfree = t]
    PROVE  SameScheduler(k, l) /\ Tabled(l, k.mutex, k.mutexfree, k.sem, t, k.eax)
  BY DEF IsRecord, ContextFields, KernelFields, SameScheduler, Tabled

LEMMA EaxUpdate ==
    ASSUME NEW k, IsRecord(k), ContextFields \cup KernelFields \subseteq DOMAIN k, NEW t,
           NEW l, l = [k EXCEPT !.eax = t]
    PROVE  SameScheduler(k, l) /\ Tabled(l, k.mutex, k.mutexfree, k.sem, k.semfree, t)
  BY DEF IsRecord, ContextFields, KernelFields, SameScheduler, Tabled

\* Only the tables of mutexes and semaphores, their wait queues, and the pids of
\* the owners matter to KernelOK.
LEMMA FrameKeeps ==
    ASSUME NEW k, KernelOK(k), NEW l, NEW D, Frame(k, l, D),
           "alive" \in Discipline =>
               \A m \in Mutexes : k.mutex[m].owner # NULL => k.mutex[m].owner \notin D
    PROVE  KernelOK(l) /\ SameTables(k, l)
  <1>1. SameTables(k, l)
    BY ShapeKeepsTables DEF Frame, KernelOK, Tables
  <1>2. \A q \in WaitQueues : l.queue[q] = k.queue[q]
    BY DEF Frame
  <1>3. LocksOK(l) /\ CountsOK(l)
    BY <1>1, <1>2, WaitNames DEF KernelOK, LocksOK, CountsOK, SameTables
  <1>4. "alive" \in Discipline => OwnersOK(l)
    <2> SUFFICES ASSUME "alive" \in Discipline, NEW m \in Mutexes, l.mutex[m].owner # NULL
                 PROVE  Live(l, l.mutex[m].owner) /\ l.proc[l.mutex[m].owner].pid # 0
      BY DEF OwnersOK
    <2>1. l.mutex[m] = k.mutex[m] /\ k.mutex[m] \in MutexEntry
      BY <1>1 DEF SameTables, KernelOK, Tables
    <2>2. k.mutex[m].owner \in Entries \ D
      BY <2>1 DEF MutexEntry
    <2> QED
      BY <2>1, <2>2 DEF Frame, KernelOK, OwnersOK
  <1> QED
    BY <1>1, <1>3, <1>4 DEF KernelOK, SameTables, Tables, IdsOK

\* A handler gives mutex id another entry, which counts its waiters again.
LEMMA MutexKeeps ==
    ASSUME NEW k, KernelOK(k), NEW id \in Mutexes, NEW r \in MutexEntry,
           NEW l, KernelFields \subseteq DOMAIN l,
           l.mutex = [k.mutex EXCEPT ![id] = r],
           l.mutexfree \in Seq(Mutexes), Len(l.mutexfree) <= QUEUE_SIZE,
           "allocated" \in Discipline => Given(l.mutex, l.mutexfree),
           l.sem = k.sem, l.semfree = k.semfree, l.eax = k.eax,
           \A q \in WaitQueues \ {MutexQ(id)} : l.queue[q] = k.queue[q],
           Counted(r, l.queue[MutexQ(id)]),
           r.owner # NULL /\ "alive" \in Discipline
               => Live(l, r.owner) /\ l.proc[r.owner].pid # 0,
           \A e \in Entries : Live(k, e) => Live(l, e) /\ l.proc[e].pid = k.proc[e].pid
    PROVE  KernelOK(l)
  <1>1. k.mutex \in [Mutexes -> MutexEntry]
    BY DEF KernelOK, Tables
  <1>2. l.mutex[id] = r /\ \A m \in Mutexes \ {id} : l.mutex[m] = k.mutex[m]
    BY <1>1
  <1>3. Tables(l)
    BY <1>1 DEF KernelOK, Tables
  <1>4. LocksOK(l)
    BY <1>2, WaitNames DEF KernelOK, LocksOK
  <1>5. CountsOK(l)
    BY WaitNames DEF KernelOK, CountsOK
  <1>6. "allocated" \in Discipline => IdsOK(l)
    BY DEF KernelOK, IdsOK
  <1>7. "alive" \in Discipline => OwnersOK(l)
    <2> SUFFICES ASSUME "alive" \in Discipline, NEW m \in Mutexes, l.mutex[m].owner # NULL
                 PROVE  Live(l, l.mutex[m].owner) /\ l.proc[l.mutex[m].owner].pid # 0
      BY DEF OwnersOK
    <2>1. CASE m = id
      BY <1>2, <2>1
    <2>2. CASE m # id
      <3>1. l.mutex[m] = k.mutex[m] /\ k.mutex[m] \in MutexEntry
        BY <1>1, <1>2, <2>2
      <3>2. k.mutex[m].owner \in Entries
        BY <3>1 DEF MutexEntry
      <3> QED
        BY <3>1, <3>2 DEF KernelOK, OwnersOK
    <2> QED
      BY <2>1, <2>2
  <1> QED
    BY <1>3, <1>4, <1>5, <1>6, <1>7 DEF KernelOK

\* A handler gives semaphore id another entry.
LEMMA SemKeeps ==
    ASSUME NEW k, KernelOK(k), NEW id \in Semaphores, NEW r \in SemEntry,
           NEW l, KernelFields \subseteq DOMAIN l,
           l.sem = [k.sem EXCEPT ![id] = r],
           l.semfree \in Seq(Semaphores), Len(l.semfree) <= QUEUE_SIZE,
           "allocated" \in Discipline => Given(l.sem, l.semfree),
           l.mutex = k.mutex, l.mutexfree = k.mutexfree, l.eax = k.eax,
           \A q \in WaitQueues \ {SemQ(id)} : l.queue[q] = k.queue[q],
           r.count <= MAX_COUNT, r.count > 0 => l.queue[SemQ(id)] = <<>>,
           \A e \in Entries : Live(k, e) => Live(l, e) /\ l.proc[e].pid = k.proc[e].pid
    PROVE  KernelOK(l)
  <1>1. k.sem \in [Semaphores -> SemEntry] /\ k.mutex \in [Mutexes -> MutexEntry]
    BY DEF KernelOK, Tables
  <1>2. l.sem[id] = r /\ \A s \in Semaphores \ {id} : l.sem[s] = k.sem[s]
    BY <1>1
  <1>3. Tables(l)
    BY <1>1 DEF KernelOK, Tables
  <1>4. LocksOK(l)
    BY WaitNames DEF KernelOK, LocksOK
  <1>5. CountsOK(l)
    BY <1>2, WaitNames DEF KernelOK, CountsOK
  <1>6. "allocated" \in Discipline => IdsOK(l)
    BY DEF KernelOK, IdsOK
  <1>7. "alive" \in Discipline => OwnersOK(l)
    <2>1. \A m \in Mutexes : k.mutex[m].owner # NULL => k.mutex[m].owner \in Entries
      BY ONLY <1>1 DEF MutexEntry
    <2> QED
      BY <2>1 DEF KernelOK, OwnersOK
  <1> QED
    BY <1>3, <1>4, <1>5, <1>6, <1>7 DEF KernelOK

-----------------------------------------------------------------------------
(***************************************************************************)
(* The handlers.  e calls, in context k; l is what the handler leaves.     *)
(***************************************************************************)

Calling(k, e) ==
    /\ Safe(k, Lost) /\ KernelOK(k)
    /\ k.status = "running" /\ k.active = e /\ e \in Entries \ {0}

\* The handler comes back, and no process has gone.
Back(k, l) ==
    /\ l.status = "running" /\ Sound(l, Lost) /\ Loose(l)
    /\ KernelFields \subseteq DOMAIN l
    /\ l.next = k.next /\ l.active \in {NULL, k.active}
    /\ \A e \in Entries : Live(k, e) => Live(l, e) /\ l.proc[e].pid = k.proc[e].pid

LEMMA CallerFacts ==
    ASSUME NEW k, NEW e, Calling(k, e)
    PROVE  /\ e \in Entries /\ e # 0 /\ IsContext(k) /\ TypedContext(k) /\ Sound(k, Lost)
           /\ Tight(k) /\ Loose(k)
           /\ k.proc[e].state = "ACTIVE" /\ Live(k, e) /\ NotQueued(k, e)
           /\ k.proc[e].pid \in Nat /\ k.proc[e].pid # 0 /\ k.proc[e].pid < k.next
           /\ ContextFields \cup KernelFields \subseteq DOMAIN k /\ IsRecord(k)
           /\ Back(k, k)
  <1>1. e \in Entries /\ e # 0 /\ Sound(k, Lost) /\ Tight(k)
    BY DEF Calling, Safe
  <1>2. IsContext(k) /\ TypedContext(k) /\ k.proc[e].pid \in Nat
    BY <1>1, SoundRead
  <1>3. k.proc[e].state = "ACTIVE" /\ Live(k, e)
    BY <1>1 DEF Calling, Tight, Live
  <1>4. NotQueued(k, e)
    BY <1>1, <1>3, ActiveNotQueued
  <1>5. k.proc[e].pid # 0 /\ k.proc[e].pid < k.next
    BY <1>1, <1>3, SoundRead, EntryNumbers DEF Sound, PidsOK
  <1>6. ContextFields \cup KernelFields \subseteq DOMAIN k /\ IsRecord(k)
    BY <1>2 DEF IsContext, Calling, KernelOK, Tables
  <1>7. Back(k, k)
    BY <1>1, <1>6, TightLoose DEF Back, Calling
  <1> QED
    BY <1>1, <1>2, <1>3, <1>4, <1>5, <1>6, <1>7, TightLoose

\* What Back says follows from the scheduler's fields.
LEMMA BackTwin ==
    ASSUME NEW k, NEW m, Back(k, m), NEW l, SameScheduler(m, l), KernelFields \subseteq DOMAIN l
    PROVE  Back(k, l)
  <1>1. /\ Sound(l, Lost) /\ Loose(l)
        /\ \A e \in Entries : Live(m, e) => Live(l, e) /\ l.proc[e].pid = m.proc[e].pid
    BY TwinSound DEF Back
  <1> QED
    BY <1>1 DEF Back, SameScheduler

\* The caller is taken off the CPU and waits in q.
LEMMA BlockBack ==
    ASSUME NEW k, NEW e, Calling(k, e), NEW q \in WaitQueues,
           NEW d, Sound(d, With(Lost, e)), NotQueued(d, e), Live(d, e), Frame(k, d, {}),
           d.next = k.next, d.status = k.status, d.active \in {NULL, k.active},
           \A f \in Entries \ {e} : d.proc[f] = k.proc[f],
           NEW l, l = Block(d, e, "WAITING", q)
    PROVE  /\ Back(k, l) /\ SameTables(k, l)
           /\ l.queue[q] = Append(k.queue[q], k.proc[e].pid)
           /\ \A r \in WaitQueues \ {q} : l.queue[r] = k.queue[r]
           /\ l.active = d.active
  <1>1. e \in Entries \ {0} /\ q \in Queues /\ q # RunQ /\ StateIn(q) = "WAITING"
    <2>1. q \in Queues /\ q # RunQ /\ q # SleepQ
      BY NameAssumption DEF Queues
    <2> QED
      BY <2>1, CallerFacts DEF StateIn
  <1>2. /\ Sound(l, Lost) /\ l.proc[e].state = "WAITING"
        /\ \A f \in Entries \ {e} : l.proc[f] = d.proc[f]
        /\ l.active = d.active /\ l.status = d.status
    <2>1. l = Block(d, e, StateIn(q), q)
      BY <1>1
    <2> QED
      BY <1>1, <2>1, BlockSound
  <1>3. IsContext(d) /\ ~Full(d.queue[q]) /\ "WAITING" \in States
    BY <1>1, RoomInQueue, SoundRead DEF States
  <1>4. /\ SameShape(d, l)
        /\ l.proc = [d.proc EXCEPT ![e] = BlockedPCB(@, "WAITING", q)]
        /\ l.queue = [d.queue EXCEPT ![q] = Append(@, d.proc[e].pid)]
        /\ l.next = d.next
    BY <1>1, <1>3, BlockFields
  <1>5. d.proc[e] \in PCB /\ d.proc[e].pid = k.proc[e].pid
    BY <1>1, CallerFacts, SoundRead DEF Frame
  <1>6. l.proc[e].pid = k.proc[e].pid
    <2>1. d.proc \in [Entries -> PCB] /\ e \in Entries
      BY ONLY <1>1, <1>3 DEF IsContext
    <2>2. l.proc[e] = BlockedPCB(d.proc[e], "WAITING", q)
      BY ONLY <1>4, <2>1
    <2>3. BlockedPCB(d.proc[e], "WAITING", q).pid = d.proc[e].pid
      BY ONLY <1>5 DEF BlockedPCB, PCB
    <2> QED
      BY ONLY <1>5, <2>2, <2>3
  <1>7. SameTables(k, l)
    <2>1. KernelFields \subseteq DOMAIN k /\ SameShape(k, l)
      BY <1>4, CallerFacts DEF Frame, SameShape
    <2> QED
      BY <2>1, ShapeKeepsTables
  <1>8. Loose(l)
    BY <1>2, CallerFacts DEF Loose, Calling, Tight
  <1>9. Back(k, l)
    BY <1>2, <1>4, <1>6, <1>7, <1>8 DEF Back, SameTables, Calling, Live
  <1>10. /\ l.queue[q] = Append(k.queue[q], k.proc[e].pid)
         /\ \A r \in WaitQueues \ {q} : l.queue[r] = k.queue[r]
    BY <1>1, <1>3, <1>4, <1>5 DEF IsContext, Frame, Queues
  <1> QED
    BY <1>2, <1>7, <1>9, <1>10

\* e owns mutex id if nobody did, and waits for it otherwise; it is counted.
Locked(k, l, e, id) ==
    LET m == k.mutex[id]
        free == m.locks = 0
    IN  /\ Back(k, l)
        /\ l.mutex = [k.mutex EXCEPT ![id] =
              [allocated |-> m.allocated, locks |-> m.locks + 1,
               owner |-> IF free THEN e ELSE m.owner]]
        /\ l.queue[MutexQ(id)] = IF free THEN k.queue[MutexQ(id)]
                                 ELSE Append(k.queue[MutexQ(id)], k.proc[e].pid)
        /\ \A q \in WaitQueues \ {MutexQ(id)} : l.queue[q] = k.queue[q]
        /\ l.mutexfree = k.mutexfree /\ l.sem = k.sem /\ l.semfree = k.semfree
        /\ l.eax = k.eax

LEMMA LockResult ==
    ASSUME NEW k, NEW e, Calling(k, e), NEW id \in Mutexes, NEW l, l = kmutex_lock(k, id).k
    PROVE  Locked(k, l, e, id)
  <1> DEFINE m == k.mutex[id]
             q == MutexQ(id)
             d == scheduler_remove(k, e)
             b == Block(d, e, "WAITING", q)
             o == [k EXCEPT !.mutex[id].owner = e]
  <1>1. k.mutex \in [Mutexes -> MutexEntry] /\ m \in MutexEntry /\ m.locks \in Nat
    BY DEF Calling, KernelOK, Tables, MutexEntry
  <1>2. k.active = e
    BY DEF Calling
  <1>3. CASE m.locks > 0
    <2>1. l = [b EXCEPT !.mutex[id].locks = @ + 1]
      BY <1>2, <1>3 DEF kmutex_lock, Result
    <2>2. d = scheduler_remove(k, e) /\ b = Block(d, e, "WAITING", q)
      OBVIOUS
    <2> HIDE DEF d, b, q
    <2>3. q \in WaitQueues /\ q = MutexQ(id)
      BY WaitNames DEF q
    <2>4. /\ Sound(d, With(Lost, e)) /\ NotQueued(d, e) /\ Live(d, e)
          /\ \A f \in Entries \ {e} : d.proc[f] = k.proc[f]
          /\ d.status = k.status /\ d.active \in {NULL, k.active}
      BY <2>2, CallerFacts, RemoveSound
    <2>5. Frame(k, d, {}) /\ d.next = k.next
      BY <2>2, CallerFacts, RemoveFrame
    <2>6. /\ Back(k, b) /\ SameTables(k, b)
          /\ b.queue[q] = Append(k.queue[q], k.proc[e].pid)
          /\ \A r \in WaitQueues \ {q} : b.queue[r] = k.queue[r]
      BY <2>2, <2>3, <2>4, <2>5, BlockBack
    <2>7. b.mutex = k.mutex /\ IsRecord(b) /\ ContextFields \cup KernelFields \subseteq DOMAIN b
      BY <2>6, SoundRead DEF SameTables, Back, IsContext
    <2>8. l = [b EXCEPT !.mutex = [k.mutex EXCEPT ![id].locks = @ + 1]]
      BY <2>1, <2>7
    <2> DEFINE t == [k.mutex EXCEPT ![id].locks = @ + 1]
    <2>9. t = [k.mutex EXCEPT ![id] =
                  [allocated |-> m.allocated, locks |-> m.locks + 1, owner |-> m.owner]]
      BY <1>1 DEF MutexEntry
    <2> HIDE DEF t, m
    <2>a. l = [b EXCEPT !.mutex = t]
      BY <2>8 DEF t
    <2>10. SameScheduler(b, l) /\ Tabled(l, t, b.mutexfree, b.sem, b.semfree, b.eax)
      BY <2>7, <2>a, MutexUpdate
    <2>11. Back(k, l)
      BY <2>6, <2>10, BackTwin DEF Tabled
    <2>12. l.queue = b.queue
      BY <2>10 DEF SameScheduler
    <2>13. m.locks # 0
      BY <1>1, <1>3
    <2> QED
      BY <2>3, <2>6, <2>9, <2>10, <2>11, <2>12, <2>13 DEF SameTables, Tabled, m, Locked
  <1>4. CASE ~(m.locks > 0)
    <2>0. m.locks = 0
      BY <1>1, <1>4
    <2>a. o = [k EXCEPT !.mutex[id].owner = e]
      OBVIOUS
    <2>b. kmutex_lock(k, id) = Result([o EXCEPT !.mutex[id].locks = @ + 1], m.locks + 1)
      BY <1>2, <1>4 DEF kmutex_lock
    <2> HIDE DEF o
    <2>1. l = [o EXCEPT !.mutex[id].locks = @ + 1]
      BY <2>b DEF Result
    <2> DEFINE t == [k.mutex EXCEPT ![id] =
                        [allocated |-> m.allocated, locks |-> m.locks + 1, owner |-> e]]
    <2>2. IsRecord(k) /\ ContextFields \cup KernelFields \subseteq DOMAIN k
      BY CallerFacts
    <2>c. SameScheduler(k, o)
            /\ Tabled(o, [k.mutex EXCEPT ![id].owner = e], k.mutexfree, k.sem, k.semfree, k.eax)
      BY <2>2, <2>a, MutexUpdate
    <2>d. IsRecord(o) /\ ContextFields \cup KernelFields \subseteq DOMAIN o
      BY <2>c DEF SameScheduler, Tabled
    <2>e. o.mutex = [k.mutex EXCEPT ![id].owner = e]
      BY <2>c DEF Tabled
    <2>f. [o.mutex EXCEPT ![id].locks = @ + 1] = t
      BY <1>1, <2>e DEF MutexEntry
    <2>3. l = [o EXCEPT !.mutex = t]
      BY <2>1, <2>f
    <2> HIDE DEF t
    <2>4. SameScheduler(o, l) /\ Tabled(l, t, o.mutexfree, o.sem, o.semfree, o.eax)
      BY <2>3, <2>d, MutexUpdate
    <2>5. SameScheduler(k, l) /\ Tabled(l, t, k.mutexfree, k.sem, k.semfree, k.eax)
      BY <2>c, <2>4 DEF SameScheduler, Tabled
    <2>6. Back(k, l)
      BY <2>5, CallerFacts, BackTwin DEF Tabled
    <2>7. l.queue = k.queue
      BY <2>5 DEF SameScheduler
    <2> QED
      BY <2>0, <2>5, <2>6, <2>7 DEF t, Tabled, Locked
  <1> QED
    BY <1>3, <1>4

\* f is taken out of wait queue q, which it is at the head of.
Popped(k, l, q, f) ==
    /\ f \in Entries \ {0} /\ k.proc[f].pid = Head(k.queue[q]) /\ k.proc[f].pid # 0
    /\ k.proc[f].state = "WAITING"
    /\ Sound(l, With(Lost, f)) /\ NotQueued(l, f) /\ Live(l, f)
    /\ SameShape(k, l) /\ l.proc = k.proc /\ l.active = k.active
    /\ l.next = k.next /\ l.status = k.status
    /\ l.queue = [k.queue EXCEPT ![q] = Tail(@)]

LEMMA PopWaiter ==
    ASSUME NEW k, Back(k, k), NEW q \in WaitQueues, k.queue[q] # <<>>,
           NEW f, f = pid_to_proc(k, Head(k.queue[q])),
           NEW l, l = [k EXCEPT !.queue[q] = Tail(@)]
    PROVE  Popped(k, l, q, f)
  <1> DEFINE s == k.queue[q]
  <1>1. Sound(k, Lost) /\ IsContext(k) /\ TypedContext(k) /\ q \in Queues /\ StateIn(q) = "WAITING"
    <2>1. q \in Queues /\ q # RunQ /\ q # SleepQ
      BY NameAssumption DEF Queues
    <2> QED
      BY <2>1, SoundRead DEF StateIn, Back
  <1>2. s \in Seq(Nat) /\ Len(s) \in Nat /\ Tail(s) \in Seq(Nat) /\ Len(Tail(s)) <= Len(s)
    BY <1>1, SoundRead
  <1>3. 1 \in 1 .. Len(s) /\ Head(s) = s[1]
    BY <1>2
  <1> HIDE DEF s
  <1>4. PICK e \in Entries : BelongsTo(k, e, q) /\ k.proc[e].pid = Head(s)
    BY <1>1, <1>3 DEF Sound, QueuedOK, s
  <1>5. Live(k, e) /\ k.proc[e].state = "WAITING"
    BY <1>1, <1>4 DEF BelongsTo
  <1>6. f = e
    BY <1>1, <1>4, <1>5, LookUp DEF s
  <1>7. e # 0 /\ k.proc[e].pid # 0
    BY <1>1, <1>5, EntryNumbers, SoundRead DEF Sound, PidsOK
  <1>8. /\ SameShape(k, l) /\ l.proc = k.proc /\ l.active = k.active /\ l.free = k.free
        /\ l.next = k.next /\ l.status = k.status
        /\ l.queue = [k.queue EXCEPT ![q] = Tail(@)]
    BY <1>1 DEF IsContext, IsRecord, SameShape, ContextFields
  <1>9. TypedContext(l)
    <2>1. IsRecord(l) /\ ContextFields \subseteq DOMAIN l
      BY <1>1, <1>8, ShapeKeepsFields
    <2>2. l.queue \in [Queues -> Seq(Nat)]
      BY <1>1, <1>2, <1>8 DEF IsContext, s
    <2>3. Len(Tail(s)) <= QUEUE_SIZE
      <3>1. Len(s) <= QUEUE_SIZE
        BY <1>1 DEF TypedContext, IsBounded, s
      <3>2. QUEUE_SIZE \in Nat /\ Len(Tail(s)) \in Nat
        BY <1>2, SizeAssumption
      <3> QED
        BY <1>2, <3>1, <3>2
    <2>4. \A r \in Queues : Len(l.queue[r]) <= QUEUE_SIZE
      BY <1>1, <1>8, <2>3 DEF TypedContext, IsBounded, IsContext, s
    <2> QED
      BY <1>1, <1>8, <2>1, <2>2, <2>4 DEF TypedContext, IsContext, IsBounded
  <1>10. Sound(l, With(Lost, e)) /\ NotQueued(l, e)
    BY <1>1, <1>4, <1>8, <1>9, PopSound DEF s
  <1> QED
    BY <1>4, <1>5, <1>6, <1>7, <1>8, <1>10 DEF s, Live, Popped

\* ... and is in no queue ...
TakenOut(k, d, f) ==
    /\ Back(k, k) /\ f \in Entries \ {0} /\ k.proc[f].state # "ACTIVE"
    /\ Sound(d, With(Lost, f)) /\ NotQueued(d, f) /\ Live(d, f) /\ SameShape(k, d)
    /\ \A g \in Entries \ {f} : d.proc[g] = k.proc[g]
    /\ d.proc[f].pid = k.proc[f].pid /\ d.active = k.active
    /\ d.next = k.next /\ d.status = k.status

\* ... and becomes ready.
LEMMA ReadyBack ==
    ASSUME NEW k, NEW f, NEW d, TakenOut(k, d, f), NEW l, l = scheduler_add(d, f)
    PROVE  /\ Back(k, l) /\ SameTables(k, l) /\ l.active = k.active
           /\ \A q \in WaitQueues : l.queue[q] = d.queue[q]
  <1> /\ Back(k, k) /\ f \in Entries \ {0} /\ k.proc[f].state # "ACTIVE"
      /\ Sound(d, With(Lost, f)) /\ NotQueued(d, f) /\ Live(d, f) /\ SameShape(k, d)
      /\ \A g \in Entries \ {f} : d.proc[g] = k.proc[g]
      /\ d.proc[f].pid = k.proc[f].pid /\ d.active = k.active
      /\ d.next = k.next /\ d.status = k.status
    BY DEF TakenOut
  <1>0. /\ f \in Entries /\ Sound(d, With(Lost, f)) /\ Live(d, f) /\ NotQueued(d, f)
        /\ f = 0 => d.proc[f].state \in {"IDLE", "ACTIVE"}
        /\ l = scheduler_add(d, f)
    OBVIOUS
  <1>1. Sound(l, Lost)
    BY ONLY <1>0, AddSound
  <1>2. /\ Frame(d, l, {}) /\ l.next = d.next /\ l.active = d.active
        /\ l.queue = [d.queue EXCEPT ![RunQ] = Append(@, d.proc[f].pid)]
        /\ l.proc = [d.proc EXCEPT ![f] = ReadyPCB(@)]
    BY ONLY <1>0, AddFrame
  <1>6. /\ l.proc[f].state = "IDLE" /\ l.status = d.status
        /\ \A g \in Entries \ {f} : l.proc[g] = d.proc[g]
    <2>1. IsContext(d) /\ d.proc[f] \in PCB
      BY ONLY <1>0, SoundRead
    <2>2. d.proc \in [Entries -> PCB] /\ ~Full(d.queue[RunQ])
      BY ONLY <1>0, <2>1, RoomInQueue, QueueNames DEF IsContext
    <2>3. l.status = d.status
      BY ONLY <1>0, <2>1, <2>2, AddFields
    <2>4. ReadyPCB(d.proc[f]).state = "IDLE"
      BY ONLY <2>1 DEF ReadyPCB, PCB
    <2>5. l.proc[f] = ReadyPCB(d.proc[f]) /\ \A g \in Entries \ {f} : l.proc[g] = d.proc[g]
      BY ONLY <1>0, <1>2, <2>2
    <2> QED
      BY ONLY <2>3, <2>4, <2>5
  <1>3. SameTables(k, l)
    <2>1. SameShape(k, l) /\ KernelFields \subseteq DOMAIN k
      BY <1>2 DEF Frame, SameShape, Back
    <2> QED
      BY <2>1, ShapeKeepsTables
  <1>4. Loose(l)
    BY <1>2, <1>6 DEF Loose, Back
  <1>5. \A g \in Entries : Live(k, g) => Live(l, g) /\ l.proc[g].pid = k.proc[g].pid
    BY <1>2, <1>6 DEF Frame, Live
  <1> QED
    BY <1>1, <1>2, <1>3, <1>4, <1>5, <1>6 DEF Back, SameTables, Frame

LEMMA BackTrans ==
    ASSUME NEW k, NEW m, Back(k, m), NEW l, Back(m, l)
    PROVE  Back(k, l)
  BY DEF Back

\* f, which has waited longest for mutex id, owns it and no longer waits.
HandedOver(k, l, id, f) ==
    /\ Back(k, l) /\ f \in Entries \ {0}
    /\ k.proc[f].pid = Head(k.queue[MutexQ(id)]) /\ k.proc[f].pid # 0
    /\ Tabled(l, [k.mutex EXCEPT ![id].owner = f], k.mutexfree, k.sem, k.semfree, k.eax)
    /\ l.queue[MutexQ(id)] = Tail(k.queue[MutexQ(id)])
    /\ \A q \in WaitQueues \ {MutexQ(id)} : l.queue[q] = k.queue[q]

LEMMA HandOverResult ==
    ASSUME NEW k, Back(k, k), k.proc[k.active].state = "ACTIVE",
           NEW id \in Mutexes, k.queue[MutexQ(id)] # <<>>,
           NEW f, f = pid_to_proc(k, Head(k.queue[MutexQ(id)])),
           NEW l, l = HandOver(k, id)
    PROVE  HandedOver(k, l, id, f)
  <1> DEFINE q == MutexQ(id)
             k1 == [k EXCEPT !.queue[q] = Tail(@)]
             d == scheduler_remove(k1, f)
             a == scheduler_add(d, f)
  <1>1. q \in WaitQueues /\ q = MutexQ(id) /\ q \in Queues
    BY WaitNames
  <1>2. /\ k1 = [k EXCEPT !.queue[q] = Tail(@)] /\ d = scheduler_remove(k1, f)
        /\ a = scheduler_add(d, f)
    OBVIOUS
  <1>b. Back(k, k) /\ k.queue[q] # <<>> /\ f = pid_to_proc(k, Head(k.queue[q]))
    OBVIOUS
  <1>3. f # NULL => l = [a EXCEPT !.mutex[id].owner = f]
    BY DEF HandOver
  <1> HIDE DEF q, k1, d, a
  <1>c. Popped(k, k1, q, f)
    BY ONLY <1>1, <1>2, <1>b, PopWaiter
  <1>4. /\ f \in Entries \ {0} /\ k.proc[f].pid = Head(k.queue[q]) /\ k.proc[f].pid # 0
        /\ k.proc[f].state = "WAITING"
        /\ Sound(k1, With(Lost, f)) /\ NotQueued(k1, f) /\ Live(k1, f)
        /\ SameShape(k, k1) /\ k1.proc = k.proc /\ k1.active = k.active
        /\ k1.next = k.next /\ k1.status = k.status
        /\ k1.queue = [k.queue EXCEPT ![q] = Tail(@)]
    BY <1>c DEF Popped
  <1>a. f \in Entries /\ f # NULL /\ f # k.active
    BY <1>4, EntryNumbers
  <1>d. Sound(k1, With(Lost, f)) /\ f \in Entries /\ Live(k1, f) /\ NotQueued(k1, f)
          /\ d = scheduler_remove(k1, f)
    BY <1>2, <1>4
  <1>5. /\ Sound(d, With(With(Lost, f), f)) /\ NotQueued(d, f) /\ Live(d, f)
        /\ d.proc[f].pid = k1.proc[f].pid /\ d.proc[f].state = k1.proc[f].state
        /\ \A g \in Entries \ {f} : d.proc[g] = k1.proc[g]
        /\ d.active = IF k1.active = f THEN NULL ELSE k1.active
        /\ d.status = k1.status /\ d.free = k1.free
    BY ONLY <1>d, RemoveSound
  <1>6. /\ Frame(k1, d, {}) /\ d.next = k1.next
        /\ d.queue = k1.queue
        /\ d.active = IF k1.active = f THEN NULL ELSE k1.active
    BY ONLY <1>d, RemoveFrame
  <1>7. With(With(Lost, f), f) = With(Lost, f)
    BY DEF With
  <1>8. /\ Sound(d, With(Lost, f)) /\ SameShape(k, d) /\ k.proc[f].state # "ACTIVE"
        /\ \A g \in Entries \ {f} : d.proc[g] = k.proc[g]
        /\ d.proc[f].pid = k.proc[f].pid /\ d.active = k.active
        /\ d.next = k.next /\ d.status = k.status
    <2>1. Sound(d, With(Lost, f)) /\ k.proc[f].state # "ACTIVE"
      BY <1>4, <1>5, <1>7
    <2>2. SameShape(k1, d)
      BY <1>6 DEF Frame
    <2>3. SameShape(k, d)
      BY <1>4, <2>2 DEF SameShape
    <2>4. /\ \A g \in Entries \ {f} : d.proc[g] = k.proc[g]
          /\ d.proc[f].pid = k.proc[f].pid /\ d.active = k.active
          /\ d.next = k.next /\ d.status = k.status
      BY <1>4, <1>a, <1>5, <1>6
    <2> QED
      BY <2>1, <2>3, <2>4
  <1>e. NotQueued(d, f) /\ Live(d, f) /\ a = scheduler_add(d, f) /\ f \in Entries \ {0}
    BY <1>2, <1>4, <1>5
  <1>9. /\ Back(k, a) /\ SameTables(k, a) /\ a.active = k.active
        /\ \A r \in WaitQueues : a.queue[r] = d.queue[r]
    <2>1. TakenOut(k, d, f)
      BY ONLY <1>8, <1>b, <1>e DEF TakenOut
    <2> QED
      BY ONLY <1>e, <2>1, ReadyBack
  <1>10. IsRecord(a) /\ ContextFields \cup KernelFields \subseteq DOMAIN a /\ a.mutex = k.mutex
    BY <1>9, SoundRead DEF SameTables, Back, IsContext
  <1> DEFINE t == [k.mutex EXCEPT ![id].owner = f]
  <1>11. l = [a EXCEPT !.mutex = t]
    BY <1>3, <1>a, <1>10
  <1> HIDE DEF t
  <1>12. SameScheduler(a, l) /\ Tabled(l, t, a.mutexfree, a.sem, a.semfree, a.eax)
    BY <1>10, <1>11, MutexUpdate
  <1>13. Back(k, l)
    BY <1>9, <1>12, BackTwin DEF Tabled
  <1>14. /\ k1.queue[q] = Tail(k.queue[q])
         /\ \A r \in WaitQueues \ {q} : k1.queue[r] = k.queue[r]
    <2>1. k.queue \in [Queues -> Seq(Nat)] /\ WaitQueues \subseteq Queues
      BY SoundRead DEF Back, IsContext, Queues
    <2> QED
      BY <1>1, <1>4, <2>1
  <1>15. \A r \in WaitQueues : l.queue[r] = k1.queue[r]
    BY <1>6, <1>9, <1>12 DEF SameScheduler
  <1> QED
    BY <1>1, <1>4, <1>9, <1>12, <1>13, <1>14, <1>15 DEF t, SameTables, Tabled, HandedOver

\* Nothing happens, the mutex becomes free, or f owns it now.
Unlocked(k, l, id) ==
    LET m == k.mutex[id]
        wait == k.queue[MutexQ(id)]
    IN  /\ Back(k, l)
        /\ l.mutexfree = k.mutexfree /\ l.sem = k.sem /\ l.semfree = k.semfree
        /\ l.eax = k.eax
        /\ \A q \in WaitQueues \ {MutexQ(id)} : l.queue[q] = k.queue[q]
        /\ \/ m.locks = 0 /\ l = k
           \/ /\ m.locks = 1 /\ wait = <<>> /\ l.queue[MutexQ(id)] = <<>>
              /\ l.mutex = [k.mutex EXCEPT ![id] =
                     [allocated |-> m.allocated, locks |-> 0, owner |-> NULL]]
           \/ \E f \in Entries \ {0} :
                 /\ m.locks > 1 /\ wait # <<>> /\ l.queue[MutexQ(id)] = Tail(wait)
                 /\ k.proc[f].pid = Head(wait) /\ k.proc[f].pid # 0 /\ Live(k, f)
                 /\ l.mutex = [k.mutex EXCEPT ![id] =
                     [allocated |-> m.allocated, locks |-> m.locks - 1, owner |-> f]]

LEMMA UnlockResult ==
    ASSUME NEW k, NEW e, Calling(k, e), NEW id \in Mutexes, NEW l, l = kmutex_unlock(k, id).k
    PROVE  Unlocked(k, l, id)
  <1> DEFINE m == k.mutex[id]
             q == MutexQ(id)
             wait == k.queue[q]
             k1 == [k EXCEPT !.mutex[id].locks = @ - 1]
             t == [k.mutex EXCEPT ![id].locks = @ - 1]
  <1>1. k.mutex \in [Mutexes -> MutexEntry] /\ m \in MutexEntry /\ m.locks \in Nat
    BY DEF Calling, KernelOK, Tables, MutexEntry
  <1>2. /\ Back(k, k) /\ IsRecord(k) /\ ContextFields \cup KernelFields \subseteq DOMAIN k
        /\ k.active = e /\ k.proc[e].state = "ACTIVE" /\ e \in Entries
    BY CallerFacts DEF Calling
  <1>3. Counted(m, wait) /\ wait \in Seq(Nat) /\ Len(wait) \in Nat
    <2>1. q \in Queues
      BY WaitNames
    <2> QED
      BY <2>1, CallerFacts, SoundRead DEF Calling, KernelOK, LocksOK
  <1>4. k1 = [k EXCEPT !.mutex = t] /\ t = [k.mutex EXCEPT ![id].locks = @ - 1]
    OBVIOUS
  <1>5. /\ m.locks = 0 => kmutex_unlock(k, id) = Result(k, 0)
        /\ m.locks = 1 => kmutex_unlock(k, id) = Result([k1 EXCEPT !.mutex[id].owner = NULL], 0)
        /\ m.locks # 0 /\ m.locks # 1
              => kmutex_unlock(k, id) = Result(HandOver(k1, id), m.locks - 1)
    BY DEF kmutex_unlock
  <1> HIDE DEF k1, t
  <1>6. SameScheduler(k, k1) /\ Tabled(k1, t, k.mutexfree, k.sem, k.semfree, k.eax)
    BY <1>2, <1>4, MutexUpdate
  <1>7. Back(k, k1) /\ IsRecord(k1) /\ ContextFields \cup KernelFields \subseteq DOMAIN k1
          /\ k1.queue = k.queue
    BY <1>2, <1>6, BackTwin DEF SameScheduler, Tabled
  <1>8. CASE m.locks = 0
    <2>1. l = k
      BY <1>5, <1>8 DEF Result
    <2> QED
      BY <1>2, <1>8, <2>1 DEF Unlocked
  <1>9. CASE m.locks = 1
    <2>1. l = [k1 EXCEPT !.mutex[id].owner = NULL]
      BY <1>5, <1>9 DEF Result
    <2> DEFINE u == [k.mutex EXCEPT ![id] =
                        [allocated |-> m.allocated, locks |-> 0, owner |-> NULL]]
    <2>2. k1.mutex = t
      BY <1>6 DEF Tabled
    <2>3. [t EXCEPT ![id].owner = NULL] = u
      BY <1>1, <1>4, <1>9 DEF MutexEntry
    <2>4. l = [k1 EXCEPT !.mutex = u]
      BY <2>1, <2>2, <2>3
    <2> HIDE DEF u
    <2>5. SameScheduler(k1, l) /\ Tabled(l, u, k1.mutexfree, k1.sem, k1.semfree, k1.eax)
      BY <1>7, <2>4, MutexUpdate
    <2>6. SameScheduler(k, l) /\ Tabled(l, u, k.mutexfree, k.sem, k.semfree, k.eax)
      BY <1>6, <2>5 DEF SameScheduler, Tabled
    <2>7. Back(k, l) /\ l.queue = k.queue
      BY <1>2, <2>6, BackTwin DEF Tabled, SameScheduler
    <2>8. wait = <<>>
      <3>1. Len(wait) = 0
        BY <1>3, <1>9 DEF Counted
      <3> QED
        BY <1>3, <3>1
    <2> QED
      BY <1>9, <2>6, <2>7, <2>8 DEF Tabled, u, Unlocked
  <1>10. CASE m.locks # 0 /\ m.locks # 1
    <2>1. l = HandOver(k1, id)
      BY <1>5, <1>10 DEF Result
    <2>2. m.locks > 1 /\ wait # <<>>
      BY <1>1, <1>3, <1>10 DEF Counted
    <2> DEFINE f == pid_to_proc(k1, Head(k1.queue[MutexQ(id)]))
    <2>3. f = pid_to_proc(k1, Head(k1.queue[MutexQ(id)]))
      OBVIOUS
    <2> HIDE DEF f
    <2>4. Back(k1, k1) /\ k1.proc[k1.active].state = "ACTIVE" /\ k1.queue[MutexQ(id)] # <<>>
            /\ k1.proc = k.proc
      BY <1>2, <1>6, <1>7, <2>2 DEF SameScheduler, Back
    <2>a. HandedOver(k1, l, id, f)
      BY ONLY id \in Mutexes, <2>1, <2>3, <2>4, HandOverResult
    <2>5. /\ Back(k1, l) /\ f \in Entries \ {0}
          /\ k1.proc[f].pid = Head(k1.queue[MutexQ(id)]) /\ k1.proc[f].pid # 0
          /\ Tabled(l, [k1.mutex EXCEPT ![id].owner = f], k1.mutexfree, k1.sem,
                    k1.semfree, k1.eax)
          /\ l.queue[MutexQ(id)] = Tail(k1.queue[MutexQ(id)])
          /\ \A r \in WaitQueues \ {MutexQ(id)} : l.queue[r] = k1.queue[r]
      BY <2>a DEF HandedOver
    <2>6. Back(k, l)
      BY <1>7, <2>5, BackTrans
    <2> DEFINE u == [k.mutex EXCEPT ![id] =
                        [allocated |-> m.allocated, locks |-> m.locks - 1, owner |-> f]]
    <2>7. k1.mutex = t
      BY <1>6 DEF Tabled
    <2>8. [t EXCEPT ![id].owner = f] = u
      BY <1>1, <1>4 DEF MutexEntry
    <2> HIDE DEF u
    <2>9. Tabled(l, u, k.mutexfree, k.sem, k.semfree, k.eax)
      BY <1>6, <2>5, <2>7, <2>8 DEF Tabled
    <2>10. Live(k, f)
      <3>1. PICK g \in Entries : BelongsTo(k, g, q) /\ k.proc[g].pid = Head(wait)
        <4>1. q \in Queues /\ 1 \in 1 .. Len(wait) /\ Head(wait) = wait[1]
          BY <1>3, <2>2, WaitNames
        <4> QED
          BY <4>1, CallerFacts DEF Sound, QueuedOK
      <3>2. Live(k, g) /\ k.proc[f].pid = k.proc[g].pid
        BY <1>7, <2>4, <2>5, <3>1 DEF BelongsTo
      <3>3. Live(k, f)
        BY <2>4, <2>5, <3>2, CallerFacts DEF Sound, FreeOK, FreePCB
      <3> QED
        BY <3>3
    <2> QED
      <3>1. /\ l.mutex = u /\ l.mutexfree = k.mutexfree
            /\ l.sem = k.sem /\ l.semfree = k.semfree /\ l.eax = k.eax
        BY ONLY <2>9 DEF Tabled
      <3>2. /\ f \in Entries \ {0} /\ l.queue[q] = Tail(wait)
            /\ k.proc[f].pid = Head(wait) /\ k.proc[f].pid # 0
            /\ \A r \in WaitQueues \ {q} : l.queue[r] = k.queue[r]
        BY ONLY <1>7, <2>4, <2>5
      <3> QED
        BY ONLY <2>2, <2>6, <2>10, <3>1, <3>2 DEF u, Unlocked
  <1> QED
    BY <1>8, <1>9, <1>10

\* A handler leaves the scheduler alone and writes mutex id and the queue of ids.
MutexWritten(k, l, id, entry, ids) ==
    /\ id \in Mutexes /\ SameScheduler(k, l)
    /\ Tabled(l, [k.mutex EXCEPT ![id] = entry], ids, k.sem, k.semfree, k.eax)

LEMMA MutexInitResult ==
    ASSUME NEW k, NEW e, Calling(k, e), NEW id \in MutexIds(k), NEW l, l = kmutex_init(k, id).k
    PROVE  \/ l = k /\ k.mutexfree = <<>>
           \/ l = Undefined(k) /\ k.mutexfree = <<>>
           \/ /\ MutexWritten(k, l, id, [k.mutex[id] EXCEPT !.allocated = TRUE],
                              IF k.mutexfree = <<>> THEN <<>> ELSE Tail(k.mutexfree))
              /\ k.mutexfree # <<>> => id = Head(k.mutexfree)
  <1> DEFINE ids == IF k.mutexfree = <<>> THEN <<>> ELSE Tail(k.mutexfree)
             k1 == IF k.mutexfree = <<>> THEN k ELSE [k EXCEPT !.mutexfree = Tail(@)]
             t == [k.mutex EXCEPT ![id].allocated = TRUE]
  <1>1. IsRecord(k) /\ ContextFields \cup KernelFields \subseteq DOMAIN k
          /\ k.mutex \in [Mutexes -> MutexEntry] /\ k.mutexfree \in Seq(Mutexes)
    BY CallerFacts DEF Calling, KernelOK, Tables
  <1>2. /\ id > MUTEX_MAX => kmutex_init(k, id) = Result(k1, -1)
        /\ ~(id > MUTEX_MAX) /\ id \in Mutexes
              => kmutex_init(k, id) = Result([k1 EXCEPT !.mutex[id].allocated = TRUE], id)
        /\ ~(id > MUTEX_MAX) /\ id \notin Mutexes
              => kmutex_init(k, id) = Result(Undefined(k1), id)
    BY DEF kmutex_init
  <1>4. k.mutexfree = <<>> => k1 = k /\ ids = <<>>
    OBVIOUS
  <1> HIDE DEF k1, ids
  <1>5. k.mutexfree # <<>> => id = Head(k.mutexfree) /\ id \in Mutexes
    BY <1>1 DEF MutexIds
  <1>6. \A m \in Mutexes : ~(m > MUTEX_MAX)
    BY MutexAssumption DEF Mutexes
  <1>7. CASE id \in Mutexes
    <2>a. kmutex_init(k, id) = Result([k1 EXCEPT !.mutex[id].allocated = TRUE], id)
      BY <1>2, <1>6, <1>7
    <2>1. l = [k1 EXCEPT !.mutex[id].allocated = TRUE]
      BY <2>a DEF Result
    <2>2. SameScheduler(k, k1) /\ Tabled(k1, k.mutex, ids, k.sem, k.semfree, k.eax)
      <3>1. CASE k.mutexfree = <<>>
        BY <1>1, <1>4, <3>1 DEF SameScheduler, Tabled
      <3>2. CASE k.mutexfree # <<>>
        <4>1. k1 = [k EXCEPT !.mutexfree = Tail(@)] /\ ids = Tail(k.mutexfree)
          BY <3>2 DEF k1, ids
        <4>2. k1 = [k EXCEPT !.mutexfree = ids]
          BY <4>1
        <4> QED
          BY <1>1, <4>2, MutexFreeUpdate
      <3> QED
        BY <3>1, <3>2
    <2>3. IsRecord(k1) /\ ContextFields \cup KernelFields \subseteq DOMAIN k1
            /\ k1.mutex = k.mutex
      BY <2>2 DEF SameScheduler, Tabled
    <2>4. l = [k1 EXCEPT !.mutex = t]
      BY <2>1, <2>3
    <2>5. t = [k.mutex EXCEPT ![id] = [k.mutex[id] EXCEPT !.allocated = TRUE]]
      OBVIOUS
    <2> HIDE DEF t
    <2>6. SameScheduler(k1, l) /\ Tabled(l, t, k1.mutexfree, k1.sem, k1.semfree, k1.eax)
      BY <2>3, <2>4, MutexUpdate
    <2>7. SameScheduler(k, l) /\ Tabled(l, t, ids, k.sem, k.semfree, k.eax)
      BY <2>2, <2>6 DEF SameScheduler, Tabled
    <2>8. MutexWritten(k, l, id, [k.mutex[id] EXCEPT !.allocated = TRUE], ids)
      BY <1>7, <2>5, <2>7 DEF MutexWritten
    <2> QED
      BY <1>5, <2>8 DEF ids
  <1>8. CASE id \notin Mutexes
    <2>1. k.mutexfree = <<>> /\ k1 = k
      BY <1>4, <1>5, <1>8
    <2>2. l = k \/ l = Undefined(k)
      BY <1>2, <1>8, <2>1 DEF Result
    <2> QED
      BY <2>1, <2>2
  <1> QED
    BY <1>7, <1>8

\* Clearing the entry clears an empty wait queue.
LEMMA MutexDestroyResult ==
    ASSUME NEW k, NEW e, Calling(k, e), NEW id \in Mutexes, NEW l, l = kmutex_destroy(k, id).k
    PROVE  \/ l = k
           \/ /\ k.mutex[id].locks = 0 /\ ~Full(k.mutexfree)
              /\ MutexWritten(k, l, id, FreeMutex, Append(k.mutexfree, id))
  <1> DEFINE q == MutexQ(id)
             ids == Append(k.mutexfree, id)
             t == [k.mutex EXCEPT ![id] = FreeMutex]
             v == [k.queue EXCEPT ![q] = <<>>]
             a == [k EXCEPT !.mutexfree = ids]
             b == [a EXCEPT !.mutex = t]
  <1>1. IsRecord(k) /\ ContextFields \cup KernelFields \subseteq DOMAIN k
          /\ k.mutex \in [Mutexes -> MutexEntry] /\ k.mutexfree \in Seq(Mutexes)
          /\ k.queue \in [Queues -> Seq(Nat)]
    BY CallerFacts DEF Calling, KernelOK, Tables, IsContext
  <1>2. CASE k.mutex[id].locks > 0 \/ Full(k.mutexfree)
    BY <1>2 DEF kmutex_destroy, Result
  <1>3. CASE ~(k.mutex[id].locks > 0 \/ Full(k.mutexfree))
    <2>1. l = [k EXCEPT !.mutexfree = Append(@, id), !.mutex[id] = FreeMutex, !.queue[q] = <<>>]
      BY <1>3 DEF kmutex_destroy, Result
    <2>2. k.mutex[id].locks = 0
      BY <1>1, <1>3 DEF MutexEntry
    <2>3. k.queue[q] = <<>> /\ q \in Queues
      BY <1>1, <2>2, WaitNames DEF Calling, KernelOK, LocksOK, Counted
    <2>4. v = k.queue
      BY <1>1, <2>3
    <2>5. l = [k EXCEPT !.mutexfree = ids, !.mutex = t, !.queue = v]
      BY <2>1
    <2> HIDE DEF ids, t, v, q
    <2>6. /\ IsRecord(l) /\ DOMAIN l = DOMAIN k
          /\ l.mutexfree = ids /\ l.mutex = t /\ l.queue = v
          /\ \A f \in DOMAIN k \ {"mutexfree", "mutex", "queue"} : l[f] = k[f]
      BY <1>1, <2>5, ZenonT(40) DEF IsRecord, ContextFields, KernelFields
    <2>7. SameScheduler(k, l) /\ Tabled(l, t, ids, k.sem, k.semfree, k.eax)
      BY <1>1, <2>4, <2>6 DEF SameScheduler, Tabled, ContextFields, KernelFields
    <2> QED
      BY <1>3, <2>2, <2>7 DEF MutexWritten, t, ids
  <1> QED
    BY <1>2, <1>3

\* A handler leaves the scheduler alone and writes semaphore id and the queue of ids.
SemWritten(k, l, id, entry, ids) ==
    /\ id \in Semaphores /\ SameScheduler(k, l)
    /\ Tabled(l, k.mutex, k.mutexfree, [k.sem EXCEPT ![id] = entry], ids, k.eax)

LEMMA SemInitResult ==
    ASSUME NEW k, NEW e, Calling(k, e), NEW id \in SemIds(k), NEW l, l = ksem_init(k, id).k
    PROVE  \/ l = k /\ k.semfree = <<>>
           \/ l = Undefined(k) /\ k.semfree = <<>>
           \/ /\ SemWritten(k, l, id, [k.sem[id] EXCEPT !.allocated = TRUE],
                            IF k.semfree = <<>> THEN <<>> ELSE Tail(k.semfree))
              /\ k.semfree # <<>> => id = Head(k.semfree)
  <1> DEFINE ids == IF k.semfree = <<>> THEN <<>> ELSE Tail(k.semfree)
             k1 == IF k.semfree = <<>> THEN k ELSE [k EXCEPT !.semfree = Tail(@)]
             t == [k.sem EXCEPT ![id].allocated = TRUE]
  <1>1. IsRecord(k) /\ ContextFields \cup KernelFields \subseteq DOMAIN k
          /\ k.sem \in [Semaphores -> SemEntry] /\ k.semfree \in Seq(Semaphores)
    BY CallerFacts DEF Calling, KernelOK, Tables
  <1>2. /\ id > SEM_MAX => ksem_init(k, id) = Result(k1, -1)
        /\ ~(id > SEM_MAX) /\ id \in Semaphores
              => ksem_init(k, id) = Result([k1 EXCEPT !.sem[id].allocated = TRUE], id)
        /\ ~(id > SEM_MAX) /\ id \notin Semaphores
              => ksem_init(k, id) = Result(Undefined(k1), id)
    BY DEF ksem_init
  <1>4. k.semfree = <<>> => k1 = k /\ ids = <<>>
    OBVIOUS
  <1> HIDE DEF k1, ids
  <1>5. k.semfree # <<>> => id = Head(k.semfree) /\ id \in Semaphores
    BY <1>1 DEF SemIds
  <1>6. \A m \in Semaphores : ~(m > SEM_MAX)
    BY SemAssumption DEF Semaphores
  <1>7. CASE id \in Semaphores
    <2>a. ksem_init(k, id) = Result([k1 EXCEPT !.sem[id].allocated = TRUE], id)
      BY <1>2, <1>6, <1>7
    <2>1. l = [k1 EXCEPT !.sem[id].allocated = TRUE]
      BY <2>a DEF Result
    <2>2. SameScheduler(k, k1) /\ Tabled(k1, k.mutex, k.mutexfree, k.sem, ids, k.eax)
      <3>1. CASE k.semfree = <<>>
        BY <1>1, <1>4, <3>1 DEF SameScheduler, Tabled
      <3>2. CASE k.semfree # <<>>
        <4>1. k1 = [k EXCEPT !.semfree = Tail(@)] /\ ids = Tail(k.semfree)
          BY <3>2 DEF k1, ids
        <4>2. k1 = [k EXCEPT !.semfree = ids]
          BY <4>1
        <4> QED
          BY <1>1, <4>2, SemFreeUpdate
      <3> QED
        BY <3>1, <3>2
    <2>3. IsRecord(k1) /\ ContextFields \cup KernelFields \subseteq DOMAIN k1
            /\ k1.sem = k.sem
      BY <2>2 DEF SameScheduler, Tabled
    <2>4. l = [k1 EXCEPT !.sem = t]
      BY <2>1, <2>3
    <2>5. t = [k.sem EXCEPT ![id] = [k.sem[id] EXCEPT !.allocated = TRUE]]
      OBVIOUS
    <2> HIDE DEF t
    <2>6. SameScheduler(k1, l) /\ Tabled(l, k1.mutex, k1.mutexfree, t, k1.semfree, k1.eax)
      BY <2>3, <2>4, SemUpdate
    <2>7. SameScheduler(k, l) /\ Tabled(l, k.mutex, k.mutexfree, t, ids, k.eax)
      BY <2>2, <2>6 DEF SameScheduler, Tabled
    <2>8. SemWritten(k, l, id, [k.sem[id] EXCEPT !.allocated = TRUE], ids)
      BY <1>7, <2>5, <2>7 DEF SemWritten
    <2> QED
      BY <1>5, <2>8 DEF ids
  <1>8. CASE id \notin Semaphores
    <2>1. k.semfree = <<>> /\ k1 = k
      BY <1>4, <1>5, <1>8
    <2>2. l = k \/ l = Undefined(k)
      BY <1>2, <1>8, <2>1 DEF Result
    <2> QED
      BY <2>1, <2>2
  <1> QED
    BY <1>7, <1>8

\* A queue may be cleared when nobody is in it, or when every process may be lost.
LEMMA ClearSound ==
    ASSUME NEW k, Sound(k, Lost), NEW q \in Queues, Lost = Entries \/ k.queue[q] = <<>>,
           NEW l, TypedContext(l), l.proc = k.proc, l.free = k.free, l.next = k.next,
           l.queue = [k.queue EXCEPT ![q] = <<>>]
    PROVE  Sound(l, Lost)
  <1>1. k.queue \in [Queues -> Seq(Nat)]
    BY SoundRead DEF IsContext
  <1>2. CASE k.queue[q] = <<>>
    <2>1. l.queue = k.queue
      BY <1>1, <1>2
    <2> QED
      BY <2>1, SoundByFields
  <1>3. CASE Lost = Entries
    <2>1. l.queue[q] = <<>> /\ \A r \in Queues \ {q} : l.queue[r] = k.queue[r]
      BY <1>1
    <2>2. PidsOK(l) /\ FreeOK(l) /\ FreshOK(l)
      BY DEF Sound, PidsOK, FreeOK, FreshOK, Live
    <2>3. QueuedOK(l)
      BY <2>1 DEF Sound, QueuedOK, BelongsTo, Live
    <2>4. OnceOK(l)
      BY <2>1 DEF Sound, OnceOK, NoItemTwice
    <2>5. NoneLost(l, Lost)
      BY <1>3 DEF NoneLost
    <2> QED
      BY <2>2, <2>3, <2>4, <2>5 DEF Sound
  <1> QED
    BY <1>2, <1>3

\* The entry is cleared, and with it the wait queue, whoever is in it.
SemCleared(k, l, id) ==
    /\ Back(k, l) /\ k.sem[id].count = 0 /\ ~Full(k.semfree)
    /\ Tabled(l, k.mutex, k.mutexfree, [k.sem EXCEPT ![id] = FreeSem],
              Append(k.semfree, id), k.eax)
    /\ l.queue[SemQ(id)] = <<>>
    /\ \A q \in WaitQueues \ {SemQ(id)} : l.queue[q] = k.queue[q]

LEMMA SemDestroyResult ==
    ASSUME NEW k, NEW e, Calling(k, e), NEW id \in Semaphores, NEW l, l = ksem_destroy(k, id).k,
           Lost = Entries \/ k.queue[SemQ(id)] = <<>>
    PROVE  l = k \/ SemCleared(k, l, id)
  <1> DEFINE q == SemQ(id)
             ids == Append(k.semfree, id)
             t == [k.sem EXCEPT ![id] = FreeSem]
             v == [k.queue EXCEPT ![q] = <<>>]
  <1>1. /\ IsContext(k) /\ TypedContext(k) /\ Sound(k, Lost) /\ Loose(k) /\ Back(k, k)
        /\ IsRecord(k) /\ ContextFields \cup KernelFields \subseteq DOMAIN k
        /\ k.sem \in [Semaphores -> SemEntry] /\ k.semfree \in Seq(Semaphores)
        /\ k.queue \in [Queues -> Seq(Nat)]
    BY CallerFacts DEF Calling, KernelOK, Tables, IsContext
  <1>2. CASE k.sem[id].count > 0 \/ Full(k.semfree)
    BY <1>2 DEF ksem_destroy, Result
  <1>3. CASE ~(k.sem[id].count > 0 \/ Full(k.semfree))
    <2>1. l = [k EXCEPT !.semfree = Append(@, id), !.sem[id] = FreeSem, !.queue[q] = <<>>]
      BY <1>3 DEF ksem_destroy, Result
    <2>2. k.sem[id].count = 0
      BY <1>1, <1>3 DEF SemEntry
    <2>3. q \in Queues /\ q \in WaitQueues
      BY WaitNames
    <2>4. /\ v \in [Queues -> Seq(Nat)] /\ v[q] = <<>> /\ \A r \in Queues \ {q} : v[r] = k.queue[r]
          /\ \A r \in Queues : Len(v[r]) <= QUEUE_SIZE
      BY <1>1, <2>3, SizeAssumption DEF TypedContext, IsBounded
    <2>5. l = [k EXCEPT !.semfree = ids, !.sem = t, !.queue = v]
      BY <2>1
    <2>6. v = [k.queue EXCEPT ![q] = <<>>] /\ (Lost = Entries \/ k.queue[q] = <<>>)
      OBVIOUS
    <2> HIDE DEF ids, t, v, q
    <2>7. /\ IsRecord(l) /\ DOMAIN l = DOMAIN k
          /\ l.semfree = ids /\ l.sem = t /\ l.queue = v
          /\ \A f \in DOMAIN k \ {"semfree", "sem", "queue"} : l[f] = k[f]
      BY <1>1, <2>5, ZenonT(40) DEF IsRecord, ContextFields, KernelFields
    <2>8. Tabled(l, k.mutex, k.mutexfree, t, ids, k.eax)
      BY <1>1, <2>7 DEF Tabled, KernelFields
    <2>9. /\ IsRecord(l) /\ ContextFields \subseteq DOMAIN l /\ KernelFields \subseteq DOMAIN l
          /\ l.proc = k.proc /\ l.active = k.active /\ l.free = k.free /\ l.next = k.next
          /\ l.status = k.status /\ l.queue = v
      BY <1>1, <2>7 DEF ContextFields
    <2>10. TypedContext(l)
      BY <1>1, <2>4, <2>9 DEF TypedContext, IsContext, IsBounded
    <2>11. Sound(l, Lost)
      BY <1>1, <2>3, <2>6, <2>9, <2>10, ClearSound
    <2>12. Loose(l) /\ \A f \in Entries : Live(k, f) => Live(l, f) /\ l.proc[f].pid = k.proc[f].pid
      BY <1>1, <2>9 DEF Loose, Live
    <2>13. Back(k, l)
      BY <1>1, <2>9, <2>11, <2>12 DEF Back
    <2>14. l.queue[q] = <<>> /\ \A r \in WaitQueues \ {q} : l.queue[r] = k.queue[r]
      BY <2>4, <2>9 DEF Queues
    <2> QED
      BY <1>3, <2>2, <2>8, <2>13, <2>14 DEF SemCleared, t, ids, q
  <1> QED
    BY <1>2, <1>3

\* The caller takes one from the count, or waits: it stays active_proc and
\* scheduler_run will set it aside.
SemTaken(k, l, e, id) ==
    \/ /\ k.sem[id].count > 0
       /\ SemWritten(k, l, id, [k.sem[id] EXCEPT !.count = @ - 1], k.semfree)
    \/ /\ k.sem[id].count = 0 /\ Back(k, l) /\ SameTables(k, l) /\ l.active = k.active
       /\ l.queue[SemQ(id)] = Append(k.queue[SemQ(id)], k.proc[e].pid)
       /\ \A q \in WaitQueues \ {SemQ(id)} : l.queue[q] = k.queue[q]

LEMMA SemWaitResult ==
    ASSUME NEW k, NEW e, Calling(k, e), NEW id \in Semaphores, NEW l, l = ksem_wait(k, id).k
    PROVE  SemTaken(k, l, e, id)
  <1> DEFINE q == SemQ(id)
             t == [k.sem EXCEPT ![id].count = @ - 1]
  <1>1. /\ k.sem \in [Semaphores -> SemEntry] /\ k.sem[id].count \in Nat
        /\ IsRecord(k) /\ ContextFields \cup KernelFields \subseteq DOMAIN k /\ k.active = e
    BY CallerFacts DEF Calling, KernelOK, Tables, SemEntry
  <1>2. CASE k.sem[id].count = 0
    <2>1. l = Block(k, e, "WAITING", q)
      BY <1>1, <1>2 DEF ksem_wait, Result
    <2>2. q \in WaitQueues
      BY WaitNames
    <2>3. /\ Sound(k, With(Lost, e)) /\ NotQueued(k, e) /\ Live(k, e) /\ Frame(k, k, {})
          /\ k.next = k.next /\ k.status = k.status /\ k.active \in {NULL, k.active}
          /\ \A f \in Entries \ {e} : k.proc[f] = k.proc[f]
      BY CallerFacts, WeakerSound, FrameSelf
    <2> HIDE DEF q
    <2>4. /\ Back(k, l) /\ SameTables(k, l)
          /\ l.queue[q] = Append(k.queue[q], k.proc[e].pid)
          /\ \A r \in WaitQueues \ {q} : l.queue[r] = k.queue[r]
          /\ l.active = k.active
      BY <2>1, <2>2, <2>3, BlockBack
    <2> QED
      BY <1>2, <2>4 DEF SemTaken, q
  <1>3. CASE k.sem[id].count # 0
    <2>1. l = [k EXCEPT !.sem[id].count = @ - 1]
      BY <1>3 DEF ksem_wait, Result
    <2>2. l = [k EXCEPT !.sem = t]
      BY <2>1
    <2>3. t = [k.sem EXCEPT ![id] = [k.sem[id] EXCEPT !.count = @ - 1]]
      OBVIOUS
    <2> HIDE DEF t
    <2>4. SameScheduler(k, l) /\ Tabled(l, k.mutex, k.mutexfree, t, k.semfree, k.eax)
      BY <1>1, <2>2, SemUpdate
    <2>5. k.sem[id].count > 0
      BY <1>1, <1>3
    <2> QED
      BY <2>3, <2>4, <2>5 DEF SemTaken, SemWritten
  <1> QED
    BY <1>2, <1>3

\* One is added to the count, or the process that has waited longest takes it.
SemGiven(k, l, id) ==
    \/ /\ k.queue[SemQ(id)] = <<>>
       /\ SemWritten(k, l, id, [k.sem[id] EXCEPT !.count = @ + 1], k.semfree)
    \/ /\ k.queue[SemQ(id)] # <<>> /\ Back(k, l) /\ SameTables(k, l) /\ l.active = k.active
       /\ l.queue[SemQ(id)] = Tail(k.queue[SemQ(id)])
       /\ \A q \in WaitQueues \ {SemQ(id)} : l.queue[q] = k.queue[q]

LEMMA SemPostResult ==
    ASSUME NEW k, NEW e, Calling(k, e), NEW id \in Semaphores, NEW l, l = ksem_post(k, id).k
    PROVE  SemGiven(k, l, id)
  <1> DEFINE q == SemQ(id)
             t == [k.sem EXCEPT ![id].count = @ + 1]
             k1 == [k EXCEPT !.queue[q] = Tail(@)]
             f == pid_to_proc(k, Head(k.queue[q]))
  <1>1. /\ k.sem \in [Semaphores -> SemEntry] /\ k.sem[id].count \in Nat /\ Back(k, k)
        /\ IsRecord(k) /\ ContextFields \cup KernelFields \subseteq DOMAIN k
        /\ k.queue \in [Queues -> Seq(Nat)]
    BY CallerFacts DEF Calling, KernelOK, Tables, SemEntry, IsContext
  <1>2. CASE k.queue[q] = <<>>
    <2>1. l = [k EXCEPT !.sem[id].count = @ + 1]
      BY <1>2 DEF ksem_post, Result
    <2>2. l = [k EXCEPT !.sem = t]
      BY <2>1
    <2>3. t = [k.sem EXCEPT ![id] = [k.sem[id] EXCEPT !.count = @ + 1]]
      OBVIOUS
    <2> HIDE DEF t
    <2>4. SameScheduler(k, l) /\ Tabled(l, k.mutex, k.mutexfree, t, k.semfree, k.eax)
      BY <1>1, <2>2, SemUpdate
    <2> QED
      BY <1>2, <2>3, <2>4 DEF SemGiven, SemWritten
  <1>3. CASE k.queue[q] # <<>>
    <2>1. f # NULL => ksem_post(k, id) = Result(scheduler_add(k1, f), k.sem[id].count)
      BY <1>3 DEF ksem_post
    <2>2. q \in WaitQueues /\ q \in Queues
      BY WaitNames
    <2>3. f = pid_to_proc(k, Head(k.queue[q])) /\ k1 = [k EXCEPT !.queue[q] = Tail(@)]
      OBVIOUS
    <2>4. Back(k, k) /\ k.queue[q] # <<>>
      BY <1>1, <1>3
    <2> HIDE DEF q, k1, f
    <2>5. Popped(k, k1, q, f)
      BY ONLY <2>2, <2>3, <2>4, PopWaiter
    <2>6. f \in Entries \ {0} /\ f # NULL /\ k.proc[f].state # "ACTIVE"
      BY <2>5, EntryNumbers DEF Popped
    <2>7. l = scheduler_add(k1, f)
      BY <2>1, <2>6 DEF Result
    <2>8. /\ Sound(k1, With(Lost, f)) /\ NotQueued(k1, f) /\ Live(k1, f) /\ SameShape(k, k1)
          /\ \A g \in Entries \ {f} : k1.proc[g] = k.proc[g]
          /\ k1.proc[f].pid = k.proc[f].pid /\ k1.active = k.active
          /\ k1.next = k.next /\ k1.status = k.status
      BY <2>5 DEF Popped
    <2>9. /\ Back(k, l) /\ SameTables(k, l) /\ l.active = k.active
          /\ \A r \in WaitQueues : l.queue[r] = k1.queue[r]
      <3>1. TakenOut(k, k1, f)
        BY ONLY <2>4, <2>6, <2>8 DEF TakenOut
      <3> QED
        BY ONLY <2>7, <3>1, ReadyBack
    <2>10. k1.queue[q] = Tail(k.queue[q]) /\ \A r \in WaitQueues \ {q} : k1.queue[r] = k.queue[r]
      BY <1>1, <2>2, <2>5 DEF Popped, Queues
    <2> QED
      BY <1>3, <2>2, <2>9, <2>10 DEF SemGiven, q
  <1> QED
    BY <1>2, <1>3

-----------------------------------------------------------------------------
(***************************************************************************)
(* What the handlers leave satisfies KernelOK again.                       *)
(***************************************************************************)

LEMMA GivenSame ==
    ASSUME NEW S, NEW T, NEW t \in [S -> T], NEW ids, Given(t, ids), NEW id \in S, NEW r,
           r.allocated = t[id].allocated
    PROVE  Given([t EXCEPT ![id] = r], ids)
  BY DEF Given

LEMMA GivenOut ==
    ASSUME NEW S, NEW T, NEW t \in [S -> T], NEW ids \in Seq(S), Given(t, ids), ids # <<>>,
           NEW id \in S, id = Head(ids), NEW r, r.allocated = TRUE
    PROVE  Given([t EXCEPT ![id] = r], Tail(ids))
  <1> DEFINE u == [t EXCEPT ![id] = r]
             rest == Tail(ids)
  <1>1. /\ \A y : (\E i \in 1 .. Len(rest) : rest[i] = y)
                     <=> y # Head(ids) /\ \E i \in 1 .. Len(ids) : ids[i] = y
        /\ NoItemTwice(rest)
        /\ \E i \in 1 .. Len(ids) : ids[i] = Head(ids)
    BY TailItems DEF Given
  <1>2. u[id] = r /\ DOMAIN u = DOMAIN t /\ \A x \in DOMAIN t \ {id} : u[x] = t[x]
    OBVIOUS
  <1> HIDE DEF u, rest
  <1>3. \A x \in DOMAIN u : u[x].allocated <=> ~ \E i \in 1 .. Len(rest) : rest[i] = x
    BY <1>1, <1>2, ZenonT(40) DEF Given
  <1> QED
    BY <1>1, <1>3 DEF Given, u, rest

LEMMA GivenBack ==
    ASSUME NEW S, NEW T, NEW t \in [S -> T], NEW ids \in Seq(S), Given(t, ids),
           NEW id \in S, t[id].allocated, NEW r, r.allocated = FALSE
    PROVE  Given([t EXCEPT ![id] = r], Append(ids, id))
  <1> DEFINE u == [t EXCEPT ![id] = r]
             more == Append(ids, id)
  <1>1. /\ Len(ids) \in Nat
        /\ \A i \in 1 .. Len(ids) : more[i] = ids[i] /\ i \in 1 .. Len(more)
        /\ more[Len(ids) + 1] = id /\ Len(ids) + 1 \in 1 .. Len(more)
        /\ \A i \in 1 .. Len(more) : i \in 1 .. Len(ids) \/ i = Len(ids) + 1
    BY AppendItems
  <1>2. u[id] = r /\ DOMAIN u = DOMAIN t /\ \A x \in DOMAIN t \ {id} : u[x] = t[x]
    OBVIOUS
  <1>3. NoItemTwice(more)
    BY AppendOnce DEF Given
  <1> HIDE DEF u, more
  <1>4. \A x \in DOMAIN u : u[x].allocated <=> ~ \E i \in 1 .. Len(more) : more[i] = x
    BY <1>1, <1>2 DEF Given
  <1> QED
    BY <1>3, <1>4 DEF Given, u, more

\* A handler has come back, or has done what C gives no meaning.
Handled(k, l) ==
    \/ /\ l.status = "running" /\ Sound(l, Lost) /\ Loose(l) /\ KernelOK(l)
       /\ l.next = k.next
    \/ l = Undefined(k)

LEMMA BackHandled ==
    ASSUME NEW k, NEW l, Back(k, l), KernelOK(l)
    PROVE  Handled(k, l)
  BY DEF Back, Handled

\* The entry stays allocated, or free.
LEMMA MutexRow ==
    ASSUME NEW k, KernelOK(k), NEW l, Back(k, l), NEW id \in Mutexes, NEW r \in MutexEntry,
           r.allocated = k.mutex[id].allocated,
           l.mutex = [k.mutex EXCEPT ![id] = r],
           l.mutexfree = k.mutexfree, l.sem = k.sem, l.semfree = k.semfree, l.eax = k.eax,
           \A q \in WaitQueues \ {MutexQ(id)} : l.queue[q] = k.queue[q],
           Counted(r, l.queue[MutexQ(id)]),
           r.owner # NULL /\ "alive" \in Discipline => Live(k, r.owner) /\ k.proc[r.owner].pid # 0
    PROVE  KernelOK(l)
  <1>1. k.mutex \in [Mutexes -> MutexEntry] /\ k.mutexfree \in Seq(Mutexes)
          /\ Len(k.mutexfree) <= QUEUE_SIZE
    BY DEF KernelOK, Tables
  <1>2. ASSUME Given(k.mutex, k.mutexfree)
        PROVE  Given([k.mutex EXCEPT ![id] = r], k.mutexfree)
    BY ONLY <1>1, <1>2, id \in Mutexes, r.allocated = k.mutex[id].allocated, GivenSame
  <1>3. "allocated" \in Discipline => Given(l.mutex, l.mutexfree)
    BY <1>1, <1>2 DEF KernelOK, IdsOK
  <1>4. l.mutexfree \in Seq(Mutexes) /\ Len(l.mutexfree) <= QUEUE_SIZE
    BY <1>1
  <1>5. KernelFields \subseteq DOMAIN l
          /\ \A f \in Entries : Live(k, f) => Live(l, f) /\ l.proc[f].pid = k.proc[f].pid
    BY DEF Back
  <1>6. r.owner # NULL /\ "alive" \in Discipline => Live(l, r.owner) /\ l.proc[r.owner].pid # 0
    <2>1. r.owner \in Entries \cup {NULL}
      BY DEF MutexEntry
    <2> QED
      BY <1>5, <2>1
  <1> QED
    BY <1>3, <1>4, <1>5, <1>6, MutexKeeps

LEMMA LockKeeps ==
    ASSUME NEW k, NEW e, Calling(k, e), NEW id \in Mutexes, NEW l, l = kmutex_lock(k, id).k
    PROVE  Back(k, l) /\ KernelOK(l)
  <1> DEFINE m == k.mutex[id]
             r == [allocated |-> m.allocated, locks |-> m.locks + 1,
                   owner |-> IF m.locks = 0 THEN e ELSE m.owner]
             wait == k.queue[MutexQ(id)]
  <1>1. /\ Back(k, l)
        /\ l.mutex = [k.mutex EXCEPT ![id] = r]
        /\ l.queue[MutexQ(id)] = IF m.locks = 0 THEN wait ELSE Append(wait, k.proc[e].pid)
        /\ \A q \in WaitQueues \ {MutexQ(id)} : l.queue[q] = k.queue[q]
        /\ l.mutexfree = k.mutexfree /\ l.sem = k.sem /\ l.semfree = k.semfree
        /\ l.eax = k.eax
    BY LockResult DEF Locked
  <1>2. /\ k.mutex \in [Mutexes -> MutexEntry] /\ m \in MutexEntry /\ m.locks \in Nat
        /\ k.mutexfree \in Seq(Mutexes) /\ Len(k.mutexfree) <= QUEUE_SIZE
        /\ m.owner \in Entries \cup {NULL} /\ Counted(m, wait) /\ KernelOK(k)
        /\ m.allocated \in BOOLEAN
    BY DEF Calling, KernelOK, Tables, MutexEntry, LocksOK
  <1>3. /\ e \in Entries /\ e # NULL /\ Live(k, e) /\ k.proc[e].pid # 0
        /\ k.proc[e].pid \in Nat /\ wait \in Seq(Nat) /\ Len(wait) \in Nat
    <2>1. MutexQ(id) \in Queues
      BY WaitNames
    <2> QED
      BY <2>1, CallerFacts, SoundRead, EntryNumbers
  <1>4. r \in MutexEntry
    BY <1>2, <1>3 DEF MutexEntry
  <1>5. Counted(r, l.queue[MutexQ(id)])
    BY <1>1, <1>2, <1>3 DEF Counted
  <1>6. r.owner # NULL /\ "alive" \in Discipline => Live(k, r.owner) /\ k.proc[r.owner].pid # 0
    BY <1>2, <1>3 DEF KernelOK, OwnersOK
  <1>7. r.allocated = k.mutex[id].allocated
    OBVIOUS
  <1> HIDE DEF r, m
  <1>8. KernelOK(l)
    BY ONLY <1>1, <1>2, <1>4, <1>5, <1>6, <1>7, id \in Mutexes, MutexRow
  <1> QED
    BY <1>1, <1>8

LEMMA UnlockKeeps ==
    ASSUME NEW k, NEW e, Calling(k, e), NEW id \in Mutexes, NEW l, l = kmutex_unlock(k, id).k
    PROVE  Back(k, l) /\ KernelOK(l)
  <1> DEFINE m == k.mutex[id]
             q == MutexQ(id)
             wait == k.queue[q]
             Row(locks, owner) ==
                [allocated |-> m.allocated, locks |-> locks, owner |-> owner]
  <1>a. Unlocked(k, l, id)
    BY UnlockResult
  <1>1. /\ Back(k, l)
        /\ l.mutexfree = k.mutexfree /\ l.sem = k.sem /\ l.semfree = k.semfree
        /\ l.eax = k.eax
        /\ \A r \in WaitQueues \ {q} : l.queue[r] = k.queue[r]
        /\ \/ m.locks = 0 /\ l = k
           \/ /\ m.locks = 1 /\ wait = <<>> /\ l.queue[q] = <<>>
              /\ l.mutex = [k.mutex EXCEPT ![id] = Row(0, NULL)]
           \/ \E f \in Entries \ {0} :
                 /\ m.locks > 1 /\ wait # <<>> /\ l.queue[q] = Tail(wait)
                 /\ k.proc[f].pid = Head(wait) /\ k.proc[f].pid # 0 /\ Live(k, f)
                 /\ l.mutex = [k.mutex EXCEPT ![id] = Row(m.locks - 1, f)]
    BY <1>a DEF Unlocked
  <1>2. /\ m \in MutexEntry /\ m.locks \in Nat /\ m.owner \in Entries \cup {NULL}
        /\ Counted(m, wait) /\ KernelOK(k) /\ m.allocated \in BOOLEAN
    BY DEF Calling, KernelOK, Tables, MutexEntry, LocksOK
  <1>3. wait \in Seq(Nat) /\ Len(wait) \in Nat
    <2>1. MutexQ(id) \in Queues
      BY WaitNames
    <2> QED
      BY <2>1, CallerFacts, SoundRead
  <1>4. CASE l = k
    BY <1>1, <1>2, <1>4
  <1>5. CASE /\ m.locks = 1 /\ wait = <<>> /\ l.queue[q] = <<>>
             /\ l.mutex = [k.mutex EXCEPT ![id] = Row(0, NULL)]
    <2> DEFINE r == Row(0, NULL)
    <2>1. /\ r \in MutexEntry /\ r.allocated = k.mutex[id].allocated /\ r.owner = NULL
          /\ Counted(r, l.queue[q]) /\ l.mutex = [k.mutex EXCEPT ![id] = r]
      BY <1>2, <1>5 DEF MutexEntry, Counted
    <2> HIDE DEF r, m
    <2>2. KernelOK(l)
      BY <1>1, <1>2, <2>1, MutexRow
    <2> QED
      BY <1>1, <2>2
  <1>6. ASSUME NEW f \in Entries \ {0}, m.locks > 1, wait # <<>>, l.queue[q] = Tail(wait),
               k.proc[f].pid # 0, Live(k, f),
               l.mutex = [k.mutex EXCEPT ![id] = Row(m.locks - 1, f)]
        PROVE  KernelOK(l)
    <2> DEFINE r == Row(m.locks - 1, f)
    <2>1. /\ r \in MutexEntry /\ r.allocated = k.mutex[id].allocated /\ r.owner = f
          /\ l.mutex = [k.mutex EXCEPT ![id] = r]
      BY <1>2, <1>6 DEF MutexEntry
    <2>2. Counted(r, l.queue[q])
      <3>1. m.locks = 1 + Len(wait) /\ Len(Tail(wait)) = Len(wait) - 1 /\ f # NULL
        BY <1>2, <1>3, <1>6, EntryNumbers DEF Counted
      <3> QED
        BY <1>2, <1>3, <1>6, <3>1 DEF Counted
    <2> HIDE DEF r, m
    <2> QED
      BY <1>1, <1>2, <1>6, <2>1, <2>2, MutexRow
  <1> QED
    BY <1>1, <1>4, <1>5, <1>6

LEMMA WrittenBack ==
    ASSUME NEW k, NEW e, Calling(k, e), NEW l, SameScheduler(k, l), KernelFields \subseteq DOMAIN l
    PROVE  /\ Back(k, l) /\ l.queue = k.queue
           /\ \A f \in Entries : Live(k, f) => Live(l, f) /\ l.proc[f].pid = k.proc[f].pid
  BY CallerFacts, BackTwin DEF SameScheduler, Back

LEMMA MutexInitKeeps ==
    ASSUME NEW k, NEW e, Calling(k, e), NEW id \in MutexIds(k), NEW l, l = kmutex_init(k, id).k,
           "allocated" \in Discipline => k.mutexfree # <<>>
    PROVE  Handled(k, l)
  <1>0. /\ k.mutex \in [Mutexes -> MutexEntry] /\ k.mutexfree \in Seq(Mutexes)
        /\ Len(k.mutexfree) <= QUEUE_SIZE /\ KernelOK(k) /\ LocksOK(k)
    BY DEF Calling, KernelOK, Tables
  <1> DEFINE r == [k.mutex[id] EXCEPT !.allocated = TRUE]
             ids == IF k.mutexfree = <<>> THEN <<>> ELSE Tail(k.mutexfree)
  <1>1. \/ l = k
        \/ l = Undefined(k)
        \/ /\ MutexWritten(k, l, id, r, ids)
           /\ k.mutexfree # <<>> => id = Head(k.mutexfree)
    BY MutexInitResult
  <1>2. CASE l = k
    BY <1>0, <1>2, CallerFacts, BackHandled
  <1>3. CASE MutexWritten(k, l, id, r, ids) /\ (k.mutexfree # <<>> => id = Head(k.mutexfree))
    <2>1. /\ id \in Mutexes /\ SameScheduler(k, l) /\ KernelFields \subseteq DOMAIN l
          /\ l.mutex = [k.mutex EXCEPT ![id] = r] /\ l.mutexfree = ids
          /\ l.sem = k.sem /\ l.semfree = k.semfree /\ l.eax = k.eax
      BY <1>3 DEF MutexWritten, Tabled
    <2>2. /\ Back(k, l) /\ l.queue = k.queue
          /\ \A f \in Entries : Live(k, f) => Live(l, f) /\ l.proc[f].pid = k.proc[f].pid
      BY <2>1, WrittenBack
    <2>3. /\ r \in MutexEntry /\ r.allocated = TRUE
          /\ r.locks = k.mutex[id].locks /\ r.owner = k.mutex[id].owner
          /\ r.owner \in Entries \cup {NULL}
      BY <1>0, <2>1, ZenonT(40) DEF MutexEntry
    <2>4. ids \in Seq(Mutexes) /\ Len(ids) <= QUEUE_SIZE
      <3>1. CASE k.mutexfree = <<>>
        BY <3>1, SizeAssumption
      <3>2. CASE k.mutexfree # <<>>
        <4>1. /\ Tail(k.mutexfree) \in Seq(Mutexes) /\ Len(k.mutexfree) \in Nat
              /\ Len(Tail(k.mutexfree)) = Len(k.mutexfree) - 1
          BY <1>0, <3>2
        <4> QED
          BY <1>0, <3>2, <4>1, SizeAssumption
      <3> QED
        BY <3>1, <3>2
    <2>5. "allocated" \in Discipline => Given(l.mutex, l.mutexfree)
      <3> SUFFICES ASSUME "allocated" \in Discipline
                   PROVE  Given(l.mutex, l.mutexfree)
        OBVIOUS
      <3>1. k.mutexfree # <<>> /\ id = Head(k.mutexfree) /\ ids = Tail(k.mutexfree)
              /\ Given(k.mutex, k.mutexfree)
        BY <1>0, <1>3 DEF KernelOK, IdsOK
      <3> HIDE DEF r, ids
      <3>2. Given([k.mutex EXCEPT ![id] = r], Tail(k.mutexfree))
        BY ONLY <1>0, <2>1, <2>3, <3>1, GivenOut
      <3> QED
        BY <2>1, <3>1, <3>2
    <2>6. Counted(r, l.queue[MutexQ(id)])
      BY <1>0, <2>1, <2>2, <2>3 DEF LocksOK, Counted
    <2>7. r.owner # NULL /\ "alive" \in Discipline => Live(l, r.owner) /\ l.proc[r.owner].pid # 0
      BY <1>0, <2>1, <2>2, <2>3 DEF KernelOK, OwnersOK
    <2> HIDE DEF r, ids
    <2>8. KernelOK(l)
      BY <1>0, <2>1, <2>2, <2>3, <2>4, <2>5, <2>6, <2>7, MutexKeeps, SMTT(40)
    <2> QED
      BY <2>2, <2>8, BackHandled
  <1> QED
    BY <1>1, <1>2, <1>3 DEF Handled

LEMMA MutexDestroyKeeps ==
    ASSUME NEW k, NEW e, Calling(k, e), NEW id \in Mutexes, NEW l, l = kmutex_destroy(k, id).k,
           "allocated" \in Discipline => k.mutex[id].allocated
    PROVE  Back(k, l) /\ KernelOK(l)
  <1>0. /\ k.mutex \in [Mutexes -> MutexEntry] /\ k.mutexfree \in Seq(Mutexes)
        /\ Len(k.mutexfree) <= QUEUE_SIZE /\ KernelOK(k) /\ LocksOK(k)
    BY DEF Calling, KernelOK, Tables
  <1> DEFINE ids == Append(k.mutexfree, id)
  <1>2. CASE l = k
    BY <1>0, <1>2, CallerFacts
  <1>3. CASE /\ k.mutex[id].locks = 0 /\ ~Full(k.mutexfree)
             /\ MutexWritten(k, l, id, FreeMutex, ids)
    <2>1. /\ id \in Mutexes /\ SameScheduler(k, l) /\ KernelFields \subseteq DOMAIN l
          /\ l.mutex = [k.mutex EXCEPT ![id] = FreeMutex] /\ l.mutexfree = ids
          /\ l.sem = k.sem /\ l.semfree = k.semfree /\ l.eax = k.eax
      BY <1>3 DEF MutexWritten, Tabled
    <2>2. /\ Back(k, l) /\ l.queue = k.queue
          /\ \A f \in Entries : Live(k, f) => Live(l, f) /\ l.proc[f].pid = k.proc[f].pid
      BY <2>1, WrittenBack
    <2>3. /\ FreeMutex \in MutexEntry /\ FreeMutex.allocated = FALSE /\ FreeMutex.locks = 0
          /\ FreeMutex.owner = NULL
      BY DEF MutexEntry, FreeMutex
    <2>4. ids \in Seq(Mutexes) /\ Len(ids) <= QUEUE_SIZE
      <3>1. Len(ids) = Len(k.mutexfree) + 1 /\ Len(k.mutexfree) \in Nat
        BY <1>0
      <3> QED
        BY <1>0, <1>3, <3>1, SizeAssumption DEF Full
    <2>5. "allocated" \in Discipline => Given(l.mutex, l.mutexfree)
      <3> SUFFICES ASSUME "allocated" \in Discipline
                   PROVE  Given(l.mutex, l.mutexfree)
        OBVIOUS
      <3>1. k.mutex[id].allocated /\ Given(k.mutex, k.mutexfree)
        BY <1>0 DEF KernelOK, IdsOK
      <3>2. Given([k.mutex EXCEPT ![id] = FreeMutex], Append(k.mutexfree, id))
        BY ONLY <1>0, <2>1, <2>3, <3>1, GivenBack
      <3> QED
        BY <2>1, <3>2
    <2>6. Counted(FreeMutex, l.queue[MutexQ(id)])
      BY <1>0, <1>3, <2>2, <2>3 DEF LocksOK, Counted
    <2>a. l.mutexfree \in Seq(Mutexes) /\ Len(l.mutexfree) <= QUEUE_SIZE
      BY <2>1, <2>4
    <2>b. FreeMutex.owner # NULL /\ "alive" \in Discipline
            => Live(l, FreeMutex.owner) /\ l.proc[FreeMutex.owner].pid # 0
      BY <2>3
    <2>c. \A q \in WaitQueues \ {MutexQ(id)} : l.queue[q] = k.queue[q]
      BY <2>2
    <2> HIDE DEF ids
    <2>7. KernelOK(l)
      BY ONLY <1>0, <2>1, <2>2, <2>3, <2>5, <2>6, <2>a, <2>b, <2>c, MutexKeeps
    <2> QED
      BY <2>2, <2>7
  <1> QED
    BY <1>2, <1>3, MutexDestroyResult

\* The semaphore stays allocated, or free.
LEMMA SemRow ==
    ASSUME NEW k, KernelOK(k), NEW l, Back(k, l), NEW id \in Semaphores, NEW r \in SemEntry,
           r.allocated = k.sem[id].allocated,
           l.sem = [k.sem EXCEPT ![id] = r],
           l.semfree = k.semfree, l.mutex = k.mutex, l.mutexfree = k.mutexfree, l.eax = k.eax,
           \A q \in WaitQueues \ {SemQ(id)} : l.queue[q] = k.queue[q],
           r.count <= MAX_COUNT, r.count > 0 => l.queue[SemQ(id)] = <<>>
    PROVE  KernelOK(l)
  <1>1. k.sem \in [Semaphores -> SemEntry] /\ k.semfree \in Seq(Semaphores)
          /\ Len(k.semfree) <= QUEUE_SIZE
    BY DEF KernelOK, Tables
  <1>2. ASSUME Given(k.sem, k.semfree)
        PROVE  Given([k.sem EXCEPT ![id] = r], k.semfree)
    BY ONLY <1>1, <1>2, id \in Semaphores, r.allocated = k.sem[id].allocated, GivenSame
  <1>3. "allocated" \in Discipline => Given(l.sem, l.semfree)
    BY <1>1, <1>2 DEF KernelOK, IdsOK
  <1>4. l.semfree \in Seq(Semaphores) /\ Len(l.semfree) <= QUEUE_SIZE
    BY <1>1
  <1>5. KernelFields \subseteq DOMAIN l
          /\ \A f \in Entries : Live(k, f) => Live(l, f) /\ l.proc[f].pid = k.proc[f].pid
    BY DEF Back
  <1> QED
    BY <1>3, <1>4, <1>5, SemKeeps

LEMMA SemInitKeeps ==
    ASSUME NEW k, NEW e, Calling(k, e), NEW id \in SemIds(k), NEW l, l = ksem_init(k, id).k,
           "allocated" \in Discipline => k.semfree # <<>>
    PROVE  Handled(k, l)
  <1>0. /\ k.sem \in [Semaphores -> SemEntry] /\ k.semfree \in Seq(Semaphores)
        /\ Len(k.semfree) <= QUEUE_SIZE /\ KernelOK(k) /\ CountsOK(k)
    BY DEF Calling, KernelOK, Tables
  <1> DEFINE r == [k.sem[id] EXCEPT !.allocated = TRUE]
             ids == IF k.semfree = <<>> THEN <<>> ELSE Tail(k.semfree)
  <1>1. \/ l = k
        \/ l = Undefined(k)
        \/ /\ SemWritten(k, l, id, r, ids)
           /\ k.semfree # <<>> => id = Head(k.semfree)
    BY SemInitResult
  <1>2. CASE l = k
    BY <1>0, <1>2, CallerFacts, BackHandled
  <1>3. CASE SemWritten(k, l, id, r, ids) /\ (k.semfree # <<>> => id = Head(k.semfree))
    <2>1. /\ id \in Semaphores /\ SameScheduler(k, l) /\ KernelFields \subseteq DOMAIN l
          /\ l.sem = [k.sem EXCEPT ![id] = r] /\ l.semfree = ids
          /\ l.mutex = k.mutex /\ l.mutexfree = k.mutexfree /\ l.eax = k.eax
      BY <1>3 DEF SemWritten, Tabled
    <2>2. /\ Back(k, l) /\ l.queue = k.queue
          /\ \A f \in Entries : Live(k, f) => Live(l, f) /\ l.proc[f].pid = k.proc[f].pid
      BY <2>1, WrittenBack
    <2>3. r \in SemEntry /\ r.allocated = TRUE /\ r.count = k.sem[id].count
      BY <1>0, <2>1, ZenonT(40) DEF SemEntry
    <2>4. ids \in Seq(Semaphores) /\ Len(ids) <= QUEUE_SIZE
      <3>1. CASE k.semfree = <<>>
        BY <3>1, SizeAssumption
      <3>2. CASE k.semfree # <<>>
        <4>1. /\ Tail(k.semfree) \in Seq(Semaphores) /\ Len(k.semfree) \in Nat
              /\ Len(Tail(k.semfree)) = Len(k.semfree) - 1
          BY <1>0, <3>2
        <4> QED
          BY <1>0, <3>2, <4>1, SizeAssumption
      <3> QED
        BY <3>1, <3>2
    <2>5. "allocated" \in Discipline => Given(l.sem, l.semfree)
      <3> SUFFICES ASSUME "allocated" \in Discipline
                   PROVE  Given(l.sem, l.semfree)
        OBVIOUS
      <3>1. k.semfree # <<>> /\ id = Head(k.semfree) /\ ids = Tail(k.semfree)
              /\ Given(k.sem, k.semfree)
        BY <1>0, <1>3 DEF KernelOK, IdsOK
      <3> HIDE DEF r, ids
      <3>2. Given([k.sem EXCEPT ![id] = r], Tail(k.semfree))
        BY ONLY <1>0, <2>1, <2>3, <3>1, GivenOut
      <3> QED
        BY <2>1, <3>1, <3>2
    <2>6. r.count <= MAX_COUNT /\ (r.count > 0 => l.queue[SemQ(id)] = <<>>)
      BY <1>0, <2>1, <2>2, <2>3 DEF CountsOK
    <2>7. l.semfree \in Seq(Semaphores) /\ Len(l.semfree) <= QUEUE_SIZE
            /\ \A q \in WaitQueues \ {SemQ(id)} : l.queue[q] = k.queue[q]
      BY <2>1, <2>2, <2>4
    <2> HIDE DEF r, ids
    <2>8. KernelOK(l)
      BY <1>0, <2>1, <2>2, <2>3, <2>5, <2>6, <2>7, SemKeeps
    <2> QED
      BY <2>2, <2>8, BackHandled
  <1> QED
    BY <1>1, <1>2, <1>3 DEF Handled

LEMMA SemDestroyKeeps ==
    ASSUME NEW k, NEW e, Calling(k, e), NEW id \in Semaphores, NEW l, l = ksem_destroy(k, id).k,
           "allocated" \in Discipline => k.sem[id].allocated,
           Lost = Entries \/ k.queue[SemQ(id)] = <<>>
    PROVE  Back(k, l) /\ KernelOK(l)
  <1>0. /\ k.sem \in [Semaphores -> SemEntry] /\ k.semfree \in Seq(Semaphores)
        /\ Len(k.semfree) <= QUEUE_SIZE /\ KernelOK(k)
    BY DEF Calling, KernelOK, Tables
  <1> DEFINE ids == Append(k.semfree, id)
  <1>2. CASE l = k
    BY <1>0, <1>2, CallerFacts
  <1>3. CASE SemCleared(k, l, id)
    <2>1. /\ Back(k, l) /\ KernelFields \subseteq DOMAIN l /\ ~Full(k.semfree)
          /\ l.sem = [k.sem EXCEPT ![id] = FreeSem] /\ l.semfree = ids
          /\ l.mutex = k.mutex /\ l.mutexfree = k.mutexfree /\ l.eax = k.eax
          /\ \A q \in WaitQueues \ {SemQ(id)} : l.queue[q] = k.queue[q]
      BY <1>3 DEF SemCleared, Tabled
    <2>3. FreeSem \in SemEntry /\ FreeSem.allocated = FALSE /\ FreeSem.count = 0
      BY DEF SemEntry, FreeSem
    <2>4. ids \in Seq(Semaphores) /\ Len(ids) <= QUEUE_SIZE
      <3>1. Len(ids) = Len(k.semfree) + 1 /\ Len(k.semfree) \in Nat
        BY <1>0
      <3> QED
        BY <1>0, <2>1, <3>1, SizeAssumption DEF Full
    <2>5. "allocated" \in Discipline => Given(l.sem, l.semfree)
      <3> SUFFICES ASSUME "allocated" \in Discipline
                   PROVE  Given(l.sem, l.semfree)
        OBVIOUS
      <3>1. k.sem[id].allocated /\ Given(k.sem, k.semfree)
        BY <1>0 DEF KernelOK, IdsOK
      <3>2. Given([k.sem EXCEPT ![id] = FreeSem], Append(k.semfree, id))
        BY ONLY id \in Semaphores, <1>0, <2>1, <2>3, <3>1, GivenBack
      <3> QED
        BY <2>1, <3>2
    <2>6. FreeSem.count <= MAX_COUNT /\ (FreeSem.count > 0 => l.queue[SemQ(id)] = <<>>)
      BY <2>3, KernelAssumption
    <2>7. l.semfree \in Seq(Semaphores) /\ Len(l.semfree) <= QUEUE_SIZE
            /\ \A f \in Entries : Live(k, f) => Live(l, f) /\ l.proc[f].pid = k.proc[f].pid
      BY <2>1, <2>4 DEF Back
    <2> HIDE DEF ids
    <2>8. KernelOK(l)
      BY ONLY id \in Semaphores, <1>0, <2>1, <2>3, <2>5, <2>6, <2>7, SemKeeps
    <2> QED
      BY <2>1, <2>8
  <1> QED
    BY <1>2, <1>3, SemDestroyResult

\* Only the wait queue of a semaphore changes.
LEMMA SemQueued ==
    ASSUME NEW k, KernelOK(k), NEW l, Back(k, l), SameTables(k, l), NEW id \in Semaphores,
           \A q \in WaitQueues \ {SemQ(id)} : l.queue[q] = k.queue[q],
           k.sem[id].count > 0 => l.queue[SemQ(id)] = <<>>
    PROVE  KernelOK(l)
  <1> DEFINE r == k.sem[id]
  <1>1. k.sem \in [Semaphores -> SemEntry] /\ k.sem[id] \in SemEntry
    BY DEF KernelOK, Tables
  <1>2. l.sem = [k.sem EXCEPT ![id] = r]
    BY <1>1 DEF SameTables
  <1>3. /\ r \in SemEntry /\ r.allocated = k.sem[id].allocated
        /\ r.count <= MAX_COUNT /\ (r.count > 0 => l.queue[SemQ(id)] = <<>>)
        /\ l.semfree = k.semfree /\ l.mutex = k.mutex /\ l.mutexfree = k.mutexfree
        /\ l.eax = k.eax
    BY <1>1 DEF KernelOK, CountsOK, SameTables
  <1> HIDE DEF r
  <1> QED
    BY <1>2, <1>3, SemRow

LEMMA SemWaitKeeps ==
    ASSUME NEW k, NEW e, Calling(k, e), NEW id \in Semaphores, NEW l, l = ksem_wait(k, id).k
    PROVE  Back(k, l) /\ KernelOK(l)
  <1>0. /\ k.sem \in [Semaphores -> SemEntry] /\ KernelOK(k) /\ CountsOK(k)
        /\ k.sem[id].count \in Nat /\ MAX_COUNT \in Nat
    BY KernelAssumption DEF Calling, KernelOK, Tables, SemEntry
  <1>1. SemTaken(k, l, e, id)
    BY SemWaitResult
  <1>2. CASE /\ k.sem[id].count > 0
             /\ SemWritten(k, l, id, [k.sem[id] EXCEPT !.count = @ - 1], k.semfree)
    <2> DEFINE r == [k.sem[id] EXCEPT !.count = @ - 1]
    <2>1. /\ SameScheduler(k, l) /\ KernelFields \subseteq DOMAIN l
          /\ l.sem = [k.sem EXCEPT ![id] = r] /\ l.semfree = k.semfree
          /\ l.mutex = k.mutex /\ l.mutexfree = k.mutexfree /\ l.eax = k.eax
      BY <1>2 DEF SemWritten, Tabled
    <2>2. Back(k, l) /\ l.queue = k.queue
      BY <2>1, WrittenBack
    <2>3. /\ r \in SemEntry /\ r.allocated = k.sem[id].allocated /\ r.count = k.sem[id].count - 1
      BY <1>0, <1>2 DEF SemEntry
    <2> HIDE DEF r
    <2>4. r.count <= MAX_COUNT /\ (r.count > 0 => l.queue[SemQ(id)] = <<>>)
      BY <1>0, <1>2, <2>2, <2>3 DEF CountsOK
    <2>5. KernelOK(l)
      BY <1>0, <2>1, <2>2, <2>3, <2>4, SemRow
    <2> QED
      BY <2>2, <2>5
  <1>3. CASE /\ k.sem[id].count = 0 /\ Back(k, l) /\ SameTables(k, l)
             /\ \A q \in WaitQueues \ {SemQ(id)} : l.queue[q] = k.queue[q]
    <2>1. k.sem[id].count > 0 => l.queue[SemQ(id)] = <<>>
      BY <1>3
    <2> QED
      BY <1>0, <1>3, <2>1, SemQueued
  <1> QED
    BY <1>1, <1>2, <1>3 DEF SemTaken

LEMMA SemPostKeeps ==
    ASSUME NEW k, NEW e, Calling(k, e), NEW id \in Semaphores, NEW l, l = ksem_post(k, id).k,
           k.sem[id].count < MAX_COUNT
    PROVE  Back(k, l) /\ KernelOK(l)
  <1>0. /\ k.sem \in [Semaphores -> SemEntry] /\ KernelOK(k) /\ CountsOK(k)
        /\ k.sem[id].count \in Nat /\ MAX_COUNT \in Nat
    BY KernelAssumption DEF Calling, KernelOK, Tables, SemEntry
  <1>1. SemGiven(k, l, id)
    BY SemPostResult
  <1>2. CASE /\ k.queue[SemQ(id)] = <<>>
             /\ SemWritten(k, l, id, [k.sem[id] EXCEPT !.count = @ + 1], k.semfree)
    <2> DEFINE r == [k.sem[id] EXCEPT !.count = @ + 1]
    <2>1. /\ SameScheduler(k, l) /\ KernelFields \subseteq DOMAIN l
          /\ l.sem = [k.sem EXCEPT ![id] = r] /\ l.semfree = k.semfree
          /\ l.mutex = k.mutex /\ l.mutexfree = k.mutexfree /\ l.eax = k.eax
      BY <1>2 DEF SemWritten, Tabled
    <2>2. Back(k, l) /\ l.queue = k.queue
      BY <2>1, WrittenBack
    <2>3. /\ r \in SemEntry /\ r.allocated = k.sem[id].allocated /\ r.count = k.sem[id].count + 1
      BY <1>0, <1>2 DEF SemEntry
    <2> HIDE DEF r
    <2>4. r.count <= MAX_COUNT /\ (r.count > 0 => l.queue[SemQ(id)] = <<>>)
      BY <1>0, <1>2, <2>2, <2>3
    <2>5. KernelOK(l)
      BY <1>0, <2>1, <2>2, <2>3, <2>4, SemRow
    <2> QED
      BY <2>2, <2>5
  <1>3. CASE /\ k.queue[SemQ(id)] # <<>> /\ Back(k, l) /\ SameTables(k, l)
             /\ \A q \in WaitQueues \ {SemQ(id)} : l.queue[q] = k.queue[q]
    <2>1. k.sem[id].count > 0 => l.queue[SemQ(id)] = <<>>
      BY <1>0, <1>3 DEF CountsOK
    <2> QED
      BY <1>0, <1>3, <2>1, SemQueued
  <1> QED
    BY <1>1, <1>2, <1>3 DEF SemGiven

-----------------------------------------------------------------------------
(***************************************************************************)
(* From the trap to the exit of the kernel.                                *)
(***************************************************************************)

LEMMA KernelCtxFields ==
    /\ IsRecord(KernelCtx) /\ ContextFields \cup KernelFields \subseteq DOMAIN KernelCtx
    /\ KernelCtx.proc = proc_table /\ KernelCtx.queue = queue
    /\ KernelCtx.active = active_proc /\ KernelCtx.free = proc_allocator
    /\ KernelCtx.next = next_pid /\ KernelCtx.status = status
    /\ KernelCtx.mutex = mutexes /\ KernelCtx.mutexfree = mutex_queue
    /\ KernelCtx.sem = semaphores /\ KernelCtx.semfree = sem_queue /\ KernelCtx.eax = eax
  BY DEF KernelCtx, IsRecord, ContextFields, KernelFields

\* KernelOK speaks of the fields alone.
LEMMA TwinKernel ==
    ASSUME NEW k, KernelOK(k), NEW l, SameScheduler(k, l), NEW saved \in [Entries -> Int],
           Tabled(l, k.mutex, k.mutexfree, k.sem, k.semfree, saved)
    PROVE  KernelOK(l)
  BY DEF KernelOK, Tables, LocksOK, CountsOK, IdsOK, OwnersOK, Live, SameScheduler, Tabled

LEMMA TrapCalling ==
    ASSUME KInv, InUserProcess, NEW number \in Int, NEW k, k = Trap(number)
    PROVE  /\ Calling(k, active_proc)
           /\ SameScheduler(KernelCtx, k)
           /\ Tabled(k, mutexes, mutex_queue, semaphores, sem_queue,
                     [eax EXCEPT ![active_proc] = number])
           /\ k.next <= MAX_PIDS
  <1> DEFINE c == KernelCtx
             saved == [eax EXCEPT ![active_proc] = number]
  <1>1. /\ IsRecord(c) /\ ContextFields \cup KernelFields \subseteq DOMAIN c
        /\ c.proc = proc_table /\ c.active = active_proc /\ c.next = next_pid
        /\ c.status = status /\ c.mutex = mutexes /\ c.mutexfree = mutex_queue
        /\ c.sem = semaphores /\ c.semfree = sem_queue /\ c.eax = eax
    BY KernelCtxFields
  <1>2. Safe(c, Lost) /\ Sound(c, Lost) /\ KernelOK(c) /\ next_pid <= MAX_PIDS
    BY DEF KInv, Safe
  <1>3. k = [c EXCEPT !.eax = saved]
    BY <1>1 DEF Trap
  <1> HIDE DEF c, saved
  <1>4. SameScheduler(c, k) /\ Tabled(k, c.mutex, c.mutexfree, c.sem, c.semfree, saved)
    BY <1>1, <1>3, EaxUpdate
  <1>5. status = "running" /\ active_proc # NULL /\ proc_table[active_proc].pid # 0
    BY DEF InUserProcess
  <1>6. active_proc \in Entries \ {0}
    BY <1>1, <1>2, <1>5, SoundRead DEF IsContext, Sound, PidsOK
  <1>7. saved \in [Entries -> Int]
    BY <1>1, <1>2 DEF KernelOK, Tables, saved
  <1>8. KernelOK(k)
    BY <1>2, <1>4, <1>7, TwinKernel
  <1>9. Safe(k, Lost)
    BY <1>2, <1>4, TwinSound
  <1>10. Calling(k, active_proc) /\ k.next <= MAX_PIDS
    BY <1>1, <1>2, <1>4, <1>5, <1>6, <1>8, <1>9 DEF Calling, SameScheduler
  <1> QED
    BY <1>1, <1>4, <1>10 DEF c, saved

\* The next state has the fields of l.
LEMMA KernelCommit ==
    ASSUME NEW l, Safe(l, Lost), KernelOK(l), l.next <= MAX_PIDS, CommitKernel(l)
    PROVE  KInv'
  <1> DEFINE c == [proc |-> proc_table', queue |-> queue', active |-> active_proc',
                   free |-> proc_allocator', next |-> next_pid', status |-> status',
                   mutex |-> mutexes', mutexfree |-> mutex_queue',
                   sem |-> semaphores', semfree |-> sem_queue', eax |-> eax']
  <1>1. /\ c.proc = l.proc /\ c.queue = l.queue /\ c.active = l.active
        /\ c.free = l.free /\ c.next = l.next /\ c.status = l.status
        /\ c.mutex = l.mutex /\ c.mutexfree = l.mutexfree
        /\ c.sem = l.sem /\ c.semfree = l.semfree /\ c.eax = l.eax
        /\ next_pid' = l.next
    BY DEF Commit, CommitKernel
  <1>2. IsRecord(c) /\ ContextFields \cup KernelFields \subseteq DOMAIN c
    BY DEF IsRecord, ContextFields, KernelFields
  <1>3. KernelCtx' = c
    BY DEF KernelCtx
  <1> HIDE DEF c
  <1>4. /\ SameScheduler(l, c)
        /\ Tabled(c, l.mutex, l.mutexfree, l.sem, l.semfree, l.eax)
    BY <1>1, <1>2 DEF SameScheduler, Tabled
  <1>5. Safe(c, Lost)
    BY <1>4, TwinSound DEF Safe
  <1>6. KernelOK(c)
    BY <1>4, TwinKernel DEF KernelOK, Tables
  <1> QED
    BY <1>1, <1>3, <1>5, <1>6 DEF KInv

\* Undefined(k) is k, and nothing happens any more.
LEMMA UndefinedSafe ==
    ASSUME NEW k, NEW e, Calling(k, e), NEW l, l = Undefined(k)
    PROVE  /\ Safe(l, Lost) /\ KernelOK(l) /\ l.status = "undefined"
           /\ SameTables(k, l) /\ l.proc = k.proc /\ l.queue = k.queue /\ l.next = k.next
           /\ l.active = k.active
           /\ IsRecord(l) /\ ContextFields \cup KernelFields \subseteq DOMAIN l
  <1>1. /\ Safe(k, Lost) /\ Sound(k, Lost) /\ KernelOK(k) /\ TypedContext(k) /\ IsRecord(k)
        /\ ContextFields \cup KernelFields \subseteq DOMAIN k
    BY CallerFacts DEF Calling
  <1>2. /\ IsRecord(l) /\ ContextFields \cup KernelFields \subseteq DOMAIN l
        /\ l.proc = k.proc /\ l.queue = k.queue /\ l.active = k.active
        /\ l.free = k.free /\ l.next = k.next /\ l.status = "undefined"
        /\ l.mutex = k.mutex /\ l.mutexfree = k.mutexfree
        /\ l.sem = k.sem /\ l.semfree = k.semfree /\ l.eax = k.eax
    BY <1>1 DEF Undefined, IsRecord, ContextFields, KernelFields
  <1>3. TypedContext(l)
    BY <1>1, <1>2 DEF TypedContext, IsContext, IsBounded, Statuses
  <1>4. Sound(l, Lost)
    BY <1>1, <1>2, <1>3 DEF Sound, PidsOK, FreeOK, QueuedOK, BelongsTo, OnceOK,
                            NoneLost, InQueue, FreshOK, Live
  <1>5. Safe(l, Lost)
    BY <1>1, <1>2, <1>4 DEF Safe, Tight, InSlice, IdleFirst
  <1>6. KernelOK(l)
    BY <1>1, <1>2 DEF KernelOK, Tables, LocksOK, CountsOK, IdsOK, OwnersOK, Live
  <1> QED
    BY <1>2, <1>5, <1>6 DEF SameTables

\* What can be seen in the next state of what a handler left in l.
Committed(l) ==
    /\ mutexes' = l.mutex /\ semaphores' = l.sem
    /\ mutex_queue' = l.mutexfree /\ sem_queue' = l.semfree /\ status' = l.status
    /\ \A q \in WaitQueues : queue'[q] = l.queue[q]
    /\ \A e \in Entries : Live(l, e) => IsLive(e)' /\ proc_table'[e].pid = l.proc[e].pid

Delivered(l, rc) ==
    eax' = IF l.active = NULL THEN l.eax ELSE [l.eax EXCEPT ![l.active] = rc]

LEMMA CallDone ==
    ASSUME NEW k, NEW e, Calling(k, e), k.next <= MAX_PIDS,
           NEW l, NEW rc \in Int, Handled(k, l), SystemCall(Result(l, rc))
    PROVE  KInv' /\ Committed(l) /\ Delivered(l, rc)
  <1> DEFINE saved == IF l.active = NULL THEN l.eax ELSE [l.eax EXCEPT ![l.active] = rc]
             d == Deliver(Result(l, rc))
  <1>1. /\ Sound(l, Lost) /\ KernelOK(l) /\ l.next = k.next
        /\ IsRecord(l) /\ ContextFields \cup KernelFields \subseteq DOMAIN l
        /\ l.active \in Entries \cup {NULL} /\ l.eax \in [Entries -> Int]
    <2>1. Sound(l, Lost) /\ KernelOK(l) /\ l.next = k.next
      BY UndefinedSafe DEF Handled, Safe
    <2> QED
      BY <2>1, SoundRead DEF IsContext, KernelOK, Tables
  <1>2. SameScheduler(l, d) /\ Tabled(d, l.mutex, l.mutexfree, l.sem, l.semfree, saved)
    <2>1. CASE l.active = NULL
      <3>1. d = l
        BY <2>1 DEF Deliver, Result
      <3> QED
        BY <1>1, <2>1, <3>1 DEF SameScheduler, Tabled
    <2>2. CASE l.active # NULL
      <3>1. d = [l EXCEPT !.eax[l.active] = rc]
        BY <2>2 DEF Deliver, Result
      <3>2. d = [l EXCEPT !.eax = saved]
        BY <2>2, <3>1
      <3> HIDE DEF d, saved
      <3> QED
        BY <1>1, <3>2, EaxUpdate
    <2> QED
      BY <2>1, <2>2
  <1>3. saved \in [Entries -> Int]
    BY <1>1
  <1>4. PICK out : out = AfterHandler(d) /\ CommitKernel(out)
    BY DEF SystemCall
  <1>5. Delivered(l, rc) <=> eax' = saved
    BY DEF Delivered
  <1> HIDE DEF d, saved
  <1>6. KernelOK(d)
    BY <1>1, <1>2, <1>3, TwinKernel
  <1>7. /\ Sound(d, Lost) /\ (Loose(l) => Loose(d)) /\ (Safe(l, Lost) => Safe(d, Lost))
        /\ \A f \in Entries : Live(l, f) => Live(d, f) /\ d.proc[f].pid = l.proc[f].pid
    BY <1>1, <1>2, TwinSound
  <1>8. ASSUME Safe(out, Lost), KernelOK(out), out.next = k.next, SameTables(d, out),
               \A q \in WaitQueues : out.queue[q] = d.queue[q],
               out.status = d.status,
               \A f \in Entries : Live(d, f) => Live(out, f) /\ out.proc[f].pid = d.proc[f].pid
        PROVE  KInv' /\ Committed(l) /\ Delivered(l, rc)
    <2>1. KInv'
      BY <1>4, <1>8, KernelCommit
    <2>2. /\ mutexes' = out.mutex /\ semaphores' = out.sem /\ eax' = out.eax
          /\ mutex_queue' = out.mutexfree /\ sem_queue' = out.semfree /\ status' = out.status
          /\ queue' = out.queue /\ proc_table' = out.proc
      BY <1>4 DEF CommitKernel, Commit
    <2>3. /\ out.mutex = l.mutex /\ out.sem = l.sem /\ out.eax = saved /\ d.queue = l.queue
          /\ out.mutexfree = l.mutexfree /\ out.semfree = l.semfree /\ out.status = l.status
      BY <1>2, <1>8 DEF SameTables, Tabled, SameScheduler
    <2>4. Committed(l)
      BY <1>7, <1>8, <2>2, <2>3 DEF Committed, Live, IsLive
    <2> QED
      BY <1>5, <2>1, <2>2, <2>3, <2>4
  <1>9. CASE l.status = "running" /\ Loose(l)
    <2>1. out = scheduler_run(d) /\ Loose(d)
      BY <1>2, <1>4, <1>7, <1>9 DEF AfterHandler, SameScheduler
    <2>2. Scheduled(out, Lost) /\ out.status = d.status
      BY <1>7, <2>1, RunSound
    <2>3. Frame(d, out, {}) /\ out.next = d.next
      BY <1>7, <2>1, RunFrame
    <2>4. KernelOK(out) /\ SameTables(d, out)
      BY <1>6, <2>3, FrameKeeps
    <2>5. Safe(out, Lost)
      BY <1>2, <1>9, <2>2 DEF Scheduled, Safe, IdleFirst, SameScheduler
    <2>6. out.next = k.next
      BY <1>1, <1>2, <2>3 DEF SameScheduler
    <2> QED
      BY <1>8, <2>2, <2>3, <2>4, <2>5, <2>6 DEF Frame
  <1>10. CASE l = Undefined(k)
    <2>1. Safe(l, Lost) /\ l.status = "undefined"
      BY <1>10, UndefinedSafe
    <2>2. out = d
      BY <1>2, <1>4, <2>1 DEF AfterHandler, SameScheduler
    <2>3. Safe(d, Lost) /\ d.next = k.next /\ SameTables(d, d)
      BY <1>1, <1>2, <1>7, <2>1 DEF SameScheduler, SameTables, Tabled
    <2> QED
      BY <1>6, <1>8, <2>2, <2>3
  <1> QED
    BY <1>9, <1>10 DEF Handled

-----------------------------------------------------------------------------
(***************************************************************************)
(* The system calls.                                                       *)
(***************************************************************************)

LEMMA SleepHandled ==
    ASSUME NEW k, NEW e, Calling(k, e), NEW time \in Int,
           NEW l, l = scheduler_sleep(k, e, time)
    PROVE  /\ Handled(k, l) /\ Frame(k, l, {}) /\ SameTables(k, l)
           /\ l.status = "running" /\ l.active = NULL
  <1>1. /\ Sound(k, Lost) /\ Tight(k) /\ e \in Entries \ {0} /\ e \in Entries
        /\ k.active = e /\ KernelOK(k) /\ k.status = "running"
    BY CallerFacts DEF Calling
  <1>2. Sound(l, Lost) /\ Loose(l) /\ l.status = k.status /\ l.active = NULL
    BY <1>1, SleepSound
  <1>3. Frame(k, l, {}) /\ l.next = k.next
    BY <1>1, SleepFrame
  <1>4. KernelOK(l) /\ SameTables(k, l)
    BY <1>1, <1>3, FrameKeeps
  <1> QED
    BY <1>1, <1>2, <1>3, <1>4 DEF Handled

\* The caller is gone, and its trapframe is cleared.
Exited(k, l, e) ==
    LET d == kproc_destroy(k, e)
    IN  l = [d EXCEPT !.eax[e] = 0]

OnlyGone(k, l, e) ==
    /\ l.mutex = k.mutex /\ l.sem = k.sem /\ l.eax = [k.eax EXCEPT ![e] = 0]
    /\ l.mutexfree = k.mutexfree /\ l.semfree = k.semfree
    /\ l.status = "running" /\ l.active \in {NULL, k.active}
    /\ \A q \in WaitQueues : l.queue[q] = k.queue[q]
    /\ \A f \in Entries \ {e} : Live(k, f) => Live(l, f) /\ l.proc[f].pid = k.proc[f].pid

LEMMA ExitHandled ==
    ASSUME NEW k, NEW e, Calling(k, e), NEW l, Exited(k, l, e),
           "alive" \in Discipline => \A m \in Mutexes : k.mutex[m].owner # e
    PROVE  Handled(k, l) /\ OnlyGone(k, l, e)
  <1> DEFINE d == kproc_destroy(k, e)
             saved == [k.eax EXCEPT ![e] = 0]
  <1>1. /\ Sound(k, Lost) /\ Tight(k) /\ e \in Entries /\ k.active = e /\ k.active # NULL
        /\ KernelOK(k) /\ k.status = "running" /\ k.eax \in [Entries -> Int]
    BY CallerFacts, EntryNumbers DEF Calling, KernelOK, Tables
  <1>2. d = kproc_destroy(k, k.active)
    BY <1>1
  <1>3. l = [d EXCEPT !.eax[e] = 0]
    BY DEF Exited
  <1> HIDE DEF d
  <1>4. Sound(d, Lost) /\ Loose(d) /\ d.status = k.status /\ d.active \in {NULL, k.active}
    BY <1>1, <1>2, DestroySound
  <1>5. Frame(k, d, {e}) /\ d.next = k.next
    BY <1>1, <1>2, DestroyFrame
  <1>6. KernelOK(d) /\ SameTables(k, d)
    BY <1>1, <1>5, FrameKeeps
  <1>7. IsRecord(d) /\ ContextFields \cup KernelFields \subseteq DOMAIN d
    BY <1>4, <1>6, SoundRead DEF SameTables, IsContext
  <1>8. l = [d EXCEPT !.eax = saved]
    BY <1>3, <1>6 DEF SameTables
  <1>9. saved \in [Entries -> Int]
    BY <1>1
  <1> HIDE DEF saved
  <1>10. SameScheduler(d, l) /\ Tabled(l, d.mutex, d.mutexfree, d.sem, d.semfree, saved)
    BY <1>7, <1>8, EaxUpdate
  <1>11. KernelOK(l)
    BY <1>6, <1>9, <1>10, TwinKernel
  <1>12. /\ Sound(l, Lost) /\ Loose(l)
         /\ \A f \in Entries : Live(d, f) => Live(l, f) /\ l.proc[f].pid = d.proc[f].pid
    BY <1>4, <1>10, TwinSound
  <1>13. Handled(k, l)
    BY <1>1, <1>4, <1>5, <1>10, <1>11, <1>12 DEF Handled, SameScheduler
  <1>14. /\ l.mutex = k.mutex /\ l.sem = k.sem /\ \A q \in WaitQueues : l.queue[q] = k.queue[q]
         /\ l.mutexfree = k.mutexfree /\ l.semfree = k.semfree
         /\ l.status = "running" /\ l.active \in {NULL, k.active}
    BY <1>1, <1>4, <1>5, <1>6, <1>10 DEF Frame, SameTables, Tabled, SameScheduler
  <1>15. l.eax = [k.eax EXCEPT ![e] = 0]
    BY <1>10 DEF Tabled, saved
  <1> QED
    BY <1>5, <1>12, <1>13, <1>14, <1>15 DEF Frame, OnlyGone

\* An id that is refused, and one that reaches outside the table.
LEMMA SelfHandled ==
    ASSUME NEW k, NEW e, Calling(k, e)
    PROVE  Handled(k, k)
  BY CallerFacts, BackHandled DEF Calling

LEMMA UndefinedHandled ==
    ASSUME NEW k, NEW e, Calling(k, e)
    PROVE  Handled(k, Undefined(k))
  BY UndefinedSafe DEF Handled, Safe, Calling

\* The range checks of ksyscall.c: the handler runs for the ids of the table.
LEMMA MutexDestroyCall ==
    ASSUME NEW k, Tables(k), NEW id \in Int, NEW r, r = ksyscall_mutex_destroy(k, id)
    PROVE  /\ r = Result(r.k, r.rc) /\ r.rc \in {-1, 0}
           /\ r.k \in {k, Undefined(k)} \/ (id \in Mutexes /\ r.k = kmutex_destroy(k, id).k)
  <1>1. MUTEX_MAX \in Int
    BY MutexAssumption, SizeAssumption
  <1>2. CASE id >= MUTEX_MAX \/ id < 0
    BY <1>1, <1>2 DEF ksyscall_mutex_destroy, Result
  <1>3. CASE ~(id >= MUTEX_MAX) /\ ~(id < 0)
    <2>1. r = kmutex_destroy(k, id) /\ id \in Mutexes
      BY <1>1, <1>3 DEF ksyscall_mutex_destroy, Mutexes
    <2> QED
      BY <2>1 DEF kmutex_destroy, Result
  <1> QED
    BY <1>2, <1>3

LEMMA LockCall ==
    ASSUME NEW k, Tables(k), NEW id \in Int, NEW r, r = ksyscall_mutex_lock(k, id)
    PROVE  /\ r = Result(r.k, r.rc) /\ r.rc \in {-1, 0}
           /\ r.k \in {k, Undefined(k)} \/ (id \in Mutexes /\ r.k = kmutex_lock(k, id).k)
           /\ id \in Mutexes => r.k = kmutex_lock(k, id).k
  <1>1. MUTEX_MAX \in Int
    BY MutexAssumption, SizeAssumption
  <1>2. CASE id >= MUTEX_MAX \/ id < 0
    BY <1>1, <1>2 DEF ksyscall_mutex_lock, Result, Mutexes
  <1>3. CASE ~(id >= MUTEX_MAX) /\ ~(id < 0)
    <2>1. r = Result(kmutex_lock(k, id).k, 0) /\ id \in Mutexes
      BY <1>1, <1>3 DEF ksyscall_mutex_lock, Mutexes
    <2> QED
      BY <2>1 DEF Result
  <1> QED
    BY <1>2, <1>3

LEMMA UnlockCall ==
    ASSUME NEW k, Tables(k), NEW id \in Int, NEW r, r = ksyscall_mutex_unlock(k, id)
    PROVE  /\ r = Result(r.k, r.rc) /\ r.rc \in {-1, 0}
           /\ r.k \in {k, Undefined(k)} \/ (id \in Mutexes /\ r.k = kmutex_unlock(k, id).k)
           /\ id \in Mutexes => r.k = kmutex_unlock(k, id).k
  <1>1. MUTEX_MAX \in Int
    BY MutexAssumption, SizeAssumption
  <1>2. CASE id > MUTEX_MAX \/ id \notin Mutexes
    BY <1>1, <1>2 DEF ksyscall_mutex_unlock, Result, Mutexes
  <1>3. CASE ~(id > MUTEX_MAX) /\ id \in Mutexes
    <2>1. r = Result(kmutex_unlock(k, id).k, 0)
      BY <1>1, <1>3 DEF ksyscall_mutex_unlock
    <2> QED
      BY <1>3, <2>1 DEF Result
  <1> QED
    BY <1>2, <1>3

LEMMA CheckedCall ==
    ASSUME NEW k, NEW id \in Int, NEW s, NEW r, r = Checked(k, id, s)
    PROVE  /\ \/ r = Result(k, -1)
              \/ r = Result(Undefined(k), -1)
              \/ id \in Semaphores /\ r = s
           /\ id \in Semaphores => r = s
  <1>1. SEM_MAX \in Int
    BY SemAssumption, SizeAssumption
  <1> QED
    BY <1>1 DEF Checked, Semaphores

\* What the semaphore calls return.
LEMMA SemResults ==
    ASSUME NEW k, Tables(k), CountsOK(k), NEW id \in Semaphores
    PROVE  /\ \A r : r = ksem_destroy(k, id) => r = Result(r.k, r.rc) /\ r.rc \in {-1, 0}
           /\ \A r : r = ksem_wait(k, id) =>
                  r = Result(r.k, r.rc) /\ r.rc \in 0 .. MAX_COUNT
           /\ \A r : r = ksem_post(k, id) /\ k.sem[id].count < MAX_COUNT =>
                  r = Result(r.k, r.rc) /\ r.rc \in 0 .. MAX_COUNT
  <1>1. k.sem[id].count \in Nat /\ k.sem[id].count <= MAX_COUNT /\ MAX_COUNT \in Nat
    BY KernelAssumption DEF Tables, CountsOK, SemEntry
  <1>2. \A r : r = ksem_destroy(k, id) => r = Result(r.k, r.rc) /\ r.rc \in {-1, 0}
    BY DEF ksem_destroy, Result
  <1>3. \A r : r = ksem_wait(k, id) => r = Result(r.k, r.rc) /\ r.rc \in 0 .. MAX_COUNT
    <2>1. k.sem[id].count = 0 \/ k.sem[id].count - 1 \in 0 .. MAX_COUNT
      BY <1>1
    <2>2. 0 \in 0 .. MAX_COUNT
      BY <1>1
    <2> QED
      BY <2>1, <2>2 DEF ksem_wait, Result
  <1>4. ASSUME k.sem[id].count < MAX_COUNT, NEW r, r = ksem_post(k, id)
        PROVE  r = Result(r.k, r.rc) /\ r.rc \in 0 .. MAX_COUNT
    <2>1. k.sem[id].count + 1 \in 0 .. MAX_COUNT /\ k.sem[id].count \in 0 .. MAX_COUNT
      BY <1>1, <1>4
    <2> QED
      BY <1>4, <2>1 DEF ksem_post, Result
  <1> QED
    BY <1>2, <1>3, <1>4

\* What the allocators return: an id of the table, -1, or, with no id left,
\* whatever the stack holds.
LEMMA MutexInitReturn ==
    ASSUME NEW k, Tables(k), NEW id \in MutexIds(k), NEW r, r = kmutex_init(k, id)
    PROVE  /\ r = Result(r.k, r.rc) /\ r.rc \in Int
           /\ k.mutexfree # <<>> => r.rc \in Mutexes \cup {-1}
           /\ id \in Mutexes => r.rc = id
  <1>1. Mutexes \subseteq Int /\ k.mutexfree \in Seq(Mutexes) /\ MUTEX_MAX \in Int
    BY MutexAssumption, SizeAssumption DEF Mutexes, Tables
  <1>2. id \in Int /\ (k.mutexfree # <<>> => id \in Mutexes)
    <2>1. CASE k.mutexfree = <<>>
      BY <1>1, <2>1 DEF MutexIds
    <2>2. CASE k.mutexfree # <<>>
      <3>1. id = k.mutexfree[1]
        BY <1>1, <2>2 DEF MutexIds
      <3>2. k.mutexfree[1] \in Mutexes
        BY <1>1, <2>2
      <3> QED
        BY <1>1, <3>1, <3>2
    <2> QED
      BY <2>1, <2>2
  <1>3. CASE id > MUTEX_MAX
    BY <1>1, <1>3 DEF kmutex_init, Result, Mutexes
  <1>4. CASE ~(id > MUTEX_MAX) /\ id \in Mutexes
    BY <1>1, <1>4 DEF kmutex_init, Result
  <1>5. CASE ~(id > MUTEX_MAX) /\ id \notin Mutexes
    BY <1>2, <1>5 DEF kmutex_init, Result
  <1> QED
    BY <1>3, <1>4, <1>5

LEMMA SemInitReturn ==
    ASSUME NEW k, Tables(k), NEW id \in SemIds(k), NEW r, r = ksem_init(k, id)
    PROVE  /\ r = Result(r.k, r.rc) /\ r.rc \in Int
           /\ k.semfree # <<>> => r.rc \in Semaphores \cup {-1}
           /\ id \in Semaphores => r.rc = id
  <1>1. Semaphores \subseteq Int /\ k.semfree \in Seq(Semaphores) /\ SEM_MAX \in Int
    BY SemAssumption, SizeAssumption DEF Semaphores, Tables
  <1>2. id \in Int /\ (k.semfree # <<>> => id \in Semaphores)
    <2>1. CASE k.semfree = <<>>
      BY <1>1, <2>1 DEF SemIds
    <2>2. CASE k.semfree # <<>>
      <3>1. id = k.semfree[1]
        BY <1>1, <2>2 DEF SemIds
      <3>2. k.semfree[1] \in Semaphores
        BY <1>1, <2>2
      <3> QED
        BY <1>1, <3>1, <3>2
    <2> QED
      BY <2>1, <2>2
  <1>3. CASE id > SEM_MAX
    BY <1>1, <1>3 DEF ksem_init, Result, Semaphores
  <1>4. CASE ~(id > SEM_MAX) /\ id \in Semaphores
    BY <1>1, <1>4 DEF ksem_init, Result
  <1>5. CASE ~(id > SEM_MAX) /\ id \notin Semaphores
    BY <1>2, <1>5 DEF ksem_init, Result
  <1> QED
    BY <1>3, <1>4, <1>5

-----------------------------------------------------------------------------
(***************************************************************************)
(* The actions.                                                            *)
(***************************************************************************)

\* The scheduled process calls with this number; the handler finds k, leaves l and
\* returns rc.
Called(number, k, l, rc) ==
    /\ Calling(k, active_proc) /\ SameScheduler(KernelCtx, k)
    /\ Tabled(k, mutexes, mutex_queue, semaphores, sem_queue,
              [eax EXCEPT ![active_proc] = number])
    /\ Handled(k, l) /\ Committed(l) /\ Delivered(l, rc) /\ rc \in Int
    /\ KInv'

LEMMA Enter ==
    ASSUME KInv, InUserProcess, NEW number \in Int, NEW k, k = Trap(number),
           NEW l, Handled(k, l), NEW rc \in Int, SystemCall(Result(l, rc))
    PROVE  Called(number, k, l, rc)
  <1>1. /\ Calling(k, active_proc) /\ SameScheduler(KernelCtx, k)
        /\ Tabled(k, mutexes, mutex_queue, semaphores, sem_queue,
                  [eax EXCEPT ![active_proc] = number])
        /\ k.next <= MAX_PIDS
    BY TrapCalling
  <1>2. KInv' /\ Committed(l) /\ Delivered(l, rc)
    BY <1>1, CallDone
  <1> QED
    BY <1>1, <1>2 DEF Called

LEMMA TrapTables ==
    ASSUME KInv, InUserProcess, NEW number \in Int, NEW k, k = Trap(number)
    PROVE  /\ Calling(k, active_proc) /\ Tables(k) /\ CountsOK(k)
           /\ k.mutex = mutexes /\ k.mutexfree = mutex_queue
           /\ k.sem = semaphores /\ k.semfree = sem_queue /\ k.queue = queue
  <1>1. Calling(k, active_proc) /\ SameScheduler(KernelCtx, k)
          /\ Tabled(k, mutexes, mutex_queue, semaphores, sem_queue,
                    [eax EXCEPT ![active_proc] = number])
    BY TrapCalling
  <1> QED
    BY <1>1, KernelCtxFields DEF Calling, KernelOK, SameScheduler, Tabled

LEMMA SleepAction ==
    ASSUME KInv, NEW seconds \in SLEEP_SECONDS, CallSleep(seconds)
    PROVE  \E k, l : /\ Called(6, k, l, 0)
                     /\ Frame(k, l, {}) /\ SameTables(k, l)
                     /\ l.status = "running" /\ l.active = NULL
  <1> DEFINE time == seconds * TICKS_PER_SECOND
  <1>1. InUserProcess /\ time \in Int
    BY TimeAssumption DEF CallSleep
  <1>2. PICK k : k = Trap(6)
    OBVIOUS
  <1>3. SystemCall(Result(scheduler_sleep(k, active_proc, time), 0))
    BY <1>2 DEF CallSleep, SYSCALL_PROC_SLEEP
  <1> HIDE DEF time
  <1>4. PICK l : l = scheduler_sleep(k, active_proc, time)
    OBVIOUS
  <1>5. /\ Handled(k, l) /\ Frame(k, l, {}) /\ SameTables(k, l)
        /\ l.status = "running" /\ l.active = NULL
    BY <1>1, <1>2, <1>4, TrapTables, SleepHandled
  <1>6. Called(6, k, l, 0)
    BY <1>1, <1>2, <1>3, <1>4, <1>5, Enter
  <1> QED
    BY <1>5, <1>6

LEMMA ExitAction ==
    ASSUME KInv, CallExit
    PROVE  \E k, l : Called(7, k, l, 0) /\ OnlyGone(k, l, active_proc)
  <1>1. InUserProcess
    BY DEF CallExit
  <1>2. PICK k : k = Trap(7)
    OBVIOUS
  <1>3. PICK l : Exited(k, l, active_proc)
    BY DEF Exited
  <1>4. SystemCall(Result(l, 0))
    BY <1>2, <1>3 DEF CallExit, SYSCALL_PROC_EXIT, Exited
  <1>5. Calling(k, active_proc) /\ k.mutex = mutexes
    BY <1>1, <1>2, TrapTables
  <1>6. "alive" \in Discipline => \A m \in Mutexes : k.mutex[m].owner # active_proc
    BY <1>5 DEF CallExit, Respects, OwnsNothing, Owns
  <1>7. Handled(k, l) /\ OnlyGone(k, l, active_proc)
    BY <1>3, <1>5, <1>6, ExitHandled
  <1>8. Called(7, k, l, 0)
    BY <1>1, <1>2, <1>4, <1>7, Enter
  <1> QED
    BY <1>7, <1>8

LEMMA MutexInitAction ==
    ASSUME KInv, CallMutexInit
    PROVE  \E k, l, rc, id :
               /\ Called(10, k, l, rc) /\ id \in MutexIds(k) /\ l = kmutex_init(k, id).k
               /\ "allocated" \in Discipline => rc \in Mutexes \cup {-1}
               /\ id \in Mutexes => rc = id
  <1>1. InUserProcess /\ ("allocated" \in Discipline => mutex_queue # <<>>)
    BY DEF CallMutexInit, Respects
  <1>2. PICK k : k = Trap(10)
    OBVIOUS
  <1>3. Calling(k, active_proc) /\ Tables(k) /\ k.mutexfree = mutex_queue
    BY <1>1, <1>2, TrapTables
  <1>4. PICK id \in MutexIds(KernelCtx) : SystemCall(kmutex_init(k, id))
    BY <1>2 DEF CallMutexInit, SYSCALL_MUTEX_INIT
  <1>5. id \in MutexIds(k)
    BY <1>3, <1>4, KernelCtxFields DEF MutexIds
  <1>6. PICK r : r = kmutex_init(k, id)
    OBVIOUS
  <1>7. /\ r = Result(r.k, r.rc) /\ r.rc \in Int
        /\ "allocated" \in Discipline => r.rc \in Mutexes \cup {-1}
        /\ id \in Mutexes => r.rc = id
    BY <1>1, <1>3, <1>5, <1>6, MutexInitReturn
  <1>8. Handled(k, r.k)
    BY <1>1, <1>3, <1>5, <1>6, MutexInitKeeps
  <1>9. Called(10, k, r.k, r.rc)
    BY <1>1, <1>2, <1>4, <1>6, <1>7, <1>8, Enter
  <1> QED
    BY <1>5, <1>6, <1>7, <1>9

LEMMA MutexDestroyAction ==
    ASSUME KInv, NEW id \in MutexArgs, CallMutexDestroy(id)
    PROVE  \E k, l : \E rc \in {-1, 0} :
               /\ Called(11, k, l, rc)
               /\ l \in {k, Undefined(k)} \/ (id \in Mutexes /\ l = kmutex_destroy(k, id).k)
  <1>1. /\ InUserProcess /\ id \in Int
        /\ "allocated" \in Discipline => id \in Mutexes /\ mutexes[id].allocated
    BY KernelAssumption DEF CallMutexDestroy, Respects, MutexAllocated
  <1>2. PICK k : k = Trap(11)
    OBVIOUS
  <1>3. Calling(k, active_proc) /\ Tables(k) /\ k.mutex = mutexes
    BY <1>1, <1>2, TrapTables
  <1>4. PICK r : r = ksyscall_mutex_destroy(k, id)
    OBVIOUS
  <1>5. /\ r = Result(r.k, r.rc) /\ r.rc \in {-1, 0}
        /\ r.k \in {k, Undefined(k)} \/ (id \in Mutexes /\ r.k = kmutex_destroy(k, id).k)
    BY <1>1, <1>3, <1>4, MutexDestroyCall
  <1>6. SystemCall(r)
    BY <1>2, <1>4 DEF CallMutexDestroy, SYSCALL_MUTEX_DESTROY
  <1>7. Handled(k, r.k)
    BY <1>1, <1>3, <1>5, MutexDestroyKeeps, BackHandled, SelfHandled, UndefinedHandled
  <1>8. Called(11, k, r.k, r.rc)
    BY <1>1, <1>2, <1>5, <1>6, <1>7, Enter
  <1> QED
    BY <1>5, <1>8

LEMMA LockAction ==
    ASSUME KInv, NEW id \in Int, CallMutexLock(id)
    PROVE  \E k, l : \E rc \in {-1, 0} :
               /\ Called(12, k, l, rc)
               /\ l \in {k, Undefined(k)} \/ (id \in Mutexes /\ l = kmutex_lock(k, id).k)
               /\ id \in Mutexes => l = kmutex_lock(k, id).k
  <1>1. InUserProcess /\ id \in Int
    BY KernelAssumption DEF CallMutexLock
  <1>2. PICK k : k = Trap(12)
    OBVIOUS
  <1>3. Calling(k, active_proc) /\ Tables(k)
    BY <1>1, <1>2, TrapTables
  <1>4. PICK r : r = ksyscall_mutex_lock(k, id)
    OBVIOUS
  <1>5. /\ r = Result(r.k, r.rc) /\ r.rc \in {-1, 0}
        /\ r.k \in {k, Undefined(k)} \/ (id \in Mutexes /\ r.k = kmutex_lock(k, id).k)
        /\ id \in Mutexes => r.k = kmutex_lock(k, id).k
    BY <1>1, <1>3, <1>4, LockCall
  <1>6. SystemCall(r)
    BY <1>2, <1>4 DEF CallMutexLock, SYSCALL_MUTEX_LOCK
  <1>7. Handled(k, r.k)
    BY <1>3, <1>5, LockKeeps, BackHandled, SelfHandled, UndefinedHandled
  <1>8. Called(12, k, r.k, r.rc)
    BY <1>1, <1>2, <1>5, <1>6, <1>7, Enter
  <1> QED
    BY <1>5, <1>8

LEMMA UnlockAction ==
    ASSUME KInv, NEW id \in Int, CallMutexUnlock(id)
    PROVE  \E k, l : \E rc \in {-1, 0} :
               /\ Called(13, k, l, rc)
               /\ l \in {k, Undefined(k)} \/ (id \in Mutexes /\ l = kmutex_unlock(k, id).k)
               /\ id \in Mutexes => l = kmutex_unlock(k, id).k
  <1>1. InUserProcess /\ id \in Int
    BY KernelAssumption DEF CallMutexUnlock
  <1>2. PICK k : k = Trap(13)
    OBVIOUS
  <1>3. Calling(k, active_proc) /\ Tables(k)
    BY <1>1, <1>2, TrapTables
  <1>4. PICK r : r = ksyscall_mutex_unlock(k, id)
    OBVIOUS
  <1>5. /\ r = Result(r.k, r.rc) /\ r.rc \in {-1, 0}
        /\ r.k \in {k, Undefined(k)} \/ (id \in Mutexes /\ r.k = kmutex_unlock(k, id).k)
        /\ id \in Mutexes => r.k = kmutex_unlock(k, id).k
    BY <1>1, <1>3, <1>4, UnlockCall
  <1>6. SystemCall(r)
    BY <1>2, <1>4 DEF CallMutexUnlock, SYSCALL_MUTEX_UNLOCK
  <1>7. Handled(k, r.k)
    BY <1>3, <1>5, UnlockKeeps, BackHandled, SelfHandled, UndefinedHandled
  <1>8. Called(13, k, r.k, r.rc)
    BY <1>1, <1>2, <1>5, <1>6, <1>7, Enter
  <1> QED
    BY <1>5, <1>8

LEMMA SemInitAction ==
    ASSUME KInv, CallSemInit
    PROVE  \E k, l, rc, id :
               /\ Called(14, k, l, rc) /\ id \in SemIds(k) /\ l = ksem_init(k, id).k
               /\ "allocated" \in Discipline => rc \in Semaphores \cup {-1}
               /\ id \in Semaphores => rc = id
  <1>1. InUserProcess /\ ("allocated" \in Discipline => sem_queue # <<>>)
    BY DEF CallSemInit, Respects
  <1>2. PICK k : k = Trap(14)
    OBVIOUS
  <1>3. Calling(k, active_proc) /\ Tables(k) /\ k.semfree = sem_queue
    BY <1>1, <1>2, TrapTables
  <1>4. PICK id \in SemIds(KernelCtx) : SystemCall(ksem_init(k, id))
    BY <1>2 DEF CallSemInit, SYSCALL_SEM_INIT
  <1>5. id \in SemIds(k)
    BY <1>3, <1>4, KernelCtxFields DEF SemIds
  <1>6. PICK r : r = ksem_init(k, id)
    OBVIOUS
  <1>7. /\ r = Result(r.k, r.rc) /\ r.rc \in Int
        /\ "allocated" \in Discipline => r.rc \in Semaphores \cup {-1}
        /\ id \in Semaphores => r.rc = id
    BY <1>1, <1>3, <1>5, <1>6, SemInitReturn
  <1>8. Handled(k, r.k)
    BY <1>1, <1>3, <1>5, <1>6, SemInitKeeps
  <1>9. Called(14, k, r.k, r.rc)
    BY <1>1, <1>2, <1>4, <1>6, <1>7, <1>8, Enter
  <1> QED
    BY <1>5, <1>6, <1>7, <1>9

LEMMA SemDestroyAction ==
    ASSUME KInv, NEW id \in SemArgs, CallSemDestroy(id)
    PROVE  \E k, l : \E rc \in {-1, 0} :
               /\ Called(15, k, l, rc)
               /\ \/ l \in {k, Undefined(k)}
                  \/ /\ id \in Semaphores /\ l = ksem_destroy(k, id).k
                     /\ Lost = Entries \/ k.queue[SemQ(id)] = <<>>
  <1>1. /\ InUserProcess /\ id \in Int
        /\ "allocated" \in Discipline => id \in Semaphores /\ semaphores[id].allocated
        /\ "nowaiters" \in Discipline => (id \notin Semaphores \/ queue[SemQ(id)] = <<>>)
    BY KernelAssumption DEF CallSemDestroy, Respects, SemAllocated
  <1>2. PICK k : k = Trap(15)
    OBVIOUS
  <1>3. Calling(k, active_proc) /\ Tables(k) /\ CountsOK(k) /\ k.sem = semaphores /\ k.queue = queue
    BY <1>1, <1>2, TrapTables
  <1>4. id \in Semaphores => Lost = Entries \/ k.queue[SemQ(id)] = <<>>
    BY <1>1, <1>3 DEF Lost
  <1>5. PICK s : s = ksem_destroy(k, id)
    OBVIOUS
  <1>6. PICK r : r = Checked(k, id, s)
    OBVIOUS
  <1>7. SystemCall(r)
    BY <1>2, <1>5, <1>6 DEF CallSemDestroy, SYSCALL_SEM_DESTROY, ksyscall_sem_destroy
  <1>8. \/ r = Result(k, -1)
        \/ r = Result(Undefined(k), -1)
        \/ id \in Semaphores /\ r = s
    BY <1>1, <1>6, CheckedCall
  <1>9. /\ r = Result(r.k, r.rc) /\ r.rc \in {-1, 0}
        /\ r.k \in {k, Undefined(k)} \/ (id \in Semaphores /\ r.k = ksem_destroy(k, id).k)
    BY <1>3, <1>5, <1>8, SemResults DEF Result
  <1>10. Handled(k, r.k)
    BY <1>1, <1>3, <1>4, <1>9, SemDestroyKeeps, BackHandled, SelfHandled, UndefinedHandled
  <1>11. Called(15, k, r.k, r.rc)
    BY <1>1, <1>2, <1>7, <1>9, <1>10, Enter
  <1> QED
    BY <1>4, <1>9, <1>11

LEMMA SemWaitAction ==
    ASSUME KInv, NEW id \in Int, CallSemWait(id)
    PROVE  \E k, l : \E rc \in -1 .. MAX_COUNT :
               /\ Called(16, k, l, rc)
               /\ l \in {k, Undefined(k)} \/ (id \in Semaphores /\ l = ksem_wait(k, id).k)
               /\ id \in Semaphores => l = ksem_wait(k, id).k
  <1>1. InUserProcess /\ id \in Int /\ MAX_COUNT \in Nat
    BY KernelAssumption DEF CallSemWait
  <1>2. PICK k : k = Trap(16)
    OBVIOUS
  <1>3. Calling(k, active_proc) /\ Tables(k) /\ CountsOK(k)
    BY <1>1, <1>2, TrapTables
  <1>5. PICK s : s = ksem_wait(k, id)
    OBVIOUS
  <1>6. PICK r : r = Checked(k, id, s)
    OBVIOUS
  <1>7. SystemCall(r)
    BY <1>2, <1>5, <1>6 DEF CallSemWait, SYSCALL_SEM_WAIT, ksyscall_sem_wait
  <1>8. /\ \/ r = Result(k, -1)
           \/ r = Result(Undefined(k), -1)
           \/ id \in Semaphores /\ r = s
        /\ id \in Semaphores => r = s
    BY <1>1, <1>6, CheckedCall
  <1>a. id \in Semaphores => s = Result(s.k, s.rc) /\ s.rc \in 0 .. MAX_COUNT
    BY <1>3, <1>5, SemResults
  <1>b. -1 \in -1 .. MAX_COUNT /\ 0 .. MAX_COUNT \subseteq -1 .. MAX_COUNT
    BY <1>1
  <1>9. /\ r = Result(r.k, r.rc) /\ r.rc \in -1 .. MAX_COUNT
        /\ r.k \in {k, Undefined(k)} \/ (id \in Semaphores /\ r.k = ksem_wait(k, id).k)
        /\ id \in Semaphores => r.k = ksem_wait(k, id).k
    BY <1>5, <1>8, <1>a, <1>b DEF Result
  <1>10. Handled(k, r.k)
    BY <1>3, <1>9, SemWaitKeeps, BackHandled, SelfHandled, UndefinedHandled
  <1>11. Called(16, k, r.k, r.rc)
    BY <1>1, <1>2, <1>7, <1>9, <1>10, Enter
  <1> QED
    BY <1>9, <1>11

LEMMA SemPostAction ==
    ASSUME KInv, NEW id \in Int, CallSemPost(id)
    PROVE  \E k, l : \E rc \in -1 .. MAX_COUNT :
               /\ Called(17, k, l, rc)
               /\ l \in {k, Undefined(k)} \/ (id \in Semaphores /\ l = ksem_post(k, id).k)
               /\ id \in Semaphores => l = ksem_post(k, id).k
  <1>1. /\ InUserProcess /\ id \in Int /\ MAX_COUNT \in Nat
        /\ id \in Semaphores => semaphores[id].count < MAX_COUNT
    BY KernelAssumption DEF CallSemPost
  <1>2. PICK k : k = Trap(17)
    OBVIOUS
  <1>3. Calling(k, active_proc) /\ Tables(k) /\ CountsOK(k) /\ k.sem = semaphores
    BY <1>1, <1>2, TrapTables
  <1>5. PICK s : s = ksem_post(k, id)
    OBVIOUS
  <1>6. PICK r : r = Checked(k, id, s)
    OBVIOUS
  <1>7. SystemCall(r)
    BY <1>2, <1>5, <1>6 DEF CallSemPost, SYSCALL_SEM_POST, ksyscall_sem_post
  <1>8. /\ \/ r = Result(k, -1)
           \/ r = Result(Undefined(k), -1)
           \/ id \in Semaphores /\ r = s
        /\ id \in Semaphores => r = s
    BY <1>1, <1>6, CheckedCall
  <1>a. id \in Semaphores => s = Result(s.k, s.rc) /\ s.rc \in 0 .. MAX_COUNT
    BY <1>1, <1>3, <1>5, SemResults
  <1>b. -1 \in -1 .. MAX_COUNT /\ 0 .. MAX_COUNT \subseteq -1 .. MAX_COUNT
    BY <1>1
  <1>9. /\ r = Result(r.k, r.rc) /\ r.rc \in -1 .. MAX_COUNT
        /\ r.k \in {k, Undefined(k)} \/ (id \in Semaphores /\ r.k = ksem_post(k, id).k)
        /\ id \in Semaphores => r.k = ksem_post(k, id).k
    BY <1>5, <1>8, <1>a, <1>b DEF Result
  <1>10. Handled(k, r.k)
    BY <1>1, <1>3, <1>9, SemPostKeeps, BackHandled, SelfHandled, UndefinedHandled DEF Calling
  <1>11. Called(17, k, r.k, r.rc)
    BY <1>1, <1>2, <1>7, <1>9, <1>10, Enter
  <1> QED
    BY <1>9, <1>11

\* What a step of the scheduler alone does around the wait queues.
LEMMA SchedulerStep ==
    ASSUME NEW X, Inv(X), Next, next_pid <= MAX_PIDS
    PROVE  /\ \A q \in WaitQueues : queue'[q] = queue[q]
           /\ \A e \in Entries \ {active_proc} :
                  IsLive(e) => IsLive(e)' /\ proc_table'[e].pid = proc_table[e].pid
           /\ next_pid' <= MAX_PIDS
  <1>1. PICK k : /\ Handles(k)
                 /\ \/ Commit(k) /\ k.active = active_proc
                        /\ \A e \in Entries : k.active # e
                    \/ Sound(k, X) /\ Loose(k) /\ k.status = "running" /\ ExitKernel(k)
    BY Steps
  <1>2. next_pid \in Nat /\ MAX_PIDS \in Nat
    <2>1. Sound(Ctx, X)
      BY DEF Inv, Safe
    <2> QED
      BY <2>1, SoundRead, CtxFields, TimeAssumption DEF IsContext
  <1>3. k.next <= MAX_PIDS /\ Frame(Ctx, k, {active_proc})
    BY <1>1, <1>2 DEF Handles, MayCreate
  <1>4. ASSUME NEW out, Commit(out), Frame(Ctx, out, {active_proc}), out.next = k.next
        PROVE  /\ \A q \in WaitQueues : queue'[q] = queue[q]
               /\ \A e \in Entries \ {active_proc} :
                      IsLive(e) => IsLive(e)' /\ proc_table'[e].pid = proc_table[e].pid
               /\ next_pid' <= MAX_PIDS
    <2>1. queue' = out.queue /\ proc_table' = out.proc /\ next_pid' = out.next
      BY <1>4 DEF Commit
    <2> QED
      BY <1>3, <1>4, <2>1, CtxFields DEF Frame, IsLive, Live
  <1>5. CASE Commit(k)
    BY <1>3, <1>4, <1>5
  <1>6. CASE Sound(k, X) /\ Loose(k) /\ k.status = "running" /\ ExitKernel(k)
    <2>1. PICK out : out = scheduler_run(k) /\ Commit(out)
      BY <1>6 DEF ExitKernel, AfterHandler
    <2>2. Frame(k, out, {}) /\ out.next = k.next
      BY <1>6, <2>1, RunFrame
    <2>3. Frame(Ctx, out, {active_proc})
      BY <1>3, <2>2, FrameTrans
    <2> QED
      BY <1>4, <2>1, <2>2, <2>3
  <1> QED
    BY <1>1, <1>5, <1>6

LEMMA KInvScheduler ==
    ASSUME KInv
    PROVE  Inv(Lost)
  <1>1. /\ Ctx.proc = proc_table /\ Ctx.queue = queue /\ Ctx.active = active_proc
        /\ Ctx.free = proc_allocator /\ Ctx.next = next_pid /\ Ctx.status = status
        /\ IsRecord(Ctx) /\ ContextFields \subseteq DOMAIN Ctx
    BY DEF Ctx, IsRecord, ContextFields
  <1>2. SameScheduler(KernelCtx, Ctx)
    BY <1>1, KernelCtxFields DEF SameScheduler
  <1>3. Safe(KernelCtx, Lost) /\ Sound(KernelCtx, Lost)
    BY DEF KInv, Safe
  <1> QED
    BY <1>2, <1>3, TwinSound DEF Inv

\* An interrupt leaves the mutexes and semaphores alone.
LEMMA InterruptAction ==
    ASSUME KInv, Interrupt
    PROVE  /\ KInv' /\ mutexes' = mutexes /\ semaphores' = semaphores
           /\ \A q \in WaitQueues : queue'[q] = queue[q]
           /\ "alive" \in Discipline =>
                  \A m \in Mutexes : mutexes[m].owner # NULL =>
                      proc_table'[mutexes[m].owner].pid = proc_table[mutexes[m].owner].pid
  <1> DEFINE c == [proc |-> proc_table', queue |-> queue', active |-> active_proc',
                   free |-> proc_allocator', next |-> next_pid', status |-> status',
                   mutex |-> mutexes', mutexfree |-> mutex_queue',
                   sem |-> semaphores', semfree |-> sem_queue', eax |-> eax']
             s == [proc |-> proc_table', queue |-> queue', active |-> active_proc',
                   free |-> proc_allocator', next |-> next_pid', status |-> status']
  <1>1. /\ IsRecord(c) /\ ContextFields \cup KernelFields \subseteq DOMAIN c
        /\ c.proc = proc_table' /\ c.queue = queue' /\ c.active = active_proc'
        /\ c.free = proc_allocator' /\ c.next = next_pid' /\ c.status = status'
        /\ c.mutex = mutexes' /\ c.mutexfree = mutex_queue'
        /\ c.sem = semaphores' /\ c.semfree = sem_queue' /\ c.eax = eax'
    BY DEF IsRecord, ContextFields, KernelFields
  <1>2. /\ s.proc = c.proc /\ s.queue = c.queue /\ s.active = c.active
        /\ s.free = c.free /\ s.next = c.next /\ s.status = c.status
    BY DEF IsRecord, ContextFields
  <1>3. KernelCtx' = c /\ Ctx' = s
    BY DEF KernelCtx, Ctx
  <1> HIDE DEF c, s
  <1>4. /\ Next /\ Inv(Lost) /\ next_pid <= MAX_PIDS /\ KernelOK(KernelCtx)
        /\ mutexes' = mutexes /\ mutex_queue' = mutex_queue
        /\ semaphores' = semaphores /\ sem_queue' = sem_queue /\ eax' = InterruptedEax
    BY KInvScheduler DEF KInv, Interrupt, Next, mutexVars, semVars
  <1>5. /\ \A q \in WaitQueues : queue'[q] = queue[q]
        /\ \A e \in Entries \ {active_proc} :
               IsLive(e) => IsLive(e)' /\ proc_table'[e].pid = proc_table[e].pid
        /\ next_pid' <= MAX_PIDS
    BY <1>4, SchedulerStep
  <1>6. Inv(Lost)'
    BY <1>4, NextSafe
  <1>7. Safe(s, Lost) /\ Sound(s, Lost)
    BY <1>3, <1>6 DEF Inv, Safe
  <1>8. SameScheduler(s, c)
    BY <1>1, <1>2 DEF SameScheduler
  <1>9. Safe(c, Lost) /\ Sound(c, Lost)
    BY <1>7, <1>8, TwinSound
  <1>10. eax' \in [Entries -> Int]
    <2>1. eax \in [Entries -> Int]
      BY <1>4, KernelCtxFields DEF KernelOK, Tables
    <2> QED
      BY <1>4, <2>1 DEF InterruptedEax
  <1>11. Tables(c) /\ LocksOK(c) /\ CountsOK(c) /\ ("allocated" \in Discipline => IdsOK(c))
    <2>1. Tables(c)
      BY <1>1, <1>4, <1>10, KernelCtxFields DEF KernelOK, Tables
    <2>2. LocksOK(c) /\ CountsOK(c)
      BY <1>1, <1>4, <1>5, WaitNames, KernelCtxFields DEF KernelOK, LocksOK, CountsOK
    <2>3. "allocated" \in Discipline => IdsOK(c)
      BY <1>1, <1>4, KernelCtxFields DEF KernelOK, IdsOK
    <2> QED
      BY <2>1, <2>2, <2>3
  <1>12. ASSUME "alive" \in Discipline, NEW m \in Mutexes, mutexes[m].owner # NULL
         PROVE  /\ Live(c, mutexes[m].owner) /\ c.proc[mutexes[m].owner].pid # 0
                /\ proc_table'[mutexes[m].owner].pid = proc_table[mutexes[m].owner].pid
    <2> DEFINE o == mutexes[m].owner
    <2>1. o \in Entries /\ IsLive(o) /\ proc_table[o].pid # 0
      <3>1. mutexes \in [Mutexes -> MutexEntry] /\ OwnersOK(KernelCtx)
        BY <1>4, <1>12, KernelCtxFields DEF KernelOK, Tables
      <3>2. mutexes[m] \in MutexEntry
        BY <3>1
      <3>3. o \in Entries
        BY <1>12, <3>2 DEF MutexEntry
      <3> QED
        BY <1>12, <3>1, <3>3, KernelCtxFields DEF OwnersOK, Live, IsLive
    <2>2. CASE o # active_proc
      <3>1. proc_table'[o].state # "NONE" /\ proc_table'[o].pid = proc_table[o].pid
        BY <1>5, <2>1, <2>2 DEF IsLive
      <3> QED
        BY <1>1, <2>1, <3>1 DEF Live, IsLive
    <2>3. CASE o = active_proc
      <3>1. active_proc # NULL /\ ~OwnsNothing(active_proc)
        BY <1>12, <2>3 DEF OwnsNothing, Owns
      <3>2. proc_table'[o].pid = proc_table[o].pid
        BY <1>12, <2>3, <3>1 DEF Interrupt, Respects
      <3>3. c.proc[o].pid # 0
        BY <1>1, <2>1, <3>2
      <3>4. Live(c, o)
        BY <1>9, <2>1, <3>3 DEF Sound, FreeOK, FreePCB
      <3> QED
        BY <3>2, <3>3, <3>4
    <2> QED
      BY <2>2, <2>3
  <1>13. "alive" \in Discipline => OwnersOK(c)
    BY <1>1, <1>4, <1>12 DEF OwnersOK
  <1>14. KInv'
    BY <1>3, <1>5, <1>9, <1>11, <1>13 DEF KInv, KernelOK
  <1> QED
    BY <1>4, <1>5, <1>12, <1>14

-----------------------------------------------------------------------------
(***************************************************************************)
(* The invariant.                                                          *)
(***************************************************************************)

LEMMA KernelInitInv == KernelInit => KInv
  <1> SUFFICES ASSUME KernelInit PROVE KInv
    OBVIOUS
  <1>1. /\ Init /\ mutexes = [m \in Mutexes |-> FreeMutex]
        /\ mutex_queue = [i \in 1 .. MUTEX_MAX |-> i - 1]
        /\ semaphores = [s \in Semaphores |-> FreeSem]
        /\ sem_queue = [i \in 1 .. SEM_MAX |-> i - 1]
        /\ eax = [e \in Entries |-> 0]
    BY DEF KernelInit, kmutexes_init, ksemaphores_init
  <1>2. Safe(Ctx, {}) /\ Sound(Ctx, {})
    BY <1>1, InitSafe DEF Inv, Safe
  <1>3. SameScheduler(Ctx, KernelCtx)
    BY KernelCtxFields, CtxFields DEF SameScheduler
  <1>4. Safe(KernelCtx, {})
    BY <1>2, <1>3, TwinSound
  <1>5. Safe(KernelCtx, Lost)
    BY <1>4 DEF Safe, Sound, NoneLost
  <1>6. next_pid <= MAX_PIDS
    BY <1>1, TimeAssumption DEF Init
  <1>7. \A q \in WaitQueues : queue[q] = <<>>
    BY <1>1, NameAssumption DEF Init, Queues
  <1>8. MUTEX_MAX \in Nat /\ SEM_MAX \in Nat /\ MUTEX_MAX <= QUEUE_SIZE /\ SEM_MAX <= QUEUE_SIZE
    BY MutexAssumption, SemAssumption, SizeAssumption
  <1>9. /\ mutex_queue \in Seq(Mutexes) /\ Len(mutex_queue) = MUTEX_MAX
        /\ sem_queue \in Seq(Semaphores) /\ Len(sem_queue) = SEM_MAX
    BY <1>1, <1>8 DEF Mutexes, Semaphores
  <1>10. FreeMutex \in MutexEntry /\ FreeSem \in SemEntry
    BY DEF FreeMutex, MutexEntry, FreeSem, SemEntry
  <1>11. mutexes \in [Mutexes -> MutexEntry] /\ semaphores \in [Semaphores -> SemEntry]
    BY <1>1, <1>10
  <1>12. Tables(KernelCtx)
    BY <1>1, <1>8, <1>9, <1>11, KernelCtxFields DEF Tables
  <1>13. LocksOK(KernelCtx) /\ CountsOK(KernelCtx)
    BY <1>1, <1>7, WaitNames, KernelCtxFields, KernelAssumption
       DEF LocksOK, Counted, CountsOK, FreeMutex, FreeSem
  <1>14. IdsOK(KernelCtx)
    <2>1. Given(mutexes, mutex_queue)
      <3>1. \A x \in Mutexes : x + 1 \in 1 .. MUTEX_MAX /\ mutex_queue[x + 1] = x
        BY <1>1, <1>8 DEF Mutexes
      <3>2. \A x \in Mutexes : ~mutexes[x].allocated
        BY <1>1 DEF FreeMutex
      <3>3. NoItemTwice(mutex_queue)
        BY <1>1, <1>8, <1>9 DEF NoItemTwice
      <3> QED
        BY <1>9, <1>11, <3>1, <3>2, <3>3 DEF Given
    <2>2. Given(semaphores, sem_queue)
      <3>1. \A x \in Semaphores : x + 1 \in 1 .. SEM_MAX /\ sem_queue[x + 1] = x
        BY <1>1, <1>8 DEF Semaphores
      <3>2. \A x \in Semaphores : ~semaphores[x].allocated
        BY <1>1 DEF FreeSem
      <3>3. NoItemTwice(sem_queue)
        BY <1>1, <1>8, <1>9 DEF NoItemTwice
      <3> QED
        BY <1>9, <1>11, <3>1, <3>2, <3>3 DEF Given
    <2> QED
      BY <2>1, <2>2, KernelCtxFields DEF IdsOK
  <1>15. OwnersOK(KernelCtx)
    BY <1>1, KernelCtxFields DEF OwnersOK, FreeMutex
  <1> QED
    BY <1>5, <1>6, <1>12, <1>13, <1>14, <1>15 DEF KInv, KernelOK

\* Nothing of the kernel moves.
LEMMA KernelStutter ==
    ASSUME KInv, UNCHANGED kvars
    PROVE  KInv'
  <1>1. KernelCtx' = KernelCtx /\ next_pid' = next_pid
    BY DEF kvars, vars, mutexVars, semVars, KernelCtx
  <1> QED
    BY <1>1 DEF KInv

LEMMA KernelInductive ==
    ASSUME KInv, [KernelNext]_kvars
    PROVE  KInv'
  <1>1. CASE Interrupt
    BY <1>1, InterruptAction
  <1>2. ASSUME NEW seconds \in SLEEP_SECONDS, CallSleep(seconds) PROVE KInv'
    BY <1>2, SleepAction DEF Called
  <1>3. CASE CallExit
    BY <1>3, ExitAction DEF Called
  <1>4. CASE CallMutexInit
    BY <1>4, MutexInitAction DEF Called
  <1>5. ASSUME NEW id \in MutexArgs, CallMutexDestroy(id) PROVE KInv'
    BY <1>5, MutexDestroyAction DEF Called
  <1>6. ASSUME NEW id \in MutexArgs, CallMutexLock(id) PROVE KInv'
    BY <1>6, LockAction, KernelAssumption DEF Called
  <1>7. ASSUME NEW id \in MutexArgs, CallMutexUnlock(id) PROVE KInv'
    BY <1>7, UnlockAction, KernelAssumption DEF Called
  <1>8. CASE CallSemInit
    BY <1>8, SemInitAction DEF Called
  <1>9. ASSUME NEW id \in SemArgs, CallSemDestroy(id) PROVE KInv'
    BY <1>9, SemDestroyAction DEF Called
  <1>10. ASSUME NEW id \in SemArgs, CallSemWait(id) PROVE KInv'
    BY <1>10, SemWaitAction, KernelAssumption DEF Called
  <1>11. ASSUME NEW id \in SemArgs, CallSemPost(id) PROVE KInv'
    BY <1>11, SemPostAction, KernelAssumption DEF Called
  <1>12. CASE UNCHANGED kvars
    BY <1>12, KernelStutter
  <1> QED
    BY <1>1, <1>2, <1>3, <1>4, <1>5, <1>6, <1>7, <1>8, <1>9, <1>10, <1>11, <1>12
       DEF KernelNext

LEMMA KInvAlways == KernelSpec => []KInv
  <1> QED
    BY KernelInitInv, KernelInductive, PTL DEF KernelSpec

-----------------------------------------------------------------------------
(***************************************************************************)
(* The safety properties of Kernel.  The first ones hold whatever the user *)
(* processes do with the ids they have; the others say which rule it takes.*)
(***************************************************************************)

LEMMA KInvReads ==
    ASSUME KInv
    PROVE  /\ KernelOK(KernelCtx)
           /\ mutexes \in [Mutexes -> MutexEntry] /\ semaphores \in [Semaphores -> SemEntry]
           /\ mutex_queue \in Seq(Mutexes) /\ Len(mutex_queue) <= QUEUE_SIZE
           /\ sem_queue \in Seq(Semaphores) /\ Len(sem_queue) <= QUEUE_SIZE
           /\ eax \in [Entries -> Int]
  BY KernelCtxFields DEF KInv, KernelOK, Tables

\* The tables, the queues and the saved registers keep their types: no call reaches
\* outside the process table, and no allocator is filled beyond its array.
THEOREM KernelTypes == KernelSpec => []KernelTypeOK
  <1>1. KInv => KernelTypeOK
    <2> SUFFICES ASSUME KInv PROVE KernelTypeOK
      OBVIOUS
    <2>1. TypeOK
      BY KInvScheduler, InvSays
    <2> QED
      BY <2>1, KInvReads DEF KernelTypeOK, MutexTypeOK, SemTypeOK, MutexEntry, SemEntry
  <1> QED
    BY <1>1, KInvAlways, PTL

\* Interrupts, sleeping, mutexes and semaphores keep the scheduler's promises: a
\* pid is in a queue only while its process waits there, one process is scheduled
\* within its slice, and nothing panics: ksem_post always finds the process it
\* wakes.
THEOREM KernelScheduling ==
    KernelSpec => [](/\ QueuedAreQueued /\ ActiveIsActive /\ PidsUnique /\ AllocatorExact
                     /\ PanicOnlyBeforeFirstDispatch)
  <1>1. KInv => /\ QueuedAreQueued /\ ActiveIsActive /\ PidsUnique /\ AllocatorExact
                /\ PanicOnlyBeforeFirstDispatch
    BY KInvScheduler, InvSays
  <1> QED
    BY <1>1, KInvAlways, PTL

\* The lock count is the owner and the waiters, whatever the callers do: unlocking
\* another process's mutex, locking twice, exiting with a mutex.
THEOREM MutexCounts == KernelSpec => []LockCount
  <1>1. KInv => LockCount
    BY KInvReads, KernelCtxFields DEF KernelOK, LocksOK, Counted, LockCount
  <1> QED
    BY <1>1, KInvAlways, PTL

\* Nobody waits for a semaphore whose count would let it pass.
THEOREM NobodyWaitsInVain == KernelSpec => []NoWaitWhilePositive
  <1>1. KInv => NoWaitWhilePositive
    BY KInvReads, KernelCtxFields DEF KernelOK, CountsOK, NoWaitWhilePositive
  <1> QED
    BY <1>1, KInvAlways, PTL

\* A process that waits, sleeps or is ready is in the queue it points at, if no
\* semaphore is destroyed while somebody waits for it: ksem_destroy does not look.
THEOREM KernelQueueSafety ==
    ASSUME "nowaiters" \in Discipline
    PROVE  KernelSpec => []QueueDiscipline
  <1>1. Lost = {}
    BY DEF Lost
  <1>2. KInv => QueueDiscipline
    BY <1>1, KInvScheduler, InvLosesNobody
  <1> QED
    BY <1>2, KInvAlways, PTL

\* An id is allocated or once in the queue of ids, if only allocated ids are
\* destroyed and nobody asks for an id when none is left.
THEOREM IdSafety ==
    ASSUME "allocated" \in Discipline
    PROVE  KernelSpec => []IdsExact
  <1>1. KInv => IdsExact
    <2> SUFFICES ASSUME KInv PROVE IdsExact
      OBVIOUS
    <2>1. Given(mutexes, mutex_queue) /\ Given(semaphores, sem_queue)
      BY KInvReads, KernelCtxFields DEF KernelOK, IdsOK
    <2>2. /\ DOMAIN mutexes = Mutexes /\ DOMAIN semaphores = Semaphores
          /\ DOMAIN mutex_queue = 1 .. Len(mutex_queue)
          /\ DOMAIN sem_queue = 1 .. Len(sem_queue)
      BY KInvReads
    <2> QED
      BY <2>1, <2>2 DEF IdsExact, MutexIdsExact, SemIdsExact, Given, NoItemTwice
  <1> QED
    BY <1>1, KInvAlways, PTL

\* A mutex is owned by a process that exists, if owners neither exit nor are killed.
THEOREM OwnerSafety ==
    ASSUME "alive" \in Discipline
    PROVE  KernelSpec => []OwnerIsLive
  <1>1. KInv => OwnerIsLive
    BY KInvReads, KernelCtxFields DEF KernelOK, OwnersOK, OwnerIsLive, Live, IsLive
  <1> QED
    BY <1>1, KInvAlways, PTL

-----------------------------------------------------------------------------
(***************************************************************************)
(* What a process finds in EAX.                                            *)
(***************************************************************************)

\* The number of sem_wait is in no process's EAX once the kernel is left.
Answered == \A e \in Entries : eax[e] # 16

\* EAX is not written, or cleared, and the return value goes to the caller of sem_wait.
Spared(number, k, l) ==
    /\ number # 16 \/ l.active = active_proc
    /\ l.eax = k.eax \/ l.eax = [k.eax EXCEPT ![active_proc] = 0]

LEMMA ReturnAnswered ==
    ASSUME Answered, KInv, NEW number \in Int, NEW k, NEW l, NEW rc,
           Called(number, k, l, rc), rc # 16, Spared(number, k, l)
    PROVE  Answered'
  <1>1. active_proc \in Entries /\ active_proc # NULL
    BY EntryNumbers DEF Called, Calling
  <1>2. k.eax = [eax EXCEPT ![active_proc] = number] /\ eax \in [Entries -> Int]
    BY KInvReads DEF Called, Tabled
  <1>3. eax' = IF l.active = NULL THEN l.eax ELSE [l.eax EXCEPT ![l.active] = rc]
    BY DEF Called, Delivered
  <1>a. /\ k.eax \in [Entries -> Int] /\ k.eax[active_proc] = number
        /\ \A e \in Entries \ {active_proc} : k.eax[e] # 16
    BY <1>1, <1>2 DEF Answered
  <1>5. /\ l.eax \in [Entries -> Int] /\ l.eax[active_proc] \in {number, 0}
        /\ \A e \in Entries \ {active_proc} : l.eax[e] # 16
    <2>1. CASE l.eax = k.eax
      BY <1>a, <2>1
    <2>2. CASE l.eax = [k.eax EXCEPT ![active_proc] = 0]
      BY <1>1, <1>a, <2>2
    <2> QED
      BY <2>1, <2>2 DEF Spared
  <1>4. \A e \in Entries : l.eax[e] = 16 => e = active_proc /\ number = 16
    BY <1>5
  <1> QED
    BY <1>1, <1>3, <1>4, <1>5 DEF Answered, Spared

\* No handler writes EAX but sys_exit, and sem_wait leaves the caller scheduled.
LEMMA UndefinedEax ==
    ASSUME NEW k, NEW e, Calling(k, e), NEW l, l \in {k, Undefined(k)}
    PROVE  l.eax = k.eax /\ l.active = k.active
  BY UndefinedSafe DEF SameTables

LEMMA MutexInitEax ==
    ASSUME NEW k, NEW e, Calling(k, e), NEW id \in MutexIds(k), NEW l, l = kmutex_init(k, id).k
    PROVE  l.eax = k.eax
  <1>1. \/ l \in {k, Undefined(k)}
        \/ MutexWritten(k, l, id, [k.mutex[id] EXCEPT !.allocated = TRUE],
                        IF k.mutexfree = <<>> THEN <<>> ELSE Tail(k.mutexfree))
    BY MutexInitResult
  <1> QED
    BY <1>1, UndefinedEax DEF MutexWritten, Tabled

LEMMA MutexDestroyEax ==
    ASSUME NEW k, NEW e, Calling(k, e), NEW id \in Mutexes, NEW l, l = kmutex_destroy(k, id).k
    PROVE  l.eax = k.eax
  <1>1. l = k \/ MutexWritten(k, l, id, FreeMutex, Append(k.mutexfree, id))
    BY MutexDestroyResult
  <1> QED
    BY <1>1 DEF MutexWritten, Tabled

LEMMA UnlockEax ==
    ASSUME NEW k, NEW e, Calling(k, e), NEW id \in Mutexes, NEW l, l = kmutex_unlock(k, id).k
    PROVE  l.eax = k.eax
  <1>1. Unlocked(k, l, id)
    BY UnlockResult
  <1> QED
    BY <1>1 DEF Unlocked

LEMMA SemInitEax ==
    ASSUME NEW k, NEW e, Calling(k, e), NEW id \in SemIds(k), NEW l, l = ksem_init(k, id).k
    PROVE  l.eax = k.eax
  <1>1. \/ l \in {k, Undefined(k)}
        \/ SemWritten(k, l, id, [k.sem[id] EXCEPT !.allocated = TRUE],
                      IF k.semfree = <<>> THEN <<>> ELSE Tail(k.semfree))
    BY SemInitResult
  <1> QED
    BY <1>1, UndefinedEax DEF SemWritten, Tabled

LEMMA SemDestroyEax ==
    ASSUME NEW k, NEW e, Calling(k, e), NEW id \in Semaphores, NEW l, l = ksem_destroy(k, id).k,
           Lost = Entries \/ k.queue[SemQ(id)] = <<>>
    PROVE  l.eax = k.eax
  <1>1. l = k \/ SemCleared(k, l, id)
    BY SemDestroyResult
  <1> QED
    BY <1>1 DEF SemCleared, Tabled

LEMMA SemWaitEax ==
    ASSUME NEW k, NEW e, Calling(k, e), NEW id \in Semaphores, NEW l, l = ksem_wait(k, id).k
    PROVE  l.eax = k.eax /\ l.active = k.active
  <1>1. SemTaken(k, l, e, id)
    BY SemWaitResult
  <1> QED
    BY <1>1 DEF SemTaken, SemWritten, Tabled, SameScheduler, SameTables

LEMMA SemPostEax ==
    ASSUME NEW k, NEW e, Calling(k, e), NEW id \in Semaphores, NEW l, l = ksem_post(k, id).k
    PROVE  l.eax = k.eax
  <1>1. SemGiven(k, l, id)
    BY SemPostResult
  <1> QED
    BY <1>1 DEF SemGiven, SemWritten, Tabled, SameTables

LEMMA LockEax ==
    ASSUME NEW k, NEW e, Calling(k, e), NEW id \in Mutexes, NEW l, l = kmutex_lock(k, id).k
    PROVE  l.eax = k.eax
  <1>1. Locked(k, l, e, id)
    BY LockResult
  <1> QED
    BY <1>1 DEF Locked

LEMMA AnsweredNext ==
    ASSUME "allocated" \in Discipline, MAX_COUNT < 16, MUTEX_MAX <= 16, SEM_MAX <= 16,
           KInv, Answered, [KernelNext]_kvars
    PROVE  Answered'
  <1>0. /\ MAX_COUNT \in Nat /\ 0 \in Int /\ 0 # 16
        /\ \A n \in {6, 7, 10, 11, 12, 13, 14, 15, 16, 17} : n \in Int
        /\ Answered /\ KInv /\ \A rc \in {-1, 0} : rc \in Int /\ rc # 16
        /\ \A rc \in -1 .. MAX_COUNT : rc \in Int /\ rc # 16
        /\ \A rc \in Mutexes \cup {-1} : rc \in Int /\ rc # 16
        /\ \A rc \in Semaphores \cup {-1} : rc \in Int /\ rc # 16
    BY KernelAssumption, MutexAssumption, SemAssumption, SizeAssumption DEF Mutexes, Semaphores
  <1>1. CASE Interrupt
    BY <1>1, KInvReads DEF Interrupt, InterruptedEax, Answered
  <1>2. ASSUME NEW seconds \in SLEEP_SECONDS, CallSleep(seconds) PROVE Answered'
    <2>1. PICK k, l : Called(6, k, l, 0) /\ SameTables(k, l)
      BY <1>2, SleepAction
    <2>2. Spared(6, k, l)
      BY <2>1 DEF SameTables, Spared
    <2> QED
      BY <1>0, <2>1, <2>2, ReturnAnswered
  <1>3. CASE CallExit
    <2>1. PICK k, l : Called(7, k, l, 0) /\ OnlyGone(k, l, active_proc)
      BY <1>3, ExitAction
    <2>2. Spared(7, k, l)
      BY <2>1 DEF OnlyGone, Spared
    <2> QED
      BY <1>0, <2>1, <2>2, ReturnAnswered
  <1>4. CASE CallMutexInit
    <2>1. PICK k, l, rc, id : /\ Called(10, k, l, rc) /\ id \in MutexIds(k)
                              /\ l = kmutex_init(k, id).k /\ rc \in Mutexes \cup {-1}
      BY <1>4, MutexInitAction
    <2>2. Spared(10, k, l)
      BY <2>1, MutexInitEax DEF Called, Spared
    <2> QED
      BY <1>0, <2>1, <2>2, ReturnAnswered
  <1>5. ASSUME NEW id \in MutexArgs, CallMutexDestroy(id) PROVE Answered'
    <2>1. PICK k, l, rc :
             /\ rc \in {-1, 0}
             /\ Called(11, k, l, rc)
             /\ l \in {k, Undefined(k)} \/ (id \in Mutexes /\ l = kmutex_destroy(k, id).k)
      BY <1>5, MutexDestroyAction
    <2>2. Spared(11, k, l)
      BY <2>1, MutexDestroyEax, UndefinedEax DEF Called, Spared
    <2> QED
      BY <1>0, <2>1, <2>2, ReturnAnswered
  <1>6. ASSUME NEW id \in MutexArgs, CallMutexLock(id) PROVE Answered'
    <2>1. PICK k, l, rc :
             /\ rc \in {-1, 0}
             /\ Called(12, k, l, rc)
             /\ l \in {k, Undefined(k)} \/ (id \in Mutexes /\ l = kmutex_lock(k, id).k)
      BY <1>6, LockAction, KernelAssumption
    <2>2. Spared(12, k, l)
      BY <2>1, LockEax, UndefinedEax DEF Called, Spared
    <2> QED
      BY <1>0, <2>1, <2>2, ReturnAnswered
  <1>7. ASSUME NEW id \in MutexArgs, CallMutexUnlock(id) PROVE Answered'
    <2>1. PICK k, l, rc :
             /\ rc \in {-1, 0}
             /\ Called(13, k, l, rc)
             /\ l \in {k, Undefined(k)} \/ (id \in Mutexes /\ l = kmutex_unlock(k, id).k)
      BY <1>7, UnlockAction, KernelAssumption
    <2>2. Spared(13, k, l)
      BY <2>1, UnlockEax, UndefinedEax DEF Called, Spared
    <2> QED
      BY <1>0, <2>1, <2>2, ReturnAnswered
  <1>8. CASE CallSemInit
    <2>1. PICK k, l, rc, id : /\ Called(14, k, l, rc) /\ id \in SemIds(k)
                              /\ l = ksem_init(k, id).k /\ rc \in Semaphores \cup {-1}
      BY <1>8, SemInitAction
    <2>2. Spared(14, k, l)
      BY <2>1, SemInitEax DEF Called, Spared
    <2> QED
      BY <1>0, <2>1, <2>2, ReturnAnswered
  <1>9. ASSUME NEW id \in SemArgs, CallSemDestroy(id) PROVE Answered'
    <2>1. PICK k, l, rc :
             /\ rc \in {-1, 0}
             /\ Called(15, k, l, rc)
             /\ \/ l \in {k, Undefined(k)}
                \/ /\ id \in Semaphores /\ l = ksem_destroy(k, id).k
                   /\ Lost = Entries \/ k.queue[SemQ(id)] = <<>>
      BY <1>9, SemDestroyAction
    <2>2. Spared(15, k, l)
      BY <2>1, SemDestroyEax, UndefinedEax DEF Called, Spared
    <2> QED
      BY <1>0, <2>1, <2>2, ReturnAnswered
  <1>10. ASSUME NEW id \in SemArgs, CallSemWait(id) PROVE Answered'
    <2>1. PICK k, l, rc :
             /\ rc \in -1 .. MAX_COUNT
             /\ Called(16, k, l, rc)
             /\ l \in {k, Undefined(k)} \/ (id \in Semaphores /\ l = ksem_wait(k, id).k)
      BY <1>10, SemWaitAction, KernelAssumption
    <2>2. Spared(16, k, l)
      BY <2>1, SemWaitEax, UndefinedEax DEF Called, Calling, Spared
    <2> QED
      BY <1>0, <2>1, <2>2, ReturnAnswered
  <1>11. ASSUME NEW id \in SemArgs, CallSemPost(id) PROVE Answered'
    <2>1. PICK k, l, rc :
             /\ rc \in -1 .. MAX_COUNT
             /\ Called(17, k, l, rc)
             /\ l \in {k, Undefined(k)} \/ (id \in Semaphores /\ l = ksem_post(k, id).k)
      BY <1>11, SemPostAction, KernelAssumption
    <2>2. Spared(17, k, l)
      BY <2>1, SemPostEax, UndefinedEax DEF Called, Spared
    <2> QED
      BY <1>0, <2>1, <2>2, ReturnAnswered
  <1>12. CASE UNCHANGED kvars
    BY <1>12 DEF kvars, Answered
  <1> QED
    BY <1>1, <1>2, <1>3, <1>4, <1>5, <1>6, <1>7, <1>8, <1>9, <1>10, <1>11, <1>12
       DEF KernelNext

\* sem_wait's caller finds the count in EAX and not the number of the call: ksem_wait
\* leaves it in active_proc, so that the value is delivered before it is descheduled.
\* The numbers of the calls and the counts are told apart by their values only, so
\* that 16 must not be an id or a count (16 entries in each table, as in the code).
THEOREM SemWaitAnswers ==
    ASSUME "allocated" \in Discipline, MAX_COUNT < 16, MUTEX_MAX <= 16, SEM_MAX <= 16
    PROVE  KernelSpec => []SemWaitReturns
  <1>1. KernelInit => Answered
    BY DEF KernelInit, Answered
  <1>2. KInv /\ Answered /\ [KernelNext]_kvars => Answered'
    BY AnsweredNext
  <1>3. Answered => SemWaitReturns
    BY DEF Answered, SemWaitReturns, SYSCALL_SEM_WAIT
  <1> QED
    BY <1>1, <1>2, <1>3, KInvAlways, PTL DEF KernelSpec

-----------------------------------------------------------------------------
(***************************************************************************)
(* The mutexes are FIFO locks for processes that follow the rules "owner"  *)
(* and "alive".  Holders and Waiters are the refinement mapping on a       *)
(* context.                                                                *)
(***************************************************************************)

Holders(k) ==
    [m \in Mutexes |-> IF k.mutex[m].owner = NULL THEN NULL
                       ELSE k.proc[k.mutex[m].owner].pid]

Waiters(k) == [m \in Mutexes |-> k.queue[MutexQ(m)]]

\* A step of FifoLock: p acquires or releases lock m or waits for it.
LockMoves(h, w, i, x, p, m) ==
    /\ \A n \in Mutexes : \A j \in DOMAIN w[n] : w[n][j] # p
    /\ \/ h[m] = NULL /\ i = [h EXCEPT ![m] = p] /\ x = w
       \/ h[m] \notin {NULL, p} /\ x = [w EXCEPT ![m] = Append(@, p)] /\ i = h
       \/ h[m] = p /\ w[m] = <<>> /\ i = [h EXCEPT ![m] = NULL] /\ x = w
       \/ /\ h[m] = p /\ w[m] # <<>>
          /\ i = [h EXCEPT ![m] = Head(w[m])] /\ x = [w EXCEPT ![m] = Tail(@)]

FifoMove(h, w, i, x) ==
    \/ i = h /\ x = w
    \/ \E p \in 1 .. MAX_PIDS, m \in Mutexes : LockMoves(h, w, i, x, p, m)

\* Who owns the mutexes and who waits for them stays as it is.
SameOwners(k, l) ==
    /\ \A m \in Mutexes : l.mutex[m].owner = k.mutex[m].owner
    /\ \A m \in Mutexes : l.queue[MutexQ(m)] = k.queue[MutexQ(m)]
    /\ \A m \in Mutexes : k.mutex[m].owner # NULL
          => l.proc[k.mutex[m].owner].pid = k.proc[k.mutex[m].owner].pid

LEMMA SameOwnersStay ==
    ASSUME NEW k, NEW l, SameOwners(k, l)
    PROVE  FifoMove(Holders(k), Waiters(k), Holders(l), Waiters(l))
  BY DEF SameOwners, Holders, Waiters, FifoMove

LEMMA BackOwners ==
    ASSUME NEW k, KernelOK(k), OwnersOK(k), NEW l, Back(k, l),
           \A m \in Mutexes : l.mutex[m].owner = k.mutex[m].owner,
           \A m \in Mutexes : l.queue[MutexQ(m)] = k.queue[MutexQ(m)]
    PROVE  SameOwners(k, l)
  <1>1. \A m \in Mutexes : k.mutex[m].owner \in Entries \cup {NULL}
    BY DEF KernelOK, Tables, MutexEntry
  <1>2. \A m \in Mutexes : k.mutex[m].owner # NULL =>
            k.mutex[m].owner \in Entries /\ Live(k, k.mutex[m].owner)
    BY <1>1 DEF OwnersOK
  <1> QED
    BY <1>2 DEF SameOwners, Back

\* The caller is a process of the abstract lock that waits for nothing.
LEMMA CallerProcess ==
    ASSUME NEW k, NEW e, Calling(k, e), k.next <= MAX_PIDS
    PROVE  /\ k.proc[e].pid \in 1 .. MAX_PIDS /\ e \in Entries /\ e # NULL /\ Live(k, e)
           /\ \A q \in Queues : \A j \in DOMAIN k.queue[q] : k.queue[q][j] # k.proc[e].pid
  <1>1. /\ e \in Entries /\ NotQueued(k, e) /\ k.proc[e].pid \in Nat /\ k.proc[e].pid # 0
        /\ k.proc[e].pid < k.next /\ Sound(k, Lost) /\ IsContext(k) /\ Live(k, e)
    BY CallerFacts
  <1>2. \A q \in Queues : k.queue[q] \in Seq(Nat)
    BY <1>1, SoundRead
  <1>3. k.next \in Nat /\ MAX_PIDS \in Nat
    BY <1>1, TimeAssumption DEF IsContext
  <1>4. k.proc[e].pid \in 1 .. MAX_PIDS
    BY <1>1, <1>3
  <1>5. \A q \in Queues : \A j \in DOMAIN k.queue[q] : k.queue[q][j] # k.proc[e].pid
    <2>1. \A q \in Queues : DOMAIN k.queue[q] = 1 .. Len(k.queue[q])
      BY <1>2
    <2> QED
      BY <1>1, <2>1 DEF NotQueued, InQueue
  <1> QED
    BY <1>1, <1>4, <1>5, EntryNumbers

LEMMA HolderFacts ==
    ASSUME NEW k, Sound(k, Lost), KernelOK(k), OwnersOK(k), NEW id \in Mutexes
    PROVE  /\ k.mutex[id] \in MutexEntry /\ Counted(k.mutex[id], k.queue[MutexQ(id)])
           /\ k.mutex[id].owner = NULL <=> Holders(k)[id] = NULL
           /\ k.mutex[id].owner # NULL =>
                 /\ k.mutex[id].owner \in Entries /\ Live(k, k.mutex[id].owner)
                 /\ Holders(k)[id] = k.proc[k.mutex[id].owner].pid
  <1>1. k.mutex[id] \in MutexEntry /\ Counted(k.mutex[id], k.queue[MutexQ(id)])
    BY DEF KernelOK, Tables, LocksOK
  <1>2. k.mutex[id].owner \in Entries \cup {NULL}
    BY <1>1 DEF MutexEntry
  <1>3. \A e \in Entries : k.proc[e].pid # NULL
    BY SoundRead, NameAssumption
  <1> QED
    BY <1>1, <1>2, <1>3 DEF Holders, OwnersOK

\* kmutex_lock acquires the lock or waits for it.
LEMMA LockMove ==
    ASSUME NEW k, NEW e, Calling(k, e), k.next <= MAX_PIDS, OwnersOK(k),
           NEW id \in Mutexes, k.mutex[id].owner # e, NEW l, Locked(k, l, e, id)
    PROVE  FifoMove(Holders(k), Waiters(k), Holders(l), Waiters(l))
  <1> DEFINE p == k.proc[e].pid
             m == k.mutex[id]
  <1>1. /\ p \in 1 .. MAX_PIDS /\ e \in Entries /\ e # NULL /\ Live(k, e)
        /\ \A q \in Queues : \A j \in DOMAIN k.queue[q] : k.queue[q][j] # p
    BY CallerProcess
  <1>2. \A n \in Mutexes : \A j \in DOMAIN Waiters(k)[n] : Waiters(k)[n][j] # p
    BY <1>1, WaitNames DEF Waiters
  <1>3. /\ Back(k, l)
        /\ l.mutex = [k.mutex EXCEPT ![id] =
              [allocated |-> m.allocated, locks |-> m.locks + 1,
               owner |-> IF m.locks = 0 THEN e ELSE m.owner]]
        /\ l.queue[MutexQ(id)] = IF m.locks = 0 THEN k.queue[MutexQ(id)]
                                 ELSE Append(k.queue[MutexQ(id)], p)
        /\ \A q \in WaitQueues \ {MutexQ(id)} : l.queue[q] = k.queue[q]
    BY DEF Locked
  <1>4. Sound(k, Lost) /\ KernelOK(k) /\ k.mutex \in [Mutexes -> MutexEntry]
    BY CallerFacts DEF Calling, KernelOK, Tables
  <1>5. /\ m \in MutexEntry /\ Counted(m, k.queue[MutexQ(id)])
        /\ m.owner = NULL <=> Holders(k)[id] = NULL
        /\ m.owner # NULL => /\ m.owner \in Entries /\ Live(k, m.owner)
                             /\ Holders(k)[id] = k.proc[m.owner].pid
    BY <1>4, HolderFacts
  <1>6. \A n \in Mutexes \ {id} : Holders(l)[n] = Holders(k)[n] /\ Waiters(l)[n] = Waiters(k)[n]
    <2> SUFFICES ASSUME NEW n \in Mutexes \ {id}
                 PROVE  Holders(l)[n] = Holders(k)[n] /\ Waiters(l)[n] = Waiters(k)[n]
      OBVIOUS
    <2>1. l.mutex[n] = k.mutex[n]
      BY <1>3, <1>4
    <2>2. l.queue[MutexQ(n)] = k.queue[MutexQ(n)]
      BY <1>3, WaitNames
    <2>3. k.mutex[n].owner # NULL => k.mutex[n].owner \in Entries /\ Live(k, k.mutex[n].owner)
      BY <1>4, HolderFacts
    <2>4. k.mutex[n].owner # NULL =>
             l.proc[k.mutex[n].owner].pid = k.proc[k.mutex[n].owner].pid
      BY <1>3, <2>3 DEF Back
    <2> QED
      BY <2>1, <2>2, <2>4 DEF Holders, Waiters
  <1>7. \A k1 : /\ Holders(k1) = [n \in Mutexes |-> Holders(k1)[n]]
                /\ Waiters(k1) = [n \in Mutexes |-> Waiters(k1)[n]]
    BY DEF Holders, Waiters
  <1>8. m.locks \in Nat /\ (m.locks = 0 <=> m.owner = NULL)
    BY <1>5, WaitNames, <1>4, SoundRead DEF Counted, MutexEntry
  <1>9. l.mutex[id].owner = (IF m.locks = 0 THEN e ELSE m.owner)
    BY <1>3, <1>4
  <1>10. CASE m.locks = 0
    <2>1. Holders(l)[id] = p /\ Waiters(l)[id] = Waiters(k)[id]
      BY <1>1, <1>3, <1>9, <1>10 DEF Holders, Waiters, Back
    <2>2. Holders(l) = [Holders(k) EXCEPT ![id] = p] /\ Waiters(l) = Waiters(k)
      BY <1>6, <1>7, <2>1
    <2>3. Holders(k)[id] = NULL
      BY <1>5, <1>8, <1>10
    <2>4. LockMoves(Holders(k), Waiters(k), Holders(l), Waiters(l), p, id)
      BY <1>2, <2>2, <2>3 DEF LockMoves
    <2> QED
      BY <1>1, <2>4 DEF FifoMove
  <1>11. CASE m.locks # 0
    <2>1. m.owner # NULL /\ m.owner \in Entries /\ Live(k, m.owner)
            /\ Holders(k)[id] = k.proc[m.owner].pid /\ Holders(k)[id] # NULL
      BY <1>5, <1>8, <1>11
    <2>2. k.proc[m.owner].pid # p
      BY <1>1, <1>4, <2>1 DEF Sound, PidsOK
    <2>3. Holders(l)[id] = Holders(k)[id] /\ Waiters(l)[id] = Append(Waiters(k)[id], p)
      BY <1>3, <1>9, <1>11, <2>1 DEF Holders, Waiters, Back
    <2>4. Holders(l) = Holders(k) /\ Waiters(l) = [Waiters(k) EXCEPT ![id] = Append(@, p)]
      BY <1>6, <1>7, <2>3
    <2>5. LockMoves(Holders(k), Waiters(k), Holders(l), Waiters(l), p, id)
      BY <1>2, <2>1, <2>2, <2>4 DEF LockMoves
    <2> QED
      BY <1>1, <2>5 DEF FifoMove
  <1> QED
    BY <1>10, <1>11

\* kmutex_unlock by the owner releases the lock, to the process that has waited longest.
LEMMA UnlockMove ==
    ASSUME NEW k, NEW e, Calling(k, e), k.next <= MAX_PIDS, OwnersOK(k),
           NEW id \in Mutexes, k.mutex[id].owner = e, NEW l, Unlocked(k, l, id)
    PROVE  FifoMove(Holders(k), Waiters(k), Holders(l), Waiters(l))
  <1> DEFINE p == k.proc[e].pid
             m == k.mutex[id]
             wait == k.queue[MutexQ(id)]
  <1>1. /\ p \in 1 .. MAX_PIDS /\ e \in Entries /\ e # NULL /\ Live(k, e)
        /\ \A q \in Queues : \A j \in DOMAIN k.queue[q] : k.queue[q][j] # p
    BY CallerProcess
  <1>2. \A n \in Mutexes : \A j \in DOMAIN Waiters(k)[n] : Waiters(k)[n][j] # p
    BY <1>1, WaitNames DEF Waiters
  <1>3. /\ Back(k, l)
        /\ \A q \in WaitQueues \ {MutexQ(id)} : l.queue[q] = k.queue[q]
        /\ \/ m.locks = 0 /\ l = k
           \/ /\ m.locks = 1 /\ wait = <<>> /\ l.queue[MutexQ(id)] = <<>>
              /\ l.mutex = [k.mutex EXCEPT ![id] =
                     [allocated |-> m.allocated, locks |-> 0, owner |-> NULL]]
           \/ \E f \in Entries \ {0} :
                 /\ m.locks > 1 /\ wait # <<>> /\ l.queue[MutexQ(id)] = Tail(wait)
                 /\ k.proc[f].pid = Head(wait) /\ k.proc[f].pid # 0 /\ Live(k, f)
                 /\ l.mutex = [k.mutex EXCEPT ![id] =
                     [allocated |-> m.allocated, locks |-> m.locks - 1, owner |-> f]]
    BY DEF Unlocked
  <1>4. Sound(k, Lost) /\ KernelOK(k) /\ k.mutex \in [Mutexes -> MutexEntry]
    BY CallerFacts DEF Calling, KernelOK, Tables
  <1>5. /\ m \in MutexEntry /\ Counted(m, wait) /\ Holders(k)[id] = p
    BY <1>1, <1>4, HolderFacts
  <1>6. ASSUME NEW n \in Mutexes \ {id}, l.mutex[n] = k.mutex[n]
        PROVE  Holders(l)[n] = Holders(k)[n] /\ Waiters(l)[n] = Waiters(k)[n]
    <2>2. l.queue[MutexQ(n)] = k.queue[MutexQ(n)]
      BY <1>3, WaitNames
    <2>3. k.mutex[n].owner # NULL => k.mutex[n].owner \in Entries /\ Live(k, k.mutex[n].owner)
      BY <1>4, HolderFacts
    <2>4. k.mutex[n].owner # NULL =>
             l.proc[k.mutex[n].owner].pid = k.proc[k.mutex[n].owner].pid
      BY <1>3, <2>3 DEF Back
    <2> QED
      BY <1>6, <2>2, <2>4 DEF Holders, Waiters
  <1>7. \A k1 : /\ Holders(k1) = [n \in Mutexes |-> Holders(k1)[n]]
                /\ Waiters(k1) = [n \in Mutexes |-> Waiters(k1)[n]]
    BY DEF Holders, Waiters
  <1>8. CASE m.locks = 0 /\ l = k
    BY <1>8 DEF FifoMove
  <1>9. CASE /\ m.locks = 1 /\ wait = <<>> /\ l.queue[MutexQ(id)] = <<>>
             /\ l.mutex = [k.mutex EXCEPT ![id] =
                    [allocated |-> m.allocated, locks |-> 0, owner |-> NULL]]
    <2>1. /\ l.mutex[id].owner = NULL
          /\ \A n \in Mutexes \ {id} : l.mutex[n] = k.mutex[n]
      BY <1>4, <1>9
    <2>2. Holders(l)[id] = NULL /\ Waiters(l)[id] = Waiters(k)[id] /\ Waiters(k)[id] = <<>>
      BY <1>9, <2>1 DEF Holders, Waiters
    <2>3. Holders(l) = [Holders(k) EXCEPT ![id] = NULL] /\ Waiters(l) = Waiters(k)
      BY <1>6, <1>7, <2>1, <2>2
    <2>4. LockMoves(Holders(k), Waiters(k), Holders(l), Waiters(l), p, id)
      BY <1>2, <1>5, <2>2, <2>3 DEF LockMoves
    <2> QED
      BY <1>1, <2>4 DEF FifoMove
  <1>10. ASSUME NEW f \in Entries \ {0},
                m.locks > 1 /\ wait # <<>> /\ l.queue[MutexQ(id)] = Tail(wait),
                k.proc[f].pid = Head(wait) /\ k.proc[f].pid # 0 /\ Live(k, f),
                l.mutex = [k.mutex EXCEPT ![id] =
                    [allocated |-> m.allocated, locks |-> m.locks - 1, owner |-> f]]
         PROVE  FifoMove(Holders(k), Waiters(k), Holders(l), Waiters(l))
    <2>1. /\ l.mutex[id].owner = f
          /\ \A n \in Mutexes \ {id} : l.mutex[n] = k.mutex[n]
      BY <1>4, <1>10
    <2>2. f # NULL /\ l.proc[f].pid = k.proc[f].pid
      BY <1>3, <1>10, EntryNumbers DEF Back
    <2>3. /\ Holders(l)[id] = Head(Waiters(k)[id]) /\ Waiters(l)[id] = Tail(Waiters(k)[id])
          /\ Waiters(k)[id] # <<>>
      BY <1>10, <2>1, <2>2 DEF Holders, Waiters
    <2>4. /\ Holders(l) = [Holders(k) EXCEPT ![id] = Head(Waiters(k)[id])]
          /\ Waiters(l) = [Waiters(k) EXCEPT ![id] = Tail(@)]
      BY <1>6, <1>7, <2>1, <2>3
    <2>5. LockMoves(Holders(k), Waiters(k), Holders(l), Waiters(l), p, id)
      BY <1>2, <1>5, <2>3, <2>4 DEF LockMoves
    <2> QED
      BY <1>1, <2>5 DEF FifoMove
  <1> QED
    BY <1>3, <1>8, <1>9, <1>10

\* The step of the state that a call's step on the context makes.
LEMMA CalledMoves ==
    ASSUME "alive" \in Discipline, KInv, NEW number, NEW k, NEW l, NEW rc,
           Called(number, k, l, rc),
           FifoMove(Holders(k), Waiters(k), Holders(l), Waiters(l))
    PROVE  FifoMove([m \in Mutexes |-> HolderPid(m)], [m \in Mutexes |-> queue[MutexQ(m)]],
                    [m \in Mutexes |-> HolderPid(m)'], [m \in Mutexes |-> queue'[MutexQ(m)]])
  <1>1. /\ k.mutex = mutexes /\ k.proc = proc_table /\ k.queue = queue
        /\ Committed(l) /\ Handled(k, l) /\ Calling(k, active_proc)
    BY KernelCtxFields DEF Called, SameScheduler, Tabled
  <1>2. Holders(k) = [m \in Mutexes |-> HolderPid(m)]
          /\ Waiters(k) = [m \in Mutexes |-> queue[MutexQ(m)]]
    BY <1>1 DEF Holders, Waiters, HolderPid
  <1>3. KernelOK(l)
    BY <1>1, UndefinedSafe DEF Handled
  <1>4. \A m \in Mutexes : l.mutex[m].owner # NULL =>
            l.mutex[m].owner \in Entries /\ Live(l, l.mutex[m].owner)
    BY <1>3 DEF KernelOK, Tables, OwnersOK, MutexEntry
  <1>5. /\ mutexes' = l.mutex /\ \A q \in WaitQueues : queue'[q] = l.queue[q]
        /\ \A e \in Entries : Live(l, e) => proc_table'[e].pid = l.proc[e].pid
    BY <1>1 DEF Committed
  <1>6. Holders(l) = [m \in Mutexes |-> HolderPid(m)']
    BY <1>4, <1>5 DEF Holders, HolderPid
  <1>7. Waiters(l) = [m \in Mutexes |-> queue'[MutexQ(m)]]
    BY <1>5, WaitNames DEF Waiters
  <1> QED
    BY <1>2, <1>6, <1>7

\* The counts and the processes that wait for them stay as they are.
SameCounts(k, l) ==
    /\ \A s \in Semaphores : l.sem[s].count = k.sem[s].count
    /\ \A s \in Semaphores : l.queue[SemQ(s)] = k.queue[SemQ(s)]

\* The semaphores that are allocated.
Made(k) == {s \in Semaphores : k.sem[s].allocated}

SameSems(k, l) == SameCounts(k, l) /\ Made(l) = Made(k)

\* Handlers that leave the locks alone, and those that leave the semaphores alone.
LEMMA UndefinedQuiet ==
    ASSUME NEW k, NEW e, Calling(k, e), NEW l, l \in {k, Undefined(k)}
    PROVE  SameOwners(k, l) /\ SameSems(k, l)
  <1>1. l = k \/ (SameTables(k, l) /\ l.proc = k.proc /\ l.queue = k.queue)
    BY UndefinedSafe
  <1> QED
    BY <1>1 DEF SameTables, SameOwners, SameSems, SameCounts, Made

LEMMA MutexInitQuiet ==
    ASSUME NEW k, NEW e, Calling(k, e),
           NEW id \in MutexIds(k), NEW l, l = kmutex_init(k, id).k
    PROVE  (OwnersOK(k) => SameOwners(k, l)) /\ SameSems(k, l)
  <1>1. \/ l \in {k, Undefined(k)}
        \/ MutexWritten(k, l, id, [k.mutex[id] EXCEPT !.allocated = TRUE],
                        IF k.mutexfree = <<>> THEN <<>> ELSE Tail(k.mutexfree))
    BY MutexInitResult
  <1>2. ASSUME NEW ids, MutexWritten(k, l, id, [k.mutex[id] EXCEPT !.allocated = TRUE], ids)
        PROVE  (OwnersOK(k) => SameOwners(k, l)) /\ SameSems(k, l)
    <2>1. /\ id \in Mutexes /\ SameScheduler(k, l) /\ KernelFields \subseteq DOMAIN l
          /\ l.mutex = [k.mutex EXCEPT ![id] = [k.mutex[id] EXCEPT !.allocated = TRUE]]
          /\ l.sem = k.sem /\ l.queue = k.queue
      BY <1>2 DEF MutexWritten, Tabled, SameScheduler
    <2>2. k.mutex \in [Mutexes -> MutexEntry] /\ KernelOK(k)
      BY DEF Calling, KernelOK, Tables
    <2>3. \A m \in Mutexes : l.mutex[m].owner = k.mutex[m].owner
      BY <2>1, <2>2 DEF MutexEntry
    <2>4. Back(k, l)
      BY <2>1, WrittenBack
    <2> QED
      BY <2>1, <2>2, <2>3, <2>4, BackOwners DEF SameSems, SameCounts, Made
  <1> QED
    BY <1>1, <1>2, UndefinedQuiet

LEMMA MutexDestroyQuiet ==
    ASSUME NEW k, NEW e, Calling(k, e),
           NEW id \in Mutexes, NEW l, l = kmutex_destroy(k, id).k
    PROVE  (OwnersOK(k) => SameOwners(k, l)) /\ SameSems(k, l)
  <1>1. \/ l = k
        \/ /\ k.mutex[id].locks = 0 /\ ~Full(k.mutexfree)
           /\ MutexWritten(k, l, id, FreeMutex, Append(k.mutexfree, id))
    BY MutexDestroyResult
  <1>2. CASE /\ k.mutex[id].locks = 0
             /\ MutexWritten(k, l, id, FreeMutex, Append(k.mutexfree, id))
    <2>1. /\ SameScheduler(k, l) /\ KernelFields \subseteq DOMAIN l
          /\ l.mutex = [k.mutex EXCEPT ![id] = FreeMutex]
          /\ l.sem = k.sem /\ l.queue = k.queue
      BY <1>2 DEF MutexWritten, Tabled, SameScheduler
    <2>2. /\ k.mutex \in [Mutexes -> MutexEntry] /\ KernelOK(k)
          /\ Counted(k.mutex[id], k.queue[MutexQ(id)])
          /\ Len(k.queue[MutexQ(id)]) \in Nat
      BY CallerFacts, SoundRead, WaitNames DEF Calling, KernelOK, Tables, LocksOK
    <2>3. k.mutex[id].owner = NULL
      BY <1>2, <2>2 DEF Counted
    <2>4. \A m \in Mutexes : l.mutex[m].owner = k.mutex[m].owner
      BY <2>1, <2>2, <2>3 DEF FreeMutex
    <2>5. Back(k, l)
      BY <2>1, WrittenBack
    <2> QED
      BY <2>1, <2>2, <2>4, <2>5, BackOwners DEF SameSems, SameCounts, Made
  <1>3. CASE l = k
    BY <1>3, UndefinedQuiet
  <1> QED
    BY <1>1, <1>2, <1>3

LEMMA LockQuiet ==
    ASSUME NEW k, NEW e, Calling(k, e), NEW id \in Mutexes, NEW l,
           Locked(k, l, e, id) \/ Unlocked(k, l, id)
    PROVE  SameSems(k, l)
  <1>1. l.sem = k.sem /\ \A q \in WaitQueues \ {MutexQ(id)} : l.queue[q] = k.queue[q]
    BY DEF Locked, Unlocked
  <1> QED
    BY <1>1, WaitNames DEF SameSems, SameCounts, Made

\* A semaphore's handler: the process table and the wait queues of the mutexes.
LEMMA SemQuiet ==
    ASSUME NEW k, NEW e, Calling(k, e), OwnersOK(k), NEW id \in Semaphores, NEW l, Back(k, l),
           l.mutex = k.mutex, \A q \in WaitQueues \ {SemQ(id)} : l.queue[q] = k.queue[q]
    PROVE  SameOwners(k, l)
  <1>1. \A m \in Mutexes : l.queue[MutexQ(m)] = k.queue[MutexQ(m)]
    BY WaitNames
  <1> QED
    BY <1>1, BackOwners DEF Calling

LEMMA SemWrittenQuiet ==
    ASSUME NEW k, NEW e, Calling(k, e), NEW id, NEW l, NEW entry, NEW ids,
           SemWritten(k, l, id, entry, ids)
    PROVE  /\ OwnersOK(k) => SameOwners(k, l)
           /\ l.queue = k.queue /\ id \in Semaphores
           /\ l.sem = [k.sem EXCEPT ![id] = entry]
  <1>1. /\ id \in Semaphores /\ SameScheduler(k, l) /\ KernelFields \subseteq DOMAIN l
        /\ l.mutex = k.mutex /\ l.queue = k.queue /\ l.sem = [k.sem EXCEPT ![id] = entry]
    BY DEF SemWritten, Tabled, SameScheduler
  <1>2. Back(k, l)
    BY <1>1, WrittenBack
  <1>3. OwnersOK(k) => SameOwners(k, l)
    BY <1>1, <1>2, SemQuiet
  <1> QED
    BY <1>1, <1>3

LEMMA SemInitQuiet ==
    ASSUME NEW k, NEW e, Calling(k, e), NEW id \in SemIds(k), NEW l, l = ksem_init(k, id).k
    PROVE  /\ OwnersOK(k) => SameOwners(k, l)
           /\ SameCounts(k, l)
           /\ Made(l) = Made(k) \/ (id \in Semaphores /\ Made(l) = Made(k) \cup {id})
  <1>1. \/ l \in {k, Undefined(k)}
        \/ SemWritten(k, l, id, [k.sem[id] EXCEPT !.allocated = TRUE],
                      IF k.semfree = <<>> THEN <<>> ELSE Tail(k.semfree))
    BY SemInitResult
  <1>2. ASSUME NEW ids, SemWritten(k, l, id, [k.sem[id] EXCEPT !.allocated = TRUE], ids)
        PROVE  /\ OwnersOK(k) => SameOwners(k, l)
               /\ SameCounts(k, l)
               /\ id \in Semaphores /\ Made(l) = Made(k) \cup {id}
    <2> DEFINE entry == [k.sem[id] EXCEPT !.allocated = TRUE]
    <2>a. SemWritten(k, l, id, entry, ids) /\ Calling(k, e)
      BY <1>2
    <2> HIDE DEF entry
    <2>1. /\ OwnersOK(k) => SameOwners(k, l)
          /\ l.queue = k.queue /\ id \in Semaphores
          /\ l.sem = [k.sem EXCEPT ![id] = entry]
      BY ONLY <2>a, SemWrittenQuiet
    <2>2. k.sem \in [Semaphores -> SemEntry]
      BY DEF Calling, KernelOK, Tables
    <2>3. SameCounts(k, l)
      BY <2>1, <2>2 DEF SameCounts, SemEntry, entry
    <2>4. entry.allocated
      BY <2>1, <2>2 DEF SemEntry, entry
    <2>5. Made(l) = Made(k) \cup {id}
      BY <2>1, <2>2, <2>4 DEF Made
    <2> QED
      BY <2>1, <2>3, <2>5
  <1> QED
    BY <1>1, <1>2, UndefinedQuiet DEF SameSems

LEMMA SemDestroyQuiet ==
    ASSUME NEW k, NEW e, Calling(k, e), NEW id \in Semaphores, NEW l, l = ksem_destroy(k, id).k,
           Lost = Entries \/ k.queue[SemQ(id)] = <<>>
    PROVE  /\ OwnersOK(k) => SameOwners(k, l)
           /\ k.queue[SemQ(id)] = <<>> => SameCounts(k, l)
           /\ Made(l) = Made(k) \/ Made(l) = Made(k) \ {id}
  <1>1. l = k \/ SemCleared(k, l, id)
    BY SemDestroyResult
  <1>2. CASE SemCleared(k, l, id)
    <2>1. /\ Back(k, l) /\ k.sem[id].count = 0
          /\ l.mutex = k.mutex /\ l.sem = [k.sem EXCEPT ![id] = FreeSem]
          /\ l.queue[SemQ(id)] = <<>>
          /\ \A q \in WaitQueues \ {SemQ(id)} : l.queue[q] = k.queue[q]
      BY <1>2 DEF SemCleared, Tabled
    <2>2. k.sem \in [Semaphores -> SemEntry]
      BY DEF Calling, KernelOK, Tables
    <2>3. \A s \in Semaphores : l.sem[s].count = k.sem[s].count
      BY <2>1, <2>2 DEF FreeSem
    <2>4. k.queue[SemQ(id)] = <<>> =>
             \A s \in Semaphores : l.queue[SemQ(s)] = k.queue[SemQ(s)]
      BY <2>1, WaitNames
    <2>5. Made(l) = Made(k) \ {id}
      BY <2>1, <2>2 DEF Made, FreeSem
    <2> QED
      BY <2>1, <2>3, <2>4, <2>5, SemQuiet DEF SameCounts
  <1>3. CASE l = k
    BY <1>3, UndefinedQuiet DEF SameSems
  <1> QED
    BY <1>1, <1>2, <1>3

LEMMA SemTakenQuiet ==
    ASSUME NEW k, NEW e, Calling(k, e), OwnersOK(k), NEW id \in Semaphores, NEW l,
           SemTaken(k, l, e, id) \/ SemGiven(k, l, id)
    PROVE  SameOwners(k, l)
  <1>1. \/ \E entry, ids : SemWritten(k, l, id, entry, ids)
        \/ /\ Back(k, l) /\ SameTables(k, l)
           /\ \A q \in WaitQueues \ {SemQ(id)} : l.queue[q] = k.queue[q]
    BY DEF SemTaken, SemGiven
  <1> QED
    BY <1>1, SemWrittenQuiet, SemQuiet DEF SameTables

LEMMA SleepQuiet ==
    ASSUME NEW k, NEW e, Calling(k, e), NEW l, Frame(k, l, {}), SameTables(k, l)
    PROVE  (OwnersOK(k) => SameOwners(k, l)) /\ SameSems(k, l)
  <1>1. /\ l.mutex = k.mutex /\ l.sem = k.sem
        /\ \A q \in WaitQueues : l.queue[q] = k.queue[q]
        /\ \A f \in Entries : Live(k, f) => l.proc[f].pid = k.proc[f].pid
    BY DEF Frame, SameTables
  <1>2. \A m \in Mutexes : k.mutex[m].owner \in Entries \cup {NULL}
    BY DEF Calling, KernelOK, Tables, MutexEntry
  <1>3. OwnersOK(k) => SameOwners(k, l)
    BY <1>1, <1>2, WaitNames DEF OwnersOK, SameOwners
  <1> QED
    BY <1>1, <1>3, WaitNames DEF SameSems, SameCounts, Made

LEMMA ExitQuiet ==
    ASSUME NEW k, NEW e, Calling(k, e), NEW l, OnlyGone(k, l, e)
    PROVE  /\ OwnersOK(k) /\ (\A m \in Mutexes : k.mutex[m].owner # e) => SameOwners(k, l)
           /\ SameSems(k, l)
  <1>1. /\ l.mutex = k.mutex /\ l.sem = k.sem
        /\ \A q \in WaitQueues : l.queue[q] = k.queue[q]
        /\ \A f \in Entries \ {e} : Live(k, f) => l.proc[f].pid = k.proc[f].pid
    BY DEF OnlyGone
  <1>2. \A m \in Mutexes : k.mutex[m].owner \in Entries \cup {NULL}
    BY DEF Calling, KernelOK, Tables, MutexEntry
  <1>3. OwnersOK(k) /\ (\A m \in Mutexes : k.mutex[m].owner # e) => SameOwners(k, l)
    BY <1>1, <1>2, WaitNames DEF OwnersOK, SameOwners
  <1> QED
    BY <1>1, <1>3, WaitNames DEF SameSems, SameCounts, Made

\* What a call or an interrupt does to the locks, for callers that follow the rules.
LEMMA KernelMovesLocks ==
    ASSUME "owner" \in Discipline, "alive" \in Discipline, KInv, [KernelNext]_kvars
    PROVE  FifoMove([m \in Mutexes |-> HolderPid(m)], [m \in Mutexes |-> queue[MutexQ(m)]],
                    [m \in Mutexes |-> HolderPid(m)'], [m \in Mutexes |-> queue'[MutexQ(m)]])
  <1> DEFINE Moves == FifoMove([m \in Mutexes |-> HolderPid(m)],
                               [m \in Mutexes |-> queue[MutexQ(m)]],
                               [m \in Mutexes |-> HolderPid(m)'],
                               [m \in Mutexes |-> queue'[MutexQ(m)]])
  <1>a. ASSUME NEW number, NEW k, NEW l, NEW rc, Called(number, k, l, rc),
               FifoMove(Holders(k), Waiters(k), Holders(l), Waiters(l))
        PROVE  Moves
    BY <1>a, CalledMoves
  <1>b. ASSUME NEW number, NEW k, NEW l, NEW rc, Called(number, k, l, rc), SameOwners(k, l)
        PROVE  Moves
    <2>1. FifoMove(Holders(k), Waiters(k), Holders(l), Waiters(l))
      BY <1>b, SameOwnersStay
    <2> QED
      BY <1>b, <2>1, CalledMoves
  <1>c. ASSUME NEW number, NEW k, NEW l, NEW rc, Called(number, k, l, rc)
        PROVE  /\ Calling(k, active_proc) /\ OwnersOK(k) /\ k.next <= MAX_PIDS
               /\ k.mutex = mutexes
    <2>1. /\ Calling(k, active_proc) /\ SameScheduler(KernelCtx, k)
          /\ k.mutex = mutexes
      BY <1>c DEF Called, Tabled
    <2> QED
      BY <2>1, KernelCtxFields DEF Calling, KernelOK, KInv, SameScheduler
  <1> SUFFICES Moves
    OBVIOUS
  <1> HIDE DEF Moves
  <1>1. CASE Interrupt
    <2>1. /\ mutexes' = mutexes /\ \A q \in WaitQueues : queue'[q] = queue[q]
          /\ \A m \in Mutexes : mutexes[m].owner # NULL =>
                 proc_table'[mutexes[m].owner].pid = proc_table[mutexes[m].owner].pid
      BY <1>1, InterruptAction
    <2>2. \A m \in Mutexes : HolderPid(m)' = HolderPid(m) /\ queue'[MutexQ(m)] = queue[MutexQ(m)]
      BY <2>1, WaitNames DEF HolderPid
    <2> QED
      BY <2>2 DEF FifoMove, Moves
  <1>2. ASSUME NEW seconds \in SLEEP_SECONDS, CallSleep(seconds) PROVE Moves
    <2>1. PICK k, l : Called(6, k, l, 0) /\ Frame(k, l, {}) /\ SameTables(k, l)
      BY <1>2, SleepAction
    <2>2. SameOwners(k, l)
      BY <1>c, <2>1, SleepQuiet
    <2> QED
      BY <1>b, <2>1, <2>2
  <1>3. CASE CallExit
    <2>1. PICK k, l : Called(7, k, l, 0) /\ OnlyGone(k, l, active_proc)
      BY <1>3, ExitAction
    <2>2. Calling(k, active_proc) /\ OwnersOK(k) /\ k.mutex = mutexes
      BY <1>c, <2>1
    <2>3. \A m \in Mutexes : k.mutex[m].owner # active_proc
      BY <1>3, <2>2 DEF CallExit, Respects, OwnsNothing, Owns
    <2>4. SameOwners(k, l)
      BY <2>1, <2>2, <2>3, ExitQuiet
    <2> QED
      BY <1>b, <2>1, <2>4
  <1>4. CASE CallMutexInit
    <2>1. PICK k, l, rc, id : /\ Called(10, k, l, rc) /\ id \in MutexIds(k)
                              /\ l = kmutex_init(k, id).k
      BY <1>4, MutexInitAction
    <2>2. SameOwners(k, l)
      BY <1>c, <2>1, MutexInitQuiet
    <2>3. Called(10, k, l, rc)
      BY <2>1
    <2> QED
      BY <1>b, <2>2, <2>3
  <1>5. ASSUME NEW id \in MutexArgs, CallMutexDestroy(id) PROVE Moves
    <2>1. PICK k, l, rc :
             /\ Called(11, k, l, rc)
             /\ l \in {k, Undefined(k)} \/ (id \in Mutexes /\ l = kmutex_destroy(k, id).k)
      BY <1>5, MutexDestroyAction
    <2>2. Calling(k, active_proc) /\ OwnersOK(k)
      BY <1>c, <2>1
    <2>3. SameOwners(k, l)
      BY <2>1, <2>2, MutexDestroyQuiet, UndefinedQuiet
    <2> QED
      BY <1>b, <2>1, <2>3
  <1>6. ASSUME NEW id \in MutexArgs, CallMutexLock(id) PROVE Moves
    <2>1. PICK k, l, rc :
             /\ Called(12, k, l, rc)
             /\ l \in {k, Undefined(k)} \/ (id \in Mutexes /\ l = kmutex_lock(k, id).k)
      BY <1>6, LockAction, KernelAssumption
    <2>2. Calling(k, active_proc) /\ OwnersOK(k) /\ k.next <= MAX_PIDS /\ k.mutex = mutexes
      BY <1>c, <2>1
    <2>3. CASE l \in {k, Undefined(k)}
      BY <1>b, <2>1, <2>2, <2>3, UndefinedQuiet
    <2>4. CASE id \in Mutexes /\ l = kmutex_lock(k, id).k
      <3>1. Locked(k, l, active_proc, id)
        BY <2>2, <2>4, LockResult
      <3>2. k.mutex[id].owner # active_proc
        BY <1>6, <2>2, <2>4 DEF CallMutexLock, Respects, Owns
      <3>3. FifoMove(Holders(k), Waiters(k), Holders(l), Waiters(l))
        BY <2>2, <2>4, <3>1, <3>2, LockMove
      <3> QED
        BY <1>a, <2>1, <3>3
    <2> QED
      BY <2>1, <2>3, <2>4
  <1>7. ASSUME NEW id \in MutexArgs, CallMutexUnlock(id) PROVE Moves
    <2>1. PICK k, l, rc :
             /\ Called(13, k, l, rc)
             /\ l \in {k, Undefined(k)} \/ (id \in Mutexes /\ l = kmutex_unlock(k, id).k)
      BY <1>7, UnlockAction, KernelAssumption
    <2>2. Calling(k, active_proc) /\ OwnersOK(k) /\ k.next <= MAX_PIDS /\ k.mutex = mutexes
      BY <1>c, <2>1
    <2>3. CASE l \in {k, Undefined(k)}
      BY <1>b, <2>1, <2>2, <2>3, UndefinedQuiet
    <2>4. CASE id \in Mutexes /\ l = kmutex_unlock(k, id).k
      <3>1. Unlocked(k, l, id)
        BY <2>2, <2>4, UnlockResult
      <3>2. k.mutex[id].owner = active_proc
        BY <1>7, <2>2, <2>4 DEF CallMutexUnlock, Respects, Owns
      <3>3. FifoMove(Holders(k), Waiters(k), Holders(l), Waiters(l))
        BY <2>2, <2>4, <3>1, <3>2, UnlockMove
      <3> QED
        BY <1>a, <2>1, <3>3
    <2> QED
      BY <2>1, <2>3, <2>4
  <1>8. CASE CallSemInit
    <2>1. PICK k, l, rc, id : /\ Called(14, k, l, rc) /\ id \in SemIds(k)
                              /\ l = ksem_init(k, id).k
      BY <1>8, SemInitAction
    <2>2. SameOwners(k, l)
      BY <1>c, <2>1, SemInitQuiet
    <2>3. Called(14, k, l, rc)
      BY <2>1
    <2> QED
      BY <1>b, <2>2, <2>3
  <1>9. ASSUME NEW id \in SemArgs, CallSemDestroy(id) PROVE Moves
    <2>1. PICK k, l, rc :
             /\ Called(15, k, l, rc)
             /\ \/ l \in {k, Undefined(k)}
                \/ /\ id \in Semaphores /\ l = ksem_destroy(k, id).k
                   /\ Lost = Entries \/ k.queue[SemQ(id)] = <<>>
      BY <1>9, SemDestroyAction
    <2>2. Calling(k, active_proc) /\ OwnersOK(k)
      BY <1>c, <2>1
    <2>3. SameOwners(k, l)
      BY <2>1, <2>2, SemDestroyQuiet, UndefinedQuiet
    <2> QED
      BY <1>b, <2>1, <2>3
  <1>10. ASSUME NEW id \in SemArgs, CallSemWait(id) PROVE Moves
    <2>1. PICK k, l, rc :
             /\ Called(16, k, l, rc)
             /\ l \in {k, Undefined(k)} \/ (id \in Semaphores /\ l = ksem_wait(k, id).k)
      BY <1>10, SemWaitAction, KernelAssumption
    <2>2. Calling(k, active_proc) /\ OwnersOK(k)
      BY <1>c, <2>1
    <2>3. l \in {k, Undefined(k)} \/ (id \in Semaphores /\ SemTaken(k, l, active_proc, id))
      BY <2>1, <2>2, SemWaitResult
    <2>4. SameOwners(k, l)
      BY <2>2, <2>3, SemTakenQuiet, UndefinedQuiet
    <2> QED
      BY <1>b, <2>1, <2>4
  <1>11. ASSUME NEW id \in SemArgs, CallSemPost(id) PROVE Moves
    <2>1. PICK k, l, rc :
             /\ Called(17, k, l, rc)
             /\ l \in {k, Undefined(k)} \/ (id \in Semaphores /\ l = ksem_post(k, id).k)
      BY <1>11, SemPostAction, KernelAssumption
    <2>2. Calling(k, active_proc) /\ OwnersOK(k)
      BY <1>c, <2>1
    <2>3. l \in {k, Undefined(k)} \/ (id \in Semaphores /\ SemGiven(k, l, id))
      BY <2>1, <2>2, SemPostResult
    <2>4. SameOwners(k, l)
      BY <2>2, <2>3, SemTakenQuiet, UndefinedQuiet
    <2> QED
      BY <1>b, <2>1, <2>4
  <1>12. CASE UNCHANGED kvars
    <2>1. \A m \in Mutexes : HolderPid(m)' = HolderPid(m) /\ queue'[MutexQ(m)] = queue[MutexQ(m)]
      BY <1>12 DEF kvars, vars, mutexVars, HolderPid
    <2> QED
      BY <2>1 DEF FifoMove, Moves
  <1> QED
    BY <1>1, <1>2, <1>3, <1>4, <1>5, <1>6, <1>7, <1>8, <1>9, <1>10, <1>11, <1>12
       DEF KernelNext

\* The mutexes implement FIFO locks for processes that unlock only what they own, do
\* not lock again what they own, and neither exit nor are killed owning a mutex: at
\* most one holder, waiting processes do nothing, a release hands the lock to the
\* process that has waited longest, and nothing else in the kernel touches a lock.
THEOREM MutexesAreFifoLocks ==
    ASSUME "owner" \in Discipline, "alive" \in Discipline
    PROVE  KernelSpec => ImplementsFifoLock
  <1>1. KernelInit => Lock!LockInit
    <2> SUFFICES ASSUME KernelInit PROVE Lock!LockInit
      OBVIOUS
    <2>1. /\ mutexes = [m \in Mutexes |-> FreeMutex]
          /\ \A q \in WaitQueues : queue[q] = <<>>
      BY NameAssumption DEF KernelInit, kmutexes_init, Init, Queues
    <2>2. \A m \in Mutexes : HolderPid(m) = NULL /\ queue[MutexQ(m)] = <<>>
      BY <2>1, WaitNames DEF HolderPid, FreeMutex
    <2> QED
      BY <2>2 DEF Lock!LockInit
  <1>2. KInv /\ [KernelNext]_kvars => [Lock!LockNext]_(Lock!lockVars)
    <2> SUFFICES ASSUME KInv, [KernelNext]_kvars PROVE [Lock!LockNext]_(Lock!lockVars)
      OBVIOUS
    <2> DEFINE h == [m \in Mutexes |-> HolderPid(m)]
               w == [m \in Mutexes |-> queue[MutexQ(m)]]
               i == [m \in Mutexes |-> HolderPid(m)']
               x == [m \in Mutexes |-> queue'[MutexQ(m)]]
    <2>1. FifoMove(h, w, i, x)
      BY KernelMovesLocks
    <2>2. /\ h' = i /\ w' = x
          /\ [m \in Mutexes |-> HolderPid(m)] = h /\ [m \in Mutexes |-> queue[MutexQ(m)]] = w
          /\ [m \in Mutexes |-> HolderPid(m)]' = i /\ [m \in Mutexes |-> queue[MutexQ(m)]]' = x
      OBVIOUS
    <2>3. CASE i = h /\ x = w
      BY <2>3 DEF Lock!lockVars
    <2>4. ASSUME NEW p \in 1 .. MAX_PIDS, NEW m \in Mutexes, LockMoves(h, w, i, x, p, m)
          PROVE  Lock!LockNext
      <3>1. ~Lock!Waits(p)
        BY <2>4 DEF LockMoves, Lock!Waits
      <3>2. Lock!Acquire(p, m) \/ Lock!Wait(p, m) \/ Lock!Release(p, m)
        BY <2>4, <3>1 DEF LockMoves, Lock!Acquire, Lock!Wait, Lock!Release
      <3> QED
        BY <3>2 DEF Lock!LockNext
    <2> QED
      BY <2>1, <2>3, <2>4 DEF FifoMove
  <1> QED
    BY <1>1, <1>2, KInvAlways, PTL DEF KernelSpec, ImplementsFifoLock, Lock!LockSpec

-----------------------------------------------------------------------------
(***************************************************************************)
(* The semaphores are counting semaphores for processes that follow the    *)
(* rules "allocated" and "nowaiters".                                      *)
(***************************************************************************)

Counts(k) == [s \in Semaphores |-> k.sem[s].count]

SemWaiters(k) == [s \in Semaphores |-> k.queue[SemQ(s)]]

\* A step of CountingSemaphore: p takes one or joins the queue; one is given.
TakeMoves(v, w, i, x, p, s) ==
    /\ \A n \in Semaphores : \A j \in DOMAIN w[n] : w[n][j] # p
    /\ \/ v[s] > 0 /\ i = [v EXCEPT ![s] = @ - 1] /\ x = w
       \/ v[s] = 0 /\ x = [w EXCEPT ![s] = Append(@, p)] /\ i = v

GiveMoves(v, w, i, x, s) ==
    \/ w[s] = <<>> /\ i = [v EXCEPT ![s] = @ + 1] /\ x = w
    \/ w[s] # <<>> /\ x = [w EXCEPT ![s] = Tail(@)] /\ i = v

\* A semaphore is made, or one that nobody waits for is removed.
MadeMoves(m, w, j, s) ==
    \/ s \notin m /\ j = m \cup {s}
    \/ s \in m /\ w[s] = <<>> /\ j = m \ {s}

CountMove(m, v, w, j, i, x) ==
    \/ j = m /\ i = v /\ x = w
    \/ i = v /\ x = w /\ \E s \in Semaphores : MadeMoves(m, w, j, s)
    \/ j = m /\ \E s \in Semaphores : s \in m /\ GiveMoves(v, w, i, x, s)
    \/ j = m /\ \E s \in Semaphores, p \in 1 .. MAX_PIDS :
                   s \in m /\ TakeMoves(v, w, i, x, p, s)

CountsMove(k, l) ==
    CountMove(Made(k), Counts(k), SemWaiters(k), Made(l), Counts(l), SemWaiters(l))

LEMMA SameCountsStay ==
    ASSUME NEW k, NEW l, SameSems(k, l)
    PROVE  CountsMove(k, l)
  BY DEF SameSems, SameCounts, Counts, SemWaiters, CountMove, CountsMove

\* Another entry of the table, or another queue, of one semaphore.
LEMMA CountsWritten ==
    ASSUME NEW k, Tables(k), NEW l, NEW id \in Semaphores, NEW r,
           l.sem = [k.sem EXCEPT ![id] = r], l.queue = k.queue,
           r.allocated = k.sem[id].allocated
    PROVE  /\ Counts(l) = [Counts(k) EXCEPT ![id] = r.count]
           /\ SemWaiters(l) = SemWaiters(k) /\ Made(l) = Made(k)
  BY DEF Tables, Counts, SemWaiters, Made

\* Only the queue of one semaphore differs.
Requeued(k, l, id, q) ==
    /\ l.sem = k.sem /\ l.queue[SemQ(id)] = q
    /\ \A r \in WaitQueues \ {SemQ(id)} : l.queue[r] = k.queue[r]

OneWaitingMoved(k, l, id, q) ==
    /\ Made(l) = Made(k) /\ Counts(l) = Counts(k)
    /\ SemWaiters(l) = [SemWaiters(k) EXCEPT ![id] = q]

LEMMA CountsQueued ==
    ASSUME NEW k, NEW l, NEW id \in Semaphores, NEW q, Requeued(k, l, id, q)
    PROVE  OneWaitingMoved(k, l, id, q)
  BY WaitNames DEF Requeued, Made, Counts, SemWaiters, OneWaitingMoved

LEMMA MakeMove ==
    ASSUME NEW k, NEW l, SameCounts(k, l), NEW id,
           Made(l) = Made(k) \/ (id \in Semaphores /\ Made(l) = Made(k) \cup {id})
    PROVE  CountsMove(k, l)
  <1>1. Counts(l) = Counts(k) /\ SemWaiters(l) = SemWaiters(k)
    BY DEF SameCounts, Counts, SemWaiters
  <1>2. Made(l) = Made(k) \/ (id \in Semaphores /\ MadeMoves(Made(k), SemWaiters(k), Made(l), id))
    BY DEF MadeMoves
  <1> QED
    BY <1>1, <1>2 DEF CountMove, CountsMove

LEMMA RemoveMove ==
    ASSUME NEW k, NEW l, SameCounts(k, l), NEW id \in Semaphores, k.queue[SemQ(id)] = <<>>,
           Made(l) = Made(k) \/ Made(l) = Made(k) \ {id}
    PROVE  CountsMove(k, l)
  <1>1. /\ Counts(l) = Counts(k) /\ SemWaiters(l) = SemWaiters(k)
        /\ SemWaiters(k)[id] = <<>>
    BY DEF SameCounts, Counts, SemWaiters
  <1>2. Made(l) = Made(k) \/ MadeMoves(Made(k), SemWaiters(k), Made(l), id)
    BY <1>1 DEF MadeMoves
  <1> QED
    BY <1>1, <1>2 DEF CountMove, CountsMove

LEMMA TakeMove ==
    ASSUME NEW k, NEW e, Calling(k, e), k.next <= MAX_PIDS, NEW id \in Made(k),
           NEW l, SemTaken(k, l, e, id)
    PROVE  CountsMove(k, l)
  <1> DEFINE p == k.proc[e].pid
  <1> id \in Semaphores
    BY DEF Made
  <1>1. /\ p \in 1 .. MAX_PIDS
        /\ \A q \in Queues : \A j \in DOMAIN k.queue[q] : k.queue[q][j] # p
    BY CallerProcess
  <1>2. \A n \in Semaphores : \A j \in DOMAIN SemWaiters(k)[n] : SemWaiters(k)[n][j] # p
    BY <1>1, WaitNames DEF SemWaiters
  <1>3. /\ Tables(k) /\ k.sem[id] \in SemEntry
        /\ Counts(k)[id] = k.sem[id].count /\ SemWaiters(k)[id] = k.queue[SemQ(id)]
    BY DEF Calling, KernelOK, Tables, Counts, SemWaiters
  <1>4. CASE /\ k.sem[id].count > 0
             /\ SemWritten(k, l, id, [k.sem[id] EXCEPT !.count = @ - 1], k.semfree)
    <2> DEFINE r == [k.sem[id] EXCEPT !.count = @ - 1]
    <2>1. l.sem = [k.sem EXCEPT ![id] = r] /\ l.queue = k.queue
      BY <1>4 DEF SemWritten, Tabled, SameScheduler
    <2>2. r.count = k.sem[id].count - 1 /\ r.allocated = k.sem[id].allocated
      BY <1>3 DEF SemEntry
    <2> HIDE DEF r
    <2>3. /\ Counts(l) = [Counts(k) EXCEPT ![id] = r.count]
          /\ SemWaiters(l) = SemWaiters(k) /\ Made(l) = Made(k)
      BY <1>3, <2>1, <2>2, CountsWritten
    <2>4. TakeMoves(Counts(k), SemWaiters(k), Counts(l), SemWaiters(l), p, id)
      BY <1>2, <1>3, <1>4, <2>2, <2>3 DEF TakeMoves
    <2> QED
      BY <1>1, <2>3, <2>4 DEF CountMove, CountsMove
  <1>5. CASE /\ k.sem[id].count = 0 /\ SameTables(k, l)
             /\ l.queue[SemQ(id)] = Append(k.queue[SemQ(id)], p)
             /\ \A q \in WaitQueues \ {SemQ(id)} : l.queue[q] = k.queue[q]
    <2> DEFINE a == Append(k.queue[SemQ(id)], p)
    <2>1. Requeued(k, l, id, a)
      BY <1>5 DEF SameTables, Requeued
    <2> HIDE DEF a
    <2>2. OneWaitingMoved(k, l, id, a)
      BY <2>1, CountsQueued
    <2>3. TakeMoves(Counts(k), SemWaiters(k), Counts(l), SemWaiters(l), p, id)
      BY <1>2, <1>3, <1>5, <2>2 DEF TakeMoves, OneWaitingMoved, a
    <2> QED
      BY <1>1, <2>2, <2>3 DEF CountMove, CountsMove, OneWaitingMoved
  <1> QED
    BY <1>4, <1>5 DEF SemTaken

LEMMA GiveMove ==
    ASSUME NEW k, NEW e, Calling(k, e), NEW id \in Made(k), NEW l, SemGiven(k, l, id)
    PROVE  CountsMove(k, l)
  <1> id \in Semaphores
    BY DEF Made
  <1>3. /\ Tables(k) /\ k.sem[id] \in SemEntry
        /\ Counts(k)[id] = k.sem[id].count /\ SemWaiters(k)[id] = k.queue[SemQ(id)]
    BY DEF Calling, KernelOK, Tables, Counts, SemWaiters
  <1>4. CASE /\ k.queue[SemQ(id)] = <<>>
             /\ SemWritten(k, l, id, [k.sem[id] EXCEPT !.count = @ + 1], k.semfree)
    <2> DEFINE r == [k.sem[id] EXCEPT !.count = @ + 1]
    <2>1. l.sem = [k.sem EXCEPT ![id] = r] /\ l.queue = k.queue
      BY <1>4 DEF SemWritten, Tabled, SameScheduler
    <2>2. r.count = k.sem[id].count + 1 /\ r.allocated = k.sem[id].allocated
      BY <1>3 DEF SemEntry
    <2> HIDE DEF r
    <2>3. /\ Counts(l) = [Counts(k) EXCEPT ![id] = r.count]
          /\ SemWaiters(l) = SemWaiters(k) /\ Made(l) = Made(k)
      BY <1>3, <2>1, <2>2, CountsWritten
    <2>4. GiveMoves(Counts(k), SemWaiters(k), Counts(l), SemWaiters(l), id)
      BY <1>3, <1>4, <2>2, <2>3 DEF GiveMoves
    <2> QED
      BY <2>3, <2>4 DEF CountMove, CountsMove
  <1>5. CASE /\ k.queue[SemQ(id)] # <<>> /\ SameTables(k, l)
             /\ l.queue[SemQ(id)] = Tail(k.queue[SemQ(id)])
             /\ \A q \in WaitQueues \ {SemQ(id)} : l.queue[q] = k.queue[q]
    <2> DEFINE a == Tail(k.queue[SemQ(id)])
    <2>1. Requeued(k, l, id, a)
      BY <1>5 DEF SameTables, Requeued
    <2> HIDE DEF a
    <2>2. OneWaitingMoved(k, l, id, a)
      BY <2>1, CountsQueued
    <2>3. GiveMoves(Counts(k), SemWaiters(k), Counts(l), SemWaiters(l), id)
      BY <1>3, <1>5, <2>2 DEF GiveMoves, OneWaitingMoved, a
    <2> QED
      BY <2>2, <2>3 DEF CountMove, CountsMove, OneWaitingMoved
  <1> QED
    BY <1>4, <1>5 DEF SemGiven

LEMMA CalledCounts ==
    ASSUME KInv, NEW number, NEW k, NEW l, NEW rc, Called(number, k, l, rc),
           CountsMove(k, l)
    PROVE  CountMove({s \in Semaphores : semaphores[s].allocated},
                     [s \in Semaphores |-> semaphores[s].count],
                     [s \in Semaphores |-> queue[SemQ(s)]],
                     {s \in Semaphores : semaphores'[s].allocated},
                     [s \in Semaphores |-> semaphores'[s].count],
                     [s \in Semaphores |-> queue'[SemQ(s)]])
  <1>1. k.sem = semaphores /\ k.queue = queue /\ Committed(l)
    BY KernelCtxFields DEF Called, SameScheduler, Tabled
  <1>2. /\ Counts(k) = [s \in Semaphores |-> semaphores[s].count]
        /\ SemWaiters(k) = [s \in Semaphores |-> queue[SemQ(s)]]
        /\ Made(k) = {s \in Semaphores : semaphores[s].allocated}
    BY <1>1 DEF Counts, SemWaiters, Made
  <1>3. /\ Counts(l) = [s \in Semaphores |-> semaphores'[s].count]
        /\ SemWaiters(l) = [s \in Semaphores |-> queue'[SemQ(s)]]
        /\ Made(l) = {s \in Semaphores : semaphores'[s].allocated}
    BY <1>1, WaitNames DEF Counts, SemWaiters, Made, Committed
  <1> QED
    BY <1>2, <1>3 DEF CountsMove

LEMMA KernelMovesCounts ==
    ASSUME "nowaiters" \in Discipline, "allocated" \in Discipline, KInv, [KernelNext]_kvars
    PROVE  CountMove({s \in Semaphores : semaphores[s].allocated},
                     [s \in Semaphores |-> semaphores[s].count],
                     [s \in Semaphores |-> queue[SemQ(s)]],
                     {s \in Semaphores : semaphores'[s].allocated},
                     [s \in Semaphores |-> semaphores'[s].count],
                     [s \in Semaphores |-> queue'[SemQ(s)]])
  <1> DEFINE Moves == CountMove({s \in Semaphores : semaphores[s].allocated},
                                [s \in Semaphores |-> semaphores[s].count],
                                [s \in Semaphores |-> queue[SemQ(s)]],
                                {s \in Semaphores : semaphores'[s].allocated},
                                [s \in Semaphores |-> semaphores'[s].count],
                                [s \in Semaphores |-> queue'[SemQ(s)]])
  <1> SUFFICES Moves
    OBVIOUS
  <1>a. ASSUME NEW number, NEW k, NEW l, NEW rc, Called(number, k, l, rc),
               CountsMove(k, l)
        PROVE  Moves
    BY <1>a, CalledCounts
  <1>b. ASSUME NEW number, NEW k, NEW l, NEW rc, Called(number, k, l, rc), SameSems(k, l)
        PROVE  Moves
    <2>1. CountsMove(k, l)
      BY <1>b, SameCountsStay
    <2> QED
      BY <1>b, <2>1, CalledCounts
  <1>c. ASSUME NEW number, NEW k, NEW l, NEW rc, Called(number, k, l, rc)
        PROVE  /\ Calling(k, active_proc) /\ k.next <= MAX_PIDS
               /\ k.queue = queue /\ k.sem = semaphores
    <2>1. Calling(k, active_proc) /\ SameScheduler(KernelCtx, k)
      BY <1>c DEF Called
    <2>2. k.sem = semaphores
      BY <1>c, KernelCtxFields DEF Called, Tabled
    <2> QED
      BY <2>1, <2>2, KernelCtxFields DEF KInv, SameScheduler
  <1> HIDE DEF Moves
  <1>1. CASE Interrupt
    <2>1. semaphores' = semaphores /\ \A q \in WaitQueues : queue'[q] = queue[q]
      BY <1>1, InterruptAction
    <2> QED
      BY <2>1, WaitNames DEF CountMove, Moves
  <1>2. ASSUME NEW seconds \in SLEEP_SECONDS, CallSleep(seconds) PROVE Moves
    <2>1. PICK k, l : Called(6, k, l, 0) /\ Frame(k, l, {}) /\ SameTables(k, l)
      BY <1>2, SleepAction
    <2>2. SameSems(k, l)
      BY <1>c, <2>1, SleepQuiet
    <2> QED
      BY <1>b, <2>1, <2>2
  <1>3. CASE CallExit
    <2>1. PICK k, l : Called(7, k, l, 0) /\ OnlyGone(k, l, active_proc)
      BY <1>3, ExitAction
    <2>2. SameSems(k, l)
      BY <1>c, <2>1, ExitQuiet
    <2> QED
      BY <1>b, <2>1, <2>2
  <1>4. CASE CallMutexInit
    <2>1. PICK k, l, rc, id : /\ Called(10, k, l, rc) /\ id \in MutexIds(k)
                              /\ l = kmutex_init(k, id).k
      BY <1>4, MutexInitAction
    <2>2. SameSems(k, l)
      BY <1>c, <2>1, MutexInitQuiet
    <2>3. Called(10, k, l, rc)
      BY <2>1
    <2> QED
      BY <1>b, <2>2, <2>3
  <1>5. ASSUME NEW id \in MutexArgs, CallMutexDestroy(id) PROVE Moves
    <2>1. PICK k, l, rc :
             /\ Called(11, k, l, rc)
             /\ l \in {k, Undefined(k)} \/ (id \in Mutexes /\ l = kmutex_destroy(k, id).k)
      BY <1>5, MutexDestroyAction
    <2>2. Calling(k, active_proc)
      BY <1>c, <2>1
    <2>3. SameSems(k, l)
      BY <2>1, <2>2, MutexDestroyQuiet, UndefinedQuiet
    <2> QED
      BY <1>b, <2>1, <2>3
  <1>6. ASSUME NEW id \in MutexArgs, CallMutexLock(id) PROVE Moves
    <2>1. PICK k, l, rc :
             /\ Called(12, k, l, rc)
             /\ l \in {k, Undefined(k)} \/ (id \in Mutexes /\ l = kmutex_lock(k, id).k)
      BY <1>6, LockAction, KernelAssumption
    <2>2. Calling(k, active_proc)
      BY <1>c, <2>1
    <2>3. l \in {k, Undefined(k)} \/ (id \in Mutexes /\ Locked(k, l, active_proc, id))
      BY <2>1, <2>2, LockResult
    <2>4. SameSems(k, l)
      BY <2>2, <2>3, LockQuiet, UndefinedQuiet
    <2> QED
      BY <1>b, <2>1, <2>4
  <1>7. ASSUME NEW id \in MutexArgs, CallMutexUnlock(id) PROVE Moves
    <2>1. PICK k, l, rc :
             /\ Called(13, k, l, rc)
             /\ l \in {k, Undefined(k)} \/ (id \in Mutexes /\ l = kmutex_unlock(k, id).k)
      BY <1>7, UnlockAction, KernelAssumption
    <2>2. Calling(k, active_proc)
      BY <1>c, <2>1
    <2>3. l \in {k, Undefined(k)} \/ (id \in Mutexes /\ Unlocked(k, l, id))
      BY <2>1, <2>2, UnlockResult
    <2>4. SameSems(k, l)
      BY <2>2, <2>3, LockQuiet, UndefinedQuiet
    <2> QED
      BY <1>b, <2>1, <2>4
  <1>8. CASE CallSemInit
    <2>1. PICK k, l, rc, id : /\ Called(14, k, l, rc) /\ id \in SemIds(k)
                              /\ l = ksem_init(k, id).k
      BY <1>8, SemInitAction
    <2>2. /\ SameCounts(k, l)
          /\ Made(l) = Made(k) \/ (id \in Semaphores /\ Made(l) = Made(k) \cup {id})
      BY <1>c, <2>1, SemInitQuiet
    <2>3. CountsMove(k, l)
      BY <2>2, MakeMove
    <2>4. Called(14, k, l, rc)
      BY <2>1
    <2> QED
      BY <1>a, <2>3, <2>4
  <1>9. ASSUME NEW id \in SemArgs, CallSemDestroy(id) PROVE Moves
    <2>1. PICK k, l, rc :
             /\ Called(15, k, l, rc)
             /\ \/ l \in {k, Undefined(k)}
                \/ /\ id \in Semaphores /\ l = ksem_destroy(k, id).k
                   /\ Lost = Entries \/ k.queue[SemQ(id)] = <<>>
      BY <1>9, SemDestroyAction
    <2>2. Calling(k, active_proc) /\ k.queue = queue
      BY <1>c, <2>1
    <2>3. id \in Semaphores => k.queue[SemQ(id)] = <<>>
      BY <1>9, <2>2 DEF CallSemDestroy, Respects
    <2>4. CASE l \in {k, Undefined(k)}
      BY <1>b, <2>1, <2>2, <2>4, UndefinedQuiet
    <2>5. CASE /\ id \in Semaphores /\ l = ksem_destroy(k, id).k
               /\ Lost = Entries \/ k.queue[SemQ(id)] = <<>>
      <3>1. SameCounts(k, l) /\ (Made(l) = Made(k) \/ Made(l) = Made(k) \ {id})
        BY <2>2, <2>3, <2>5, SemDestroyQuiet
      <3>2. CountsMove(k, l)
        BY <2>3, <2>5, <3>1, RemoveMove
      <3> QED
        BY <1>a, <2>1, <3>2
    <2> QED
      BY <2>1, <2>4, <2>5
  <1>10. ASSUME NEW id \in SemArgs, CallSemWait(id) PROVE Moves
    <2>1. PICK k, l, rc :
             /\ Called(16, k, l, rc)
             /\ l \in {k, Undefined(k)} \/ (id \in Semaphores /\ l = ksem_wait(k, id).k)
      BY <1>10, SemWaitAction, KernelAssumption
    <2>2. Calling(k, active_proc) /\ k.next <= MAX_PIDS /\ k.sem = semaphores
      BY <1>c, <2>1
    <2>a. id \in Made(k)
      BY <1>10, <2>2 DEF CallSemWait, Respects, SemAllocated, Made
    <2>3. CASE l \in {k, Undefined(k)}
      BY <1>b, <2>1, <2>2, <2>3, UndefinedQuiet
    <2>4. CASE id \in Semaphores /\ l = ksem_wait(k, id).k
      <3>1. SemTaken(k, l, active_proc, id)
        BY <2>2, <2>4, SemWaitResult
      <3>2. CountsMove(k, l)
        BY <2>2, <2>a, <3>1, TakeMove
      <3> QED
        BY <1>a, <2>1, <3>2
    <2> QED
      BY <2>1, <2>3, <2>4
  <1>11. ASSUME NEW id \in SemArgs, CallSemPost(id) PROVE Moves
    <2>1. PICK k, l, rc :
             /\ Called(17, k, l, rc)
             /\ l \in {k, Undefined(k)} \/ (id \in Semaphores /\ l = ksem_post(k, id).k)
      BY <1>11, SemPostAction, KernelAssumption
    <2>2. Calling(k, active_proc) /\ k.next <= MAX_PIDS /\ k.sem = semaphores
      BY <1>c, <2>1
    <2>a. id \in Made(k)
      BY <1>11, <2>2 DEF CallSemPost, Respects, SemAllocated, Made
    <2>3. CASE l \in {k, Undefined(k)}
      BY <1>b, <2>1, <2>2, <2>3, UndefinedQuiet
    <2>4. CASE id \in Semaphores /\ l = ksem_post(k, id).k
      <3>1. SemGiven(k, l, id)
        BY <2>2, <2>4, SemPostResult
      <3>2. CountsMove(k, l)
        BY <2>2, <2>a, <3>1, GiveMove
      <3> QED
        BY <1>a, <2>1, <3>2
    <2> QED
      BY <2>1, <2>3, <2>4
  <1>12. CASE UNCHANGED kvars
    BY <1>12 DEF kvars, vars, semVars, CountMove, Moves
  <1> QED
    BY <1>1, <1>2, <1>3, <1>4, <1>5, <1>6, <1>7, <1>8, <1>9, <1>10, <1>11, <1>12
       DEF KernelNext

\* A semaphore is a counting semaphore from sem_init to sem_destroy, whatever value it
\* starts with, for processes that use only what is allocated and destroy nothing that
\* somebody waits for: a wait takes one or joins the queue, a post wakes the process
\* that has waited longest or adds one, and nothing else in the kernel, interrupts and
\* exits of other processes included, changes a count or a queue.
THEOREM SemaphoresCount ==
    ASSUME "nowaiters" \in Discipline, "allocated" \in Discipline
    PROVE  KernelSpec => ImplementsCountingSemaphore
  <1>1. KernelInit => Sem!CountInit
    <2> SUFFICES ASSUME KernelInit PROVE Sem!CountInit
      OBVIOUS
    <2>1. /\ semaphores = [s \in Semaphores |-> FreeSem]
          /\ \A q \in WaitQueues : queue[q] = <<>>
      BY NameAssumption DEF KernelInit, ksemaphores_init, Init, Queues
    <2> QED
      BY <2>1, WaitNames DEF Sem!CountInit, FreeSem
  <1>2. KInv /\ [KernelNext]_kvars => [Sem!CountNext]_(Sem!countVars)
    <2> SUFFICES ASSUME KInv, [KernelNext]_kvars PROVE [Sem!CountNext]_(Sem!countVars)
      OBVIOUS
    <2> DEFINE m == {s \in Semaphores : semaphores[s].allocated}
               v == [s \in Semaphores |-> semaphores[s].count]
               w == [s \in Semaphores |-> queue[SemQ(s)]]
               j == {s \in Semaphores : semaphores'[s].allocated}
               i == [s \in Semaphores |-> semaphores'[s].count]
               x == [s \in Semaphores |-> queue'[SemQ(s)]]
    <2>1. CountMove(m, v, w, j, i, x)
      BY KernelMovesCounts
    <2>2. v \in [Semaphores -> Nat]
      BY KernelCtxFields DEF KInv, KernelOK, Tables, SemEntry
    <2>3. CASE j = m /\ i = v /\ x = w
      BY <2>3 DEF Sem!countVars
    <2>4. ASSUME NEW s \in Semaphores, i = v, x = w, MadeMoves(m, w, j, s)
          PROVE  Sem!CountNext
      <3>1. Sem!Make(s) \/ Sem!Remove(s)
        BY <2>2, <2>4 DEF MadeMoves, Sem!Make, Sem!Remove
      <3> QED
        BY <3>1 DEF Sem!CountNext
    <2>5. ASSUME NEW s \in Semaphores, s \in m, j = m, GiveMoves(v, w, i, x, s)
          PROVE  Sem!CountNext
      <3>1. Sem!Give(s)
        BY <2>5 DEF GiveMoves, Sem!Give
      <3> QED
        BY <3>1 DEF Sem!CountNext
    <2>6. ASSUME NEW s \in Semaphores, NEW p \in 1 .. MAX_PIDS, s \in m, j = m,
                 TakeMoves(v, w, i, x, p, s)
          PROVE  Sem!CountNext
      <3>1. ~Sem!Blocked(p)
        BY <2>6 DEF TakeMoves, Sem!Blocked
      <3>2. Sem!Take(p, s) \/ Sem!Join(p, s)
        BY <2>6, <3>1 DEF TakeMoves, Sem!Take, Sem!Join
      <3> QED
        BY <3>2 DEF Sem!CountNext
    <2> QED
      BY <2>1, <2>3, <2>4, <2>5, <2>6 DEF CountMove
  <1> QED
    BY <1>1, <1>2, KInvAlways, PTL DEF KernelSpec, ImplementsCountingSemaphore, Sem!CountSpec
=============================================================================
