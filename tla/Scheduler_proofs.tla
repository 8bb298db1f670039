--------------------------- MODULE Scheduler_proofs ---------------------------
(***************************************************************************)
(* Theorems about Scheduler.  An operator on kernel contexts is described  *)
(* by what it leaves in each field of the context; what it preserves       *)
(* follows from that.  IsContext asks only for the fields that the         *)
(* scheduler uses, so that the lemmas also hold of larger contexts.        *)
(***************************************************************************)
EXTENDS Scheduler, QueueWalk_proofs

Statuses == {"boot", "running", "panic", "undefined"}

ContextFields == {"proc", "queue", "active", "free", "next", "status"}

IsRecord(k) == k = [f \in DOMAIN k |-> k[f]]

\* A context whose fields have their types.
IsContext(k) ==
    /\ IsRecord(k)
    /\ ContextFields \subseteq DOMAIN k
    /\ k.proc \in [Entries -> PCB]
    /\ k.queue \in [Queues -> Seq(Nat)]
    /\ k.active \in Entries \cup {NULL}
    /\ k.free \in Seq(Entries)
    /\ k.next \in Nat
    /\ k.status \in Statuses

\* No queue_t of it holds more than its array has room for.
IsBounded(k) ==
    /\ \A q \in Queues : Len(k.queue[q]) <= QUEUE_SIZE
    /\ Len(k.free) <= QUEUE_SIZE

TypedContext(k) == IsContext(k) /\ IsBounded(k)

-----------------------------------------------------------------------------
(***************************************************************************)
(* Constants, the process table and its entries.                           *)
(***************************************************************************)

LEMMA QueueNames ==
    /\ RunQ \in Queues /\ SleepQ \in Queues /\ RunQ # SleepQ
    /\ NULL \notin Queues
  BY NameAssumption DEF Queues, RunQ, SleepQ

LEMMA EntryNumbers ==
    /\ Entries \in SUBSET Nat /\ Entries \in SUBSET Int
    /\ 0 \in Entries
    /\ NULL \notin Entries
    /\ IsFiniteSet(Entries)
  <1>1. PROC_MAX - 1 \in Int /\ 0 \in Int
    BY SizeAssumption
  <1>2. IsFiniteSet(Entries)
    BY <1>1, FS_Interval DEF Entries
  <1> QED
    BY <1>2, SizeAssumption, NameAssumption DEF Entries

\* Changes of one field of a process control block.
LEMMA PCBFields ==
    ASSUME NEW p \in PCB
    PROVE  /\ p.pid \in Nat /\ p.state \in States /\ p.cpu_time \in Nat
           /\ p.sleep_time \in Int /\ p.scheduler_queue \in Queues \cup {NULL}
  BY DEF PCB

\* The process control block that scheduler_add, Block and Unqueue leave.
ReadyPCB(p) == [p EXCEPT !.scheduler_queue = RunQ, !.state = "IDLE", !.cpu_time = 0]
BlockedPCB(p, st, q) == [p EXCEPT !.state = st, !.scheduler_queue = q]
UnqueuedPCB(p) == [p EXCEPT !.scheduler_queue = NULL]

LEMMA ChangedPCBs ==
    ASSUME NEW p \in PCB
    PROVE  /\ ReadyPCB(p) \in PCB /\ ReadyPCB(p).pid = p.pid
           /\ UnqueuedPCB(p) \in PCB /\ UnqueuedPCB(p).pid = p.pid
           /\ WokenPCB(p) \in PCB /\ WokenPCB(p).pid = p.pid
           /\ \A st \in States, q \in Queues :
                 BlockedPCB(p, st, q) \in PCB /\ BlockedPCB(p, st, q).pid = p.pid
  <1>1. ReadyPCB(p) \in PCB /\ ReadyPCB(p).pid = p.pid
    BY QueueNames DEF ReadyPCB, PCB, States
  <1>2. UnqueuedPCB(p) \in PCB /\ UnqueuedPCB(p).pid = p.pid
    BY DEF UnqueuedPCB, PCB
  <1>3. WokenPCB(p) \in PCB /\ WokenPCB(p).pid = p.pid
    <2>1. p.sleep_time - 1 \in Int
      BY PCBFields
    <2> QED
      BY <2>1, QueueNames DEF WokenPCB, PCB, States
  <1>4. ASSUME NEW st \in States, NEW q \in Queues
        PROVE  BlockedPCB(p, st, q) \in PCB /\ BlockedPCB(p, st, q).pid = p.pid
    BY DEF BlockedPCB, PCB
  <1> QED
    BY <1>1, <1>2, <1>3, <1>4

\* Storing a typed entry keeps the table typed.
LEMMA StoreTyped ==
    ASSUME NEW t \in [Entries -> PCB], NEW e \in Entries, NEW p \in PCB
    PROVE  [t EXCEPT ![e] = p] \in [Entries -> PCB]
  OBVIOUS

LEMMA BlankPCB ==
    /\ FreePCB \in PCB
    /\ \A pid \in Nat : NewPCB(pid) \in PCB
  <1>1. FreePCB \in PCB
    BY DEF FreePCB, PCB, States
  <1>2. ASSUME NEW pid \in Nat
        PROVE  NewPCB(pid) \in PCB
    BY <1>1 DEF NewPCB, PCB, States
  <1> QED
    BY <1>1, <1>2

\* pid_to_proc gives an entry that holds the pid, and NULL only if there is none.
LEMMA FoundByPid ==
    ASSUME NEW k, IsContext(k), NEW pid
    PROVE  LET found == pid_to_proc(k, pid)
           IN  /\ found \in Entries \cup {NULL}
               /\ found \in Entries => k.proc[found].pid = pid
               /\ \A e \in Entries : k.proc[e].pid = pid
                     => found \in Entries /\ found <= e
  <1> DEFINE E == EntriesOf(k, pid)
  <1>1. E \in SUBSET Entries /\ \A e \in E : k.proc[e].pid = pid
    BY DEF EntriesOf
  <1>2. CASE E = {}
    BY <1>2, EntryNumbers DEF pid_to_proc, EntriesOf
  <1>3. CASE E # {}
    <2>1. E \in SUBSET Int /\ IsFiniteSet(E)
      BY <1>1, EntryNumbers, FS_Subset
    <2>2. \E e \in E : \A f \in E : e <= f
      <3> HIDE DEF E
      <3> QED
        BY <1>3, <2>1, LeastMember
    <2>3. pid_to_proc(k, pid) \in E /\ \A f \in E : pid_to_proc(k, pid) <= f
      BY <1>3, <2>2 DEF pid_to_proc
    <2> QED
      BY <1>1, <2>3 DEF EntriesOf
  <1> QED
    BY <1>2, <1>3

-----------------------------------------------------------------------------
(***************************************************************************)
(* Field by field.                                                         *)
(***************************************************************************)

\* The fields that the scheduler does not know are as they were.
SameShape(k, l) ==
    /\ IsRecord(l) /\ DOMAIN l = DOMAIN k
    /\ \A f \in DOMAIN k \ ContextFields : l[f] = k[f]

\* A context of the same shape has the fields.
LEMMA ShapeKeepsFields ==
    ASSUME NEW k, IsContext(k), NEW l, SameShape(k, l)
    PROVE  IsRecord(l) /\ ContextFields \subseteq DOMAIN l
  BY DEF SameShape, IsContext

LEMMA AddFields ==
    ASSUME NEW k, IsContext(k), NEW e \in Entries, ~Full(k.queue[RunQ])
    PROVE  LET l == scheduler_add(k, e)
           IN  /\ SameShape(k, l)
               /\ l.proc = [k.proc EXCEPT ![e] = ReadyPCB(@)]
               /\ l.queue = [k.queue EXCEPT ![RunQ] = Append(@, k.proc[e].pid)]
               /\ l.active = k.active /\ l.free = k.free
               /\ l.next = k.next /\ l.status = k.status
  BY ZenonT(40) DEF scheduler_add, ReadyPCB, IsContext, IsRecord, SameShape, ContextFields, PCB

LEMMA PanicFields ==
    ASSUME NEW k, IsContext(k)
    PROVE  LET l == kernel_panic(k)
           IN  /\ SameShape(k, l)
               /\ l.proc = k.proc /\ l.queue = k.queue
               /\ l.active = k.active /\ l.free = k.free
               /\ l.next = k.next /\ l.status = "panic"
  BY DEF kernel_panic, IsContext, IsRecord, SameShape, ContextFields

\* Where scheduler_remove finds e in the queue it points at.
FoundAt(k, e) ==
    LET q == k.proc[e].scheduler_queue
    IN  {i \in 1 .. Len(k.queue[q]) : k.queue[q][i] = k.proc[e].pid}

LEMMA UnqueueFields ==
    ASSUME NEW k, IsContext(k), NEW e \in Entries, k.proc[e].scheduler_queue # NULL
    PROVE  LET l == Unqueue(k, e)
               q == k.proc[e].scheduler_queue
           IN  /\ SameShape(k, l)
               /\ l.proc = [k.proc EXCEPT ![e] = UnqueuedPCB(@)]
               /\ l.queue = [k.queue EXCEPT ![q] = Rotate(@, FoundAt(k, e))]
               /\ l.active = k.active /\ l.free = k.free
               /\ l.next = k.next /\ l.status = k.status
  BY DEF Unqueue, FoundAt, UnqueuedPCB, IsContext, IsRecord, SameShape, ContextFields, PCB

LEMMA RemoveFields ==
    ASSUME NEW k, IsContext(k), NEW e \in Entries
    PROVE  LET l == scheduler_remove(k, e)
               u == Unqueue(k, e)
           IN  /\ SameShape(k, l)
               /\ l.proc = u.proc /\ l.queue = u.queue
               /\ l.active = IF k.active = e THEN NULL ELSE k.active
               /\ l.free = k.free /\ l.next = k.next /\ l.status = k.status
  <1> DEFINE u == Unqueue(k, e)
  <1>1. SameShape(k, u) /\ u.active = k.active /\ u.free = k.free
          /\ u.next = k.next /\ u.status = k.status
    <2>1. CASE k.proc[e].scheduler_queue = NULL
      BY <2>1 DEF Unqueue, SameShape, IsContext
    <2>2. CASE k.proc[e].scheduler_queue # NULL
      BY <2>2, UnqueueFields
    <2> QED
      BY <2>1, <2>2
  <1>2. scheduler_remove(k, e) = [u EXCEPT !.active = IF @ = e THEN NULL ELSE @]
    BY DEF scheduler_remove
  <1> HIDE DEF u
  <1> DEFINE r == scheduler_remove(k, e)
  <1>4. IsRecord(u) /\ ContextFields \subseteq DOMAIN u
    BY <1>1 DEF SameShape, IsContext
  <1>5. r = [u EXCEPT !.active = IF @ = e THEN NULL ELSE @]
    BY <1>2
  <1> HIDE DEF r
  <1>6. /\ DOMAIN r = DOMAIN u /\ IsRecord(r)
        /\ r.active = IF u.active = e THEN NULL ELSE u.active
        /\ \A f \in DOMAIN u \ {"active"} : r[f] = u[f]
    BY ONLY <1>4, <1>5 DEF IsRecord, ContextFields
  <1>7. /\ r.proc = u.proc /\ r.queue = u.queue /\ r.free = u.free
        /\ r.next = u.next /\ r.status = u.status
    BY ONLY <1>4, <1>6 DEF ContextFields
  <1>8. SameShape(u, r)
    BY ONLY <1>4, <1>6 DEF SameShape, ContextFields
  <1>9. SameShape(k, r)
    BY ONLY <1>1, <1>8 DEF SameShape
  <1>3. LET l == scheduler_remove(k, e)
        IN  /\ SameShape(k, l)
            /\ l.proc = u.proc /\ l.queue = u.queue
            /\ l.active = IF k.active = e THEN NULL ELSE k.active
            /\ l.free = k.free /\ l.next = k.next /\ l.status = k.status
    BY ONLY <1>1, <1>6, <1>7, <1>9 DEF r
  <1> QED
    BY <1>3 DEF u

LEMMA BlockFields ==
    ASSUME NEW k, IsContext(k), NEW e \in Entries, NEW st \in States,
           NEW q \in Queues, NEW l, l = Block(k, e, st, q)
    PROVE  /\ SameShape(k, l)
           /\ l.proc = [k.proc EXCEPT ![e] = BlockedPCB(@, st, q)]
           /\ l.queue = IF Full(k.queue[q]) THEN k.queue
                        ELSE [k.queue EXCEPT ![q] = Append(@, k.proc[e].pid)]
           /\ l.active = k.active /\ l.free = k.free
           /\ l.next = k.next /\ l.status = k.status
  <1> DEFINE m == [k EXCEPT !.proc[e].state = st, !.proc[e].scheduler_queue = q]
  <1>1. /\ SameShape(k, m)
        /\ m.proc = [k.proc EXCEPT ![e] = BlockedPCB(@, st, q)]
        /\ m.queue = k.queue /\ m.active = k.active /\ m.free = k.free
        /\ m.next = k.next /\ m.status = k.status
    BY DEF BlockedPCB, IsContext, IsRecord, SameShape, ContextFields, PCB
  <1>2. m.proc[e].pid = k.proc[e].pid
    BY <1>1, ChangedPCBs DEF IsContext
  <1>3. l = EnqueueIgnoringErrors(m, q, e)
    BY DEF Block
  <1> HIDE DEF m
  <1>4. CASE Full(k.queue[q])
    BY <1>1, <1>3, <1>4 DEF EnqueueIgnoringErrors
  <1>5. CASE ~Full(k.queue[q])
    <2>1. l = [m EXCEPT !.queue[q] = Append(@, m.proc[e].pid)]
      BY <1>1, <1>3, <1>5 DEF EnqueueIgnoringErrors
    <2>2. IsRecord(m) /\ ContextFields \subseteq DOMAIN m
      BY <1>1, ShapeKeepsFields
    <2>3. /\ SameShape(m, l)
          /\ l.queue = [m.queue EXCEPT ![q] = Append(@, m.proc[e].pid)]
          /\ l.proc = m.proc /\ l.active = m.active /\ l.free = m.free
          /\ l.next = m.next /\ l.status = m.status
      BY <2>1, <2>2 DEF IsRecord, SameShape, ContextFields
    <2> QED
      BY <1>1, <1>2, <1>5, <2>3 DEF SameShape
  <1> QED
    BY <1>4, <1>5

-----------------------------------------------------------------------------
(***************************************************************************)
(* What keeps the types and the bounds.                                    *)
(***************************************************************************)

LEMMA ContextRead ==
    ASSUME NEW k, IsContext(k)
    PROVE  /\ \A e \in Entries : k.proc[e] \in PCB /\ k.proc[e].pid \in Nat
           /\ \A q \in Queues : k.queue[q] \in Seq(Nat) /\ Len(k.queue[q]) \in Nat
           /\ Len(k.free) \in Nat
           /\ QUEUE_SIZE \in Nat
  BY SizeAssumption DEF IsContext, PCB

LEMMA AppendTyped ==
    ASSUME NEW S, NEW s \in Seq(S), NEW x \in S
    PROVE  Append(s, x) \in Seq(S) /\ Len(Append(s, x)) = Len(s) + 1
  OBVIOUS

LEMMA PanicTyped ==
    ASSUME NEW k, TypedContext(k)
    PROVE  TypedContext(kernel_panic(k))
  BY PanicFields, ShapeKeepsFields DEF TypedContext, IsContext, IsBounded, Statuses

LEMMA AddTyped ==
    ASSUME NEW k, TypedContext(k), NEW e \in Entries
    PROVE  TypedContext(scheduler_add(k, e))
  <1> DEFINE l == scheduler_add(k, e)
             s == k.queue[RunQ]
  <1>1. CASE Full(s)
    <2>1. l = kernel_panic(k)
      BY <1>1 DEF scheduler_add
    <2> QED
      BY <2>1, PanicTyped
  <1>2. CASE ~Full(s)
    <2>0. IsContext(k)
      BY DEF TypedContext
    <2>1. /\ IsRecord(l) /\ ContextFields \subseteq DOMAIN l
          /\ l.active = k.active /\ l.free = k.free
          /\ l.next = k.next /\ l.status = k.status
      BY <1>2, <2>0, AddFields, ShapeKeepsFields
    <2>2. l.proc \in [Entries -> PCB]
      <3>1. ReadyPCB(k.proc[e]) \in PCB
        BY <2>0, ContextRead, ChangedPCBs
      <3>2. l.proc = [k.proc EXCEPT ![e] =
                        ReadyPCB(k.proc[e])]
        BY <1>2, <2>0, AddFields DEF IsContext
      <3>3. k.proc \in [Entries -> PCB]
        BY <2>0 DEF IsContext
      <3> QED
        BY <3>1, <3>2, <3>3, StoreTyped
    <2>3. l.queue = [k.queue EXCEPT ![RunQ] = Append(s, k.proc[e].pid)]
      BY <1>2, <2>0, AddFields DEF IsContext
    <2>4. /\ s \in Seq(Nat) /\ Len(s) \in Nat /\ k.proc[e].pid \in Nat
          /\ QUEUE_SIZE \in Nat
      BY <2>0, ContextRead, QueueNames
    <2>5. Append(s, k.proc[e].pid) \in Seq(Nat)
          /\ Len(Append(s, k.proc[e].pid)) = Len(s) + 1
      BY <2>4, AppendTyped
    <2>6. Len(s) + 1 <= QUEUE_SIZE
      BY <1>2, <2>4 DEF Full
    <2> HIDE DEF l, s
    <2>7. l.queue \in [Queues -> Seq(Nat)]
          /\ \A q \in Queues : Len(l.queue[q]) <= QUEUE_SIZE
      BY <2>0, <2>3, <2>5, <2>6 DEF TypedContext, IsContext, IsBounded
    <2>8. TypedContext(l)
      BY <2>1, <2>2, <2>7 DEF TypedContext, IsContext, IsBounded
    <2> QED
      BY <2>8 DEF l
  <1> QED
    BY <1>1, <1>2

LEMMA UnqueueTyped ==
    ASSUME NEW k, TypedContext(k), NEW e \in Entries
    PROVE  TypedContext(Unqueue(k, e))
  <1> DEFINE l == Unqueue(k, e)
             q == k.proc[e].scheduler_queue
             s == k.queue[q]
             r == Rotate(s, FoundAt(k, e))
  <1>0. IsContext(k)
    BY DEF TypedContext
  <1>1. CASE q = NULL
    BY <1>1 DEF Unqueue
  <1>2. CASE q # NULL
    <2>1. /\ IsRecord(l) /\ ContextFields \subseteq DOMAIN l
          /\ l.active = k.active /\ l.free = k.free
          /\ l.next = k.next /\ l.status = k.status
      BY <1>0, <1>2, UnqueueFields, ShapeKeepsFields
    <2>2. q \in Queues
      BY <1>0, <1>2, ContextRead, PCBFields
    <2>3. l.proc \in [Entries -> PCB]
      <3>1. UnqueuedPCB(k.proc[e]) \in PCB
        BY <1>0, ContextRead, ChangedPCBs
      <3>2. l.proc = [k.proc EXCEPT ![e] = UnqueuedPCB(k.proc[e])]
        BY <1>0, <1>2, UnqueueFields DEF IsContext
      <3>3. k.proc \in [Entries -> PCB]
        BY <1>0 DEF IsContext
      <3> QED
        BY <3>1, <3>2, <3>3, StoreTyped
    <2>4. l.queue = [k.queue EXCEPT ![q] = r]
      BY <1>0, <1>2, UnqueueFields DEF IsContext
    <2>5. s \in Seq(Nat) /\ Len(s) \in Nat /\ Len(s) <= QUEUE_SIZE /\ QUEUE_SIZE \in Nat
      BY <1>0, <2>2, ContextRead DEF TypedContext, IsBounded
    <2>6. r \in Seq(Nat) /\ Len(r) <= QUEUE_SIZE
      <3> HIDE DEF s
      <3>1. r \in Seq(Nat)
        BY <2>5, RotateType
      <3> DEFINE c == Cardinality(Reached(s, FoundAt(k, e)) \cap FoundAt(k, e))
      <3>2. Len(r) = Len(s) - c /\ c \in 0 .. Len(s)
        BY <2>5, RotateLength
      <3> HIDE DEF c, r
      <3> QED
        BY <2>5, <3>1, <3>2
    <2> HIDE DEF l, q, r
    <2>7. l.queue \in [Queues -> Seq(Nat)]
          /\ \A p \in Queues : Len(l.queue[p]) <= QUEUE_SIZE
      BY <1>0, <2>4, <2>6 DEF TypedContext, IsContext, IsBounded
    <2>8. TypedContext(l)
      BY <1>0, <2>1, <2>3, <2>7 DEF TypedContext, IsContext, IsBounded
    <2> QED
      BY <2>8 DEF l
  <1> QED
    BY <1>1, <1>2

LEMMA RemoveTyped ==
    ASSUME NEW k, TypedContext(k), NEW e \in Entries
    PROVE  TypedContext(scheduler_remove(k, e))
  <1> DEFINE l == scheduler_remove(k, e)
             u == Unqueue(k, e)
  <1>0. IsContext(k)
    BY DEF TypedContext
  <1>1. TypedContext(u)
    BY UnqueueTyped
  <1>2. /\ IsRecord(l) /\ ContextFields \subseteq DOMAIN l
        /\ l.proc = u.proc /\ l.queue = u.queue
        /\ l.active = IF k.active = e THEN NULL ELSE k.active
        /\ l.free = k.free /\ l.next = k.next /\ l.status = k.status
    BY <1>0, RemoveFields, ShapeKeepsFields
  <1> HIDE DEF l, u
  <1>3. TypedContext(l)
    BY <1>1, <1>2 DEF TypedContext, IsContext, IsBounded
  <1> QED
    BY <1>3 DEF l

LEMMA BlockTyped ==
    ASSUME NEW k, TypedContext(k), NEW e \in Entries, NEW st \in States,
           NEW q \in Queues
    PROVE  TypedContext(Block(k, e, st, q))
  <1> DEFINE l == Block(k, e, st, q)
             s == k.queue[q]
  <1>0. IsContext(k)
    BY DEF TypedContext
  <1>b. l = Block(k, e, st, q)
    OBVIOUS
  <1> HIDE DEF l
  <1>a. /\ SameShape(k, l)
        /\ l.proc = [k.proc EXCEPT ![e] = BlockedPCB(@, st, q)]
        /\ l.queue = IF Full(s) THEN k.queue
                     ELSE [k.queue EXCEPT ![q] = Append(@, k.proc[e].pid)]
        /\ l.active = k.active /\ l.free = k.free
        /\ l.next = k.next /\ l.status = k.status
    BY <1>0, <1>b, BlockFields
  <1>1. /\ IsRecord(l) /\ ContextFields \subseteq DOMAIN l
        /\ l.active = k.active /\ l.free = k.free
        /\ l.next = k.next /\ l.status = k.status
    BY <1>0, <1>a, ShapeKeepsFields
  <1>2. l.proc \in [Entries -> PCB]
    <2>1. BlockedPCB(k.proc[e], st, q) \in PCB
      BY <1>0, ContextRead, ChangedPCBs
    <2>2. l.proc = [k.proc EXCEPT ![e] = BlockedPCB(k.proc[e], st, q)]
      BY <1>0, <1>a DEF IsContext
    <2>3. k.proc \in [Entries -> PCB]
      BY <1>0 DEF IsContext
    <2> QED
      BY <2>1, <2>2, <2>3, StoreTyped
  <1>3. l.queue = IF Full(s) THEN k.queue
                  ELSE [k.queue EXCEPT ![q] = Append(s, k.proc[e].pid)]
    BY <1>0, <1>a DEF IsContext
  <1>4. /\ s \in Seq(Nat) /\ Len(s) \in Nat /\ k.proc[e].pid \in Nat
        /\ QUEUE_SIZE \in Nat
    BY <1>0, ContextRead
  <1>5. Append(s, k.proc[e].pid) \in Seq(Nat)
        /\ Len(Append(s, k.proc[e].pid)) = Len(s) + 1
    BY <1>4, AppendTyped
  <1>6. ~Full(s) => Len(s) + 1 <= QUEUE_SIZE
    BY <1>4 DEF Full
  <1> HIDE DEF s
  <1>7. l.queue \in [Queues -> Seq(Nat)]
        /\ \A p \in Queues : Len(l.queue[p]) <= QUEUE_SIZE
    BY <1>3, <1>5, <1>6 DEF TypedContext, IsContext, IsBounded
  <1>8. TypedContext(l)
    BY <1>0, <1>1, <1>2, <1>7 DEF TypedContext, IsContext, IsBounded
  <1> QED
    BY <1>8, <1>b

\* One entry of the process table, or the active process, is changed.
LEMMA EntryChanged ==
    ASSUME NEW k, TypedContext(k), NEW e \in Entries, NEW p \in PCB
    PROVE  TypedContext([k EXCEPT !.proc[e] = p])
  <1> DEFINE l == [k EXCEPT !.proc[e] = p]
  <1>1. IsRecord(k) /\ ContextFields \subseteq DOMAIN k
    BY DEF TypedContext, IsContext
  <1>2. /\ IsRecord(l) /\ DOMAIN l = DOMAIN k
        /\ l.proc = [k.proc EXCEPT ![e] = p]
        /\ l.queue = k.queue /\ l.active = k.active /\ l.free = k.free
        /\ l.next = k.next /\ l.status = k.status
    BY <1>1 DEF IsRecord, ContextFields
  <1>3. [k.proc EXCEPT ![e] = p] \in [Entries -> PCB]
    BY StoreTyped DEF TypedContext, IsContext
  <1> HIDE DEF l
  <1>4. TypedContext(l)
    BY <1>1, <1>2, <1>3 DEF TypedContext, IsContext, IsBounded
  <1> QED
    BY <1>4 DEF l

LEMMA ActiveChanged ==
    ASSUME NEW k, TypedContext(k), NEW a \in Entries \cup {NULL}
    PROVE  TypedContext([k EXCEPT !.active = a])
  <1> DEFINE l == [k EXCEPT !.active = a]
  <1>1. IsRecord(k) /\ ContextFields \subseteq DOMAIN k
    BY DEF TypedContext, IsContext
  <1>2. /\ IsRecord(l) /\ DOMAIN l = DOMAIN k
        /\ l.proc = k.proc
        /\ l.queue = k.queue /\ l.active = a /\ l.free = k.free
        /\ l.next = k.next /\ l.status = k.status
    BY <1>1 DEF IsRecord, ContextFields
  <1> HIDE DEF l
  <1>3. TypedContext(l)
    BY <1>1, <1>2 DEF TypedContext, IsContext, IsBounded
  <1> QED
    BY <1>3 DEF l

LEMMA SleepTyped ==
    ASSUME NEW k, TypedContext(k), NEW e \in Entries, NEW time \in Int
    PROVE  TypedContext(scheduler_sleep(k, e, time))
  <1> DEFINE k1 == [k EXCEPT !.proc[e].sleep_time = time]
  <1>1. k1 = [k EXCEPT !.proc[e] = [k.proc[e] EXCEPT !.sleep_time = time]]
    BY DEF TypedContext, IsContext
  <1>2. [k.proc[e] EXCEPT !.sleep_time = time] \in PCB
    BY ContextRead DEF PCB, TypedContext
  <1>3. TypedContext(k1)
    BY <1>1, <1>2, EntryChanged
  <1> HIDE DEF k1
  <1>4. TypedContext(scheduler_remove(k1, e))
    BY <1>3, RemoveTyped
  <1>5. TypedContext(Block(scheduler_remove(k1, e), e, "SLEEPING", SleepQ))
    BY <1>4, BlockTyped, QueueNames DEF States
  <1> QED
    BY <1>3, <1>5 DEF scheduler_sleep, k1

LEMMA ChargeTyped ==
    ASSUME NEW k, TypedContext(k)
    PROVE  TypedContext(ChargeActive(k))
  <1>1. CASE k.active = NULL
    BY <1>1 DEF ChargeActive
  <1>2. CASE k.active # NULL
    <2> DEFINE e == k.active
               p == [k.proc[e] EXCEPT !.cpu_time = @ + 1]
    <2>1. e \in Entries
      BY <1>2 DEF TypedContext, IsContext
    <2>2. p \in PCB
      <3>1. k.proc[e] \in PCB /\ k.proc[e].cpu_time + 1 \in Nat
        BY <2>1, ContextRead, PCBFields DEF TypedContext
      <3> QED
        BY <3>1 DEF PCB
    <2>3. ChargeActive(k) = [k EXCEPT !.proc[e] = p]
      BY <1>2, <2>1 DEF ChargeActive, TypedContext, IsContext
    <2> HIDE DEF e, p
    <2> QED
      BY <2>1, <2>2, <2>3, EntryChanged
  <1> QED
    BY <1>1, <1>2

\* The process table after the walk of the sleep queue.
WalkedTable(k) ==
    [e \in Entries |->
        IF e \in WokenProcs(k) THEN WokenPCB(k.proc[e])
        ELSE IF e \in VisitedProcs(k) THEN [k.proc[e] EXCEPT !.sleep_time = @ - 1]
             ELSE k.proc[e]]

WokenItems(k) == AtIndices(k.queue[SleepQ], Visited(k) \cap Expired(k))

LEMMA WalkFields ==
    ASSUME NEW k, IsContext(k),
           ~(Len(k.queue[RunQ]) + Len(WokenItems(k)) > QUEUE_SIZE),
           NEW l, l = WalkSleepQueue(k)
    PROVE  /\ SameShape(k, l)
           /\ l.proc = WalkedTable(k)
           /\ l.queue = [q \in Queues |->
                            IF q = SleepQ
                            THEN Rotate(k.queue[SleepQ], Gone(k) \cup Expired(k))
                            ELSE IF q = RunQ
                                 THEN k.queue[RunQ] \o WokenItems(k)
                                 ELSE k.queue[q]]
           /\ l.active = k.active /\ l.free = k.free
           /\ l.next = k.next /\ l.status = k.status
  <1> DEFINE t == WalkedTable(k)
             w == WokenItems(k)
             r == Rotate(k.queue[SleepQ], Gone(k) \cup Expired(k))
  <1>1. l = [k EXCEPT !.proc = t, !.queue[SleepQ] = r, !.queue[RunQ] = @ \o w]
    BY DEF WalkSleepQueue, WalkedTable, WokenItems
  <1>2. IsRecord(k) /\ ContextFields \subseteq DOMAIN k /\ DOMAIN k.queue = Queues
    BY DEF IsContext
  <1> HIDE DEF t, w, r
  <1>3. /\ SameShape(k, l)
        /\ l.proc = t
        /\ l.queue = [[k.queue EXCEPT ![SleepQ] = r] EXCEPT
                           ![RunQ] = k.queue[RunQ] \o w]
        /\ l.active = k.active /\ l.free = k.free
        /\ l.next = k.next /\ l.status = k.status
    <2> DEFINE m == [k EXCEPT !.proc = t]
    <2>1. /\ SameShape(k, m)
          /\ m.proc = t
          /\ m.queue = k.queue /\ m.active = k.active /\ m.free = k.free
          /\ m.next = k.next /\ m.status = k.status
      BY <1>2 DEF IsRecord, ContextFields, SameShape
    <2>2. l = [m EXCEPT !.queue[SleepQ] = r, !.queue[RunQ] = @ \o w]
      BY <1>1
    <2> HIDE DEF m
    <2> DEFINE n == [m EXCEPT !.queue[SleepQ] = r]
    <2>3. /\ SameShape(k, n)
          /\ n.proc = t
          /\ n.queue = [k.queue EXCEPT ![SleepQ] = r]
          /\ n.active = k.active /\ n.free = k.free
          /\ n.next = k.next /\ n.status = k.status
      BY <1>2, <2>1 DEF IsRecord, ContextFields, SameShape
    <2>4. l = [n EXCEPT !.queue[RunQ] = k.queue[RunQ] \o w]
      BY <2>1, <2>2
    <2> HIDE DEF n
    <2>5. /\ SameShape(k, l)
          /\ l.proc = t
          /\ l.queue = [n.queue EXCEPT ![RunQ] = k.queue[RunQ] \o w]
          /\ l.active = k.active /\ l.free = k.free
          /\ l.next = k.next /\ l.status = k.status
      BY <1>2, <2>3, <2>4 DEF IsRecord, ContextFields, SameShape
    <2> QED
      BY <2>3, <2>5
  <1>4. k.queue = [q \in Queues |-> k.queue[q]]
    BY DEF IsContext
  <1>5. l.queue = [q \in Queues |-> IF q = SleepQ THEN r
                                    ELSE IF q = RunQ THEN k.queue[RunQ] \o w
                                         ELSE k.queue[q]]
    BY <1>3, <1>4, QueueNames
  <1> QED
    BY <1>3, <1>5 DEF t, w, r

LEMMA WalkTyped ==
    ASSUME NEW k, TypedContext(k)
    PROVE  TypedContext(WalkSleepQueue(k))
  <1> DEFINE l == WalkSleepQueue(k)
             w == WokenItems(k)
             s == k.queue[SleepQ]
             r == Rotate(s, Gone(k) \cup Expired(k))
  <1>0. IsContext(k)
    BY DEF TypedContext
  <1>1. CASE Len(k.queue[RunQ]) + Len(w) > QUEUE_SIZE
    BY <1>1, PanicTyped DEF WalkSleepQueue, WokenItems
  <1>2. CASE ~(Len(k.queue[RunQ]) + Len(w) > QUEUE_SIZE)
    <2>1. l = WalkSleepQueue(k)
      OBVIOUS
    <2> HIDE DEF l
    <2>2. /\ SameShape(k, l)
          /\ l.proc = WalkedTable(k)
          /\ l.queue = [q \in Queues |->
                            IF q = SleepQ THEN r
                            ELSE IF q = RunQ THEN k.queue[RunQ] \o w
                                 ELSE k.queue[q]]
          /\ l.active = k.active /\ l.free = k.free
          /\ l.next = k.next /\ l.status = k.status
      BY <1>0, <1>2, <2>1, WalkFields
    <2>3. WalkedTable(k) \in [Entries -> PCB]
      <3>1. ASSUME NEW e \in Entries
            PROVE  WalkedTable(k)[e] \in PCB
        <4>1. k.proc[e] \in PCB
          BY <1>0, ContextRead
        <4>2. [k.proc[e] EXCEPT !.sleep_time = @ - 1] \in PCB
          <5>1. k.proc[e].sleep_time - 1 \in Int
            BY <4>1, PCBFields
          <5> QED
            BY <4>1, <5>1 DEF PCB
        <4> QED
          BY <4>1, <4>2, ChangedPCBs DEF WalkedTable
      <3> QED
        BY <3>1 DEF WalkedTable
    <2>4. s \in Seq(Nat) /\ Len(s) \in Nat /\ Len(s) <= QUEUE_SIZE
            /\ k.queue[RunQ] \in Seq(Nat)
      BY <1>0, ContextRead, QueueNames DEF TypedContext, IsBounded
    <2>5. r \in Seq(Nat) /\ Len(r) <= QUEUE_SIZE
      <3> HIDE DEF s
      <3> DEFINE gone == Gone(k) \cup Expired(k)
                 c == Cardinality(Reached(s, gone) \cap gone)
      <3>1. r \in Seq(Nat)
        BY <2>4, RotateType
      <3>2. Len(r) = Len(s) - c /\ c \in 0 .. Len(s)
        BY <2>4, RotateLength
      <3> HIDE DEF c, r
      <3> QED
        BY <2>4, <3>1, <3>2, SizeAssumption
    <2>6. w \in Seq(Nat)
      <3>1. Visited(k) \cap Expired(k) \in SUBSET Positions(s)
        BY DEF Visited, Reached, Positions
      <3> QED
        BY <2>4, <3>1, AtIndicesType DEF WokenItems
    <2> DEFINE a == k.queue[RunQ] \o w
    <2>7. a \in Seq(Nat) /\ Len(a) <= QUEUE_SIZE
      <3> HIDE DEF w
      <3>1. a \in Seq(Nat) /\ Len(a) = Len(k.queue[RunQ]) + Len(w)
        BY <2>4, <2>6, ConcatProperties
      <3>2. Len(k.queue[RunQ]) \in Nat /\ Len(w) \in Nat
        BY <2>4, <2>6
      <3> QED
        BY <1>2, <3>1, <3>2, SizeAssumption
    <2> HIDE DEF a, r, w
    <2>8. l.queue \in [Queues -> Seq(Nat)]
      <3>1. \A q \in Queues : k.queue[q] \in Seq(Nat)
        BY <1>0, ContextRead
      <3> QED
        BY <2>2, <2>5, <2>7, <3>1 DEF a
    <2>9. \A q \in Queues : Len(l.queue[q]) <= QUEUE_SIZE
      BY <2>2, <2>5, <2>7 DEF a, TypedContext, IsBounded
    <2>10. TypedContext(l)
      BY <1>0, <2>2, <2>3, <2>8, <2>9, ShapeKeepsFields
         DEF TypedContext, IsContext, IsBounded
    <2> QED
      BY <2>10 DEF l
  <1> QED
    BY <1>1, <1>2

LEMMA TimerTyped ==
    ASSUME NEW k, TypedContext(k)
    PROVE  TypedContext(scheduler_timer(k))
  BY ChargeTyped, WalkTyped DEF scheduler_timer

LEMMA DropTyped ==
    ASSUME NEW k, TypedContext(k)
    PROVE  TypedContext(DropInactive(k))
  BY ActiveChanged DEF DropInactive

LEMMA PreemptTyped ==
    ASSUME NEW k, TypedContext(k)
    PROVE  TypedContext(Preempt(k))
  <1> DEFINE e == k.active
             k1 == [k EXCEPT !.proc[e].cpu_time = 0]
  <1>1. CASE k.active = NULL \/ k.proc[e].cpu_time < SCHEDULER_TIMESLICE
    BY <1>1 DEF Preempt
  <1>2. CASE ~(k.active = NULL \/ k.proc[e].cpu_time < SCHEDULER_TIMESLICE)
    <2>1. e \in Entries /\ k.proc[e] \in PCB
      BY <1>2, ContextRead DEF TypedContext, IsContext
    <2>2. k1 = [k EXCEPT !.proc[e] = [k.proc[e] EXCEPT !.cpu_time = 0]]
      BY <2>1 DEF TypedContext, IsContext
    <2>3. [k.proc[e] EXCEPT !.cpu_time = 0] \in PCB
      BY <2>1 DEF PCB
    <2>4. Preempt(k) = IF k.proc[e].pid # 0
                       THEN [scheduler_add(k1, e) EXCEPT !.active = NULL]
                       ELSE [k1 EXCEPT !.proc[e].state = "IDLE", !.active = NULL]
      BY <1>2 DEF Preempt
    <2> HIDE DEF e
    <2>5. TypedContext(k1)
      BY <2>1, <2>2, <2>3, EntryChanged
    <2> HIDE DEF k1
    <2>6. TypedContext([scheduler_add(k1, e) EXCEPT !.active = NULL])
      BY <2>1, <2>5, AddTyped, ActiveChanged
    <2> DEFINE k2 == [k1 EXCEPT !.proc[e].state = "IDLE"]
    <2>7. k2 = [k1 EXCEPT !.proc[e] = [k1.proc[e] EXCEPT !.state = "IDLE"]]
      BY <2>1, <2>5 DEF TypedContext, IsContext
    <2>8. [k1.proc[e] EXCEPT !.state = "IDLE"] \in PCB
      BY <2>1, <2>5, ContextRead DEF TypedContext, PCB, States
    <2>9. TypedContext(k2)
      BY <2>1, <2>5, <2>7, <2>8, EntryChanged
    <2>10. [k1 EXCEPT !.proc[e].state = "IDLE", !.active = NULL]
             = [k2 EXCEPT !.active = NULL]
      OBVIOUS
    <2> HIDE DEF k2
    <2>11. TypedContext([k2 EXCEPT !.active = NULL])
      BY <2>9, ActiveChanged
    <2> QED
      BY <2>4, <2>6, <2>10, <2>11
  <1> QED
    BY <1>1, <1>2

LEMMA DispatchTyped ==
    ASSUME NEW k, TypedContext(k)
    PROVE  TypedContext(Dispatch(k))
  <1> DEFINE s == k.queue[RunQ]
  <1>0. IsContext(k)
    BY DEF TypedContext
  <1>1. CASE k.active # NULL
    BY <1>1 DEF Dispatch
  <1>2. CASE k.active = NULL /\ s = <<>>
    <2>1. pid_to_proc(k, 0) \in Entries \cup {NULL}
      BY <1>0, FoundByPid
    <2> QED
      BY <1>2, <2>1, ActiveChanged DEF Dispatch
  <1>3. CASE k.active = NULL /\ s # <<>>
    <2> DEFINE a == pid_to_proc(k, Head(s))
               l == Dispatch(k)
    <2>1. a \in Entries \cup {NULL}
      BY <1>0, FoundByPid
    <2>2. l = [k EXCEPT !.active = a, !.queue[RunQ] = Tail(@)]
      BY <1>3 DEF Dispatch
    <2>3. IsRecord(k) /\ ContextFields \subseteq DOMAIN k
      BY <1>0 DEF IsContext
    <2> HIDE DEF a, l
    <2>4. /\ IsRecord(l) /\ DOMAIN l = DOMAIN k
          /\ l.queue = [k.queue EXCEPT ![RunQ] = Tail(@)]
          /\ l.proc = k.proc /\ l.active = a /\ l.free = k.free
          /\ l.next = k.next /\ l.status = k.status
      BY <2>2, <2>3 DEF IsRecord, ContextFields
    <2>5. s \in Seq(Nat) /\ Len(s) \in Nat /\ Len(s) <= QUEUE_SIZE
      BY <1>0, ContextRead, QueueNames DEF TypedContext, IsBounded
    <2>6. Tail(s) \in Seq(Nat) /\ Len(Tail(s)) <= QUEUE_SIZE
      <3> HIDE DEF s
      <3>1. Tail(s) \in Seq(Nat) /\ Len(Tail(s)) = Len(s) - 1
        BY <1>3, <2>5, HeadTailProperties
      <3> QED
        BY <2>5, <3>1, SizeAssumption
    <2>7. /\ l.queue \in [Queues -> Seq(Nat)]
          /\ \A q \in Queues : Len(l.queue[q]) <= QUEUE_SIZE
      BY <1>0, <2>4, <2>6 DEF TypedContext, IsContext, IsBounded
    <2>8. TypedContext(l)
      BY <1>0, <2>1, <2>3, <2>4, <2>7 DEF TypedContext, IsContext, IsBounded
    <2> QED
      BY <2>8 DEF l
  <1> QED
    BY <1>1, <1>2, <1>3

LEMMA ActivateTyped ==
    ASSUME NEW k, TypedContext(k)
    PROVE  TypedContext(Activate(k))
  <1>1. CASE k.active = NULL
    BY <1>1, PanicTyped DEF Activate
  <1>2. CASE k.active # NULL
    <2> DEFINE e == k.active
               p == [k.proc[e] EXCEPT !.state = "ACTIVE"]
    <2>1. e \in Entries
      BY <1>2 DEF TypedContext, IsContext
    <2>2. p \in PCB
      BY <2>1, ContextRead DEF PCB, States, TypedContext
    <2>3. Activate(k) = [k EXCEPT !.proc[e] = p]
      BY <1>2, <2>1 DEF Activate, TypedContext, IsContext
    <2> HIDE DEF e, p
    <2> QED
      BY <2>1, <2>2, <2>3, EntryChanged
  <1> QED
    BY <1>1, <1>2

LEMMA RunTyped ==
    ASSUME NEW k, TypedContext(k)
    PROVE  TypedContext(AfterHandler(k))
  BY DropTyped, PreemptTyped, DispatchTyped, ActivateTyped
     DEF AfterHandler, scheduler_run

LEMMA CreateTyped ==
    ASSUME NEW k, TypedContext(k)
    PROVE  TypedContext(kproc_create(k))
  <1> DEFINE e == Head(k.free)
             l == [k EXCEPT !.free = Tail(@), !.next = @ + 1,
                            !.proc[e] = NewPCB(k.next)]
  <1>0. IsContext(k)
    BY DEF TypedContext
  <1>1. CASE k.free = <<>>
    BY <1>1 DEF kproc_create
  <1>2. CASE k.free # <<>>
    <2>1. e \in Entries /\ Tail(k.free) \in Seq(Entries)
            /\ Len(Tail(k.free)) = Len(k.free) - 1
      BY <1>0, <1>2, HeadTailProperties DEF IsContext
    <2>2. Len(Tail(k.free)) <= QUEUE_SIZE
      <3> DEFINE n == Len(k.free)
      <3>1. n \in Nat /\ n <= QUEUE_SIZE /\ QUEUE_SIZE \in Nat
        BY <1>0, ContextRead DEF TypedContext, IsBounded
      <3>2. Len(Tail(k.free)) = n - 1
        BY <2>1
      <3> HIDE DEF n
      <3> QED
        BY <3>1, <3>2
    <2>3. NewPCB(k.next) \in PCB
      BY <1>0, BlankPCB DEF IsContext
    <2>4. kproc_create(k) = scheduler_add(l, e)
      BY <1>2 DEF kproc_create
    <2>5. IsRecord(k) /\ ContextFields \subseteq DOMAIN k
      BY <1>0 DEF IsContext
    <2>6. /\ IsRecord(l) /\ DOMAIN l = DOMAIN k
          /\ l.proc = [k.proc EXCEPT ![e] = NewPCB(k.next)]
          /\ l.queue = k.queue /\ l.active = k.active /\ l.free = Tail(k.free)
          /\ l.next = k.next + 1 /\ l.status = k.status
      BY <2>5 DEF IsRecord, ContextFields
    <2> HIDE DEF e, l
    <2>7. [k.proc EXCEPT ![e] = NewPCB(k.next)] \in [Entries -> PCB]
      BY <1>0, <2>1, <2>3, StoreTyped DEF IsContext
    <2>8. TypedContext(l)
      BY <1>0, <2>1, <2>2, <2>5, <2>6, <2>7 DEF TypedContext, IsContext, IsBounded
    <2> QED
      BY <2>1, <2>4, <2>8, AddTyped
  <1> QED
    BY <1>1, <1>2

LEMMA ReleaseFields ==
    ASSUME NEW k, IsContext(k), NEW e \in Entries, NEW l, l = Release(k, e)
    PROVE  /\ SameShape(k, l)
           /\ l.proc = [k.proc EXCEPT ![e] = FreePCB]
           /\ l.free = IF Full(k.free) THEN k.free
                       ELSE Append(k.free, pid_to_proc(k, k.proc[e].pid))
           /\ l.queue = k.queue /\ l.active = k.active
           /\ l.next = k.next /\ l.status = k.status
  <1> DEFINE f == pid_to_proc(k, k.proc[e].pid)
             m == [k EXCEPT !.proc[e] = FreePCB]
             s == IF Full(k.free) THEN k.free ELSE Append(k.free, f)
  <1>1. IsRecord(k) /\ ContextFields \subseteq DOMAIN k
    BY DEF IsContext
  <1>2. l = [m EXCEPT !.free = s]
    BY DEF Release
  <1>3. /\ SameShape(k, m)
        /\ m.proc = [k.proc EXCEPT ![e] = FreePCB]
        /\ m.queue = k.queue /\ m.active = k.active /\ m.free = k.free
        /\ m.next = k.next /\ m.status = k.status
    BY <1>1 DEF IsRecord, ContextFields, SameShape
  <1> HIDE DEF m, s
  <1>4. /\ SameShape(k, l)
        /\ l.proc = [k.proc EXCEPT ![e] = FreePCB]
        /\ l.queue = k.queue /\ l.active = k.active /\ l.free = s
        /\ l.next = k.next /\ l.status = k.status
    BY <1>1, <1>2, <1>3 DEF IsRecord, ContextFields, SameShape
  <1> QED
    BY <1>4 DEF s

LEMMA ReleaseTyped ==
    ASSUME NEW k, TypedContext(k), NEW e \in Entries
    PROVE  TypedContext(Release(k, e))
  <1> DEFINE l == Release(k, e)
             f == pid_to_proc(k, k.proc[e].pid)
  <1>0. IsContext(k) /\ l = Release(k, e)
    BY DEF TypedContext
  <1>1. f \in Entries
    BY <1>0, FoundByPid
  <1> HIDE DEF l
  <1>2. /\ SameShape(k, l)
        /\ l.proc = [k.proc EXCEPT ![e] = FreePCB]
        /\ l.free = IF Full(k.free) THEN k.free ELSE Append(k.free, f)
        /\ l.queue = k.queue /\ l.active = k.active
        /\ l.next = k.next /\ l.status = k.status
    BY <1>0, ReleaseFields
  <1>3. l.proc \in [Entries -> PCB]
    BY <1>0, <1>2, StoreTyped, BlankPCB DEF IsContext
  <1> HIDE DEF f
  <1>4. k.free \in Seq(Entries) /\ Len(k.free) \in Nat /\ QUEUE_SIZE \in Nat
    BY <1>0, ContextRead DEF IsContext
  <1>5. /\ Append(k.free, f) \in Seq(Entries)
        /\ Len(Append(k.free, f)) = Len(k.free) + 1
    BY <1>1, <1>4, AppendTyped
  <1>6. ~Full(k.free) => Len(k.free) + 1 <= QUEUE_SIZE
    BY <1>4 DEF Full
  <1>7. l.free \in Seq(Entries) /\ Len(l.free) <= QUEUE_SIZE
    BY <1>2, <1>4, <1>5, <1>6 DEF TypedContext, IsBounded
  <1>8. IsRecord(l) /\ ContextFields \subseteq DOMAIN l
    BY <1>0, <1>2, ShapeKeepsFields
  <1>9. TypedContext(l)
    BY <1>0, <1>2, <1>3, <1>7, <1>8 DEF TypedContext, IsContext, IsBounded
  <1> QED
    BY <1>9 DEF l

LEMMA DestroyTyped ==
    ASSUME NEW k, TypedContext(k), NEW e \in Entries \cup {NULL}
    PROVE  TypedContext(kproc_destroy(k, e))
  <1>1. CASE e = NULL
    BY <1>1, PanicTyped DEF kproc_destroy
  <1>2. CASE e # NULL
    BY <1>2, RemoveTyped, ReleaseTyped DEF kproc_destroy
  <1> QED
    BY <1>1, <1>2

-----------------------------------------------------------------------------
(***************************************************************************)
(* Type correctness.                                                       *)
(***************************************************************************)

LEMMA TypedState ==
    TypeOK <=> TypedContext(Ctx)
  BY DEF TypeOK, TypedContext, IsContext, IsBounded, IsRecord, ContextFields, Ctx,
         Statuses

LEMMA TypedCommit ==
    ASSUME NEW k, TypedContext(k), Commit(k)
    PROVE  TypeOK'
  BY DEF TypeOK, TypedContext, IsContext, IsBounded, Commit, Statuses

LEMMA TypedExit ==
    ASSUME NEW k, TypedContext(k), ExitKernel(k)
    PROVE  TypeOK'
  BY RunTyped, TypedCommit DEF ExitKernel

LEMMA InitTyped == Init => TypeOK
  <1> SUFFICES ASSUME Init
               PROVE  TypeOK
    OBVIOUS
  <1>1. PROC_MAX \in Nat /\ BOOT_PROCS \in 1 .. PROC_MAX /\ QUEUE_SIZE \in Nat
          /\ PROC_MAX <= QUEUE_SIZE
    BY SizeAssumption
  <1>2. proc_table \in [Entries -> PCB]
    <2>1. \A e \in Entries : BootPCB(e) \in PCB
      BY EntryNumbers, BlankPCB, QueueNames DEF BootPCB, PCB
    <2> QED
      BY <2>1, BlankPCB DEF Init
  <1>3. \A q \in Queues : queue[q] \in Seq(Nat) /\ Len(queue[q]) <= QUEUE_SIZE
    <2>1. /\ [i \in 1 .. BOOT_PROCS |-> i - 1] \in Seq(Nat)
          /\ Len([i \in 1 .. BOOT_PROCS |-> i - 1]) = BOOT_PROCS
      BY <1>1
    <2>2. <<>> \in Seq(Nat) /\ Len(<<>>) = 0
      OBVIOUS
    <2> QED
      BY <1>1, <2>1, <2>2 DEF Init
  <1>4. proc_allocator \in Seq(Entries) /\ Len(proc_allocator) <= QUEUE_SIZE
    <2>1. \A i \in 1 .. (PROC_MAX - BOOT_PROCS) : BOOT_PROCS + i - 1 \in Entries
      BY <1>1 DEF Entries
    <2>2. PROC_MAX - BOOT_PROCS \in Nat
      BY <1>1
    <2> QED
      BY <1>1, <2>1, <2>2 DEF Init
  <1> QED
    BY <1>1, <1>2, <1>3, <1>4 DEF Init, TypeOK

\* Every step keeps the types, and no queue ever holds more than its array.
LEMMA NextTyped == TypeOK /\ [Next]_vars => TypeOK'
  <1> SUFFICES ASSUME TypeOK, [Next]_vars
               PROVE  TypeOK'
    OBVIOUS
  <1>0. TypedContext(Ctx) /\ active_proc \in Entries \cup {NULL}
    BY TypedState DEF TypeOK
  <1>1. CASE BootCreate
    BY <1>0, <1>1, CreateTyped, TypedCommit DEF BootCreate
  <1>2. CASE BootDestroy
    BY <1>0, <1>2, DestroyTyped, TypedCommit DEF BootDestroy
  <1>3. CASE BootKey
    BY <1>0, <1>3 DEF BootKey, Commit, Ctx, TypeOK
  <1>4. CASE TimerInterrupt
    BY <1>0, <1>4, TimerTyped, TypedExit DEF TimerInterrupt
  <1>5. CASE KeyCreate
    BY <1>0, <1>5, CreateTyped, TypedExit DEF KeyCreate
  <1>6. CASE KeyDestroy
    BY <1>0, <1>6, DestroyTyped, TypedExit DEF KeyDestroy
  <1>7. CASE KeyOther
    BY <1>0, <1>7, TypedExit DEF KeyOther
  <1>8. ASSUME NEW seconds \in SLEEP_SECONDS, ProcSleep(seconds)
        PROVE  TypeOK'
    <2>1. seconds * TICKS_PER_SECOND \in Int
      BY TimeAssumption
    <2>2. active_proc \in Entries
      BY <1>0, <1>8 DEF ProcSleep, InUserProcess
    <2> QED
      BY <1>0, <1>8, <2>1, <2>2, SleepTyped, TypedExit DEF ProcSleep
  <1>9. CASE ProcExit
    BY <1>0, <1>9, DestroyTyped, TypedExit DEF ProcExit
  <1>10. CASE UNCHANGED vars
    BY <1>10 DEF vars, TypeOK
  <1> QED
    BY <1>1, <1>2, <1>3, <1>4, <1>5, <1>6, <1>7, <1>8, <1>9, <1>10
       DEF Next, BootNext, InterruptNext, CallNext

\* The process table, the queues and the allocator have the types of kproc.h and
\* never more items than their arrays, whatever interrupts and calls come.
THEOREM TypeCorrect == Spec => []TypeOK
  BY InitTyped, NextTyped, PTL DEF Spec
-----------------------------------------------------------------------------
(***************************************************************************)
(* The safety invariant of Scheduler.  Sound(k, X) says what holds of the  *)
(* context k between two C functions of a kernel entry: the table, the     *)
(* allocator and the queues agree, save that the processes in X need not   *)
(* be in a queue (they have just been taken out of one, or created).       *)
(***************************************************************************)

Live(k, e) == k.proc[e].state # "NONE"

\* Pids are unique, and the idle task is entry 0: it runs or is ready.
PidsOK(k) ==
    /\ \A e \in Entries : Live(k, e) => k.proc[e].pid < k.next
    /\ \A e, f \in Entries :
          Live(k, e) /\ Live(k, f) /\ k.proc[e].pid = k.proc[f].pid => e = f
    /\ k.proc[0].pid = 0
    /\ k.proc[0].state \in {"IDLE", "ACTIVE"}

\* The allocator holds the free entries, each once, and they are blank.
FreeOK(k) ==
    /\ \A e \in Entries : Live(k, e) <=> ~ \E i \in 1 .. Len(k.free) : k.free[i] = e
    /\ NoItemTwice(k.free)
    /\ \A e \in Entries : ~Live(k, e) => k.proc[e] = FreePCB

InQueue(k, q, pid) == \E i \in 1 .. Len(k.queue[q]) : k.queue[q][i] = pid

NotQueued(k, e) == \A q \in Queues : ~InQueue(k, q, k.proc[e].pid)

BelongsTo(k, e, q) ==
    Live(k, e) /\ k.proc[e].scheduler_queue = q /\ k.proc[e].state = StateIn(q)

QueuedOK(k) ==
    \A q \in Queues : \A i \in 1 .. Len(k.queue[q]) :
        \E e \in Entries : BelongsTo(k, e, q) /\ k.proc[e].pid = k.queue[q][i]

OnceOK(k) == \A q \in Queues : NoItemTwice(k.queue[q])

Inactive == {"IDLE", "SLEEPING", "WAITING"}

\* One more process need not be in a queue.
With(X, e) == X \cup {e}

NoneLost(k, X) ==
    \A e \in Entries \ X :
        k.proc[e].state \in Inactive /\ k.proc[e].pid # 0
        => /\ k.proc[e].scheduler_queue \in Queues
           /\ InQueue(k, k.proc[e].scheduler_queue, k.proc[e].pid)

\* A process that is ready has no CPU time charged to it.
FreshOK(k) == \A e \in Entries : k.proc[e].state = "IDLE" => k.proc[e].cpu_time = 0

Sound(k, X) ==
    /\ TypedContext(k)
    /\ PidsOK(k) /\ FreeOK(k) /\ QueuedOK(k) /\ OnceOK(k) /\ NoneLost(k, X)
    /\ FreshOK(k)

\* The processes, the queues, the free entries and the next pid decide.
LEMMA SoundByFields ==
    ASSUME NEW k, NEW X, Sound(k, X), NEW l, TypedContext(l),
           l.proc = k.proc, l.queue = k.queue, l.free = k.free, l.next = k.next
    PROVE  Sound(l, X)
  <1>1. PidsOK(l)
    BY DEF Sound, PidsOK, Live
  <1>2. FreeOK(l)
    BY DEF Sound, FreeOK, Live
  <1>3. QueuedOK(l)
    BY DEF Sound, QueuedOK, BelongsTo, Live
  <1>4. OnceOK(l)
    BY DEF Sound, OnceOK
  <1>5. NoneLost(l, X)
    BY DEF Sound, NoneLost, InQueue
  <1>6. FreshOK(l)
    BY DEF Sound, FreshOK
  <1> QED
    BY ONLY <1>1, <1>2, <1>3, <1>4, <1>5, <1>6, TypedContext(l) DEF Sound

-----------------------------------------------------------------------------
(***************************************************************************)
(* What a sound context tells about a process.                             *)
(***************************************************************************)

LEMMA QueueStates ==
    /\ StateIn(RunQ) = "IDLE" /\ StateIn(SleepQ) = "SLEEPING"
    /\ \A q \in Queues : StateIn(q) \in Inactive
    /\ \A q \in Queues : StateIn(q) = "IDLE" => q = RunQ
    /\ \A q \in Queues : StateIn(q) # "NONE" /\ StateIn(q) # "ACTIVE"
  BY QueueNames DEF StateIn, Inactive

LEMMA SoundRead ==
    ASSUME NEW k, NEW X, Sound(k, X)
    PROVE  /\ IsContext(k) /\ TypedContext(k)
           /\ \A e \in Entries : k.proc[e] \in PCB /\ k.proc[e].pid \in Nat
           /\ \A q \in Queues : k.queue[q] \in Seq(Nat) /\ Len(k.queue[q]) \in Nat
           /\ Live(k, 0)
  BY ContextRead DEF Sound, TypedContext, PidsOK, Live

\* A queued process is in the state and points at the queue that holds it.
LEMMA QueuedState ==
    ASSUME NEW k, NEW X, Sound(k, X), NEW e \in Entries, Live(k, e),
           NEW q \in Queues, InQueue(k, q, k.proc[e].pid)
    PROVE  k.proc[e].state = StateIn(q) /\ k.proc[e].scheduler_queue = q
  BY DEF Sound, QueuedOK, InQueue, BelongsTo, PidsOK

LEMMA ActiveNotQueued ==
    ASSUME NEW k, NEW X, Sound(k, X), NEW e \in Entries, k.proc[e].state = "ACTIVE"
    PROVE  NotQueued(k, e)
  BY QueuedState, QueueStates DEF NotQueued, Live

\* pid_to_proc finds a live process by its pid, the idle task included, whose
\* pid 0 all free entries have too.
LEMMA LookUp ==
    ASSUME NEW k, NEW X, Sound(k, X), NEW e \in Entries, Live(k, e)
    PROVE  pid_to_proc(k, k.proc[e].pid) = e
  <1> DEFINE pid == k.proc[e].pid
             f == pid_to_proc(k, pid)
  <1>1. IsContext(k)
    BY SoundRead
  <1>2. /\ f \in Entries /\ k.proc[f].pid = pid
        /\ \A g \in Entries : k.proc[g].pid = pid => f <= g
    BY <1>1, FoundByPid
  <1>3. CASE Live(k, f)
    BY <1>2, <1>3 DEF Sound, PidsOK
  <1>4. CASE ~Live(k, f)
    <2>1. pid = 0
      BY <1>2, <1>4 DEF Sound, FreeOK, FreePCB
    <2>2. e = 0 /\ 0 \in Entries /\ k.proc[0].pid = 0
      BY <2>1, EntryNumbers, SoundRead DEF Sound, PidsOK
    <2>3. f <= 0 /\ f \in Nat
      BY <1>2, <2>1, <2>2, EntryNumbers
    <2> QED
      BY <2>2, <2>3
  <1> QED
    BY <1>3, <1>4

\* A sequence of distinct pids of processes in E is no longer than E is large.
LEMMA DistinctPids ==
    ASSUME NEW t \in [Entries -> PCB], NEW E \in SUBSET Entries, NEW s \in Seq(Nat),
           NoItemTwice(s),
           \A i \in 1 .. Len(s) : \E e \in E : t[e].pid = s[i]
    PROVE  Len(s) <= Cardinality(E)
  <1> DEFINE D == 1 .. Len(s)
             f == [i \in D |-> CHOOSE e \in E : t[e].pid = s[i]]
  <1>1. Len(s) \in Nat
    OBVIOUS
  <1>2. IsFiniteSet(D) /\ Cardinality(D) = Len(s)
    BY <1>1, IntervalSize
  <1>3. IsFiniteSet(E)
    BY EntryNumbers, FS_Subset
  <1>4. \A i \in D : f[i] \in E /\ t[f[i]].pid = s[i]
    OBVIOUS
  <1>5. \A i, j \in D : f[i] = f[j] => i = j
    BY <1>4 DEF NoItemTwice
  <1>6. f \in [D -> E]
    BY <1>4
  <1> HIDE DEF f, D
  <1>7. Cardinality(D) <= Cardinality(E)
    BY <1>3, <1>5, <1>6, InjectionBound
  <1> QED
    BY <1>2, <1>7

LEMMA EntriesCount ==
    /\ Cardinality(Entries) = PROC_MAX
    /\ \A e \in Entries : Cardinality(Entries \ {e}) = PROC_MAX - 1
    /\ PROC_MAX \in Nat /\ QUEUE_SIZE \in Nat /\ PROC_MAX <= QUEUE_SIZE
  <1>1. PROC_MAX \in Nat \ {0} /\ QUEUE_SIZE \in Nat /\ PROC_MAX <= QUEUE_SIZE
    BY SizeAssumption
  <1>2. 0 \in Int /\ PROC_MAX - 1 \in Int /\ 0 <= PROC_MAX - 1
          /\ (PROC_MAX - 1) - 0 + 1 = PROC_MAX
    BY <1>1
  <1>3. Cardinality(Entries) = PROC_MAX
    BY <1>2, FS_Interval DEF Entries
  <1>4. \A e \in Entries : Cardinality(Entries \ {e}) = Cardinality(Entries) - 1
    BY EntryNumbers, FS_RemoveElement
  <1> QED
    BY <1>1, <1>3, <1>4

\* A queue has room for a live process that is not in it.
LEMMA RoomInQueue ==
    ASSUME NEW k, NEW X, Sound(k, X), NEW e \in Entries, Live(k, e), NotQueued(k, e),
           NEW q \in Queues
    PROVE  ~Full(k.queue[q])
  <1> DEFINE s == k.queue[q]
             E == Entries \ {e}
  <1>1. s \in Seq(Nat) /\ Len(s) \in Nat /\ NoItemTwice(s)
          /\ k.proc \in [Entries -> PCB]
    BY SoundRead DEF Sound, OnceOK, IsContext
  <1>2. \A i \in 1 .. Len(s) : \E f \in E : k.proc[f].pid = s[i]
    BY DEF Sound, QueuedOK, NotQueued, InQueue
  <1> HIDE DEF s, E
  <1>3. Len(s) <= Cardinality(E)
    BY <1>1, <1>2, DistinctPids DEF E
  <1>4. Len(s) < QUEUE_SIZE
    BY <1>1, <1>3, EntriesCount DEF E
  <1>5. ~(Len(s) >= QUEUE_SIZE)
    BY <1>1, <1>4, EntriesCount
  <1> QED
    BY <1>5 DEF Full, s

-----------------------------------------------------------------------------
(***************************************************************************)
(* One process changes.  StoredIn says that l is k with p in entry e.      *)
(***************************************************************************)

StoredIn(k, l, e, p) ==
    /\ TypedContext(l)
    /\ l.proc = [k.proc EXCEPT ![e] = p]
    /\ l.free = k.free /\ l.next = k.next

\* p is e's control block again, with another state.
Revises(k, e, p) ==
    /\ p \in PCB /\ p.pid = k.proc[e].pid /\ p.state # "NONE"
    /\ p.state = "IDLE" => p.cpu_time = 0
    /\ e = 0 => p.state \in {"IDLE", "ACTIVE"}

LEMMA TableAfter ==
    ASSUME NEW k, NEW X, Sound(k, X), NEW e \in Entries, Live(k, e), NEW p, NEW l,
           StoredIn(k, l, e, p), Revises(k, e, p)
    PROVE  /\ PidsOK(l) /\ FreeOK(l) /\ FreshOK(l)
           /\ l.proc[e] = p
           /\ \A f \in Entries \ {e} : l.proc[f] = k.proc[f]
           /\ \A f \in Entries : Live(l, f) <=> Live(k, f)
           /\ \A f \in Entries : l.proc[f].pid = k.proc[f].pid
  <1>1. k.proc \in [Entries -> PCB]
    BY SoundRead DEF IsContext
  <1>2. l.proc[e] = p /\ \A f \in Entries \ {e} : l.proc[f] = k.proc[f]
    BY <1>1 DEF StoredIn
  <1>3. /\ \A f \in Entries : Live(l, f) <=> Live(k, f)
        /\ \A f \in Entries : l.proc[f].pid = k.proc[f].pid
    BY <1>2 DEF Live, Revises
  <1>4. PidsOK(l)
    <2>1. l.proc[0].pid = 0
      BY <1>3, EntryNumbers DEF Sound, PidsOK
    <2>2. l.proc[0].state \in {"IDLE", "ACTIVE"}
      BY <1>2, EntryNumbers DEF Sound, PidsOK, Revises
    <2>3. l.next = k.next
      BY DEF StoredIn
    <2> QED
      BY <1>3, <2>1, <2>2, <2>3 DEF Sound, PidsOK
  <1>5. FreeOK(l)
    <2>1. l.free = k.free
      BY DEF StoredIn
    <2>2. \A f \in Entries : ~Live(l, f) => l.proc[f] = FreePCB
      BY <1>2, <1>3 DEF Sound, FreeOK
    <2> QED
      BY <1>3, <2>1, <2>2 DEF Sound, FreeOK
  <1>6. FreshOK(l)
    BY <1>2 DEF Sound, FreshOK, Revises
  <1> QED
    BY <1>2, <1>3, <1>4, <1>5, <1>6

\* The process keeps its state and its queue.
LEMMA TouchSound ==
    ASSUME NEW k, NEW X, Sound(k, X), NEW e \in Entries, Live(k, e), NEW p, NEW l,
           StoredIn(k, l, e, p), Revises(k, e, p), l.queue = k.queue,
           p.state = k.proc[e].state, p.scheduler_queue = k.proc[e].scheduler_queue
    PROVE  Sound(l, X)
  <1>0. TypedContext(l)
    BY DEF StoredIn
  <1>1. /\ PidsOK(l) /\ FreeOK(l) /\ FreshOK(l)
        /\ l.proc[e] = p
        /\ \A f \in Entries \ {e} : l.proc[f] = k.proc[f]
        /\ \A f \in Entries : Live(l, f) <=> Live(k, f)
        /\ \A f \in Entries : l.proc[f].pid = k.proc[f].pid
    BY TableAfter
  <1>2. \A f \in Entries : /\ l.proc[f].state = k.proc[f].state
                           /\ l.proc[f].scheduler_queue = k.proc[f].scheduler_queue
    BY <1>1
  <1>3. QueuedOK(l)
    BY <1>1, <1>2 DEF Sound, QueuedOK, BelongsTo
  <1>4. OnceOK(l)
    BY DEF Sound, OnceOK
  <1>5. NoneLost(l, X)
    BY <1>1, <1>2, SMTT(40) DEF Sound, NoneLost, InQueue
  <1> QED
    BY <1>0, <1>1, <1>3, <1>4, <1>5 DEF Sound

\* A process that is in no queue changes its state: it is still in no queue.
LEMMA DetachedSound ==
    ASSUME NEW k, NEW X, NEW e \in Entries, Sound(k, With(X, e)), Live(k, e), NotQueued(k, e),
           NEW p, NEW l,
           StoredIn(k, l, e, p), Revises(k, e, p), l.queue = k.queue
    PROVE  Sound(l, With(X, e)) /\ NotQueued(l, e) /\ Live(l, e)
  <1>0. TypedContext(l)
    BY DEF StoredIn
  <1>1. /\ PidsOK(l) /\ FreeOK(l) /\ FreshOK(l)
        /\ \A f \in Entries \ {e} : l.proc[f] = k.proc[f]
        /\ \A f \in Entries : Live(l, f) <=> Live(k, f)
        /\ \A f \in Entries : l.proc[f].pid = k.proc[f].pid
    BY TableAfter
  <1>2. QueuedOK(l)
    <2> SUFFICES ASSUME NEW q \in Queues, NEW i \in 1 .. Len(k.queue[q])
                 PROVE  \E f \in Entries : BelongsTo(l, f, q)
                                           /\ l.proc[f].pid = k.queue[q][i]
      BY DEF QueuedOK
    <2>1. PICK f \in Entries : BelongsTo(k, f, q) /\ k.proc[f].pid = k.queue[q][i]
      BY DEF Sound, QueuedOK
    <2>2. f # e
      BY <2>1 DEF NotQueued, InQueue
    <2> QED
      BY <1>1, <2>1, <2>2 DEF BelongsTo
  <1>3. OnceOK(l)
    BY DEF Sound, OnceOK
  <1>4. NoneLost(l, With(X, e))
    BY <1>1 DEF Sound, NoneLost, InQueue, With
  <1>5. NotQueued(l, e)
    BY <1>1 DEF NotQueued, InQueue
  <1> QED
    BY <1>0, <1>1, <1>2, <1>3, <1>4, <1>5 DEF Sound

LEMMA AppendItems ==
    ASSUME NEW S, NEW s \in Seq(S), NEW x \in S
    PROVE  /\ Len(Append(s, x)) = Len(s) + 1 /\ Len(s) \in Nat
           /\ \A i \in 1 .. Len(s) : Append(s, x)[i] = s[i] /\ i \in 1 .. Len(Append(s, x))
           /\ Append(s, x)[Len(s) + 1] = x /\ Len(s) + 1 \in 1 .. Len(Append(s, x))
           /\ \A i \in 1 .. Len(Append(s, x)) : i \in 1 .. Len(s) \/ i = Len(s) + 1
  OBVIOUS

LEMMA AppendOnce ==
    ASSUME NEW S, NEW s \in Seq(S), NEW x \in S, NoItemTwice(s),
           \A i \in 1 .. Len(s) : s[i] # x
    PROVE  NoItemTwice(Append(s, x))
  <1>1. SUFFICES ASSUME NEW i \in 1 .. Len(Append(s, x)),
                        NEW j \in 1 .. Len(Append(s, x)),
                        Append(s, x)[i] = Append(s, x)[j]
                 PROVE  i = j
    BY DEF NoItemTwice
  <1>2. CASE i \in 1 .. Len(s) /\ j \in 1 .. Len(s)
    <2>1. s[i] = s[j]
      BY <1>1, <1>2, AppendItems
    <2> QED
      BY <1>2, <2>1 DEF NoItemTwice
  <1>3. CASE i \in 1 .. Len(s) /\ j = Len(s) + 1
    BY <1>1, <1>3, AppendItems
  <1>4. CASE i = Len(s) + 1 /\ j \in 1 .. Len(s)
    BY <1>1, <1>4, AppendItems
  <1>5. CASE i = Len(s) + 1 /\ j = Len(s) + 1
    BY <1>5
  <1> QED
    BY <1>2, <1>3, <1>4, <1>5, AppendItems

\* A process that is in no queue enters queue q, in the state of q.
LEMMA EnterSound ==
    ASSUME NEW k, NEW X, NEW e \in Entries, Sound(k, With(X, e)), Live(k, e), NotQueued(k, e),
           NEW q \in Queues, NEW p, NEW l,
           StoredIn(k, l, e, p), Revises(k, e, p),
           p.state = StateIn(q), p.scheduler_queue = q,
           l.queue = [k.queue EXCEPT ![q] = Append(@, k.proc[e].pid)]
    PROVE  Sound(l, X)
  <1> DEFINE x == k.proc[e].pid
             s == k.queue[q]
             a == Append(s, x)
  <1>0. TypedContext(l)
    BY DEF StoredIn
  <1>1. /\ PidsOK(l) /\ FreeOK(l) /\ FreshOK(l)
        /\ l.proc[e] = p
        /\ \A f \in Entries \ {e} : l.proc[f] = k.proc[f]
        /\ \A f \in Entries : Live(l, f) <=> Live(k, f)
        /\ \A f \in Entries : l.proc[f].pid = k.proc[f].pid
    BY TableAfter
  <1>2. s \in Seq(Nat) /\ x \in Nat
    BY SoundRead
  <1>3. l.queue[q] = a /\ \A r \in Queues \ {q} : l.queue[r] = k.queue[r]
    BY SoundRead DEF IsContext
  <1>4. \A i \in 1 .. Len(s) : s[i] # x
    BY DEF NotQueued, InQueue
  <1>5. /\ \A i \in 1 .. Len(s) : a[i] = s[i] /\ i \in 1 .. Len(a)
        /\ a[Len(s) + 1] = x /\ Len(s) + 1 \in 1 .. Len(a)
        /\ \A i \in 1 .. Len(a) : i \in 1 .. Len(s) \/ i = Len(s) + 1
    BY <1>2, AppendItems
  <1>6. NoItemTwice(a)
    BY <1>2, <1>4, AppendOnce DEF Sound, OnceOK
  <1>7. OnceOK(l)
    BY <1>3, <1>6 DEF Sound, OnceOK
  <1> HIDE DEF a, s
  <1>8. \A r \in Queues : \A i \in 1 .. Len(k.queue[r]) :
            \E f \in Entries \ {e} : BelongsTo(l, f, r)
                                     /\ l.proc[f].pid = k.queue[r][i]
    <2> SUFFICES ASSUME NEW r \in Queues, NEW i \in 1 .. Len(k.queue[r])
                 PROVE  \E f \in Entries \ {e} : BelongsTo(l, f, r)
                                           /\ l.proc[f].pid = k.queue[r][i]
      OBVIOUS
    <2>1. PICK f \in Entries : BelongsTo(k, f, r) /\ k.proc[f].pid = k.queue[r][i]
      BY DEF Sound, QueuedOK
    <2>2. f # e
      BY <2>1 DEF NotQueued, InQueue
    <2> QED
      BY <1>1, <2>1, <2>2 DEF BelongsTo
  <1>9. BelongsTo(l, e, q) /\ l.proc[e].pid = x
    BY <1>1 DEF BelongsTo
  <1>10. QueuedOK(l)
    <2> SUFFICES ASSUME NEW r \in Queues, NEW i \in 1 .. Len(l.queue[r])
                 PROVE  \E f \in Entries : BelongsTo(l, f, r)
                                           /\ l.proc[f].pid = l.queue[r][i]
      BY DEF QueuedOK
    <2>1. CASE r # q
      BY <1>3, <1>8, <2>1
    <2>2. CASE r = q /\ i \in 1 .. Len(s)
      BY <1>3, <1>5, <1>8, <2>2 DEF s
    <2>3. CASE r = q /\ i = Len(s) + 1
      BY <1>3, <1>5, <1>9, <2>3
    <2> QED
      BY <1>3, <1>5, <2>1, <2>2, <2>3
  <1>11. \A r \in Queues, y \in Nat : InQueue(k, r, y) => InQueue(l, r, y)
    BY <1>3, <1>5 DEF InQueue, s
  <1>12. InQueue(l, q, x)
    BY <1>3, <1>5 DEF InQueue
  <1>13. NoneLost(l, X)
    <2> SUFFICES ASSUME NEW f \in Entries \ X, l.proc[f].state \in Inactive,
                        l.proc[f].pid # 0
                 PROVE  /\ l.proc[f].scheduler_queue \in Queues
                        /\ InQueue(l, l.proc[f].scheduler_queue, l.proc[f].pid)
      BY DEF NoneLost
    <2>1. CASE f = e
      BY <1>1, <1>12, <2>1
    <2>2. CASE f # e
      <3>1. l.proc[f] = k.proc[f] /\ k.proc[f].pid \in Nat
        BY <1>1, <2>2, SoundRead
      <3>2. /\ k.proc[f].scheduler_queue \in Queues
            /\ InQueue(k, k.proc[f].scheduler_queue, k.proc[f].pid)
        BY <2>2, <3>1 DEF Sound, NoneLost, With
      <3> QED
        BY <1>11, <3>1, <3>2
    <2> QED
      BY <2>1, <2>2
  <1> QED
    BY <1>0, <1>1, <1>7, <1>10, <1>13 DEF Sound

-----------------------------------------------------------------------------
(***************************************************************************)
(* scheduler_add and scheduler_remove.                                     *)
(***************************************************************************)

LEMMA WeakerSound ==
    ASSUME NEW k, NEW X, Sound(k, X), NEW e
    PROVE  Sound(k, With(X, e))
  BY DEF Sound, NoneLost, With

LEMMA AddSound ==
    ASSUME NEW k, NEW X, NEW e \in Entries, Sound(k, With(X, e)), Live(k, e), NotQueued(k, e),
           e = 0 => k.proc[e].state \in {"IDLE", "ACTIVE"},
           NEW l, l = scheduler_add(k, e)
    PROVE  /\ Sound(l, X)
           /\ l.proc[e].state = "IDLE"
           /\ \A f \in Entries \ {e} : l.proc[f] = k.proc[f]
           /\ l.active = k.active /\ l.status = k.status
           /\ l.queue = [k.queue EXCEPT ![RunQ] = Append(@, k.proc[e].pid)]
  <1> DEFINE p == ReadyPCB(k.proc[e])
  <1>1. IsContext(k) /\ TypedContext(k) /\ k.proc[e] \in PCB
    BY SoundRead
  <1>2. ~Full(k.queue[RunQ])
    BY RoomInQueue, QueueNames
  <1>3. /\ l.proc = [k.proc EXCEPT ![e] = ReadyPCB(@)]
        /\ l.queue = [k.queue EXCEPT ![RunQ] = Append(@, k.proc[e].pid)]
        /\ l.active = k.active /\ l.free = k.free
        /\ l.next = k.next /\ l.status = k.status
    BY <1>1, <1>2, AddFields
  <1>4. TypedContext(l)
    BY <1>1, AddTyped
  <1>5. p.state = "IDLE" /\ p.scheduler_queue = RunQ /\ p.cpu_time = 0
          /\ p \in PCB /\ p.pid = k.proc[e].pid
    <2>1. p \in PCB /\ p.pid = k.proc[e].pid
      BY <1>1, ChangedPCBs
    <2>2. p.state = "IDLE" /\ p.scheduler_queue = RunQ /\ p.cpu_time = 0
      BY <1>1 DEF ReadyPCB, PCB
    <2> QED
      BY <2>1, <2>2
  <1>6. l.proc[e] = p /\ \A f \in Entries \ {e} : l.proc[f] = k.proc[f]
    BY <1>1, <1>3 DEF IsContext
  <1>7. l.proc = [k.proc EXCEPT ![e] = p]
    BY <1>1, <1>3 DEF IsContext
  <1> HIDE DEF p
  <1>8. StoredIn(k, l, e, p) /\ Revises(k, e, p)
    BY <1>3, <1>4, <1>5, <1>7 DEF StoredIn, Revises
  <1>9. Sound(l, X)
    <2>1. RunQ \in Queues /\ StateIn(RunQ) = "IDLE"
      BY QueueNames, QueueStates
    <2> QED
      BY <1>3, <1>5, <1>8, <2>1, EnterSound, ZenonT(40)
  <1> QED
    BY <1>3, <1>5, <1>6, <1>9

\* The loop of scheduler_remove reaches the item it looks for.
LEMMA FoundReached ==
    ASSUME NEW S, NEW s \in Seq(S), NoItemTwice(s), NEW x
    PROVE  {i \in 1 .. Len(s) : s[i] = x} \subseteq
               Reached(s, {i \in 1 .. Len(s) : s[i] = x})
  <1> DEFINE found == {i \in 1 .. Len(s) : s[i] = x}
  <1> SUFFICES ASSUME NEW i \in found
               PROVE  i \in Reached(s, found)
    OBVIOUS
  <1>1. {j \in found : j < i} = {}
    BY DEF NoItemTwice
  <1>2. i \in 1 .. Len(s) /\ Len(s) \in Nat
    OBVIOUS
  <1> HIDE DEF found
  <1>3. LeftBefore(found, i) = 0
    <2> DEFINE B == {j \in found : j < i}
    <2>1. LeftBefore(found, i) = Cardinality(B)
      BY DEF LeftBefore
    <2>2. B = {}
      BY <1>1
    <2> HIDE DEF B
    <2> QED
      BY <2>1, <2>2, FS_EmptySet
  <1>4. (i - 1) + LeftBefore(found, i) < Len(s)
    BY <1>2, <1>3
  <1> QED
    BY <1>2, <1>4 DEF Reached

\* A process is taken out of the queue it is in, if it is in one.
LEMMA UnqueueSound ==
    ASSUME NEW k, NEW X, Sound(k, X), NEW e \in Entries, Live(k, e), NEW l, l = Unqueue(k, e)
    PROVE  /\ Sound(l, With(X, e)) /\ NotQueued(l, e) /\ Live(l, e)
           /\ l.proc[e].pid = k.proc[e].pid /\ l.proc[e].state = k.proc[e].state
           /\ \A f \in Entries \ {e} : l.proc[f] = k.proc[f]
           /\ l.active = k.active /\ l.status = k.status /\ l.free = k.free
  <1> DEFINE q == k.proc[e].scheduler_queue
             s == k.queue[q]
             x == k.proc[e].pid
             found == {i \in 1 .. Len(s) : s[i] = x}
             r == Rotate(s, found)
             p == UnqueuedPCB(k.proc[e])
  <1>1. IsContext(k) /\ TypedContext(k) /\ k.proc[e] \in PCB /\ x \in Nat
          /\ q \in Queues \cup {NULL}
    BY SoundRead, PCBFields
  <1>2. \A g \in Queues : InQueue(k, g, x) => q = g
    BY QueuedState
  <1>3. CASE q = NULL
    <2>1. l = k
      BY <1>3 DEF Unqueue
    <2>2. NotQueued(k, e)
      BY <1>2, <1>3, QueueNames DEF NotQueued
    <2> QED
      BY <2>1, <2>2, WeakerSound
  <1>4. CASE q # NULL
    <2>1. q \in Queues
      BY <1>1, <1>4
    <2>2. /\ l.proc = [k.proc EXCEPT ![e] = UnqueuedPCB(@)]
          /\ l.queue = [k.queue EXCEPT ![q] = Rotate(@, FoundAt(k, e))]
          /\ l.active = k.active /\ l.free = k.free
          /\ l.next = k.next /\ l.status = k.status
      BY <1>1, <1>4, UnqueueFields
    <2>3. l.queue[q] = r /\ \A g \in Queues \ {q} : l.queue[g] = k.queue[g]
      BY <1>1, <2>1, <2>2 DEF FoundAt, IsContext
    <2>4. s \in Seq(Nat) /\ NoItemTwice(s)
      BY <2>1, SoundRead DEF Sound, OnceOK
    <2>5. /\ p.pid = x /\ p.state = k.proc[e].state
          /\ p.cpu_time = k.proc[e].cpu_time /\ p \in PCB
      BY <1>1, ChangedPCBs DEF UnqueuedPCB, PCB
    <2>6. l.proc = [k.proc EXCEPT ![e] = p]
      BY <1>1, <2>2 DEF IsContext
    <2> HIDE DEF p, s, r
    <2>7. Revises(k, e, p)
      BY <2>5 DEF Revises, Sound, FreshOK, PidsOK, Live
    <2>8. TypedContext(l)
      BY <1>1, UnqueueTyped
    <2>9. StoredIn(k, l, e, p)
      BY <2>2, <2>6, <2>8 DEF StoredIn
    <2>10. /\ PidsOK(l) /\ FreeOK(l) /\ FreshOK(l)
           /\ l.proc[e] = p
           /\ \A f \in Entries \ {e} : l.proc[f] = k.proc[f]
           /\ \A f \in Entries : Live(l, f) <=> Live(k, f)
           /\ \A f \in Entries : l.proc[f].pid = k.proc[f].pid
      BY <2>7, <2>9, TableAfter
    <2>11. found \subseteq Reached(s, found) /\ found \subseteq 1 .. Len(s)
      BY <2>4, FoundReached
    <2>12. Kept(s, found) = {i \in 1 .. Len(s) : s[i] # x}
      BY <2>11 DEF Kept, Positions
    <2>13. /\ \A m \in 1 .. Len(r) : \E i \in 1 .. Len(s) : s[i] # x /\ r[m] = s[i]
           /\ \A i \in 1 .. Len(s) : s[i] # x => \E m \in 1 .. Len(r) : r[m] = s[i]
      <3> HIDE DEF found
      <3>1. /\ \A m \in 1 .. Len(r) : \E i \in Kept(s, found) : r[m] = s[i]
            /\ \A i \in Kept(s, found) : \E m \in 1 .. Len(r) : r[m] = s[i]
        BY <2>4, RotateItems DEF r
      <3> QED
        BY <2>12, <3>1
    <2>14. OnceOK(l)
      <3>1. NoItemTwice(r)
        BY <2>4, RotateOnce DEF r
      <3> QED
        BY <2>3, <3>1 DEF Sound, OnceOK
    <2>15. NotQueued(l, e)
      <3>1. ~InQueue(l, q, x)
        BY <2>3, <2>13 DEF InQueue
      <3>2. \A g \in Queues \ {q} : ~InQueue(l, g, x)
        BY <1>2, <2>3 DEF InQueue
      <3> QED
        BY <2>10, <3>1, <3>2 DEF NotQueued
    <2>16. QueuedOK(l)
      <3> SUFFICES ASSUME NEW g \in Queues, NEW m \in 1 .. Len(l.queue[g])
                   PROVE  \E f \in Entries : BelongsTo(l, f, g)
                                             /\ l.proc[f].pid = l.queue[g][m]
        BY DEF QueuedOK
      <3>1. \E i \in 1 .. Len(k.queue[g]) : l.queue[g][m] = k.queue[g][i]
        <4>1. CASE g = q
          BY <2>3, <2>13, <4>1 DEF s
        <4>2. CASE g # q
          BY <2>3, <4>2
        <4> QED
          BY <4>1, <4>2
      <3>2. PICK f \in Entries : BelongsTo(k, f, g) /\ k.proc[f].pid = l.queue[g][m]
        BY <3>1 DEF Sound, QueuedOK
      <3>3. f # e
        BY <2>10, <2>15, <3>2 DEF NotQueued, InQueue
      <3> QED
        BY <2>10, <3>2, <3>3 DEF BelongsTo
    <2>17. NoneLost(l, With(X, e))
      <3> SUFFICES ASSUME NEW f \in Entries \ With(X, e), l.proc[f].state \in Inactive,
                          l.proc[f].pid # 0
                   PROVE  /\ l.proc[f].scheduler_queue \in Queues
                          /\ InQueue(l, l.proc[f].scheduler_queue, l.proc[f].pid)
        BY DEF NoneLost
      <3>0. f \in Entries \ X /\ f # e
        BY DEF With
      <3>1. l.proc[f] = k.proc[f]
        BY <2>10, <3>0
      <3> DEFINE g == k.proc[f].scheduler_queue
                 y == k.proc[f].pid
      <3>2. g \in Queues /\ InQueue(k, g, y)
        BY <3>0, <3>1 DEF Sound, NoneLost
      <3>3. y # x
        BY <3>0, <3>1 DEF Sound, PidsOK, Live, Inactive
      <3>4. InQueue(l, g, y)
        <4> HIDE DEF g, y
        <4>1. CASE g = q
          <5>1. PICK i \in 1 .. Len(s) : s[i] = y
            BY <3>2, <4>1 DEF InQueue, s
          <5>2. \E m \in 1 .. Len(r) : r[m] = y
            BY <2>13, <3>3, <5>1
          <5> QED
            BY <2>3, <4>1, <5>2 DEF InQueue
        <4>2. CASE g # q
          BY <2>3, <3>2, <4>2 DEF InQueue
        <4> QED
          BY <4>1, <4>2
      <3> QED
        BY <3>1, <3>2, <3>4
    <2>18. Sound(l, With(X, e))
      BY <2>8, <2>10, <2>14, <2>16, <2>17 DEF Sound
    <2> QED
      BY <2>2, <2>5, <2>10, <2>15, <2>18
  <1> QED
    BY <1>3, <1>4

LEMMA RemoveSound ==
    ASSUME NEW k, NEW X, Sound(k, X), NEW e \in Entries, Live(k, e),
           NEW l, l = scheduler_remove(k, e)
    PROVE  /\ Sound(l, With(X, e)) /\ NotQueued(l, e) /\ Live(l, e)
           /\ l.proc[e].pid = k.proc[e].pid /\ l.proc[e].state = k.proc[e].state
           /\ \A f \in Entries \ {e} : l.proc[f] = k.proc[f]
           /\ l.active = IF k.active = e THEN NULL ELSE k.active
           /\ l.status = k.status /\ l.free = k.free
  <1> DEFINE u == Unqueue(k, e)
  <1>1. /\ Sound(u, With(X, e)) /\ NotQueued(u, e) /\ Live(u, e)
        /\ u.proc[e].pid = k.proc[e].pid /\ u.proc[e].state = k.proc[e].state
        /\ \A f \in Entries \ {e} : u.proc[f] = k.proc[f]
        /\ u.active = k.active /\ u.status = k.status /\ u.free = k.free
    BY UnqueueSound
  <1>2. IsContext(k) /\ TypedContext(k)
    BY SoundRead
  <1>3. /\ l.proc = u.proc /\ l.queue = u.queue
        /\ l.active = IF k.active = e THEN NULL ELSE k.active
        /\ l.free = k.free /\ l.next = k.next /\ l.status = k.status
    BY <1>2, RemoveFields
  <1>4. TypedContext(l)
    BY <1>2, RemoveTyped
  <1>5. u.next = k.next
    <2>1. CASE k.proc[e].scheduler_queue = NULL
      BY <2>1 DEF Unqueue
    <2>2. CASE k.proc[e].scheduler_queue # NULL
      BY <1>2, <2>2, UnqueueFields
    <2> QED
      BY <2>1, <2>2
  <1> HIDE DEF u
  <1>6. Sound(l, With(X, e))
    BY ONLY <1>1, <1>3, <1>4, <1>5, SoundByFields
  <1>7. NotQueued(l, e) /\ Live(l, e)
    BY <1>1, <1>3 DEF NotQueued, InQueue, Live
  <1> QED
    BY <1>1, <1>3, <1>6, <1>7

\* A process that has been taken out of its queue blocks in queue q.
LEMMA BlockSound ==
    ASSUME NEW k, NEW X, NEW e \in Entries \ {0}, Sound(k, With(X, e)), Live(k, e), NotQueued(k, e),
           NEW q \in Queues, q # RunQ, NEW l, l = Block(k, e, StateIn(q), q)
    PROVE  /\ Sound(l, X)
           /\ l.proc[e].state = StateIn(q)
           /\ \A f \in Entries \ {e} : l.proc[f] = k.proc[f]
           /\ l.active = k.active /\ l.status = k.status
  <1> DEFINE st == StateIn(q)
             p == BlockedPCB(k.proc[e], st, q)
  <1>1. IsContext(k) /\ TypedContext(k) /\ k.proc[e] \in PCB
    BY SoundRead
  <1>2. st \in States /\ st # "IDLE" /\ st # "NONE"
    BY QueueStates DEF States, Inactive
  <1> HIDE DEF st
  <1>3. /\ l.proc = [k.proc EXCEPT ![e] = BlockedPCB(@, st, q)]
        /\ l.queue = IF Full(k.queue[q]) THEN k.queue
                     ELSE [k.queue EXCEPT ![q] = Append(@, k.proc[e].pid)]
        /\ l.active = k.active /\ l.free = k.free
        /\ l.next = k.next /\ l.status = k.status
    BY <1>1, <1>2, BlockFields DEF st
  <1>4. ~Full(k.queue[q])
    BY RoomInQueue
  <1>5. TypedContext(l)
    BY <1>1, <1>2, BlockTyped DEF st
  <1>6. /\ p \in PCB /\ p.pid = k.proc[e].pid
        /\ p.state = st /\ p.scheduler_queue = q
    <2>1. p \in PCB /\ p.pid = k.proc[e].pid
      BY <1>1, <1>2, ChangedPCBs
    <2>2. p.state = st /\ p.scheduler_queue = q
      BY <1>1 DEF BlockedPCB, PCB
    <2> QED
      BY <2>1, <2>2
  <1>7. l.proc[e] = p /\ \A f \in Entries \ {e} : l.proc[f] = k.proc[f]
    BY <1>1, <1>3 DEF IsContext
  <1>8. l.proc = [k.proc EXCEPT ![e] = p]
    BY <1>1, <1>3 DEF IsContext
  <1> HIDE DEF p
  <1>9. StoredIn(k, l, e, p) /\ Revises(k, e, p)
    BY <1>2, <1>3, <1>5, <1>6, <1>8 DEF StoredIn, Revises
  <1>10. l.queue = [k.queue EXCEPT ![q] = Append(@, k.proc[e].pid)]
    BY <1>3, <1>4
  <1>11. Sound(l, X)
    BY <1>6, <1>9, <1>10, EnterSound DEF st
  <1> QED
    BY <1>3, <1>6, <1>7, <1>11 DEF st

\* Only the scheduled process is in state ACTIVE.
Loose(k) == \A e \in Entries : k.proc[e].state = "ACTIVE" => k.active = e

Tight(k) == \A e \in Entries : k.proc[e].state = "ACTIVE" <=> k.active = e

LEMMA SleepSound ==
    ASSUME NEW k, NEW X, Sound(k, X), Tight(k), NEW e \in Entries \ {0}, k.active = e,
           NEW time \in Int, NEW l, l = scheduler_sleep(k, e, time)
    PROVE  Sound(l, X) /\ Loose(l) /\ l.status = k.status /\ l.active = NULL
  <1> DEFINE p == [k.proc[e] EXCEPT !.sleep_time = time]
             m == [k EXCEPT !.proc[e].sleep_time = time]
             d == scheduler_remove(m, e)
  <1>1. IsContext(k) /\ TypedContext(k) /\ k.proc[e] \in PCB /\ k.proc[e].state = "ACTIVE"
    BY SoundRead DEF Tight
  <1>2. IsRecord(k) /\ ContextFields \subseteq DOMAIN k /\ k.proc \in [Entries -> PCB]
    BY <1>1 DEF IsContext
  <1>3. /\ m.proc = [k.proc EXCEPT ![e] = p]
        /\ m.queue = k.queue /\ m.active = k.active /\ m.free = k.free
        /\ m.next = k.next /\ m.status = k.status
    BY <1>2 DEF IsRecord, ContextFields
  <1>4. /\ p \in PCB /\ p.pid = k.proc[e].pid /\ p.state = "ACTIVE"
        /\ p.scheduler_queue = k.proc[e].scheduler_queue
    BY <1>1 DEF PCB
  <1>5. m = [k EXCEPT !.proc[e] = p]
    BY <1>2
  <1>6. l = Block(d, e, "SLEEPING", SleepQ)
    BY <1>1 DEF scheduler_sleep
  <1>7. TypedContext(m)
    <2> HIDE DEF p
    <2> QED
      BY <1>1, <1>4, <1>5, EntryChanged
  <1> HIDE DEF m, p
  <1>8. StoredIn(k, m, e, p) /\ Revises(k, e, p)
    BY <1>3, <1>4, <1>7 DEF StoredIn, Revises
  <1>9. Live(k, e)
    BY <1>1 DEF Live
  <1>10. Sound(m, X)
    BY <1>1, <1>3, <1>4, <1>8, <1>9, TouchSound
  <1>11. /\ m.proc[e].state = "ACTIVE" /\ Live(m, e)
         /\ \A f \in Entries \ {e} : m.proc[f] = k.proc[f]
    BY <1>2, <1>3, <1>4 DEF Live
  <1>a. d = scheduler_remove(m, e)
    OBVIOUS
  <1> HIDE DEF d
  <1>12. /\ Sound(d, With(X, e)) /\ NotQueued(d, e) /\ Live(d, e)
         /\ \A f \in Entries \ {e} : d.proc[f] = m.proc[f]
         /\ d.active = NULL /\ d.status = m.status
    <2>1. e \in Entries /\ Live(m, e) /\ m.active = e
      BY <1>3, <1>11
    <2>2. /\ Sound(d, With(X, e)) /\ NotQueued(d, e) /\ Live(d, e)
          /\ \A f \in Entries \ {e} : d.proc[f] = m.proc[f]
          /\ d.active = IF m.active = e THEN NULL ELSE m.active
          /\ d.status = m.status
      BY <1>10, <2>1, <1>a, RemoveSound
    <2> QED
      BY <2>1, <2>2
  <1>13. SleepQ \in Queues /\ SleepQ # RunQ /\ StateIn(SleepQ) = "SLEEPING"
    BY QueueNames, QueueStates
  <1>14. /\ Sound(l, X)
         /\ l.proc[e].state = "SLEEPING"
         /\ \A f \in Entries \ {e} : l.proc[f] = d.proc[f]
         /\ l.active = NULL /\ l.status = d.status
    <2>1. /\ e \in Entries \ {0} /\ Sound(d, With(X, e)) /\ Live(d, e) /\ NotQueued(d, e)
          /\ l = Block(d, e, StateIn(SleepQ), SleepQ)
      BY <1>6, <1>12, <1>13
    <2>2. /\ Sound(l, X) /\ l.proc[e].state = StateIn(SleepQ)
          /\ \A f \in Entries \ {e} : l.proc[f] = d.proc[f]
          /\ l.active = d.active /\ l.status = d.status
      BY <1>13, <2>1, BlockSound
    <2> QED
      BY <1>12, <1>13, <2>2
  <1>15. Loose(l)
    BY <1>11, <1>12, <1>14 DEF Loose, Tight
  <1> QED
    BY <1>3, <1>12, <1>14, <1>15

LEMMA ChargeSound ==
    ASSUME NEW k, NEW X, Sound(k, X), Tight(k), NEW l, l = ChargeActive(k)
    PROVE  Sound(l, X) /\ Tight(l) /\ l.status = k.status /\ l.active = k.active
           /\ l.queue = k.queue
  <1>1. CASE k.active = NULL
    BY <1>1 DEF ChargeActive
  <1>2. CASE k.active # NULL
    <2> DEFINE e == k.active
               p == [k.proc[e] EXCEPT !.cpu_time = @ + 1]
    <2>1. IsContext(k) /\ TypedContext(k)
      BY SoundRead
    <2>2. e \in Entries /\ IsRecord(k) /\ ContextFields \subseteq DOMAIN k
            /\ k.proc \in [Entries -> PCB]
      BY <1>2, <2>1 DEF IsContext
    <2>3. k.proc[e] \in PCB /\ k.proc[e].state = "ACTIVE"
            /\ k.proc[e].cpu_time + 1 \in Nat
      BY <2>2, PCBFields DEF Tight
    <2>4. /\ p \in PCB /\ p.pid = k.proc[e].pid /\ p.state = "ACTIVE"
          /\ p.scheduler_queue = k.proc[e].scheduler_queue
      BY <2>3 DEF PCB
    <2>5. l = [k EXCEPT !.proc[e] = p]
      BY <1>2, <2>2 DEF ChargeActive
    <2> HIDE DEF p
    <2>6. /\ l.proc = [k.proc EXCEPT ![e] = p]
          /\ l.queue = k.queue /\ l.active = k.active /\ l.free = k.free
          /\ l.next = k.next /\ l.status = k.status
      BY <2>2, <2>5 DEF IsRecord, ContextFields
    <2>7. TypedContext(l)
      BY <2>1, ChargeTyped
    <2>8. StoredIn(k, l, e, p) /\ Revises(k, e, p)
      BY <2>4, <2>6, <2>7 DEF StoredIn, Revises
    <2>9. Live(k, e)
      BY <2>3 DEF Live
    <2>10. l.proc[e] = p /\ \A f \in Entries \ {e} : l.proc[f] = k.proc[f]
      BY <2>2, <2>6
    <2> HIDE DEF e
    <2>11. Sound(l, X)
      BY <2>2, <2>3, <2>4, <2>6, <2>8, <2>9, TouchSound
    <2>12. Tight(l)
      BY <2>3, <2>4, <2>6, <2>10 DEF Tight, e
    <2> QED
      BY <2>6, <2>11, <2>12
  <1> QED
    BY <1>1, <1>2

-----------------------------------------------------------------------------
(***************************************************************************)
(* scheduler_timer walks the sleep queue.                                  *)
(***************************************************************************)

\* Two sequences without repetitions and without a common item.
LEMMA ConcatOnce ==
    ASSUME NEW S, NEW s \in Seq(S), NEW t \in Seq(S), NoItemTwice(s), NoItemTwice(t),
           \A i \in 1 .. Len(s), j \in 1 .. Len(t) : s[i] # t[j]
    PROVE  NoItemTwice(s \o t)
  <1> DEFINE r == s \o t
  <1>1. Len(s) \in Nat /\ Len(t) \in Nat
    OBVIOUS
  <1>2. /\ Len(r) = Len(s) + Len(t)
        /\ \A m \in 1 .. Len(r) : r[m] = IF m <= Len(s) THEN s[m] ELSE t[m - Len(s)]
    BY ConcatProperties
  <1> HIDE DEF r
  <1>3. \A m \in 1 .. Len(r) :
            \/ m <= Len(s) /\ m \in 1 .. Len(s)
            \/ ~(m <= Len(s)) /\ m - Len(s) \in 1 .. Len(t)
    BY <1>1, <1>2
  <1>4. ASSUME NEW m \in 1 .. Len(r), NEW n \in 1 .. Len(r), r[m] = r[n]
        PROVE  m = n
    <2>1. CASE m <= Len(s) /\ n <= Len(s)
      BY <1>2, <1>3, <1>4, <2>1 DEF NoItemTwice
    <2>2. CASE m <= Len(s) /\ ~(n <= Len(s))
      BY <1>2, <1>3, <1>4, <2>2
    <2>3. CASE ~(m <= Len(s)) /\ n <= Len(s)
      BY <1>2, <1>3, <1>4, <2>3
    <2>4. CASE ~(m <= Len(s)) /\ ~(n <= Len(s))
      <3>1. m - Len(s) = n - Len(s)
        BY <1>2, <1>3, <1>4, <2>4 DEF NoItemTwice
      <3> QED
        BY <1>1, <3>1
    <2> QED
      BY <2>1, <2>2, <2>3, <2>4
  <1>5. NoItemTwice(r)
    BY <1>4 DEF NoItemTwice
  <1> QED
    BY <1>5 DEF r

LEMMA ConcatItems ==
    ASSUME NEW S, NEW s \in Seq(S), NEW t \in Seq(S), NEW r, r = s \o t
    PROVE  /\ r \in Seq(S)
           /\ Len(r) = Len(s) + Len(t) /\ Len(s) \in Nat /\ Len(t) \in Nat
           /\ \A m \in 1 .. Len(r) : \/ \E i \in 1 .. Len(s) : r[m] = s[i]
                                     \/ \E i \in 1 .. Len(t) : r[m] = t[i]
           /\ \A i \in 1 .. Len(s) : \E m \in 1 .. Len(r) : r[m] = s[i]
           /\ \A i \in 1 .. Len(t) : \E m \in 1 .. Len(r) : r[m] = t[i]
  <1>1. Len(s) \in Nat /\ Len(t) \in Nat
    OBVIOUS
  <1>2. /\ r \in Seq(S) /\ Len(r) = Len(s) + Len(t)
        /\ \A m \in 1 .. Len(r) : r[m] = IF m <= Len(s) THEN s[m] ELSE t[m - Len(s)]
    BY ConcatProperties
  <1>3. ASSUME NEW m \in 1 .. Len(r)
        PROVE  \/ \E i \in 1 .. Len(s) : r[m] = s[i]
               \/ \E i \in 1 .. Len(t) : r[m] = t[i]
    <2>1. CASE m <= Len(s)
      <3>1. m \in 1 .. Len(s)
        BY <1>1, <2>1
      <3> QED
        BY <1>2, <2>1, <3>1
    <2>2. CASE ~(m <= Len(s))
      <3>1. m - Len(s) \in 1 .. Len(t)
        BY <1>1, <1>2, <2>2
      <3> QED
        BY <1>2, <2>2, <3>1
    <2> QED
      BY <2>1, <2>2
  <1>4. ASSUME NEW i \in 1 .. Len(s)
        PROVE  \E m \in 1 .. Len(r) : r[m] = s[i]
    <2>1. i \in 1 .. Len(r) /\ i <= Len(s)
      BY <1>1, <1>2
    <2> QED
      BY <1>2, <2>1
  <1>5. ASSUME NEW i \in 1 .. Len(t)
        PROVE  \E m \in 1 .. Len(r) : r[m] = t[i]
    <2>1. /\ i + Len(s) \in 1 .. Len(r) /\ ~(i + Len(s) <= Len(s))
          /\ (i + Len(s)) - Len(s) = i
      BY <1>1, <1>2
    <2> QED
      BY <1>2, <2>1
  <1>6. /\ \A m \in 1 .. Len(r) : \/ \E i \in 1 .. Len(s) : r[m] = s[i]
                                  \/ \E i \in 1 .. Len(t) : r[m] = t[i]
        /\ \A i \in 1 .. Len(s) : \E m \in 1 .. Len(r) : r[m] = s[i]
        /\ \A i \in 1 .. Len(t) : \E m \in 1 .. Len(r) : r[m] = t[i]
    BY <1>3, <1>4, <1>5
  <1> QED
    BY <1>1, <1>2, <1>6

\* The process of the i-th item of the sleep queue.
Sleeper(k, i) == pid_to_proc(k, k.queue[SleepQ][i])

LEMMA SleepersBelong ==
    ASSUME NEW k, NEW X, Sound(k, X)
    PROVE  /\ \A i \in 1 .. Len(k.queue[SleepQ]) :
                 /\ Sleeper(k, i) \in Entries
                 /\ BelongsTo(k, Sleeper(k, i), SleepQ)
                 /\ k.proc[Sleeper(k, i)].pid = k.queue[SleepQ][i]
           /\ Gone(k) = {}
  <1> DEFINE s == k.queue[SleepQ]
  <1>1. s \in Seq(Nat) /\ DOMAIN s = 1 .. Len(s)
    BY SoundRead, QueueNames
  <1>2. ASSUME NEW i \in 1 .. Len(s)
        PROVE  /\ Sleeper(k, i) \in Entries
               /\ BelongsTo(k, Sleeper(k, i), SleepQ)
               /\ k.proc[Sleeper(k, i)].pid = s[i]
    <2>1. PICK e \in Entries : BelongsTo(k, e, SleepQ) /\ k.proc[e].pid = s[i]
      BY QueueNames DEF Sound, QueuedOK
    <2>2. Sleeper(k, i) = e
      BY <2>1, LookUp DEF Sleeper, BelongsTo
    <2> QED
      BY <2>1, <2>2
  <1>3. Gone(k) = {}
    BY <1>1, <1>2, EntryNumbers DEF Gone, Sleeper
  <1> QED
    BY <1>2, <1>3

\* What the walk makes of the process table.  V is the set of positions whose
\* processes it wakes.
LEMMA WalkedProcs ==
    ASSUME NEW k, NEW X, Sound(k, X), NEW V, V = Visited(k) \cap Expired(k),
           NEW t, t = WalkedTable(k)
    PROVE  /\ V \in SUBSET (1 .. Len(k.queue[SleepQ]))
           /\ \A i \in V : LET e == Sleeper(k, i)
                           IN  /\ t[e].pid = k.proc[e].pid /\ t[e].state = "IDLE"
                               /\ t[e].scheduler_queue = RunQ /\ t[e].cpu_time = 0
           /\ \A e \in Entries : (\A i \in V : Sleeper(k, i) # e) =>
                 /\ t[e].pid = k.proc[e].pid /\ t[e].state = k.proc[e].state
                 /\ t[e].scheduler_queue = k.proc[e].scheduler_queue
                 /\ t[e].cpu_time = k.proc[e].cpu_time
           /\ \A e \in Entries : ~Live(k, e) => t[e] = k.proc[e]
  <1> DEFINE s == k.queue[SleepQ]
  <1>1. V \in SUBSET (1 .. Len(s)) /\ Visited(k) \in SUBSET (1 .. Len(s))
    BY DEF Visited, Reached
  <1>2. /\ WokenProcs(k) = {Sleeper(k, i) : i \in V}
        /\ VisitedProcs(k) = {Sleeper(k, i) : i \in Visited(k)}
    BY SleepersBelong DEF WokenProcs, VisitedProcs, Sleeper
  <1>3. \A i \in 1 .. Len(s) : Sleeper(k, i) \in Entries /\ Live(k, Sleeper(k, i))
    BY SleepersBelong DEF BelongsTo
  <1>4. \A e \in Entries : k.proc[e] \in PCB
    BY SoundRead
  <1>5. ASSUME NEW i \in V
        PROVE  LET e == Sleeper(k, i)
               IN  /\ t[e].pid = k.proc[e].pid /\ t[e].state = "IDLE"
                   /\ t[e].scheduler_queue = RunQ /\ t[e].cpu_time = 0
    <2> DEFINE e == Sleeper(k, i)
    <2>1. e \in Entries /\ k.proc[e] \in PCB /\ e \in WokenProcs(k)
      BY <1>1, <1>2, <1>3, <1>4
    <2>2. t[e] = WokenPCB(k.proc[e])
      BY <2>1 DEF WalkedTable
    <2> HIDE DEF e
    <2>3. /\ t[e].pid = k.proc[e].pid /\ t[e].state = "IDLE"
          /\ t[e].scheduler_queue = RunQ /\ t[e].cpu_time = 0
      BY <2>1, <2>2 DEF WokenPCB, PCB
    <2> QED
      BY <2>3 DEF e
  <1>6. ASSUME NEW e \in Entries, \A i \in V : Sleeper(k, i) # e
        PROVE  /\ t[e].pid = k.proc[e].pid /\ t[e].state = k.proc[e].state
               /\ t[e].scheduler_queue = k.proc[e].scheduler_queue
               /\ t[e].cpu_time = k.proc[e].cpu_time
    <2>1. e \notin WokenProcs(k)
      BY <1>2, <1>6
    <2>2. t[e] = k.proc[e] \/ t[e] = [k.proc[e] EXCEPT !.sleep_time = @ - 1]
      BY <2>1 DEF WalkedTable
    <2> QED
      BY <1>4, <2>2 DEF PCB
  <1>7. ASSUME NEW e \in Entries, ~Live(k, e)
        PROVE  t[e] = k.proc[e]
    <2>1. e \notin WokenProcs(k) /\ e \notin VisitedProcs(k)
      BY <1>1, <1>2, <1>3, <1>7
    <2> QED
      BY <2>1 DEF WalkedTable
  <1> QED
    BY <1>1, <1>5, <1>6, <1>7

\* The run queue is as it was, with something appended.
Grows(k, l) == \E w \in Seq(Nat) : l.queue[RunQ] = k.queue[RunQ] \o w

\* The walk: whoever it wakes is in the run queue, whoever it does not wake is
\* still in the sleep queue, nobody is in both, and the run queue has room.
LEMMA WalkSound ==
    ASSUME NEW k, NEW X, Sound(k, X), NEW l, l = WalkSleepQueue(k)
    PROVE  /\ Sound(l, X)
           /\ \A e \in Entries : l.proc[e].state = "ACTIVE" <=> k.proc[e].state = "ACTIVE"
           /\ l.active = k.active /\ l.status = k.status /\ Grows(k, l)
  <1> DEFINE s == k.queue[SleepQ]
             u == k.queue[RunQ]
             V == Visited(k) \cap Expired(k)
             w == AtIndices(s, V)
             a == u \o w
             r == Rotate(s, Expired(k))
             t == WalkedTable(k)
  <1>1. IsContext(k) /\ TypedContext(k) /\ s \in Seq(Nat) /\ u \in Seq(Nat)
          /\ NoItemTwice(s) /\ NoItemTwice(u) /\ k.proc \in [Entries -> PCB]
    BY SoundRead, QueueNames DEF Sound, OnceOK, IsContext
  <1>2. \A i \in 1 .. Len(s) : /\ Sleeper(k, i) \in Entries /\ BelongsTo(k, Sleeper(k, i), SleepQ)
                               /\ k.proc[Sleeper(k, i)].pid = s[i]
    BY SleepersBelong
  <1>3. Gone(k) \cup Expired(k) = Expired(k)
    BY SleepersBelong
  <1>4. V \in SUBSET (1 .. Len(s)) /\ V = Reached(s, Expired(k)) \cap Expired(k)
    BY <1>3 DEF Visited, Reached
  <1>a. V = Visited(k) \cap Expired(k) /\ t = WalkedTable(k)
    OBVIOUS
  <1> HIDE DEF V, t
  <1>5. /\ V \in SUBSET (1 .. Len(k.queue[SleepQ]))
        /\ \A i \in V : LET e == Sleeper(k, i)
                        IN  /\ t[e].pid = k.proc[e].pid /\ t[e].state = "IDLE"
                            /\ t[e].scheduler_queue = RunQ /\ t[e].cpu_time = 0
        /\ \A e \in Entries : (\A i \in V : Sleeper(k, i) # e) =>
              /\ t[e].pid = k.proc[e].pid /\ t[e].state = k.proc[e].state
              /\ t[e].scheduler_queue = k.proc[e].scheduler_queue
              /\ t[e].cpu_time = k.proc[e].cpu_time
        /\ \A e \in Entries : ~Live(k, e) => t[e] = k.proc[e]
    BY <1>a, WalkedProcs
  <1>6. \A i, j \in 1 .. Len(s) : Sleeper(k, i) = Sleeper(k, j) => i = j
    BY <1>1, <1>2 DEF NoItemTwice
  <1>7. /\ w \in Seq(Nat) /\ Len(w) = Cardinality(V)
        /\ \A m \in 1 .. Len(w) : \E i \in V : w[m] = s[i]
        /\ \A i \in V : \E m \in 1 .. Len(w) : w[m] = s[i]
        /\ NoItemTwice(w)
    <2>1. V \in SUBSET Positions(s)
      BY <1>4 DEF Positions
    <2> HIDE DEF s
    <2>2. w \in Seq(Nat) /\ Len(w) = Cardinality(V)
      BY <1>1, <2>1, AtIndicesType
    <2>3. \A m \in 1 .. Cardinality(V) : \E i \in V : w[m] = s[i]
      BY <1>1, <2>1, AtIndicesFrom
    <2>4. \A i \in V : \E m \in 1 .. Cardinality(V) : w[m] = s[i]
      BY <1>1, <2>1, AtIndicesItem
    <2>5. \A m, n \in 1 .. Cardinality(V) : w[m] = w[n] => m = n
      BY <1>1, <2>1, AtIndicesOnce
    <2> QED
      BY <2>2, <2>3, <2>4, <2>5 DEF NoItemTwice
  <1>8. /\ \A m \in 1 .. Len(r) : \E i \in 1 .. Len(s) : i \notin V /\ r[m] = s[i]
        /\ \A i \in 1 .. Len(s) : i \notin V => \E m \in 1 .. Len(r) : r[m] = s[i]
        /\ NoItemTwice(r)
    <2> HIDE DEF s
    <2>1. Kept(s, Expired(k)) = {i \in 1 .. Len(s) : i \notin V}
      BY <1>4 DEF Kept, Positions
    <2>2. /\ \A m \in 1 .. Len(r) : \E i \in Kept(s, Expired(k)) : r[m] = s[i]
          /\ \A i \in Kept(s, Expired(k)) : \E m \in 1 .. Len(r) : r[m] = s[i]
      BY <1>1, RotateItems
    <2>3. NoItemTwice(r)
      BY <1>1, RotateOnce
    <2> HIDE DEF r
    <2> QED
      BY <2>1, <2>2, <2>3
  \* The run queue and the items woken have no process in common.
  <1>9. \A i \in 1 .. Len(u), j \in 1 .. Len(w) : u[i] # w[j]
    <2> SUFFICES ASSUME NEW i \in 1 .. Len(u), NEW j \in 1 .. Len(w), u[i] = w[j]
                 PROVE  FALSE
      OBVIOUS
    <2>1. PICK n \in V : w[j] = s[n]
      BY <1>7
    <2>2. PICK e \in Entries : BelongsTo(k, e, RunQ) /\ k.proc[e].pid = u[i]
      BY QueueNames DEF Sound, QueuedOK
    <2>3. BelongsTo(k, Sleeper(k, n), SleepQ) /\ k.proc[Sleeper(k, n)].pid = k.proc[e].pid
            /\ Sleeper(k, n) \in Entries
      BY <1>2, <1>4, <2>1, <2>2
    <2>4. Sleeper(k, n) = e
      BY <2>2, <2>3 DEF BelongsTo, Sound, PidsOK
    <2> QED
      BY <2>2, <2>3, <2>4, QueueNames DEF BelongsTo
  <1>10. NoItemTwice(a) /\ a \in Seq(Nat) /\ Len(a) = Len(u) + Len(w)
    <2> HIDE DEF u, w, s
    <2>1. NoItemTwice(a)
      BY <1>1, <1>7, <1>9, ConcatOnce
    <2> QED
      BY <1>1, <1>7, <2>1, ConcatProperties
  <1>11. /\ \A m \in 1 .. Len(a) : \/ \E i \in 1 .. Len(u) : a[m] = u[i]
                                   \/ \E i \in V : a[m] = s[i]
         /\ \A i \in 1 .. Len(u) : \E m \in 1 .. Len(a) : a[m] = u[i]
         /\ \A i \in V : \E m \in 1 .. Len(a) : a[m] = s[i]
    <2> HIDE DEF u, w, s
    <2>1. u \in Seq(Nat) /\ w \in Seq(Nat)
      BY <1>1, <1>7
    <2>2. a = u \o w
      OBVIOUS
    <2> HIDE DEF a
    <2>3. ASSUME NEW m \in 1 .. Len(a)
          PROVE  \/ \E i \in 1 .. Len(u) : a[m] = u[i]
                 \/ \E i \in 1 .. Len(w) : a[m] = w[i]
      BY <2>1, <2>2, ConcatItems, SMTT(40)
    <2>4. ASSUME NEW m \in 1 .. Len(a)
          PROVE  \/ \E i \in 1 .. Len(u) : a[m] = u[i]
                 \/ \E i \in V : a[m] = s[i]
      <3>1. CASE \E i \in 1 .. Len(u) : a[m] = u[i]
        BY <3>1
      <3>2. CASE \E i \in 1 .. Len(w) : a[m] = w[i]
        BY <1>7, <3>2
      <3> QED
        BY <2>3, <3>1, <3>2
    <2>7. ASSUME NEW i \in 1 .. Len(w)
          PROVE  \E m \in 1 .. Len(a) : a[m] = w[i]
      <3>1. Len(a) = Len(u) + Len(w) /\ Len(u) \in Nat /\ Len(w) \in Nat
        BY <2>1, <2>2, ConcatProperties
      <3>2. i + Len(u) \in 1 .. Len(a) /\ (i + Len(u)) - Len(u) = i
              /\ ~(i + Len(u) <= Len(u))
        BY <3>1
      <3>3. a[i + Len(u)] = w[i]
        BY <2>1, <2>2, <3>2, ConcatProperties
      <3> QED
        BY <3>2, <3>3
    <2>5. ASSUME NEW i \in V
          PROVE  \E m \in 1 .. Len(a) : a[m] = s[i]
      <3>1. PICK n \in 1 .. Len(w) : w[n] = s[i]
        BY <1>7
      <3>2. \E m \in 1 .. Len(a) : a[m] = w[n]
        BY <2>7
      <3> QED
        BY <3>1, <3>2
    <2>6. ASSUME NEW i \in 1 .. Len(u)
          PROVE  \E m \in 1 .. Len(a) : a[m] = u[i]
      BY <2>1, <2>2, ConcatItems, SMT
    <2> QED
      BY <2>4, <2>5, <2>6
  <1> HIDE DEF w, a, r
  \* There is room.
  <1>12. Len(a) <= PROC_MAX
    <2>1. \A m \in 1 .. Len(a) : \E e \in Entries : k.proc[e].pid = a[m]
      <3> SUFFICES ASSUME NEW m \in 1 .. Len(a)
                   PROVE  \E e \in Entries : k.proc[e].pid = a[m]
        OBVIOUS
      <3>1. CASE \E i \in 1 .. Len(u) : a[m] = u[i]
        BY <3>1, QueueNames DEF Sound, QueuedOK
      <3>2. CASE \E i \in V : a[m] = s[i]
        BY <1>2, <1>4, <3>2
      <3> QED
        BY <1>11, <3>1, <3>2
    <2>2. Len(a) <= Cardinality(Entries)
      BY <1>1, <1>10, <2>1, DistinctPids
    <2> QED
      BY <2>2, EntriesCount
  <1>13. ~(Len(k.queue[RunQ]) + Len(WokenItems(k)) > QUEUE_SIZE)
    <2>1. WokenItems(k) = w
      BY DEF WokenItems, w, V
    <2>2. Len(u) \in Nat /\ Len(w) \in Nat
      BY <1>1, <1>7
    <2> HIDE DEF u
    <2>3. ~(Len(u) + Len(w) > QUEUE_SIZE)
      BY <1>10, <1>12, <2>2, EntriesCount
    <2> QED
      BY <2>1, <2>3 DEF u
  <1>14. /\ l.proc = t
         /\ l.queue = [q \in Queues |-> IF q = SleepQ THEN r
                                        ELSE IF q = RunQ THEN a ELSE k.queue[q]]
         /\ l.active = k.active /\ l.free = k.free
         /\ l.next = k.next /\ l.status = k.status
    <2>1. WokenItems(k) = w
      BY DEF WokenItems, w, V
    <2>2. /\ l.proc = WalkedTable(k)
          /\ l.queue = [q \in Queues |->
                            IF q = SleepQ
                            THEN Rotate(k.queue[SleepQ], Gone(k) \cup Expired(k))
                            ELSE IF q = RunQ
                                 THEN k.queue[RunQ] \o WokenItems(k)
                                 ELSE k.queue[q]]
          /\ l.active = k.active /\ l.free = k.free
          /\ l.next = k.next /\ l.status = k.status
      BY <1>1, <1>13, WalkFields
    <2>3. r = Rotate(k.queue[SleepQ], Gone(k) \cup Expired(k))
      BY <1>3 DEF r
    <2>4. a = k.queue[RunQ] \o WokenItems(k)
      BY <2>1 DEF a
    <2> QED
      BY <2>2, <2>3, <2>4 DEF t
  <1>15. /\ l.queue[SleepQ] = r /\ l.queue[RunQ] = a
         /\ \A q \in Queues \ {SleepQ, RunQ} : l.queue[q] = k.queue[q]
    BY <1>14, QueueNames
  <1>16. TypedContext(l)
    BY <1>1, WalkTyped
  \* Process by process.
  <1>17. \A i \in V : /\ BelongsTo(l, Sleeper(k, i), RunQ) /\ Sleeper(k, i) \in Entries
                      /\ l.proc[Sleeper(k, i)].cpu_time = 0
                      /\ l.proc[Sleeper(k, i)].pid = s[i]
    BY <1>2, <1>4, <1>5, <1>14, QueueStates DEF BelongsTo, Live
  <1>18. \A e \in Entries : (\A i \in V : Sleeper(k, i) # e) =>
              /\ l.proc[e].pid = k.proc[e].pid /\ l.proc[e].state = k.proc[e].state
              /\ l.proc[e].scheduler_queue = k.proc[e].scheduler_queue
              /\ l.proc[e].cpu_time = k.proc[e].cpu_time
    BY <1>5, <1>14
  <1>19. \A e \in Entries : (Live(l, e) <=> Live(k, e))
                              /\ l.proc[e].pid = k.proc[e].pid
    <2> SUFFICES ASSUME NEW e \in Entries
                 PROVE  (Live(l, e) <=> Live(k, e)) /\ l.proc[e].pid = k.proc[e].pid
      OBVIOUS
    <2>1. CASE \E i \in V : Sleeper(k, i) = e
      BY <1>2, <1>4, <1>17, <2>1 DEF BelongsTo
    <2>2. CASE ~ \E i \in V : Sleeper(k, i) = e
      BY <1>18, <2>2 DEF Live
    <2> QED
      BY <2>1, <2>2
  <1>20. \A e \in Entries, q \in Queues \ {SleepQ} :
            BelongsTo(k, e, q) => BelongsTo(l, e, q) /\ \A i \in V : Sleeper(k, i) # e
    <2> SUFFICES ASSUME NEW e \in Entries, NEW q \in Queues \ {SleepQ},
                        BelongsTo(k, e, q)
                 PROVE  BelongsTo(l, e, q) /\ \A i \in V : Sleeper(k, i) # e
      OBVIOUS
    <2>1. \A i \in V : Sleeper(k, i) # e
      BY <1>2, <1>4 DEF BelongsTo
    <2> QED
      BY <1>18, <2>1 DEF BelongsTo, Live
  <1>21. PidsOK(l)
    <2>1. k.proc[0].pid = 0 /\ k.proc[0].state \in {"IDLE", "ACTIVE"} /\ 0 \in Entries
      BY EntryNumbers DEF Sound, PidsOK
    <2>2. \A i \in V : Sleeper(k, i) # 0
      BY <1>2, <1>4, <2>1, QueueStates DEF BelongsTo
    <2>3. l.proc[0].pid = 0 /\ l.proc[0].state \in {"IDLE", "ACTIVE"}
      BY <1>18, <2>1, <2>2
    <2> QED
      BY <1>14, <1>19, <2>3 DEF Sound, PidsOK
  <1>22. FreeOK(l)
    <2>1. \A e \in Entries : ~Live(l, e) => l.proc[e] = FreePCB
      BY <1>5, <1>14, <1>19 DEF Sound, FreeOK
    <2>2. l.free = k.free
      BY <1>14
    <2> QED
      BY <1>19, <2>1, <2>2 DEF Sound, FreeOK
  <1>23. FreshOK(l)
    <2> SUFFICES ASSUME NEW e \in Entries, l.proc[e].state = "IDLE"
                 PROVE  l.proc[e].cpu_time = 0
      BY DEF FreshOK
    <2>1. CASE \E i \in V : Sleeper(k, i) = e
      BY <1>17, <2>1
    <2>2. CASE ~ \E i \in V : Sleeper(k, i) = e
      BY <1>18, <2>2 DEF Sound, FreshOK
    <2> QED
      BY <2>1, <2>2
  <1>24. OnceOK(l)
    <2> SUFFICES ASSUME NEW q \in Queues
                 PROVE  NoItemTwice(l.queue[q])
      BY DEF OnceOK
    <2>1. CASE q = SleepQ
      BY <1>8, <1>15, <2>1
    <2>2. CASE q = RunQ
      BY <1>10, <1>15, <2>2
    <2>3. CASE q \notin {SleepQ, RunQ}
      BY <1>15, <2>3 DEF Sound, OnceOK
    <2> QED
      BY <2>1, <2>2, <2>3
  <1>25. QueuedOK(l)
    <2> SUFFICES ASSUME NEW q \in Queues, NEW m \in 1 .. Len(l.queue[q])
                 PROVE  \E e \in Entries : BelongsTo(l, e, q)
                                           /\ l.proc[e].pid = l.queue[q][m]
      BY DEF QueuedOK
    <2>1. CASE q = SleepQ
      <3>1. PICK i \in 1 .. Len(s) : i \notin V /\ l.queue[q][m] = s[i]
        BY <1>8, <1>15, <2>1
      <3>2. \A j \in V : Sleeper(k, j) # Sleeper(k, i)
        BY <1>4, <1>6, <3>1
      <3>3. Sleeper(k, i) \in Entries /\ BelongsTo(k, Sleeper(k, i), SleepQ) /\ k.proc[Sleeper(k, i)].pid = s[i]
        BY <1>2
      <3>4. BelongsTo(l, Sleeper(k, i), SleepQ) /\ l.proc[Sleeper(k, i)].pid = s[i]
        BY <1>18, <3>2, <3>3 DEF BelongsTo, Live
      <3> QED
        BY <2>1, <3>1, <3>3, <3>4
    <2>2. CASE q = RunQ
      <3>1. CASE \E i \in 1 .. Len(u) : a[m] = u[i]
        <4>1. PICK e \in Entries : BelongsTo(k, e, RunQ) /\ k.proc[e].pid = a[m]
          BY <3>1, QueueNames DEF Sound, QueuedOK
        <4>2. BelongsTo(l, e, RunQ) /\ l.proc[e].pid = a[m]
          BY <1>19, <1>20, <4>1, QueueNames
        <4> QED
          BY <1>15, <2>2, <4>2
      <3>2. CASE \E i \in V : a[m] = s[i]
        BY <1>15, <1>17, <2>2, <3>2
      <3> QED
        BY <1>11, <1>15, <2>2, <3>1, <3>2
    <2>3. CASE q \notin {SleepQ, RunQ}
      <3>1. l.queue[q] = k.queue[q]
        BY <1>15, <2>3
      <3>2. PICK e \in Entries : BelongsTo(k, e, q) /\ k.proc[e].pid = l.queue[q][m]
        BY <3>1 DEF Sound, QueuedOK
      <3> QED
        BY <1>19, <1>20, <2>3, <3>2
    <2> QED
      BY <2>1, <2>2, <2>3
  <1>26. NoneLost(l, X)
    <2> SUFFICES ASSUME NEW e \in Entries \ X, l.proc[e].state \in Inactive,
                        l.proc[e].pid # 0
                 PROVE  /\ l.proc[e].scheduler_queue \in Queues
                        /\ InQueue(l, l.proc[e].scheduler_queue, l.proc[e].pid)
      BY DEF NoneLost
    <2>1. CASE \E i \in V : Sleeper(k, i) = e
      <3>1. PICK i \in V : Sleeper(k, i) = e
        BY <2>1
      <3>2. l.proc[e].scheduler_queue = RunQ /\ l.proc[e].pid = s[i]
        BY <1>17, <3>1 DEF BelongsTo
      <3>3. \E m \in 1 .. Len(a) : a[m] = s[i]
        BY <1>11, <3>1
      <3> QED
        BY <1>15, <3>2, <3>3, QueueNames DEF InQueue
    <2>2. CASE ~ \E i \in V : Sleeper(k, i) = e
      <3> DEFINE g == k.proc[e].scheduler_queue
                 y == k.proc[e].pid
      <3>1. /\ l.proc[e].pid = y /\ l.proc[e].scheduler_queue = g
            /\ k.proc[e].state \in Inactive /\ y # 0
        BY <1>18, <2>2
      <3>2. g \in Queues /\ InQueue(k, g, y)
        BY <3>1 DEF Sound, NoneLost
      <3>3. InQueue(l, g, y)
        <4>1. CASE g = SleepQ
          <5>1. PICK i \in 1 .. Len(s) : s[i] = y
            BY <3>2, <4>1 DEF InQueue
          <5>2. Sleeper(k, i) = e
            <6>1. Live(k, e) /\ Live(k, Sleeper(k, i)) /\ Sleeper(k, i) \in Entries
                    /\ k.proc[Sleeper(k, i)].pid = y
              BY <1>2, <3>1, <5>1 DEF Live, Inactive, BelongsTo
            <6> QED
              BY <6>1 DEF Sound, PidsOK
          <5>3. i \notin V
            BY <2>2, <5>2
          <5>4. \E m \in 1 .. Len(r) : r[m] = y
            BY <1>8, <5>1, <5>3
          <5> QED
            BY <1>15, <4>1, <5>4 DEF InQueue
        <4>2. CASE g = RunQ
          <5>1. PICK i \in 1 .. Len(u) : u[i] = y
            BY <3>2, <4>2 DEF InQueue
          <5>2. \E m \in 1 .. Len(a) : a[m] = y
            BY <1>11, <5>1
          <5> QED
            BY <1>15, <4>2, <5>2 DEF InQueue
        <4>3. CASE g \notin {SleepQ, RunQ}
          BY <1>15, <3>2, <4>3 DEF InQueue
        <4> QED
          BY <4>1, <4>2, <4>3
      <3> QED
        BY <3>1, <3>2, <3>3
    <2> QED
      BY <2>1, <2>2
  <1>27. Sound(l, X)
    BY <1>16, <1>21, <1>22, <1>23, <1>24, <1>25, <1>26 DEF Sound
  <1>28. \A e \in Entries : l.proc[e].state = "ACTIVE" <=> k.proc[e].state = "ACTIVE"
    <2> SUFFICES ASSUME NEW e \in Entries
                 PROVE  l.proc[e].state = "ACTIVE" <=> k.proc[e].state = "ACTIVE"
      OBVIOUS
    <2>1. CASE \E i \in V : Sleeper(k, i) = e
      BY <1>2, <1>4, <1>17, <2>1, QueueStates DEF BelongsTo
    <2>2. CASE ~ \E i \in V : Sleeper(k, i) = e
      BY <1>18, <2>2
    <2> QED
      BY <2>1, <2>2
  <1>29. Grows(k, l)
    BY <1>7, <1>15 DEF a, Grows
  <1> QED
    BY <1>14, <1>27, <1>28, <1>29
-----------------------------------------------------------------------------
(***************************************************************************)
(* scheduler_timer and scheduler_run.                                      *)
(***************************************************************************)

LEMMA TimerSound ==
    ASSUME NEW k, NEW X, Sound(k, X), Tight(k), NEW l, l = scheduler_timer(k)
    PROVE  Sound(l, X) /\ Tight(l) /\ l.status = k.status
  <1> DEFINE m == ChargeActive(k)
  <1>1. Sound(m, X) /\ Tight(m) /\ m.status = k.status
    BY ChargeSound
  <1>2. l = WalkSleepQueue(m)
    BY DEF scheduler_timer
  <1> HIDE DEF m
  <1>3. /\ Sound(l, X)
        /\ \A e \in Entries : l.proc[e].state = "ACTIVE" <=> m.proc[e].state = "ACTIVE"
        /\ l.active = m.active /\ l.status = m.status
    BY <1>1, <1>2, WalkSound
  <1>4. Tight(l)
    BY <1>1, <1>3 DEF Tight
  <1> QED
    BY <1>1, <1>3, <1>4

\* Which process is scheduled does not matter to the table and the queues.
LEMMA ActiveSound ==
    ASSUME NEW k, NEW X, Sound(k, X), NEW a \in Entries \cup {NULL},
           NEW l, l = [k EXCEPT !.active = a]
    PROVE  /\ Sound(l, X) /\ l.active = a
           /\ l.proc = k.proc /\ l.queue = k.queue /\ l.status = k.status
           /\ \A e \in Entries : NotQueued(k, e) => NotQueued(l, e)
           /\ \A e \in Entries : Live(k, e) => Live(l, e)
  <1>1. TypedContext(k) /\ IsRecord(k) /\ ContextFields \subseteq DOMAIN k
    BY SoundRead DEF IsContext
  <1>2. TypedContext(l)
    BY <1>1, ActiveChanged
  <1>3. /\ l.proc = k.proc /\ l.queue = k.queue /\ l.active = a
        /\ l.free = k.free /\ l.next = k.next /\ l.status = k.status
    BY <1>1 DEF IsRecord, ContextFields
  <1>4. Sound(l, X)
    BY <1>2, <1>3 DEF Sound, PidsOK, FreeOK, QueuedOK, BelongsTo, OnceOK, NoneLost,
                      InQueue, FreshOK, Live
  <1> QED
    BY <1>3, <1>4 DEF NotQueued, InQueue, Live

LEMMA StoreFields ==
    ASSUME NEW k, TypedContext(k), NEW e \in Entries, NEW p \in PCB,
           NEW l, l = [k EXCEPT !.proc[e] = p]
    PROVE  /\ StoredIn(k, l, e, p)
           /\ l.proc[e] = p /\ \A f \in Entries \ {e} : l.proc[f] = k.proc[f]
           /\ l.queue = k.queue /\ l.active = k.active /\ l.status = k.status
  <1>1. IsRecord(k) /\ ContextFields \subseteq DOMAIN k /\ k.proc \in [Entries -> PCB]
    BY DEF TypedContext, IsContext
  <1>2. /\ l.proc = [k.proc EXCEPT ![e] = p]
        /\ l.queue = k.queue /\ l.active = k.active /\ l.free = k.free
        /\ l.next = k.next /\ l.status = k.status
    BY <1>1 DEF IsRecord, ContextFields
  <1>3. TypedContext(l)
    BY EntryChanged
  <1> QED
    BY <1>1, <1>2, <1>3 DEF StoredIn

LEMMA DropSound ==
    ASSUME NEW k, NEW X, Sound(k, X), Loose(k), NEW l, l = DropInactive(k)
    PROVE  Sound(l, X) /\ Tight(l) /\ l.status = k.status
  <1>1. CASE k.active # NULL /\ k.proc[k.active].state # "ACTIVE"
    <2>1. l = [k EXCEPT !.active = NULL]
      BY <1>1 DEF DropInactive
    <2>2. Sound(l, X) /\ l.active = NULL /\ l.proc = k.proc /\ l.status = k.status
      BY <2>1, ActiveSound
    <2>3. Tight(l)
      BY <1>1, <2>2, EntryNumbers DEF Tight, Loose
    <2> QED
      BY <2>2, <2>3
  <1>2. CASE ~(k.active # NULL /\ k.proc[k.active].state # "ACTIVE")
    <2>1. l = k
      BY <1>2 DEF DropInactive
    <2>2. Tight(k)
      BY <1>2, EntryNumbers DEF Tight, Loose
    <2> QED
      BY <2>1, <2>2
  <1> QED
    BY <1>1, <1>2

\* The idle task need not be in a queue.
LEMMA IdleExempt ==
    ASSUME NEW k, NEW X, NEW e \in Entries, Sound(k, With(X, e)), k.proc[e].pid = 0
    PROVE  Sound(k, X)
  BY DEF Sound, NoneLost, With

\* Whoever is scheduled has some of its time slice left.
InSlice(k) == k.active # NULL => k.proc[k.active].cpu_time < SCHEDULER_TIMESLICE

LEMMA PreemptSound ==
    ASSUME NEW k, NEW X, Sound(k, X), Tight(k), NEW l, l = Preempt(k)
    PROVE  Sound(l, X) /\ Tight(l) /\ InSlice(l) /\ l.status = k.status
  <1> DEFINE e == k.active
             p == [k.proc[e] EXCEPT !.cpu_time = 0]
             m == [k EXCEPT !.proc[e].cpu_time = 0]
  <1>1. CASE k.active = NULL \/ k.proc[e].cpu_time < SCHEDULER_TIMESLICE
    BY <1>1 DEF Preempt, InSlice
  <1>2. CASE ~(k.active = NULL \/ k.proc[e].cpu_time < SCHEDULER_TIMESLICE)
    <2>1. /\ TypedContext(k) /\ e \in Entries /\ k.proc[e] \in PCB
          /\ k.proc[e].state = "ACTIVE" /\ Live(k, e)
      BY <1>2, SoundRead DEF IsContext, Tight, Live
    <2>2. /\ p \in PCB /\ p.pid = k.proc[e].pid /\ p.state = "ACTIVE"
          /\ p.scheduler_queue = k.proc[e].scheduler_queue /\ p.cpu_time = 0
      BY <2>1 DEF PCB
    <2>3. m = [k EXCEPT !.proc[e] = p]
      BY <2>1 DEF TypedContext, IsContext
    <2>4. l = IF k.proc[e].pid # 0
              THEN [scheduler_add(m, e) EXCEPT !.active = NULL]
              ELSE [m EXCEPT !.proc[e].state = "IDLE", !.active = NULL]
      BY <1>2 DEF Preempt
    <2>5. NotQueued(k, e)
      BY <2>1, ActiveNotQueued
    <2>6. \A f \in Entries \ {e} : k.proc[f].state # "ACTIVE"
      BY DEF Tight
    <2> HIDE DEF e, p, m
    <2>7. /\ StoredIn(k, m, e, p)
          /\ m.proc[e] = p /\ \A f \in Entries \ {e} : m.proc[f] = k.proc[f]
          /\ m.queue = k.queue /\ m.status = k.status
      BY <2>1, <2>2, <2>3, StoreFields
    <2>8. Revises(k, e, p)
      BY <2>2 DEF Revises
    <2>9. Sound(m, With(X, e)) /\ NotQueued(m, e) /\ Live(m, e)
      <3>1. Sound(k, With(X, e))
        BY WeakerSound
      <3> QED
        BY <3>1, <2>1, <2>5, <2>7, <2>8, DetachedSound
    <2>10. CASE k.proc[e].pid # 0
      <3> DEFINE a == scheduler_add(m, e)
      <3>1. m.proc[e].state \in {"IDLE", "ACTIVE"}
        BY <2>2, <2>7
      <3>3. l = [a EXCEPT !.active = NULL] /\ a = scheduler_add(m, e)
        BY <2>4, <2>10
      <3> HIDE DEF a
      <3>2. /\ Sound(a, X) /\ a.proc[e].state = "IDLE"
            /\ \A f \in Entries \ {e} : a.proc[f] = m.proc[f]
            /\ a.status = m.status
        <4>1. /\ Sound(m, With(X, e)) /\ e \in Entries /\ Live(m, e) /\ NotQueued(m, e)
              /\ e = 0 => m.proc[e].state \in {"IDLE", "ACTIVE"}
              /\ a = scheduler_add(m, e)
          BY <2>1, <2>9, <3>1, <3>3
        <4>2. Sound(a, X)
          BY <4>1, AddSound
        <4>3. IsContext(m) /\ ~Full(m.queue[RunQ])
          BY <4>1, RoomInQueue, QueueNames, SoundRead
        <4>4. a.proc = [m.proc EXCEPT ![e] = ReadyPCB(@)] /\ a.status = m.status
          BY <4>1, <4>3, AddFields
        <4>5. m.proc \in [Entries -> PCB] /\ ReadyPCB(m.proc[e]).state = "IDLE"
          BY <4>1, <4>3 DEF IsContext, ReadyPCB, PCB
        <4> QED
          BY <2>1, <4>2, <4>4, <4>5
      <3>4. Sound(l, X) /\ l.active = NULL /\ l.proc = a.proc /\ l.status = a.status
        BY <3>2, <3>3, ActiveSound
      <3>5. Tight(l)
        BY <2>6, <2>7, <3>2, <3>4, EntryNumbers DEF Tight
      <3> QED
        BY <2>7, <3>2, <3>4, <3>5 DEF InSlice
    <2>11. CASE k.proc[e].pid = 0
      <3> DEFINE b == [m.proc[e] EXCEPT !.state = "IDLE"]
                 d == [m EXCEPT !.proc[e].state = "IDLE"]
      <3>1. TypedContext(m) /\ m.proc[e] \in PCB
        BY <2>1, <2>9, SoundRead
      <3>2. b \in PCB /\ b.pid = 0 /\ b.pid = m.proc[e].pid /\ b.state = "IDLE"
              /\ b.cpu_time = 0
        BY <2>2, <2>7, <2>11, <3>1 DEF PCB, States
      <3>3. d = [m EXCEPT !.proc[e] = b]
        BY <2>1, <3>1 DEF TypedContext, IsContext
      <3>4. l = [d EXCEPT !.active = NULL]
        BY <2>4, <2>11
      <3> HIDE DEF b, d
      <3>5. /\ StoredIn(m, d, e, b)
            /\ d.proc[e] = b /\ \A f \in Entries \ {e} : d.proc[f] = m.proc[f]
            /\ d.queue = m.queue /\ d.status = m.status
        BY <2>1, <3>1, <3>2, <3>3, StoreFields
      <3>6. Revises(m, e, b)
        BY <3>2 DEF Revises
      <3>7. Sound(d, With(X, e))
        BY <2>1, <2>9, <3>5, <3>6, DetachedSound
      <3>8. Sound(d, X)
        BY <2>1, <3>2, <3>5, <3>7, IdleExempt
      <3>9. Sound(l, X) /\ l.active = NULL /\ l.proc = d.proc /\ l.status = d.status
        BY <3>4, <3>8, ActiveSound
      <3>10. Tight(l)
        BY <2>6, <2>7, <3>2, <3>5, <3>9, EntryNumbers DEF Tight
      <3> QED
        BY <2>7, <3>5, <3>9, <3>10 DEF InSlice
    <2> QED
      BY <2>10, <2>11
  <1> QED
    BY <1>1, <1>2
\* The head of a queue leaves it.
LEMMA PopSound ==
    ASSUME NEW k, NEW X, Sound(k, X), NEW e \in Entries, NEW q \in Queues,
           BelongsTo(k, e, q), k.queue[q] # <<>>, Head(k.queue[q]) = k.proc[e].pid,
           NEW l, TypedContext(l), l.proc = k.proc, l.free = k.free, l.next = k.next,
           l.queue = [k.queue EXCEPT ![q] = Tail(@)]
    PROVE  Sound(l, With(X, e)) /\ NotQueued(l, e)
  <1> DEFINE s == k.queue[q]
             t == Tail(s)
             x == k.proc[e].pid
  <1>1. s \in Seq(Nat) /\ Len(s) \in Nat /\ NoItemTwice(s) /\ s # <<>>
    BY SoundRead DEF Sound, OnceOK
  <1>2. l.queue[q] = t /\ \A r \in Queues \ {q} : l.queue[r] = k.queue[r]
    BY SoundRead DEF IsContext
  <1>3. Head(s) = s[1] /\ s[1] = x
    BY <1>1
  <1>4. \A i \in 1 .. Len(t) : i + 1 \in 1 .. Len(s) /\ t[i] = s[i + 1] /\ i + 1 # 1
    <2> HIDE DEF s
    <2> QED
      BY <1>1, HeadTailProperties
  <1>5. \A i \in 1 .. Len(s) : i # 1 => \E j \in 1 .. Len(t) : t[j] = s[i]
    <2> HIDE DEF s
    <2> SUFFICES ASSUME NEW i \in 1 .. Len(s), i # 1
                 PROVE  \E j \in 1 .. Len(t) : t[j] = s[i]
      OBVIOUS
    <2>1. i - 1 \in 1 .. Len(t) /\ t[i - 1] = s[i]
      BY <1>1, HeadTailProperties
    <2> QED
      BY <2>1
  <1>6. 1 \in 1 .. Len(s)
    <2> HIDE DEF s
    <2> QED
      BY <1>1
  <1> HIDE DEF s, t
  <1>7. \A i \in 1 .. Len(t) : t[i] # x
    BY <1>1, <1>3, <1>4, <1>6 DEF NoItemTwice
  <1>8. NoItemTwice(t)
    <2> SUFFICES ASSUME NEW i \in 1 .. Len(t), NEW j \in 1 .. Len(t), t[i] = t[j]
                 PROVE  i = j
      BY DEF NoItemTwice
    <2>1. i + 1 = j + 1
      BY <1>1, <1>4 DEF NoItemTwice
    <2> QED
      BY <2>1
  <1>9. \A e2 \in Entries : Live(l, e2) <=> Live(k, e2)
    BY DEF Live
  <1>10. PidsOK(l) /\ FreeOK(l) /\ FreshOK(l)
    BY <1>9 DEF Sound, PidsOK, FreeOK, FreshOK
  <1>11. OnceOK(l)
    BY <1>2, <1>8 DEF Sound, OnceOK
  <1>12. QueuedOK(l)
    <2> SUFFICES ASSUME NEW r \in Queues, NEW i \in 1 .. Len(l.queue[r])
                 PROVE  \E f \in Entries : BelongsTo(l, f, r)
                                           /\ l.proc[f].pid = l.queue[r][i]
      BY DEF QueuedOK
    <2>1. \E j \in 1 .. Len(k.queue[r]) : k.queue[r][j] = l.queue[r][i]
      <3>1. CASE r = q
        BY <1>2, <1>4, <3>1 DEF s
      <3>2. CASE r # q
        BY <1>2, <3>2
      <3> QED
        BY <3>1, <3>2
    <2>4. PICK j \in 1 .. Len(k.queue[r]) : k.queue[r][j] = l.queue[r][i]
      BY <2>1
    <2>5. PICK f \in Entries : BelongsTo(k, f, r) /\ k.proc[f].pid = k.queue[r][j]
      BY DEF Sound, QueuedOK
    <2>2. BelongsTo(k, f, r) /\ k.proc[f].pid = l.queue[r][i]
      BY <2>4, <2>5
    <2>3. BelongsTo(l, f, r) /\ l.proc[f].pid = l.queue[r][i]
      BY <1>9, <2>2 DEF BelongsTo
    <2> QED
      BY <2>3
  <1>13. NotQueued(l, e)
    <2> SUFFICES ASSUME NEW r \in Queues, InQueue(l, r, l.proc[e].pid)
                 PROVE  FALSE
      BY DEF NotQueued
    <2>1. CASE r = q
      BY <1>2, <1>7, <2>1 DEF InQueue
    <2>2. CASE r # q
      <3>1. InQueue(k, r, k.proc[e].pid)
        BY <1>2, <2>2 DEF InQueue
      <3>2. k.proc[e].scheduler_queue = r
        BY <3>1, QueuedState DEF BelongsTo
      <3> QED
        BY <2>2, <3>2 DEF BelongsTo
    <2> QED
      BY <2>1, <2>2
  <1>14. NoneLost(l, With(X, e))
    <2> SUFFICES ASSUME NEW f \in Entries \ With(X, e), l.proc[f].state \in Inactive,
                        l.proc[f].pid # 0
                 PROVE  /\ l.proc[f].scheduler_queue \in Queues
                        /\ InQueue(l, l.proc[f].scheduler_queue, l.proc[f].pid)
      BY DEF NoneLost
    <2> DEFINE g == k.proc[f].scheduler_queue
               y == k.proc[f].pid
    <2>0. f \in Entries \ X /\ f # e
      BY DEF With
    <2>1. g \in Queues /\ InQueue(k, g, y)
      BY <2>0 DEF Sound, NoneLost
    <2>2. y # x
      BY <2>0 DEF Sound, PidsOK, Live, Inactive, BelongsTo
    <2>3. InQueue(l, g, y)
      <3> HIDE DEF g, y
      <3>1. CASE g = q
        <4>1. PICK i \in 1 .. Len(s) : s[i] = y
          BY <2>1, <3>1 DEF InQueue, s
        <4>2. \E j \in 1 .. Len(t) : t[j] = y
          BY <1>3, <1>5, <2>2, <4>1
        <4> QED
          BY <1>2, <3>1, <4>2 DEF InQueue
      <3>2. CASE g # q
        BY <1>2, <2>1, <3>2 DEF InQueue
      <3> QED
        BY <3>1, <3>2
    <2> QED
      BY <2>1, <2>3
  <1> QED
    BY <1>10, <1>11, <1>12, <1>13, <1>14 DEF Sound

\* e has been chosen to run: it is in no queue and has its time slice.
Chosen(k, e) ==
    /\ e \in Entries /\ Live(k, e) /\ NotQueued(k, e)
    /\ k.proc[e].cpu_time < SCHEDULER_TIMESLICE
    /\ \A f \in Entries \ {e} : k.proc[f].state # "ACTIVE"

LEMMA DispatchSound ==
    ASSUME NEW k, NEW X, Sound(k, X), Tight(k), InSlice(k), NEW l, l = Dispatch(k)
    PROVE  \E e \in Entries : /\ l.active = e /\ Sound(l, With(X, e)) /\ Chosen(l, e)
                              /\ l.status = k.status
                              /\ k.active = NULL => l.proc[e].cpu_time = 0
  <1> DEFINE s == k.queue[RunQ]
  <1>0. SCHEDULER_TIMESLICE \in Nat /\ 0 < SCHEDULER_TIMESLICE
    BY SizeAssumption
  <1>1. CASE k.active # NULL
    <2>1. l = k
      BY <1>1 DEF Dispatch
    <2>2. PICK e \in Entries : k.active = e
      BY <1>1, SoundRead DEF IsContext
    <2>3. k.proc[e].state = "ACTIVE" /\ \A f \in Entries \ {e} : k.proc[f].state # "ACTIVE"
      BY <2>2 DEF Tight
    <2>4. Live(k, e) /\ NotQueued(k, e)
      BY <2>3, ActiveNotQueued DEF Live
    <2>5. Sound(k, With(X, e))
      BY WeakerSound
    <2> QED
      BY <1>1, <2>1, <2>2, <2>3, <2>4, <2>5 DEF Chosen, InSlice
  <1>2. CASE k.active = NULL /\ s = <<>>
    <2>1. Live(k, 0) /\ 0 \in Entries /\ k.proc[0].pid = 0
      BY SoundRead, EntryNumbers DEF Sound, PidsOK
    <2>2. pid_to_proc(k, 0) = 0
      BY <2>1, LookUp
    <2>3. l = [k EXCEPT !.active = 0]
      BY <1>2, <2>2 DEF Dispatch
    <2>4. \A f \in Entries : k.proc[f].state # "ACTIVE"
      BY <1>2, EntryNumbers DEF Tight
    <2>5. k.proc[0].state = "IDLE" /\ k.proc[0].cpu_time = 0
      BY <2>1, <2>4 DEF Sound, PidsOK, FreshOK
    <2>6. NotQueued(k, 0)
      <3> SUFFICES ASSUME NEW q \in Queues, InQueue(k, q, k.proc[0].pid)
                   PROVE  FALSE
        BY DEF NotQueued
      <3>1. q = RunQ
        BY <2>1, <2>5, QueuedState, QueueStates
      <3> QED
        BY <1>2, <3>1 DEF InQueue
    <2>7. Sound(k, With(X, 0))
      BY WeakerSound
    <2>8. /\ Sound(l, With(X, 0)) /\ l.active = 0 /\ l.proc = k.proc /\ l.status = k.status
          /\ NotQueued(l, 0) /\ Live(l, 0)
      BY <2>1, <2>3, <2>6, <2>7, ActiveSound
    <2>9. Chosen(l, 0)
      BY <1>0, <2>1, <2>4, <2>5, <2>8 DEF Chosen
    <2> QED
      BY <2>1, <2>5, <2>8, <2>9
  <1>3. CASE k.active = NULL /\ s # <<>>
    <2>1. s \in Seq(Nat) /\ Len(s) \in Nat
      BY SoundRead, QueueNames
    <2>2. 1 \in 1 .. Len(s) /\ Head(s) = s[1]
      <3> HIDE DEF s
      <3> QED
        BY <1>3, <2>1
    <2>3. PICK e \in Entries : BelongsTo(k, e, RunQ) /\ k.proc[e].pid = Head(s)
      BY <2>2, QueueNames DEF Sound, QueuedOK
    <2>4. pid_to_proc(k, Head(s)) = e
      BY <2>3, LookUp DEF BelongsTo
    <2>5. l = [k EXCEPT !.active = e, !.queue[RunQ] = Tail(@)]
      BY <1>3, <2>4 DEF Dispatch
    <2>6. IsRecord(k) /\ ContextFields \subseteq DOMAIN k /\ TypedContext(k)
      BY SoundRead DEF IsContext
    <2>7. /\ l.queue = [k.queue EXCEPT ![RunQ] = Tail(@)]
          /\ l.proc = k.proc /\ l.active = e /\ l.free = k.free
          /\ l.next = k.next /\ l.status = k.status
      BY <2>5, <2>6 DEF IsRecord, ContextFields
    <2>8. TypedContext(l)
      BY <2>6, DispatchTyped
    <2>9. Sound(l, With(X, e)) /\ NotQueued(l, e)
      BY <1>3, <2>3, <2>7, <2>8, QueueNames, PopSound
    <2>10. \A f \in Entries : k.proc[f].state # "ACTIVE"
      BY <1>3, EntryNumbers DEF Tight
    <2>11. k.proc[e].state = "IDLE" /\ k.proc[e].cpu_time = 0
      BY <2>3, QueueStates DEF BelongsTo, Sound, FreshOK
    <2>12. Chosen(l, e)
      BY <1>0, <2>3, <2>7, <2>9, <2>10, <2>11 DEF Chosen, BelongsTo, Live
    <2> QED
      BY <2>7, <2>9, <2>11, <2>12
  <1> QED
    BY <1>1, <1>2, <1>3

\* What holds whenever the kernel is left by a running system.
Scheduled(k, X) == Sound(k, X) /\ Tight(k) /\ InSlice(k) /\ k.active # NULL

LEMMA ActivateSound ==
    ASSUME NEW k, NEW X, NEW e \in Entries, Sound(k, With(X, e)), Chosen(k, e), k.active = e,
           NEW l, l = Activate(k)
    PROVE  Scheduled(l, X) /\ l.status = k.status
  <1> DEFINE p == [k.proc[e] EXCEPT !.state = "ACTIVE"]
  <1>1. TypedContext(k) /\ k.proc[e] \in PCB /\ e # NULL
    BY SoundRead, EntryNumbers
  <1>2. /\ p \in PCB /\ p.pid = k.proc[e].pid /\ p.state = "ACTIVE"
        /\ p.cpu_time = k.proc[e].cpu_time
    BY <1>1 DEF PCB, States
  <1>3. l = [k EXCEPT !.proc[e] = p]
    BY <1>1 DEF Activate, TypedContext, IsContext
  <1> HIDE DEF p
  <1>4. /\ StoredIn(k, l, e, p)
        /\ l.proc[e] = p /\ \A f \in Entries \ {e} : l.proc[f] = k.proc[f]
        /\ l.queue = k.queue /\ l.active = k.active /\ l.status = k.status
    BY <1>1, <1>2, <1>3, StoreFields
  <1>5. Revises(k, e, p)
    BY <1>2 DEF Revises
  <1>6. Sound(l, With(X, e))
    BY <1>4, <1>5, DetachedSound DEF Chosen
  <1>7. Sound(l, X)
    BY <1>2, <1>4, <1>6 DEF Sound, NoneLost, Inactive, With
  <1>8. Tight(l)
    BY <1>2, <1>4 DEF Tight, Chosen
  <1>9. InSlice(l) /\ l.active # NULL
    BY <1>1, <1>2, <1>4 DEF InSlice, Chosen
  <1> QED
    BY <1>4, <1>7, <1>8, <1>9 DEF Scheduled

\* A running system leaves every kernel entry with a process scheduled.
LEMMA RunSound ==
    ASSUME NEW k, NEW X, Sound(k, X), Loose(k), NEW l, l = scheduler_run(k)
    PROVE  Scheduled(l, X) /\ l.status = k.status
  <1> DEFINE a == DropInactive(k)
             b == Preempt(a)
             c == Dispatch(b)
  <1>1. Sound(a, X) /\ Tight(a) /\ a.status = k.status
    BY DropSound
  <1>2. b = Preempt(a) /\ c = Dispatch(b) /\ l = Activate(c)
    BY DEF scheduler_run
  <1> HIDE DEF a, b, c
  <1>3. Sound(b, X) /\ Tight(b) /\ InSlice(b) /\ b.status = a.status
    BY <1>1, <1>2, PreemptSound
  <1>4. PICK e \in Entries : c.active = e /\ Sound(c, With(X, e)) /\ Chosen(c, e)
                             /\ c.status = b.status
    BY <1>2, <1>3, DispatchSound
  <1>5. Scheduled(l, X) /\ l.status = c.status
    BY <1>2, <1>4, ActivateSound
  <1> QED
    BY <1>1, <1>3, <1>4, <1>5
-----------------------------------------------------------------------------
(***************************************************************************)
(* kproc_create and kproc_destroy.                                         *)
(***************************************************************************)

LEMMA TailItems ==
    ASSUME NEW S, NEW s \in Seq(S), s # <<>>, NoItemTwice(s)
    PROVE  /\ \A y : (\E i \in 1 .. Len(Tail(s)) : Tail(s)[i] = y)
                        <=> y # Head(s) /\ \E i \in 1 .. Len(s) : s[i] = y
           /\ NoItemTwice(Tail(s))
           /\ \E i \in 1 .. Len(s) : s[i] = Head(s)
  <1> DEFINE t == Tail(s)
  <1>1. Len(s) \in Nat /\ 1 \in 1 .. Len(s) /\ s[1] = Head(s) /\ Len(t) = Len(s) - 1
    BY HeadTailProperties
  <1>2. \A i \in 1 .. Len(t) : i + 1 \in 1 .. Len(s) /\ t[i] = s[i + 1] /\ i + 1 # 1
    BY HeadTailProperties
  <1>3. ASSUME NEW i \in 1 .. Len(s), i # 1
        PROVE  \E j \in 1 .. Len(t) : t[j] = s[i]
    <2>1. i - 1 \in 1 .. Len(t) /\ t[i - 1] = s[i]
      BY <1>1, <1>3, HeadTailProperties
    <2> QED
      BY <2>1
  <1> HIDE DEF t
  <1>4. ASSUME NEW y
        PROVE  (\E i \in 1 .. Len(t) : t[i] = y)
                  <=> y # Head(s) /\ \E i \in 1 .. Len(s) : s[i] = y
    <2>1. ASSUME NEW i \in 1 .. Len(t), t[i] = y
          PROVE  y # Head(s) /\ \E j \in 1 .. Len(s) : s[j] = y
      BY <1>1, <1>2, <2>1 DEF NoItemTwice
    <2>2. ASSUME y # Head(s), NEW i \in 1 .. Len(s), s[i] = y
          PROVE  \E j \in 1 .. Len(t) : t[j] = y
      BY <1>1, <1>3, <2>2
    <2> QED
      BY <2>1, <2>2
  <1>5. ASSUME NEW i \in 1 .. Len(t), NEW j \in 1 .. Len(t), t[i] = t[j]
        PROVE  i = j
    <2>1. i + 1 = j + 1
      BY <1>2, <1>5 DEF NoItemTwice
    <2> QED
      BY <2>1
  <1>6. NoItemTwice(t)
    BY <1>5 DEF NoItemTwice
  <1> QED
    BY <1>1, <1>4, <1>6 DEF t

LEMMA CreateSound ==
    ASSUME NEW k, NEW X, Sound(k, X), NEW l, l = kproc_create(k)
    PROVE  /\ Sound(l, X)
           /\ \A f \in Entries : Live(k, f) => l.proc[f] = k.proc[f]
           /\ \A f \in Entries : ~Live(k, f) => l.proc[f].state # "ACTIVE"
           /\ l.active = k.active /\ l.status = k.status
           /\ \/ l.queue[RunQ] = k.queue[RunQ]
              \/ \E pid \in Nat : l.queue[RunQ] = Append(k.queue[RunQ], pid)
           /\ \A q \in Queues \ {RunQ} : l.queue[q] = k.queue[q]
           /\ SameShape(k, l) /\ l.next \in {k.next, k.next + 1}
  <1>1. CASE k.free = <<>>
    <2>1. l = k
      BY <1>1 DEF kproc_create
    <2>2. SameShape(k, k)
      BY SoundRead DEF SameShape, IsContext
    <2> QED
      BY <2>1, <2>2 DEF Live
  <1>2. CASE k.free # <<>>
    <2> DEFINE e == Head(k.free)
               p == NewPCB(k.next)
               m == [k EXCEPT !.free = Tail(@), !.next = @ + 1,
                              !.proc[e] = NewPCB(k.next)]
    <2>1. /\ TypedContext(k) /\ IsRecord(k) /\ ContextFields \subseteq DOMAIN k
          /\ k.free \in Seq(Entries) /\ k.next \in Nat /\ k.proc \in [Entries -> PCB]
          /\ NoItemTwice(k.free)
      BY SoundRead DEF IsContext, Sound, FreeOK
    <2>2. /\ e \in Entries
          /\ \A y : (\E i \in 1 .. Len(Tail(k.free)) : Tail(k.free)[i] = y)
                       <=> y # e /\ \E i \in 1 .. Len(k.free) : k.free[i] = y
          /\ NoItemTwice(Tail(k.free))
          /\ \E i \in 1 .. Len(k.free) : k.free[i] = e
      BY <1>2, <2>1, TailItems, HeadTailProperties
    <2>3. ~Live(k, e)
      BY <2>2 DEF Sound, FreeOK
    <2>4. l = scheduler_add(m, e)
      BY <1>2 DEF kproc_create
    <2>5. /\ m.proc = [k.proc EXCEPT ![e] = p]
          /\ m.queue = k.queue /\ m.active = k.active /\ m.free = Tail(k.free)
          /\ m.next = k.next + 1 /\ m.status = k.status
          /\ IsRecord(m) /\ DOMAIN m = DOMAIN k /\ SameShape(k, m)
      BY <2>1 DEF IsRecord, ContextFields, SameShape
    <2>6. p \in PCB /\ p.pid = k.next /\ p.state = "IDLE" /\ p.cpu_time = 0
      <3>1. p \in PCB
        BY <2>1, BlankPCB
      <3> QED
        BY <3>1 DEF NewPCB, FreePCB
    <2> HIDE DEF e, p, m
    <2>7. m.proc[e] = p /\ \A f \in Entries \ {e} : m.proc[f] = k.proc[f]
      BY <2>1, <2>2, <2>5
    <2>8. TypedContext(m)
      <3>1. m.proc \in [Entries -> PCB]
        BY <2>1, <2>2, <2>5, <2>6, StoreTyped
      <3>2. m.free \in Seq(Entries) /\ Len(m.free) = Len(k.free) - 1
        BY <1>2, <2>1, <2>5, HeadTailProperties
      <3>3. Len(k.free) \in Nat /\ Len(k.free) <= QUEUE_SIZE /\ QUEUE_SIZE \in Nat
        BY <2>1, ContextRead DEF TypedContext, IsBounded
      <3>4. Len(m.free) <= QUEUE_SIZE
        BY <3>2, <3>3
      <3> QED
        BY <2>1, <2>5, <3>1, <3>2, <3>4 DEF TypedContext, IsContext, IsBounded
    <2>9. e # 0
      BY <2>3, SoundRead
    <2>10. Live(m, e) /\ \A f \in Entries \ {e} : Live(m, f) <=> Live(k, f)
      BY <2>6, <2>7 DEF Live
    <2>11. PidsOK(m)
      <3>1. \A f \in Entries \ {e} : Live(m, f) =>
                m.proc[f].pid < k.next /\ m.proc[f].pid \in Nat
        BY <2>7, <2>10, SoundRead DEF Sound, PidsOK
      <3>2. m.proc[e].pid = k.next
        BY <2>6, <2>7
      <3>3. \A f \in Entries : Live(m, f) => m.proc[f].pid < m.next
        BY <2>1, <2>5, <3>1, <3>2
      <3>4. \A f \in Entries \ {e} : Live(m, f) => m.proc[f].pid # m.proc[e].pid
        BY <2>1, <3>1, <3>2
      <3>5. \A f, g \in Entries \ {e} :
                Live(m, f) /\ Live(m, g) /\ m.proc[f].pid = m.proc[g].pid => f = g
        BY <2>7, <2>10 DEF Sound, PidsOK
      <3>6. \A f, g \in Entries :
                Live(m, f) /\ Live(m, g) /\ m.proc[f].pid = m.proc[g].pid => f = g
        BY <3>4, <3>5
      <3>7. m.proc[0].pid = 0 /\ m.proc[0].state \in {"IDLE", "ACTIVE"}
        BY <2>7, <2>9, EntryNumbers DEF Sound, PidsOK
      <3> QED
        BY <3>3, <3>6, <3>7 DEF PidsOK
    <2>12. FreeOK(m)
      <3>1. \A f \in Entries :
                Live(m, f) <=> ~ \E i \in 1 .. Len(m.free) : m.free[i] = f
        <4>1. \A f \in Entries : Live(k, f) <=> ~ \E i \in 1 .. Len(k.free) : k.free[i] = f
          BY DEF Sound, FreeOK
        <4>2. \A f \in Entries : (\E i \in 1 .. Len(m.free) : m.free[i] = f)
                                    <=> f # e /\ \E i \in 1 .. Len(k.free) : k.free[i] = f
          BY ONLY <2>2, <2>5
        <4> QED
          BY ONLY <4>1, <4>2, <2>10, <2>2
      <3>2. \A f \in Entries : ~Live(m, f) => m.proc[f] = FreePCB
        BY <2>7, <2>10 DEF Sound, FreeOK
      <3> QED
        BY <2>2, <2>5, <3>1, <3>2 DEF FreeOK
    <2>13. FreshOK(m)
      BY <2>6, <2>7 DEF Sound, FreshOK
    <2>14. \A q \in Queues : \A i \in 1 .. Len(k.queue[q]) : \E f \in Entries \ {e} :
              BelongsTo(m, f, q) /\ m.proc[f].pid = k.queue[q][i]
      <3> SUFFICES ASSUME NEW q \in Queues, NEW i \in 1 .. Len(k.queue[q])
                   PROVE  \E f \in Entries \ {e} :
                             BelongsTo(m, f, q) /\ m.proc[f].pid = k.queue[q][i]
        OBVIOUS
      <3>1. PICK f \in Entries : BelongsTo(k, f, q) /\ k.proc[f].pid = k.queue[q][i]
        BY DEF Sound, QueuedOK
      <3>2. f # e
        BY <2>3, <3>1 DEF BelongsTo
      <3> QED
        BY <2>7, <3>1, <3>2 DEF BelongsTo, Live
    <2>15. QueuedOK(m) /\ OnceOK(m)
      BY <2>5, <2>14 DEF QueuedOK, OnceOK, Sound
    <2>16. NotQueued(m, e)
      <3> SUFFICES ASSUME NEW q \in Queues, InQueue(m, q, m.proc[e].pid)
                   PROVE  FALSE
        BY DEF NotQueued
      <3>1. PICK f \in Entries \ {e} : BelongsTo(m, f, q) /\ m.proc[f].pid = m.proc[e].pid
        BY <2>5, <2>14 DEF InQueue
      <3> QED
        BY <2>2, <2>10, <2>11, <3>1 DEF PidsOK, BelongsTo
    <2>17. NoneLost(m, With(X, e))
      BY <2>5, <2>7 DEF Sound, NoneLost, InQueue, With
    <2>18. Sound(m, With(X, e))
      BY <2>8, <2>11, <2>12, <2>13, <2>15, <2>17 DEF Sound
    <2>19. Sound(l, X)
      <3>1. /\ Sound(m, With(X, e)) /\ e \in Entries /\ Live(m, e) /\ NotQueued(m, e)
            /\ e # 0 /\ l = scheduler_add(m, e)
        BY <2>2, <2>4, <2>9, <2>10, <2>16, <2>18
      <3> QED
        BY <3>1, AddSound
    <2>20. IsContext(m) /\ ~Full(m.queue[RunQ])
      BY <2>2, <2>10, <2>16, <2>18, RoomInQueue, QueueNames, SoundRead
    <2>21. /\ SameShape(m, l)
           /\ l.proc = [m.proc EXCEPT ![e] = ReadyPCB(@)]
           /\ l.queue = [m.queue EXCEPT ![RunQ] = Append(@, m.proc[e].pid)]
           /\ l.active = m.active /\ l.free = m.free
           /\ l.next = m.next /\ l.status = m.status
      <3>1. IsContext(m) /\ e \in Entries /\ ~Full(m.queue[RunQ]) /\ l = scheduler_add(m, e)
        BY <2>2, <2>4, <2>20
      <3> QED
        BY ONLY <3>1, AddFields, SMT
    <2>26. SameShape(k, l) /\ l.next \in {k.next, k.next + 1}
             /\ \A q \in Queues \ {RunQ} : l.queue[q] = k.queue[q]
      BY <2>5, <2>20, <2>21 DEF SameShape, IsContext
    <2>22. /\ l.proc[e] = ReadyPCB(p) /\ \A f \in Entries \ {e} : l.proc[f] = k.proc[f]
           /\ l.queue[RunQ] = Append(k.queue[RunQ], p.pid)
      BY <2>2, <2>5, <2>7, <2>20, <2>21, QueueNames DEF IsContext
    <2>23. ReadyPCB(p).state = "IDLE" /\ p.pid \in Nat
      BY <2>1, <2>6 DEF ReadyPCB, PCB
    <2>24. \A f \in Entries : Live(k, f) => l.proc[f] = k.proc[f]
      BY <2>3, <2>22
    <2>25. \A f \in Entries : ~Live(k, f) => l.proc[f].state # "ACTIVE"
      BY <2>22, <2>23 DEF Live
    <2> QED
      BY <2>5, <2>19, <2>21, <2>22, <2>23, <2>24, <2>25, <2>26
  <1> QED
    BY <1>1, <1>2
\* The allocator has room for an entry that it does not hold.
LEMMA RoomInAllocator ==
    ASSUME NEW k, NEW X, Sound(k, X), NEW e \in Entries, Live(k, e)
    PROVE  ~Full(k.free)
  <1> DEFINE s == k.free
             D == 1 .. Len(s)
             E == Entries \ {e}
             f == [i \in D |-> s[i]]
  <1>1. s \in Seq(Entries) /\ Len(s) \in Nat /\ NoItemTwice(s)
    BY SoundRead DEF Sound, FreeOK, IsContext
  <1>2. \A i \in D : s[i] \in E
    BY <1>1 DEF Sound, FreeOK
  <1>3. f \in [D -> E] /\ \A i, j \in D : f[i] = f[j] => i = j
    BY <1>1, <1>2 DEF NoItemTwice
  <1>4. IsFiniteSet(E)
    BY EntryNumbers, FS_Subset
  <1>5. Cardinality(D) = Len(s)
    BY <1>1, IntervalSize
  <1>6. Cardinality(E) = PROC_MAX - 1
    BY EntriesCount
  <1> HIDE DEF f, D, E
  <1>7. Cardinality(D) <= Cardinality(E)
    BY <1>3, <1>4, InjectionBound
  <1> HIDE DEF s
  <1>8. ~(Len(s) >= QUEUE_SIZE)
    BY <1>1, <1>5, <1>6, <1>7, EntriesCount
  <1> QED
    BY <1>8 DEF Full, s

\* A process that is in no queue gives its entry back.
LEMMA ReleaseSound ==
    ASSUME NEW k, NEW X, NEW e \in Entries, Sound(k, With(X, e)), Live(k, e), NotQueued(k, e),
           k.proc[e].pid # 0, NEW l, l = Release(k, e)
    PROVE  /\ Sound(l, X) /\ l.proc[e].state = "NONE"
           /\ \A f \in Entries \ {e} : l.proc[f] = k.proc[f]
           /\ l.active = k.active /\ l.status = k.status
  <1>1. TypedContext(k) /\ IsContext(k) /\ k.free \in Seq(Entries)
          /\ k.proc \in [Entries -> PCB]
    BY SoundRead DEF IsContext
  <1>2. pid_to_proc(k, k.proc[e].pid) = e /\ ~Full(k.free)
    BY LookUp, RoomInAllocator
  <1>3. /\ l.proc = [k.proc EXCEPT ![e] = FreePCB]
        /\ l.free = Append(k.free, e)
        /\ l.queue = k.queue /\ l.active = k.active
        /\ l.next = k.next /\ l.status = k.status
    <2>1. /\ l.proc = [k.proc EXCEPT ![e] = FreePCB]
          /\ l.free = IF Full(k.free) THEN k.free
                      ELSE Append(k.free, pid_to_proc(k, k.proc[e].pid))
          /\ l.queue = k.queue /\ l.active = k.active
          /\ l.next = k.next /\ l.status = k.status
      BY <1>1, ReleaseFields
    <2> QED
      BY <1>2, <2>1
  <1>4. l.proc[e] = FreePCB /\ \A f \in Entries \ {e} : l.proc[f] = k.proc[f]
    BY <1>1, <1>3
  <1>5. FreePCB.state = "NONE" /\ e # 0
    BY DEF FreePCB, Sound, PidsOK
  <1>6. ~Live(l, e) /\ \A f \in Entries \ {e} : Live(l, f) <=> Live(k, f)
    BY <1>4, <1>5 DEF Live
  <1>7. TypedContext(l)
    BY <1>1, ReleaseTyped
  <1>8. PidsOK(l)
    BY <1>3, <1>4, <1>5, <1>6, EntryNumbers DEF Sound, PidsOK
  <1>9. FreeOK(l)
    <2> DEFINE s == k.free
               a == Append(s, e)
    <2>1. \A i \in 1 .. Len(s) : s[i] # e
      BY DEF Sound, FreeOK
    <2>2. NoItemTwice(a)
      BY <1>1, <2>1, AppendOnce DEF Sound, FreeOK
    <2>3. /\ \A i \in 1 .. Len(s) : a[i] = s[i] /\ i \in 1 .. Len(a)
          /\ a[Len(s) + 1] = e /\ Len(s) + 1 \in 1 .. Len(a)
          /\ \A i \in 1 .. Len(a) : i \in 1 .. Len(s) \/ i = Len(s) + 1
      BY <1>1, AppendItems
    <2> HIDE DEF a, s
    <2>4. \A f \in Entries : (\E i \in 1 .. Len(a) : a[i] = f)
                                <=> f = e \/ \E i \in 1 .. Len(s) : s[i] = f
      BY <2>3
    <2>5. \A f \in Entries : Live(l, f) <=> ~ \E i \in 1 .. Len(a) : a[i] = f
      BY <1>6, <2>4 DEF Sound, FreeOK, s
    <2>6. \A f \in Entries : ~Live(l, f) => l.proc[f] = FreePCB
      BY <1>4, <1>6 DEF Sound, FreeOK
    <2>7. l.free = a
      BY <1>3 DEF a, s
    <2> QED
      BY <2>2, <2>5, <2>6, <2>7 DEF FreeOK
  <1>10. FreshOK(l)
    BY <1>4, <1>5 DEF Sound, FreshOK
  <1>11. OnceOK(l)
    BY <1>3 DEF Sound, OnceOK
  <1>12. QueuedOK(l)
    <2> SUFFICES ASSUME NEW q \in Queues, NEW i \in 1 .. Len(k.queue[q])
                 PROVE  \E f \in Entries : BelongsTo(l, f, q)
                                           /\ l.proc[f].pid = k.queue[q][i]
      BY <1>3 DEF QueuedOK
    <2>1. PICK f \in Entries : BelongsTo(k, f, q) /\ k.proc[f].pid = k.queue[q][i]
      BY DEF Sound, QueuedOK
    <2>2. f # e
      BY <2>1 DEF NotQueued, InQueue
    <2> QED
      BY <1>4, <1>6, <2>1, <2>2 DEF BelongsTo
  <1>13. NoneLost(l, X)
    BY <1>3, <1>4, <1>5 DEF Sound, NoneLost, InQueue, Inactive, With
  <1> QED
    BY <1>3, <1>4, <1>5, <1>7, <1>8, <1>9, <1>10, <1>11, <1>12, <1>13 DEF Sound

\* kproc_destroy is only ever called for the scheduled process.
LEMMA DestroySound ==
    ASSUME NEW k, NEW X, Sound(k, X), Tight(k), k.active # NULL,
           NEW l, l = kproc_destroy(k, k.active)
    PROVE  Sound(l, X) /\ Loose(l) /\ l.status = k.status /\ l.active \in {NULL, k.active}
  <1> DEFINE e == k.active
             d == scheduler_remove(k, e)
  <1>1. e \in Entries /\ Live(k, e) /\ \A f \in Entries \ {e} : k.proc[f].state # "ACTIVE"
    BY SoundRead DEF IsContext, Tight, Live
  <1>2. CASE k.proc[e].pid = 0
    <2>1. l = k
      BY <1>2 DEF kproc_destroy
    <2> QED
      BY <2>1 DEF Tight, Loose
  <1>3. CASE k.proc[e].pid # 0
    <2>1. l = Release(d, e) /\ d = scheduler_remove(k, e)
      BY <1>3 DEF kproc_destroy
    <2>2. k.active = e
      OBVIOUS
    <2> HIDE DEF d, e
    <2>3. /\ Sound(d, With(X, e)) /\ NotQueued(d, e) /\ Live(d, e)
          /\ d.proc[e].pid = k.proc[e].pid /\ d.proc[e].state = k.proc[e].state
          /\ \A f \in Entries \ {e} : d.proc[f] = k.proc[f]
          /\ d.active = IF k.active = e THEN NULL ELSE k.active
          /\ d.status = k.status /\ d.free = k.free
      BY <1>1, <2>1, RemoveSound
    <2>4. /\ Sound(l, X) /\ l.proc[e].state = "NONE"
          /\ \A f \in Entries \ {e} : l.proc[f] = d.proc[f]
          /\ l.active = d.active /\ l.status = d.status
      <3>1. /\ Sound(d, With(X, e)) /\ e \in Entries /\ Live(d, e) /\ NotQueued(d, e)
            /\ d.proc[e].pid # 0 /\ l = Release(d, e)
        BY <1>1, <1>3, <2>1, <2>3
      <3> QED
        BY <3>1, ReleaseSound
    <2>5. \A f \in Entries : l.proc[f].state # "ACTIVE"
      BY <1>1, <2>3, <2>4
    <2> QED
      BY <2>3, <2>4, <2>5 DEF Loose
  <1> QED
    BY <1>2, <1>3
-----------------------------------------------------------------------------
(***************************************************************************)
(* The invariant.                                                          *)
(***************************************************************************)

\* Until a process is scheduled the idle task is at the head of the run queue.
IdleFirst(k) == k.active = NULL => k.queue[RunQ] # <<>> /\ Head(k.queue[RunQ]) = 0

Safe(k, X) ==
    /\ Sound(k, X) /\ Tight(k) /\ InSlice(k) /\ IdleFirst(k)
    /\ k.status \in {"boot", "panic"} => k.active = NULL

Inv(X) == Safe(Ctx, X)

\* Safe speaks of the fields alone.
LEMMA SameFields ==
    ASSUME NEW k, NEW X, Safe(k, X), NEW l, TypedContext(l),
           l.proc = k.proc, l.queue = k.queue, l.active = k.active, l.free = k.free,
           l.next = k.next, l.status = k.status
    PROVE  Safe(l, X)
  <1>1. Sound(l, X)
    BY DEF Safe, Sound, PidsOK, FreeOK, QueuedOK, BelongsTo, OnceOK, NoneLost,
           InQueue, FreshOK, Live
  <1> QED
    BY <1>1 DEF Safe, Tight, InSlice, IdleFirst

LEMMA SafeCommit ==
    ASSUME NEW k, NEW X, Safe(k, X), Commit(k)
    PROVE  Inv(X)'
  <1> DEFINE c == [proc |-> proc_table', queue |-> queue', active |-> active_proc',
                   free |-> proc_allocator', next |-> next_pid', status |-> status']
  <1>1. TypedContext(k)
    BY DEF Safe, Sound
  <1>2. /\ c.proc = k.proc /\ c.queue = k.queue /\ c.active = k.active
        /\ c.free = k.free /\ c.next = k.next /\ c.status = k.status
    BY DEF Commit
  <1>3. IsRecord(c) /\ ContextFields \subseteq DOMAIN c
    BY DEF IsRecord, ContextFields
  <1>4. TypedContext(c)
    <2> HIDE DEF c
    <2> QED
      BY <1>1, <1>2, <1>3 DEF TypedContext, IsContext, IsBounded
  <1>5. Safe(c, X)
    <2> HIDE DEF c
    <2> QED
      BY <1>2, <1>4, SameFields
  <1> QED
    BY <1>5 DEF Inv, Ctx

\* A handler that came back is followed by scheduler_run.
LEMMA SafeExit ==
    ASSUME NEW k, NEW X, Sound(k, X), Loose(k), k.status = "running", ExitKernel(k)
    PROVE  Inv(X)'
  <1>1. PICK l : l = scheduler_run(k) /\ Commit(l)
    BY DEF ExitKernel, AfterHandler
  <1>2. Scheduled(l, X) /\ l.status = "running"
    BY <1>1, RunSound
  <1>3. Safe(l, X)
    BY <1>2 DEF Scheduled, Safe, IdleFirst
  <1> QED
    BY <1>1, <1>3, SafeCommit

LEMMA SafePanic ==
    ASSUME NEW k, NEW X, Safe(k, X), k.active = NULL, NEW l, l = kernel_panic(k)
    PROVE  Safe(l, X) /\ l.status = "panic"
  <1>1. IsContext(k) /\ TypedContext(k)
    BY DEF Safe, Sound, TypedContext
  <1>2. /\ l.proc = k.proc /\ l.queue = k.queue /\ l.active = k.active
        /\ l.free = k.free /\ l.next = k.next /\ l.status = "panic"
    BY <1>1, PanicFields
  <1>3. TypedContext(l)
    BY <1>1, PanicTyped
  <1>4. Sound(l, X)
    BY <1>2, <1>3
       DEF Safe, Sound, PidsOK, FreeOK, QueuedOK, BelongsTo, OnceOK, NoneLost,
           InQueue, FreshOK, Live
  <1> QED
    BY <1>2, <1>4 DEF Safe, Tight, InSlice, IdleFirst

LEMMA SafeCreate ==
    ASSUME NEW k, NEW X, Safe(k, X), NEW l, l = kproc_create(k)
    PROVE  Safe(l, X)
  <1>1. /\ Sound(l, X)
        /\ \A f \in Entries : Live(k, f) => l.proc[f] = k.proc[f]
        /\ \A f \in Entries : ~Live(k, f) => l.proc[f].state # "ACTIVE"
        /\ l.active = k.active /\ l.status = k.status
        /\ \/ l.queue[RunQ] = k.queue[RunQ]
           \/ \E pid \in Nat : l.queue[RunQ] = Append(k.queue[RunQ], pid)
    <2>1. Sound(k, X)
      BY DEF Safe
    <2> QED
      BY <2>1, CreateSound
  <1>2. \A f \in Entries : l.proc[f].state = "ACTIVE" <=> k.proc[f].state = "ACTIVE"
    BY <1>1 DEF Live
  <1>3. Tight(l)
    BY <1>1, <1>2 DEF Safe, Tight
  <1>4. InSlice(l)
    <2> SUFFICES ASSUME l.active # NULL
                 PROVE  l.proc[l.active].cpu_time < SCHEDULER_TIMESLICE
      BY DEF InSlice
    <2>1. l.active \in Entries /\ k.proc[l.active].state = "ACTIVE"
      BY <1>1, SoundRead DEF Safe, Tight, IsContext
    <2>2. l.proc[l.active] = k.proc[l.active]
      BY <1>1, <2>1 DEF Live
    <2> QED
      BY <1>1, <2>2 DEF Safe, InSlice
  <1>5. IdleFirst(l)
    <2> DEFINE s == k.queue[RunQ]
    <2>1. s \in Seq(Nat)
      BY SoundRead, QueueNames DEF Safe
    <2>2. \A pid \in Nat : s # <<>> => Append(s, pid) # <<>> /\ Head(Append(s, pid)) = Head(s)
      <3> HIDE DEF s
      <3> QED
        BY <2>1
    <2> HIDE DEF s
    <2>3. k.active = NULL => s # <<>> /\ Head(s) = 0
      BY DEF Safe, IdleFirst, s
    <2>4. l.queue[RunQ] = s \/ \E pid \in Nat : l.queue[RunQ] = Append(s, pid)
      BY <1>1 DEF s
    <2> QED
      BY <1>1, <2>2, <2>3, <2>4 DEF IdleFirst
  <1> QED
    BY <1>1, <1>3, <1>4, <1>5 DEF Safe

LEMMA CtxFields ==
    /\ Ctx.proc = proc_table /\ Ctx.queue = queue /\ Ctx.active = active_proc
    /\ Ctx.free = proc_allocator /\ Ctx.next = next_pid /\ Ctx.status = status
  BY DEF Ctx

LEMMA TightLoose ==
    ASSUME NEW k, Tight(k)
    PROVE  Loose(k)
  BY DEF Tight, Loose

\* Ctrl-Q and PROC_EXIT.
LEMMA SafeDestroy ==
    ASSUME NEW X, Inv(X), status = "running", ExitKernel(kproc_destroy(Ctx, active_proc))
    PROVE  Inv(X)'
  <1> DEFINE k == Ctx
  <1>1. Safe(k, X) /\ k.active = active_proc /\ k.status = "running"
    BY CtxFields DEF Inv
  <1> HIDE DEF k
  <1>2. PICK d : d = kproc_destroy(k, k.active) /\ ExitKernel(d)
    BY <1>1 DEF k
  <1>3. CASE k.active = NULL
    <2>1. d = kernel_panic(k)
      BY <1>2, <1>3 DEF kproc_destroy
    <2>2. Safe(d, X) /\ d.status = "panic"
      BY <1>1, <1>3, <2>1, SafePanic
    <2>3. Commit(d)
      BY <1>2, <2>2 DEF ExitKernel, AfterHandler
    <2> QED
      BY <2>2, <2>3, SafeCommit
  <1>4. CASE k.active # NULL
    <2>1. Sound(d, X) /\ Loose(d) /\ d.status = k.status
      BY <1>1, <1>2, <1>4, DestroySound DEF Safe
    <2> QED
      BY <1>1, <1>2, <2>1, SafeExit
  <1> QED
    BY <1>3, <1>4
LEMMA InitSafe == Init => Inv({})
  <1> SUFFICES ASSUME Init
               PROVE  Inv({})
    OBVIOUS
  <1> DEFINE k == Ctx
  <1>1. /\ k.proc = proc_table /\ k.queue = queue /\ k.active = NULL
        /\ k.free = proc_allocator /\ k.next = BOOT_PROCS /\ k.status = "boot"
    BY DEF Ctx, Init
  <1>2. TypedContext(k)
    BY InitTyped, TypedState
  <1> HIDE DEF k
  <1>3. PROC_MAX \in Nat /\ BOOT_PROCS \in 1 .. PROC_MAX /\ BOOT_PROCS \in Nat
          /\ SCHEDULER_TIMESLICE \in Nat /\ 0 < SCHEDULER_TIMESLICE
    BY SizeAssumption
  <1>4. \A e \in Entries :
            /\ e \in Int
            /\ e < BOOT_PROCS => /\ k.proc[e].pid = e /\ k.proc[e].state = "IDLE"
                                 /\ k.proc[e].scheduler_queue = RunQ
                                 /\ k.proc[e].cpu_time = 0
            /\ ~(e < BOOT_PROCS) => k.proc[e] = FreePCB /\ k.proc[e].state = "NONE"
    <2> SUFFICES ASSUME NEW e \in Entries
                 PROVE  /\ e < BOOT_PROCS => /\ k.proc[e].pid = e
                                             /\ k.proc[e].state = "IDLE"
                                             /\ k.proc[e].scheduler_queue = RunQ
                                             /\ k.proc[e].cpu_time = 0
                        /\ ~(e < BOOT_PROCS) => /\ k.proc[e] = FreePCB
                                                /\ k.proc[e].state = "NONE"
      BY EntryNumbers
    <2>1. k.proc[e] = IF e < BOOT_PROCS THEN BootPCB(e) ELSE FreePCB
      BY <1>1 DEF Init
    <2>2. /\ BootPCB(e).pid = e /\ BootPCB(e).state = "IDLE"
          /\ BootPCB(e).scheduler_queue = RunQ /\ BootPCB(e).cpu_time = 0
      BY DEF BootPCB, NewPCB, FreePCB
    <2>3. FreePCB.state = "NONE"
      BY DEF FreePCB
    <2> QED
      BY <2>1, <2>2, <2>3
  <1>5. \A e \in Entries : (Live(k, e) <=> e < BOOT_PROCS) /\ k.proc[e].state # "ACTIVE"
    BY <1>4 DEF Live
  <1>6. /\ k.queue[RunQ] = [i \in 1 .. BOOT_PROCS |-> i - 1]
        /\ \A q \in Queues \ {RunQ} : k.queue[q] = <<>>
    BY <1>1, QueueNames DEF Init
  <1>7. /\ Len(k.queue[RunQ]) = BOOT_PROCS
        /\ \A i \in 1 .. BOOT_PROCS : k.queue[RunQ][i] = i - 1 /\ i - 1 \in Entries
    BY <1>3, <1>6 DEF Entries
  <1>8. PidsOK(k)
    <2>1. 0 \in Entries /\ 0 < BOOT_PROCS
      BY <1>3, EntryNumbers
    <2> QED
      BY <1>1, <1>4, <1>5, <2>1 DEF PidsOK
  <1>9. FreeOK(k)
    <2> DEFINE n == PROC_MAX - BOOT_PROCS
    <2>1. n \in Nat
      BY <1>3
    <2>2. k.free = [i \in 1 .. n |-> BOOT_PROCS + i - 1]
      BY <1>1 DEF Init
    <2> HIDE DEF n
    <2>3. Len(k.free) = n /\ \A i \in 1 .. n : k.free[i] = BOOT_PROCS + i - 1
      BY <2>1, <2>2
    <2>4. NoItemTwice(k.free)
      BY <1>3, <2>1, <2>3 DEF NoItemTwice
    <2>5. ASSUME NEW e \in Entries
          PROVE  Live(k, e) <=> ~ \E i \in 1 .. Len(k.free) : k.free[i] = e
      <3>1. CASE e < BOOT_PROCS
        BY <1>3, <1>4, <1>5, <2>1, <2>3, <3>1
      <3>2. CASE ~(e < BOOT_PROCS)
        <4>1. e \in Int /\ 0 <= e /\ e <= PROC_MAX - 1
          BY <1>3 DEF Entries
        <4>2. (e - BOOT_PROCS) + 1 \in 1 .. n
                /\ BOOT_PROCS + ((e - BOOT_PROCS) + 1) - 1 = e
          BY <1>3, <3>2, <4>1 DEF n
        <4>3. k.free[(e - BOOT_PROCS) + 1] = e
          BY <2>3, <4>2
        <4> QED
          BY <1>5, <2>3, <3>2, <4>2, <4>3
      <3> QED
        BY <3>1, <3>2
    <2> QED
      BY <1>4, <1>5, <2>4, <2>5 DEF FreeOK
  <1>10. QueuedOK(k)
    <2> SUFFICES ASSUME NEW q \in Queues, NEW i \in 1 .. Len(k.queue[q])
                 PROVE  \E e \in Entries : BelongsTo(k, e, q)
                                           /\ k.proc[e].pid = k.queue[q][i]
      BY DEF QueuedOK
    <2>1. q = RunQ
      BY <1>6
    <2>2. i \in 1 .. BOOT_PROCS /\ i - 1 \in Entries /\ i - 1 < BOOT_PROCS
            /\ k.queue[RunQ][i] = i - 1
      BY <1>3, <1>7, <2>1
    <2>3. BelongsTo(k, i - 1, RunQ) /\ k.proc[i - 1].pid = i - 1
      BY <1>4, <2>2, QueueStates DEF BelongsTo, Live
    <2> QED
      BY <2>1, <2>2, <2>3
  <1>11. OnceOK(k)
    <2> SUFFICES ASSUME NEW q \in Queues
                 PROVE  NoItemTwice(k.queue[q])
      BY DEF OnceOK
    <2>1. CASE q = RunQ
      BY <1>3, <1>7, <2>1 DEF NoItemTwice
    <2>2. CASE q # RunQ
      BY <1>6, <2>2 DEF NoItemTwice
    <2> QED
      BY <2>1, <2>2
  <1>12. NoneLost(k, {})
    <2> SUFFICES ASSUME NEW e \in Entries, k.proc[e].state \in Inactive
                 PROVE  /\ k.proc[e].scheduler_queue \in Queues
                        /\ InQueue(k, k.proc[e].scheduler_queue, k.proc[e].pid)
      BY DEF NoneLost
    <2>1. e < BOOT_PROCS
      BY <1>4 DEF Inactive
    <2>2. k.proc[e].scheduler_queue = RunQ /\ k.proc[e].pid = e
      BY <1>4, <2>1
    <2>3. e + 1 \in 1 .. BOOT_PROCS /\ (e + 1) - 1 = e
      <3>1. e \in Int /\ 0 <= e
        BY <1>3 DEF Entries
      <3> QED
        BY <1>3, <2>1, <3>1
    <2>4. k.queue[RunQ][e + 1] = e
      BY <1>7, <2>3
    <2> QED
      BY <1>7, <2>2, <2>3, <2>4, QueueNames DEF InQueue
  <1>13. FreshOK(k)
    BY <1>4 DEF FreshOK
  <1>14. Sound(k, {})
    BY <1>2, <1>8, <1>9, <1>10, <1>11, <1>12, <1>13 DEF Sound
  <1>15. Tight(k) /\ InSlice(k)
    BY <1>1, <1>5, EntryNumbers DEF Tight, InSlice
  <1>16. IdleFirst(k)
    <2> DEFINE s == k.queue[RunQ]
    <2>1. s \in Seq(Nat) /\ Len(s) = BOOT_PROCS /\ s[1] = 0
      BY <1>3, <1>7, <1>14, SoundRead, QueueNames
    <2> HIDE DEF s
    <2>2. s # <<>> /\ Head(s) = 0
      BY <1>3, <2>1
    <2> QED
      BY <2>2 DEF IdleFirst, s
  <1> QED
    BY <1>1, <1>14, <1>15, <1>16 DEF Inv, Safe, k

LEMMA NextSafe ==
    ASSUME NEW X, Inv(X), [Next]_vars
    PROVE  Inv(X)'
  <1>0. Safe(Ctx, X) /\ Sound(Ctx, X) /\ Tight(Ctx) /\ Loose(Ctx)
    BY TightLoose DEF Inv, Safe
  <1>1. CASE BootCreate
    BY <1>0, <1>1, SafeCreate, SafeCommit DEF BootCreate
  <1>2. CASE BootDestroy
    <2>1. active_proc = NULL
      BY <1>0, <1>2, CtxFields DEF Safe, BootDestroy
    <2>2. Commit(kernel_panic(Ctx))
      BY <1>2, <2>1 DEF BootDestroy, kproc_destroy
    <2> QED
      BY <1>0, <2>1, <2>2, CtxFields, SafePanic, SafeCommit
  <1>3. CASE BootKey
    <2> DEFINE l == [Ctx EXCEPT !.status = "running"]
    <2>1. /\ l.proc = Ctx.proc /\ l.queue = Ctx.queue /\ l.active = Ctx.active
          /\ l.free = Ctx.free /\ l.next = Ctx.next /\ l.status = "running"
          /\ IsRecord(l) /\ ContextFields \subseteq DOMAIN l
      BY DEF Ctx, IsRecord, ContextFields
    <2>2. Commit(l)
      BY <1>3 DEF BootKey
    <2> HIDE DEF l
    <2>3. TypedContext(l)
      BY <1>0, <2>1 DEF Sound, TypedContext, IsContext, IsBounded, Statuses
    <2>4. Sound(l, X)
      BY <1>0, <2>1, <2>3
         DEF Sound, PidsOK, FreeOK, QueuedOK, BelongsTo, OnceOK, NoneLost,
             InQueue, FreshOK, Live
    <2>5. Safe(l, X)
      BY <1>0, <2>1, <2>4 DEF Safe, Tight, InSlice, IdleFirst
    <2> QED
      BY <2>2, <2>5, SafeCommit
  <1>4. CASE TimerInterrupt
    <2>1. PICK k : k = scheduler_timer(Ctx) /\ ExitKernel(k)
      BY <1>4 DEF TimerInterrupt
    <2>2. Sound(k, X) /\ Tight(k) /\ k.status = "running"
      BY <1>0, <1>4, <2>1, CtxFields, TimerSound DEF TimerInterrupt
    <2> QED
      BY <2>1, <2>2, TightLoose, SafeExit
  <1>5. CASE KeyCreate
    <2>1. PICK k : k = kproc_create(Ctx) /\ ExitKernel(k)
      BY <1>5 DEF KeyCreate
    <2>2. Safe(k, X)
      BY <1>0, <2>1, SafeCreate
    <2>3. k.status = "running"
      BY <1>0, <1>5, <2>1, CtxFields, CreateSound DEF KeyCreate
    <2> QED
      BY <2>1, <2>2, <2>3, TightLoose, SafeExit DEF Safe
  <1>6. CASE KeyDestroy
    BY <1>6, SafeDestroy DEF KeyDestroy
  <1>7. CASE KeyOther
    BY <1>0, <1>7, CtxFields, SafeExit DEF KeyOther
  <1>8. ASSUME NEW seconds \in SLEEP_SECONDS, ProcSleep(seconds)
        PROVE  Inv(X)'
    <2> DEFINE time == seconds * TICKS_PER_SECOND
    <2>1. time \in Int
      BY TimeAssumption
    <2> HIDE DEF time
    <2>2. PICK k : k = scheduler_sleep(Ctx, active_proc, time) /\ ExitKernel(k)
      BY <1>8 DEF ProcSleep, time
    <2>3. active_proc \in Entries \ {0} /\ Ctx.active = active_proc
            /\ Ctx.status = "running"
      BY <1>0, <1>8, CtxFields, SoundRead
         DEF ProcSleep, InUserProcess, Sound, PidsOK, IsContext
    <2>4. Sound(k, X) /\ Loose(k) /\ k.status = "running"
      BY <1>0, <2>1, <2>2, <2>3, SleepSound
    <2> QED
      BY <2>2, <2>4, SafeExit
  <1>9. CASE ProcExit
    BY <1>9, SafeDestroy DEF ProcExit, InUserProcess
  <1>10. CASE UNCHANGED vars
    BY <1>10 DEF vars, Inv, Safe, Sound, TypedContext, IsContext, IsBounded, IsRecord,
                 PidsOK, FreeOK, QueuedOK, BelongsTo, OnceOK, NoneLost, InQueue,
                 FreshOK, Live, Tight, InSlice, IdleFirst, Ctx
  <1> QED
    BY <1>1, <1>2, <1>3, <1>4, <1>5, <1>6, <1>7, <1>8, <1>9, <1>10
       DEF Next, BootNext, InterruptNext, CallNext

LEMMA SafeAlways == Spec => []Inv({})
  <1>1. Inv({}) /\ [Next]_vars => Inv({})'
    BY NextSafe
  <1> QED
    BY InitSafe, <1>1, PTL DEF Spec
-----------------------------------------------------------------------------
(***************************************************************************)
(* What a kernel entry leaves alone.                                       *)
(***************************************************************************)

\* The fields the scheduler does not know, the wait queues, and the processes
\* that exist, which keep their pids; those in D may be gone.
Frame(k, l, D) ==
    /\ SameShape(k, l)
    /\ \A q \in WaitQueues : l.queue[q] = k.queue[q]
    /\ \A e \in Entries \ D : Live(k, e) => Live(l, e) /\ l.proc[e].pid = k.proc[e].pid

\* What a handler does to the scheduled process before the scheduler runs.
Charged(k, l) ==
    /\ l.active \in {k.active, NULL}
    /\ \A e \in Entries : k.proc[e].state = "ACTIVE" =>
          \/ l.proc[e].state \notin {"IDLE", "ACTIVE"}
          \/ /\ l.proc[e].state = "ACTIVE"
             /\ l.proc[e].cpu_time \in {k.proc[e].cpu_time, k.proc[e].cpu_time + 1}

LEMMA FrameSelf ==
    ASSUME NEW k, NEW X, Sound(k, X)
    PROVE  Frame(k, k, {})
  BY SoundRead DEF Frame, SameShape, IsContext

LEMMA FrameTrans ==
    ASSUME NEW k, NEW l, NEW m, NEW D, Frame(k, l, D), Frame(l, m, {})
    PROVE  Frame(k, m, D)
  BY DEF Frame, SameShape

\* One process is given another control block, with its pid.
LEMMA StoreFrame ==
    ASSUME NEW k, IsContext(k), NEW e \in Entries, NEW p, NEW l,
           SameShape(k, l), l.proc = [k.proc EXCEPT ![e] = p],
           p.pid = k.proc[e].pid, p.state # "NONE",
           \A q \in WaitQueues : l.queue[q] = k.queue[q]
    PROVE  Frame(k, l, {})
  <1>1. k.proc \in [Entries -> PCB]
    BY DEF IsContext
  <1> QED
    BY <1>1 DEF Frame, Live

LEMMA AddFrame ==
    ASSUME NEW k, NEW X, Sound(k, X), NEW e \in Entries, Live(k, e), NotQueued(k, e),
           NEW l, l = scheduler_add(k, e)
    PROVE  /\ Frame(k, l, {}) /\ l.next = k.next /\ l.active = k.active
           /\ l.queue = [k.queue EXCEPT ![RunQ] = Append(@, k.proc[e].pid)]
           /\ l.proc = [k.proc EXCEPT ![e] = ReadyPCB(@)]
  <1>1. IsContext(k) /\ ~Full(k.queue[RunQ])
    BY RoomInQueue, QueueNames, SoundRead
  <1>2. /\ SameShape(k, l)
        /\ l.proc = [k.proc EXCEPT ![e] = ReadyPCB(@)]
        /\ l.queue = [k.queue EXCEPT ![RunQ] = Append(@, k.proc[e].pid)]
        /\ l.active = k.active /\ l.next = k.next
    BY <1>1, AddFields
  <1>3. \A q \in WaitQueues : l.queue[q] = k.queue[q]
    BY <1>1, <1>2, NameAssumption DEF IsContext, Queues
  <1> DEFINE p == ReadyPCB(k.proc[e])
  <1>4. p.pid = k.proc[e].pid /\ p.state # "NONE"
    BY SoundRead DEF ReadyPCB, PCB
  <1>5. l.proc = [k.proc EXCEPT ![e] = p]
    BY <1>1, <1>2 DEF IsContext
  <1> HIDE DEF p
  <1>6. SameShape(k, l)
    BY <1>2
  <1>7. Frame(k, l, {})
    BY <1>1, <1>3, <1>4, <1>5, <1>6, StoreFrame
  <1> QED
    BY <1>2, <1>7

\* scheduler_remove finds a process that is in no queue in no queue, whatever
\* queue the process still points at.
LEMMA RemoveFrame ==
    ASSUME NEW k, NEW X, Sound(k, X), NEW e \in Entries, Live(k, e), NotQueued(k, e),
           NEW l, l = scheduler_remove(k, e)
    PROVE  /\ Frame(k, l, {}) /\ l.next = k.next
           /\ l.queue = k.queue
           /\ l.active = IF k.active = e THEN NULL ELSE k.active
  <1> DEFINE q == k.proc[e].scheduler_queue
             u == Unqueue(k, e)
  <1>1. IsContext(k) /\ k.proc[e] \in PCB /\ q \in Queues \cup {NULL}
    BY SoundRead, PCBFields
  <1>2. u.queue = k.queue /\ (u.proc = k.proc \/ u.proc = [k.proc EXCEPT ![e] = UnqueuedPCB(@)])
    <2>1. CASE q = NULL
      BY <2>1 DEF Unqueue
    <2>2. CASE q # NULL
      <3>1. q \in Queues /\ k.queue[q] \in Seq(Nat)
        BY <1>1, <2>2, SoundRead
      <3>2. FoundAt(k, e) = {}
        BY <3>1 DEF FoundAt, NotQueued, InQueue
      <3>3. Rotate(k.queue[q], FoundAt(k, e)) = k.queue[q]
        BY <3>1, <3>2, RotateNothing
      <3>4. /\ u.proc = [k.proc EXCEPT ![e] = UnqueuedPCB(@)]
            /\ u.queue = [k.queue EXCEPT ![q] = Rotate(@, FoundAt(k, e))]
        BY <1>1, <2>2, UnqueueFields
      <3> HIDE DEF u, q
      <3>5. u.queue = k.queue
        BY <1>1, <3>1, <3>3, <3>4 DEF IsContext
      <3> QED
        BY <3>4, <3>5
    <2> QED
      BY <2>1, <2>2
  <1>3. /\ SameShape(k, l) /\ l.proc = u.proc /\ l.queue = u.queue
        /\ l.active = IF k.active = e THEN NULL ELSE k.active
        /\ l.next = k.next
    BY <1>1, RemoveFields
  <1> HIDE DEF u, q
  <1>4. k.proc = [k.proc EXCEPT ![e] = k.proc[e]]
    BY <1>1 DEF IsContext
  <1>5. \E p : l.proc = [k.proc EXCEPT ![e] = p] /\ p.pid = k.proc[e].pid /\ p.state # "NONE"
    <2>1. CASE u.proc = k.proc
      BY <1>3, <1>4, <2>1 DEF Live
    <2>2. CASE u.proc = [k.proc EXCEPT ![e] = UnqueuedPCB(@)]
      <3>1. UnqueuedPCB(k.proc[e]).pid = k.proc[e].pid
              /\ UnqueuedPCB(k.proc[e]).state # "NONE"
        BY <1>1 DEF UnqueuedPCB, PCB, Live
      <3> QED
        BY <1>1, <1>3, <2>2, <3>1 DEF IsContext
    <2> QED
      BY <1>2, <2>1, <2>2
  <1>6. Frame(k, l, {})
    BY <1>1, <1>2, <1>3, <1>5, StoreFrame
  <1> QED
    BY <1>2, <1>3, <1>6

\* A context whose table and wait queues are the same.
LEMMA SameFrame ==
    ASSUME NEW k, IsContext(k), NEW l, SameShape(k, l), l.proc = k.proc,
           \A q \in WaitQueues : l.queue[q] = k.queue[q]
    PROVE  Frame(k, l, {})
  BY DEF Frame, Live

LEMMA ActiveFrame ==
    ASSUME NEW k, IsContext(k), NEW a, NEW l, l = [k EXCEPT !.active = a]
    PROVE  /\ Frame(k, l, {}) /\ l.next = k.next
           /\ l.queue = k.queue /\ l.proc = k.proc /\ l.active = a
  <1>1. IsRecord(k) /\ ContextFields \subseteq DOMAIN k
    BY DEF IsContext
  <1>2. /\ SameShape(k, l) /\ l.proc = k.proc /\ l.queue = k.queue
        /\ l.next = k.next /\ l.active = a
    BY <1>1 DEF SameShape, IsRecord, ContextFields
  <1>3. \A q \in WaitQueues : l.queue[q] = k.queue[q]
    BY <1>2
  <1> QED
    BY <1>2, <1>3, SameFrame

\* One process is given another control block, and nothing else changes.
LEMMA EntryFrame ==
    ASSUME NEW k, IsContext(k), NEW e \in Entries, NEW p \in PCB,
           NEW l, l = [k EXCEPT !.proc[e] = p],
           p.pid = k.proc[e].pid, p.state # "NONE"
    PROVE  Frame(k, l, {})
  <1>1. IsRecord(k) /\ ContextFields \subseteq DOMAIN k
    BY DEF IsContext
  <1>2. /\ SameShape(k, l) /\ l.proc = [k.proc EXCEPT ![e] = p] /\ l.queue = k.queue
        /\ l.next = k.next /\ l.active = k.active
    BY <1>1 DEF SameShape, IsRecord, ContextFields
  <1>3. \A q \in WaitQueues : l.queue[q] = k.queue[q]
    BY <1>2
  <1> QED
    BY <1>2, <1>3, StoreFrame

\* scheduler_sleep of the scheduled process.
LEMMA SleepFrame ==
    ASSUME NEW k, NEW X, Sound(k, X), Tight(k), NEW e \in Entries, k.active = e,
           NEW time \in Int, NEW l, l = scheduler_sleep(k, e, time)
    PROVE  Frame(k, l, {}) /\ l.next = k.next /\ l.queue[RunQ] = k.queue[RunQ]
           /\ Charged(k, l)
  <1>0. k.proc[e].state = "ACTIVE" /\ \A f \in Entries : k.proc[f].state = "ACTIVE" => f = e
    BY DEF Tight
  <1> DEFINE p == [k.proc[e] EXCEPT !.sleep_time = time]
             m == [k EXCEPT !.proc[e].sleep_time = time]
             d == scheduler_remove(m, e)
  <1>1. TypedContext(k) /\ IsContext(k) /\ k.proc[e] \in PCB /\ Live(k, e) /\ NotQueued(k, e)
    BY <1>0, SoundRead, ActiveNotQueued DEF Live
  <1>2. m = [k EXCEPT !.proc[e] = p]
    BY <1>1 DEF IsContext
  <1>3. /\ p \in PCB /\ p.pid = k.proc[e].pid /\ p.state = "ACTIVE"
        /\ p.scheduler_queue = k.proc[e].scheduler_queue
    BY <1>0, <1>1 DEF PCB
  <1>4. l = Block(d, e, "SLEEPING", SleepQ)
    BY <1>0 DEF scheduler_sleep
  <1>a. d = scheduler_remove(m, e)
    OBVIOUS
  <1> HIDE DEF p, m, d
  <1>b. p \in PCB /\ p.pid = k.proc[e].pid /\ p.state # "NONE"
    BY <1>3
  <1>5. Frame(k, m, {})
    BY <1>1, <1>2, <1>b, EntryFrame
  <1>6. /\ StoredIn(k, m, e, p)
        /\ m.proc[e] = p /\ \A f \in Entries \ {e} : m.proc[f] = k.proc[f]
        /\ m.queue = k.queue /\ m.active = k.active
    BY <1>1, <1>2, <1>3, StoreFields
  <1>7. Revises(k, e, p)
    BY <1>0, <1>3 DEF Revises, Sound, PidsOK
  <1>8. Sound(m, X)
    BY <1>0, <1>1, <1>3, <1>6, <1>7, TouchSound
  <1>9. m.proc[e].state = "ACTIVE" /\ Live(m, e)
    BY <1>3, <1>6 DEF Live
  <1>10. NotQueued(m, e)
    BY <1>8, <1>9, ActiveNotQueued
  <1>11. /\ Frame(m, d, {}) /\ d.next = m.next /\ d.queue = m.queue
         /\ d.active = IF m.active = e THEN NULL ELSE m.active
    BY <1>a, <1>8, <1>9, <1>10, RemoveFrame
  <1>12. Sound(d, With(X, e)) /\ NotQueued(d, e) /\ Live(d, e)
    BY <1>a, <1>8, <1>9, RemoveSound
  <1>13. IsContext(d) /\ "SLEEPING" \in States /\ SleepQ \in Queues
    BY <1>12, SoundRead, QueueNames DEF States
  <1>14. /\ SameShape(d, l)
         /\ l.proc = [d.proc EXCEPT ![e] = BlockedPCB(@, "SLEEPING", SleepQ)]
         /\ l.queue = IF Full(d.queue[SleepQ]) THEN d.queue
                      ELSE [d.queue EXCEPT ![SleepQ] = Append(@, d.proc[e].pid)]
         /\ l.next = d.next /\ l.active = d.active
    BY <1>4, <1>13, BlockFields
  <1> DEFINE b == BlockedPCB(d.proc[e], "SLEEPING", SleepQ)
  <1>15. b.pid = d.proc[e].pid /\ b.state # "NONE" /\ b.state = "SLEEPING"
    BY <1>12, SoundRead DEF BlockedPCB, PCB
  <1>16. l.proc = [d.proc EXCEPT ![e] = b]
    BY <1>13, <1>14 DEF IsContext
  <1>17. /\ \A q \in WaitQueues : l.queue[q] = d.queue[q]
         /\ l.queue[RunQ] = d.queue[RunQ]
    BY <1>13, <1>14, NameAssumption, QueueNames DEF IsContext, Queues
  <1> HIDE DEF b
  <1>18. Frame(d, l, {})
    BY <1>13, <1>14, <1>15, <1>16, <1>17, StoreFrame, ZenonT(40)
  <1>19. Frame(k, l, {})
    BY <1>5, <1>11, <1>18, FrameTrans
  <1>20. l.proc[e].state = "SLEEPING"
    BY <1>13, <1>15, <1>16 DEF IsContext
  <1>21. Charged(k, l)
    <2>1. l.active = NULL
      BY <1>6, <1>11, <1>14
    <2> QED
      BY <1>0, <1>20, <2>1 DEF Charged
  <1> QED
    BY <1>6, <1>11, <1>14, <1>17, <1>19, <1>21 DEF StoredIn

\* The kernel's part of a timer tick.
LEMMA ChargeFrame ==
    ASSUME NEW k, NEW X, Sound(k, X), Tight(k), NEW l, l = ChargeActive(k)
    PROVE  /\ Frame(k, l, {}) /\ l.next = k.next
           /\ \A e \in Entries : l.proc[e].cpu_time \in {k.proc[e].cpu_time, k.proc[e].cpu_time + 1}
  <1>1. CASE k.active = NULL
    BY <1>1, FrameSelf DEF ChargeActive
  <1>2. CASE k.active # NULL
    <2> DEFINE e == k.active
               p == [k.proc[e] EXCEPT !.cpu_time = @ + 1]
    <2>1. IsContext(k) /\ TypedContext(k)
      BY SoundRead
    <2>2. e \in Entries /\ k.proc \in [Entries -> PCB]
      BY <1>2, <2>1 DEF IsContext
    <2>3. k.proc[e] \in PCB /\ k.proc[e].state = "ACTIVE"
            /\ k.proc[e].cpu_time + 1 \in Nat
      BY <2>2, PCBFields DEF Tight
    <2>4. /\ p \in PCB /\ p.pid = k.proc[e].pid /\ p.state # "NONE"
          /\ p.cpu_time = k.proc[e].cpu_time + 1
      BY <2>3 DEF PCB
    <2>5. l = [k EXCEPT !.proc[e] = p]
      BY <1>2, <2>2 DEF ChargeActive
    <2> HIDE DEF p, e
    <2>6. Frame(k, l, {})
      BY <2>1, <2>2, <2>4, <2>5, EntryFrame
    <2>7. /\ StoredIn(k, l, e, p) /\ l.proc[e] = p
          /\ \A f \in Entries \ {e} : l.proc[f] = k.proc[f]
      BY <2>1, <2>2, <2>4, <2>5, StoreFields
    <2> QED
      BY <2>4, <2>6, <2>7 DEF StoredIn
  <1> QED
    BY <1>1, <1>2

LEMMA WalkFrame ==
    ASSUME NEW k, NEW X, Sound(k, X), k.status = "running", NEW l, l = WalkSleepQueue(k)
    PROVE  /\ Frame(k, l, {}) /\ l.next = k.next
           /\ \A e \in Entries : l.proc[e].state = "ACTIVE" =>
                                   l.proc[e].cpu_time = k.proc[e].cpu_time
  <1> DEFINE V == Visited(k) \cap Expired(k)
             t == WalkedTable(k)
  <1>1. IsContext(k) /\ l.status = "running"
    BY SoundRead, WalkSound
  <1>2. ~(Len(k.queue[RunQ]) + Len(WokenItems(k)) > QUEUE_SIZE)
    <2> SUFFICES ASSUME Len(k.queue[RunQ]) + Len(WokenItems(k)) > QUEUE_SIZE
                 PROVE  FALSE
      OBVIOUS
    <2>1. l = kernel_panic(k)
      BY DEF WalkSleepQueue, WokenItems
    <2> QED
      BY <1>1, <2>1, PanicFields
  <1>3. /\ SameShape(k, l)
        /\ l.proc = t
        /\ l.queue = [q \in Queues |->
                         IF q = SleepQ
                         THEN Rotate(k.queue[SleepQ], Gone(k) \cup Expired(k))
                         ELSE IF q = RunQ
                              THEN k.queue[RunQ] \o WokenItems(k)
                              ELSE k.queue[q]]
        /\ l.next = k.next
    BY <1>1, <1>2, WalkFields
  <1>4. \A q \in WaitQueues : l.queue[q] = k.queue[q]
    BY <1>3, NameAssumption DEF Queues
  <1>a. V = Visited(k) \cap Expired(k) /\ t = WalkedTable(k)
    OBVIOUS
  <1> HIDE DEF V, t
  <1>5. /\ \A i \in V : LET e == Sleeper(k, i)
                       IN  /\ t[e].pid = k.proc[e].pid /\ t[e].state = "IDLE"
                           /\ t[e].scheduler_queue = RunQ /\ t[e].cpu_time = 0
        /\ \A e \in Entries : (\A i \in V : Sleeper(k, i) # e) =>
              /\ t[e].pid = k.proc[e].pid /\ t[e].state = k.proc[e].state
              /\ t[e].scheduler_queue = k.proc[e].scheduler_queue
              /\ t[e].cpu_time = k.proc[e].cpu_time
    BY <1>a, WalkedProcs
  <1>6. ASSUME NEW e \in Entries, Live(k, e)
        PROVE  Live(l, e) /\ l.proc[e].pid = k.proc[e].pid
    <2>1. CASE \E i \in V : Sleeper(k, i) = e
      BY <1>3, <1>5, <2>1 DEF Live
    <2>2. CASE \A i \in V : Sleeper(k, i) # e
      BY <1>3, <1>5, <1>6, <2>2 DEF Live
    <2> QED
      BY <2>1, <2>2
  <1>7. ASSUME NEW e \in Entries, l.proc[e].state = "ACTIVE"
        PROVE  l.proc[e].cpu_time = k.proc[e].cpu_time
    BY <1>3, <1>5, <1>7
  <1> QED
    BY <1>3, <1>4, <1>6, <1>7 DEF Frame

LEMMA TimerFrame ==
    ASSUME NEW k, NEW X, Sound(k, X), Tight(k), k.status = "running",
           NEW l, l = scheduler_timer(k)
    PROVE  Frame(k, l, {}) /\ l.next = k.next /\ Grows(k, l) /\ Charged(k, l)
  <1> DEFINE c == ChargeActive(k)
  <1>1. c = ChargeActive(k) /\ l = WalkSleepQueue(c)
    BY DEF scheduler_timer
  <1> HIDE DEF c
  <1>2. /\ Sound(c, X) /\ c.status = "running" /\ c.queue = k.queue
        /\ Tight(c) /\ c.active = k.active
    BY <1>1, ChargeSound
  <1>3. /\ Frame(k, c, {}) /\ c.next = k.next
        /\ \A e \in Entries : c.proc[e].cpu_time \in {k.proc[e].cpu_time, k.proc[e].cpu_time + 1}
    BY <1>1, ChargeFrame
  <1>4. /\ Frame(c, l, {}) /\ l.next = c.next
        /\ \A e \in Entries : l.proc[e].state = "ACTIVE" =>
                                l.proc[e].cpu_time = c.proc[e].cpu_time
    BY <1>1, <1>2, WalkFrame
  <1>5. /\ Grows(c, l) /\ l.active = c.active
        /\ \A e \in Entries : l.proc[e].state = "ACTIVE" <=> c.proc[e].state = "ACTIVE"
    BY <1>1, <1>2, WalkSound, ZenonT(40)
  <1>6. Grows(k, l)
    BY <1>2, <1>5 DEF Grows
  <1>7. \A e \in Entries : k.proc[e].state = "ACTIVE" => c.proc[e].state = "ACTIVE"
    BY <1>2 DEF Tight
  <1>8. Charged(k, l)
    BY <1>2, <1>3, <1>4, <1>5, <1>7 DEF Charged
  <1> QED
    BY <1>3, <1>4, <1>6, <1>8, FrameTrans

LEMMA GrowsSelf ==
    ASSUME NEW k, NEW X, Sound(k, X), NEW l, l.queue[RunQ] = k.queue[RunQ]
    PROVE  Grows(k, l)
  <1> DEFINE s == k.queue[RunQ]
  <1>1. s \in Seq(Nat)
    BY SoundRead, QueueNames
  <1> HIDE DEF s
  <1>2. s \o <<>> = s /\ <<>> \in Seq(Nat)
    BY <1>1
  <1> QED
    BY <1>2 DEF Grows, s

LEMMA GrowsOne ==
    ASSUME NEW k, NEW X, Sound(k, X), NEW pid \in Nat,
           NEW l, l.queue[RunQ] = Append(k.queue[RunQ], pid)
    PROVE  Grows(k, l)
  <1> DEFINE s == k.queue[RunQ]
  <1>1. s \in Seq(Nat)
    BY SoundRead, QueueNames
  <1> HIDE DEF s
  <1>2. s \o <<pid>> = Append(s, pid) /\ <<pid>> \in Seq(Nat)
    BY <1>1
  <1> QED
    BY <1>2 DEF Grows, s

LEMMA DropFrame ==
    ASSUME NEW k, NEW X, Sound(k, X), NEW l, l = DropInactive(k)
    PROVE  Frame(k, l, {}) /\ l.next = k.next /\ l.queue = k.queue /\ l.proc = k.proc
           /\ l.active \in {k.active, NULL}
  <1>1. CASE k.active # NULL /\ k.proc[k.active].state # "ACTIVE"
    <2>1. l = [k EXCEPT !.active = NULL] /\ IsContext(k)
      BY <1>1, SoundRead DEF DropInactive
    <2> QED
      BY <2>1, ActiveFrame
  <1>2. CASE ~(k.active # NULL /\ k.proc[k.active].state # "ACTIVE")
    BY <1>2, FrameSelf DEF DropInactive
  <1> QED
    BY <1>1, <1>2

LEMMA PreemptFrame ==
    ASSUME NEW k, NEW X, Sound(k, X), Tight(k), NEW l, l = Preempt(k)
    PROVE  /\ Frame(k, l, {}) /\ l.next = k.next /\ Grows(k, l)
           /\ l.active \in {k.active, NULL}
           /\ \A f \in Entries : f # k.active \/ k.proc[f].cpu_time < SCHEDULER_TIMESLICE
                                   => l.proc[f] = k.proc[f]
  <1> DEFINE e == k.active
             p == [k.proc[e] EXCEPT !.cpu_time = 0]
             m == [k EXCEPT !.proc[e].cpu_time = 0]
  <1>1. CASE k.active = NULL \/ k.proc[e].cpu_time < SCHEDULER_TIMESLICE
    BY <1>1, FrameSelf, GrowsSelf DEF Preempt
  <1>2. CASE ~(k.active = NULL \/ k.proc[e].cpu_time < SCHEDULER_TIMESLICE)
    <2>1. /\ TypedContext(k) /\ IsContext(k) /\ e \in Entries /\ k.proc[e] \in PCB
          /\ k.proc[e].state = "ACTIVE" /\ Live(k, e)
      BY <1>2, SoundRead DEF IsContext, Tight, Live
    <2>2. /\ p \in PCB /\ p.pid = k.proc[e].pid /\ p.state = "ACTIVE"
      BY <2>1 DEF PCB
    <2>3. m = [k EXCEPT !.proc[e] = p]
      BY <2>1 DEF IsContext
    <2>4. l = IF k.proc[e].pid # 0
              THEN [scheduler_add(m, e) EXCEPT !.active = NULL]
              ELSE [m EXCEPT !.proc[e].state = "IDLE", !.active = NULL]
      BY <1>2 DEF Preempt
    <2>5. NotQueued(k, e)
      BY <2>1, ActiveNotQueued
    <2>a. e = k.active /\ ~(k.proc[e].cpu_time < SCHEDULER_TIMESLICE)
      BY <1>2
    <2> HIDE DEF e, p, m
    <2>6. p \in PCB /\ p.pid = k.proc[e].pid /\ p.state # "NONE"
      BY <2>2
    <2>7. Frame(k, m, {})
      BY <2>1, <2>3, <2>6, EntryFrame
    <2>8. /\ StoredIn(k, m, e, p)
          /\ m.proc[e] = p /\ \A f \in Entries \ {e} : m.proc[f] = k.proc[f]
          /\ m.queue = k.queue
      BY <2>1, <2>2, <2>3, StoreFields
    <2>9. Revises(k, e, p)
      BY <2>2 DEF Revises
    <2>10. Sound(m, With(X, e)) /\ NotQueued(m, e) /\ Live(m, e)
      <3>1. Sound(k, With(X, e))
        BY WeakerSound
      <3> QED
        BY <3>1, <2>1, <2>5, <2>8, <2>9, DetachedSound
    <2>11. m.next = k.next /\ IsContext(m) /\ TypedContext(m)
      BY <2>8, <2>10, SoundRead DEF StoredIn
    <2>12. CASE k.proc[e].pid # 0
      <3> DEFINE a == scheduler_add(m, e)
      <3>1. l = [a EXCEPT !.active = NULL] /\ a = scheduler_add(m, e)
        BY <2>4, <2>12
      <3> HIDE DEF a
      <3>a. /\ Sound(m, With(X, e)) /\ e \in Entries /\ Live(m, e) /\ NotQueued(m, e)
            /\ a = scheduler_add(m, e)
        BY <2>1, <2>10, <3>1
      <3>2. /\ Frame(m, a, {}) /\ a.next = m.next /\ a.active = m.active
            /\ a.queue = [m.queue EXCEPT ![RunQ] = Append(@, m.proc[e].pid)]
            /\ a.proc = [m.proc EXCEPT ![e] = ReadyPCB(@)]
        BY <3>a, AddFrame
      <3>3. TypedContext(a) /\ IsContext(a)
        <4>1. TypedContext(a)
          BY <2>1, <2>11, <3>1, AddTyped
        <4> QED
          BY <4>1 DEF TypedContext
      <3>4. /\ Frame(a, l, {}) /\ l.next = a.next /\ l.queue = a.queue
            /\ l.proc = a.proc /\ l.active = NULL
        BY <3>1, <3>3, ActiveFrame
      <3>5. l.queue[RunQ] = Append(k.queue[RunQ], p.pid) /\ p.pid \in Nat
        BY <2>2, <2>8, <2>11, <3>2, <3>4, QueueNames, PCBFields DEF IsContext
      <3>6. Grows(k, l)
        BY <3>5, GrowsOne
      <3>7. \A f \in Entries \ {e} : l.proc[f] = k.proc[f]
        BY <2>8, <2>11, <3>2, <3>4 DEF IsContext
      <3> QED
        BY <2>a, <2>7, <2>11, <3>2, <3>4, <3>6, <3>7, FrameTrans
    <2>13. CASE k.proc[e].pid = 0
      <3> DEFINE b == [m.proc[e] EXCEPT !.state = "IDLE"]
                 d == [m EXCEPT !.proc[e].state = "IDLE"]
      <3>1. b \in PCB /\ b.pid = m.proc[e].pid /\ b.state # "NONE"
        BY <2>2, <2>8 DEF PCB, States
      <3>2. d = [m EXCEPT !.proc[e] = b]
        BY <2>1, <2>11 DEF IsContext
      <3>3. l = [d EXCEPT !.active = NULL]
        BY <2>4, <2>13
      <3> HIDE DEF b, d
      <3>4. Frame(m, d, {})
        BY <2>1, <2>11, <3>1, <3>2, EntryFrame
      <3>5. /\ StoredIn(m, d, e, b) /\ d.queue = m.queue
            /\ \A f \in Entries \ {e} : d.proc[f] = m.proc[f]
        BY <2>1, <2>11, <3>1, <3>2, StoreFields
      <3>6. IsContext(d) /\ d.next = m.next
        BY <3>5 DEF StoredIn, TypedContext
      <3>7. /\ Frame(d, l, {}) /\ l.next = d.next /\ l.queue = d.queue
            /\ l.proc = d.proc /\ l.active = NULL
        BY <3>3, <3>6, ActiveFrame
      <3>8. l.queue[RunQ] = k.queue[RunQ]
        BY <2>8, <3>5, <3>7
      <3>9. Grows(k, l)
        BY <3>8, GrowsSelf
      <3>10. \A f \in Entries \ {e} : l.proc[f] = k.proc[f]
        BY <2>8, <3>5, <3>7
      <3> QED
        BY <2>a, <2>7, <2>11, <3>4, <3>6, <3>7, <3>9, <3>10, FrameTrans
    <2> QED
      BY <2>12, <2>13
  <1> QED
    BY <1>1, <1>2

\* At most the head is taken off the run queue.
Pops(k, l) ==
    \/ l.queue[RunQ] = k.queue[RunQ]
    \/ k.queue[RunQ] # <<>> /\ l.queue[RunQ] = Tail(k.queue[RunQ])

LEMMA DispatchFrame ==
    ASSUME NEW k, NEW X, Sound(k, X), NEW l, l = Dispatch(k)
    PROVE  /\ Frame(k, l, {}) /\ l.next = k.next /\ l.proc = k.proc /\ Pops(k, l)
           /\ k.active # NULL => l.active = k.active
  <1>1. IsContext(k) /\ IsRecord(k) /\ ContextFields \subseteq DOMAIN k
    BY SoundRead DEF IsContext
  <1>2. CASE k.active # NULL
    BY <1>2, FrameSelf DEF Dispatch, Pops
  <1>3. CASE k.active = NULL /\ k.queue[RunQ] = <<>>
    <2> DEFINE a == pid_to_proc(k, 0)
    <2>1. l = [k EXCEPT !.active = a]
      BY <1>3 DEF Dispatch
    <2> HIDE DEF a
    <2>2. Frame(k, l, {}) /\ l.next = k.next /\ l.queue = k.queue /\ l.proc = k.proc
      BY <1>1, <2>1, ActiveFrame
    <2> QED
      BY <1>3, <2>2 DEF Pops
  <1>4. CASE k.active = NULL /\ k.queue[RunQ] # <<>>
    <2> DEFINE a == pid_to_proc(k, Head(k.queue[RunQ]))
    <2>1. l = [k EXCEPT !.active = a, !.queue[RunQ] = Tail(@)]
      BY <1>4 DEF Dispatch
    <2> HIDE DEF a
    <2>2. /\ SameShape(k, l)
          /\ l.queue = [k.queue EXCEPT ![RunQ] = Tail(@)]
          /\ l.proc = k.proc /\ l.next = k.next
      BY <1>1, <2>1 DEF SameShape, IsRecord, ContextFields
    <2>3. \A q \in WaitQueues : l.queue[q] = k.queue[q]
      BY <1>1, <2>2, NameAssumption DEF IsContext, Queues
    <2>4. Frame(k, l, {})
      BY <1>1, <2>2, <2>3, SameFrame
    <2>5. Pops(k, l)
      BY <1>1, <1>4, <2>2, QueueNames DEF Pops, IsContext
    <2> QED
      BY <1>4, <2>2, <2>4, <2>5
  <1> QED
    BY <1>2, <1>3, <1>4

LEMMA ActivateFrame ==
    ASSUME NEW k, NEW X, Sound(k, X), k.active \in Entries, NEW l, l = Activate(k)
    PROVE  Frame(k, l, {}) /\ l.next = k.next /\ l.queue = k.queue
           /\ l.active = k.active /\ l.proc[k.active].cpu_time = k.proc[k.active].cpu_time
           /\ \A f \in Entries : l.proc[f].state = "IDLE" => l.proc[f] = k.proc[f]
  <1> DEFINE e == k.active
             p == [k.proc[e] EXCEPT !.state = "ACTIVE"]
  <1>1. TypedContext(k) /\ IsContext(k) /\ k.proc[e] \in PCB /\ e # NULL /\ e \in Entries
    BY SoundRead, EntryNumbers
  <1>a. e = k.active
    OBVIOUS
  <1>2. /\ p \in PCB /\ p.pid = k.proc[e].pid /\ p.state # "NONE"
        /\ p.cpu_time = k.proc[e].cpu_time /\ p.state # "IDLE"
    BY <1>1 DEF PCB, States
  <1>3. l = [k EXCEPT !.proc[e] = p]
    BY <1>1 DEF Activate, IsContext
  <1> HIDE DEF p, e
  <1>4. Frame(k, l, {})
    BY <1>1, <1>2, <1>3, EntryFrame
  <1>5. /\ StoredIn(k, l, e, p) /\ l.queue = k.queue /\ l.active = k.active
        /\ l.proc[e] = p /\ \A f \in Entries \ {e} : l.proc[f] = k.proc[f]
    BY <1>1, <1>2, <1>3, StoreFields
  <1> QED
    BY <1>a, <1>2, <1>4, <1>5 DEF StoredIn

\* What scheduler_run does to a process's slice: it sets aside only a process that
\* has used it up, and gives the CPU to another one only at its beginning.
Slices(k, l) ==
    /\ \A e \in Entries : l.proc[e].state = "IDLE" =>
          \/ k.proc[e].state = "IDLE"
          \/ k.proc[e].state = "ACTIVE" /\ ~(k.proc[e].cpu_time < SCHEDULER_TIMESLICE)
    /\ l.active # k.active => l.proc[l.active].cpu_time = 0

\* scheduler_run appends the process it preempts and takes the head.
LEMMA RunFrame ==
    ASSUME NEW k, NEW X, Sound(k, X), Loose(k), NEW l, l = scheduler_run(k)
    PROVE  /\ Frame(k, l, {}) /\ l.next = k.next
           /\ \E b : Grows(k, b) /\ Pops(b, l)
           /\ Slices(k, l)
  <1> DEFINE a == DropInactive(k)
             b == Preempt(a)
             c == Dispatch(b)
  <1>1. a = DropInactive(k) /\ Sound(a, X) /\ Tight(a)
    BY DropSound
  <1>2. b = Preempt(a) /\ c = Dispatch(b) /\ l = Activate(c)
    BY DEF scheduler_run
  <1> HIDE DEF a, b, c
  <1>3. Sound(b, X) /\ Tight(b) /\ InSlice(b)
    BY <1>1, <1>2, PreemptSound
  <1>4. PICK e \in Entries : /\ c.active = e /\ Sound(c, With(X, e)) /\ Chosen(c, e)
                             /\ b.active = NULL => c.proc[e].cpu_time = 0
    BY <1>2, <1>3, DispatchSound
  <1>5. /\ Frame(k, a, {}) /\ a.next = k.next /\ a.queue = k.queue
        /\ a.proc = k.proc /\ a.active \in {k.active, NULL}
    BY <1>1, DropFrame
  <1>6. /\ Frame(a, b, {}) /\ b.next = a.next /\ Grows(a, b)
        /\ b.active \in {a.active, NULL}
        /\ \A f \in Entries : f # a.active \/ a.proc[f].cpu_time < SCHEDULER_TIMESLICE
                                => b.proc[f] = a.proc[f]
    BY <1>1, <1>2, PreemptFrame
  <1>7. /\ Frame(b, c, {}) /\ c.next = b.next /\ Pops(b, c)
        /\ c.proc = b.proc /\ (b.active # NULL => c.active = b.active)
    BY <1>2, <1>3, DispatchFrame
  <1>8. /\ Frame(c, l, {}) /\ l.next = c.next /\ l.queue = c.queue
        /\ l.active = c.active /\ l.proc[c.active].cpu_time = c.proc[c.active].cpu_time
        /\ \A f \in Entries : l.proc[f].state = "IDLE" => l.proc[f] = c.proc[f]
    BY <1>2, <1>4, ActivateFrame
  <1>9. Frame(k, l, {}) /\ l.next = k.next
    BY <1>5, <1>6, <1>7, <1>8, FrameTrans
  <1>10. Grows(k, b) /\ Pops(b, l)
    BY <1>5, <1>6, <1>7, <1>8 DEF Grows, Pops
  <1>11. ASSUME NEW f \in Entries, l.proc[f].state = "IDLE"
         PROVE  \/ k.proc[f].state = "IDLE"
                \/ /\ k.proc[f].state = "ACTIVE"
                   /\ ~(k.proc[f].cpu_time < SCHEDULER_TIMESLICE)
    <2>1. b.proc[f].state = "IDLE"
      BY <1>7, <1>8, <1>11
    <2>2. CASE f # a.active \/ a.proc[f].cpu_time < SCHEDULER_TIMESLICE
      BY <1>5, <1>6, <2>1, <2>2
    <2>3. CASE ~(f # a.active \/ a.proc[f].cpu_time < SCHEDULER_TIMESLICE)
      BY <1>1, <1>5, <2>3 DEF Tight
    <2> QED
      BY <2>2, <2>3
  <1>12. l.active # k.active => l.proc[l.active].cpu_time = 0
    BY <1>4, <1>5, <1>6, <1>7, <1>8
  <1>13. Slices(k, l)
    BY <1>11, <1>12 DEF Slices
  <1> QED
    BY <1>9, <1>10, <1>13

LEMMA CreateFrame ==
    ASSUME NEW k, NEW X, Sound(k, X), NEW l, l = kproc_create(k)
    PROVE  Frame(k, l, {}) /\ l.next \in {k.next, k.next + 1} /\ Grows(k, l)
           /\ Charged(k, l)
  <1>1. /\ Sound(l, X)
        /\ \A f \in Entries : Live(k, f) => l.proc[f] = k.proc[f]
        /\ \A f \in Entries : ~Live(k, f) => l.proc[f].state # "ACTIVE"
        /\ l.active = k.active /\ l.status = k.status
        /\ \/ l.queue[RunQ] = k.queue[RunQ]
           \/ \E pid \in Nat : l.queue[RunQ] = Append(k.queue[RunQ], pid)
        /\ \A q \in Queues \ {RunQ} : l.queue[q] = k.queue[q]
        /\ SameShape(k, l) /\ l.next \in {k.next, k.next + 1}
    BY CreateSound
  <1>2. \A q \in WaitQueues : l.queue[q] = k.queue[q]
    BY <1>1, NameAssumption DEF Queues
  <1>3. Frame(k, l, {})
    BY <1>1, <1>2 DEF Frame, Live
  <1>4. Grows(k, l)
    BY <1>1, GrowsSelf, GrowsOne
  <1>5. Charged(k, l)
    BY <1>1 DEF Charged, Live
  <1> QED
    BY <1>1, <1>3, <1>4, <1>5

LEMMA DestroyFrame ==
    ASSUME NEW k, NEW X, Sound(k, X), Tight(k), k.active # NULL,
           NEW l, l = kproc_destroy(k, k.active)
    PROVE  Frame(k, l, {k.active}) /\ l.next = k.next /\ Grows(k, l)
           /\ Charged(k, l)
  <1>0. \A f \in Entries : k.proc[f].state = "ACTIVE" => f = k.active
    BY DEF Tight
  <1> DEFINE e == k.active
             d == scheduler_remove(k, e)
  <1>1. e \in Entries /\ Live(k, e) /\ NotQueued(k, e)
    BY SoundRead, ActiveNotQueued DEF IsContext, Tight, Live
  <1>2. CASE k.proc[e].pid = 0
    <2>1. l = k
      BY <1>2 DEF kproc_destroy
    <2>2. Frame(k, k, {})
      BY FrameSelf
    <2>3. Grows(k, l)
      BY <2>1, GrowsSelf
    <2> QED
      BY <2>1, <2>2, <2>3 DEF Frame, Charged
  <1>3. CASE k.proc[e].pid # 0
    <2>1. l = Release(d, e) /\ d = scheduler_remove(k, e)
      BY <1>3 DEF kproc_destroy
    <2>a. e = k.active
      OBVIOUS
    <2> HIDE DEF d, e
    <2>2. /\ Frame(k, d, {}) /\ d.next = k.next /\ d.queue = k.queue
          /\ d.active = IF k.active = e THEN NULL ELSE k.active
      BY <1>1, <2>1, RemoveFrame
    <2>3. IsContext(d)
      BY <1>1, <2>1, RemoveSound, SoundRead
    <2>4. /\ SameShape(d, l)
          /\ l.proc = [d.proc EXCEPT ![e] = FreePCB]
          /\ l.queue = d.queue /\ l.next = d.next /\ l.active = d.active
      BY <1>1, <2>1, <2>3, ReleaseFields
    <2>5. \A f \in Entries \ {e} : l.proc[f] = d.proc[f]
      BY <2>3, <2>4 DEF IsContext
    <2>6. Frame(k, l, {e})
      BY <2>2, <2>4, <2>5 DEF Frame, SameShape, Live
    <2>7. Grows(k, l)
      BY <2>2, <2>4, GrowsSelf
    <2>8. l.proc[e].state = "NONE"
      BY <1>1, <2>3, <2>4 DEF IsContext, FreePCB
    <2>9. Charged(k, l)
      BY <1>0, <2>a, <2>2, <2>4, <2>8 DEF Charged
    <2> QED
      BY <2>a, <2>2, <2>4, <2>6, <2>7, <2>9
  <1> QED
    BY <1>2, <1>3

-----------------------------------------------------------------------------
(***************************************************************************)
(* The safety properties of Scheduler, for every table size, queue size,   *)
(* time slice and number of processes.                                     *)
(***************************************************************************)

\* What the invariant says, whoever is lost.
LEMMA InvSays ==
    ASSUME NEW X, Inv(X)
    PROVE  /\ TypeOK /\ AllocatorExact /\ PidsUnique /\ QueuedAreQueued /\ NoDoubleQueueing
           /\ ActiveIsActive /\ PanicOnlyBeforeFirstDispatch
  <1>1. TypeOK
    <2>1. TypedContext(Ctx)
      BY SoundRead DEF Inv, Safe
    <2> QED
      BY <2>1, CtxFields DEF TypedContext, IsContext, IsBounded, Statuses, TypeOK
  <1>2. AllocatorExact
    <2>1. FreeOK(Ctx) /\ DOMAIN proc_allocator = 1 .. Len(proc_allocator)
      BY SoundRead, CtxFields DEF Inv, Safe, Sound, IsContext
    <2> QED
      BY <2>1, CtxFields DEF AllocatorExact, FreeOK, Live, IsLive, NoItemTwice
  <1>3. PidsUnique
    <2>1. PidsOK(Ctx) /\ Live(Ctx, 0)
      BY SoundRead DEF Inv, Safe, Sound
    <2> QED
      BY <2>1, CtxFields DEF PidsUnique, PidsOK, Live, IsLive
  <1>4. QueuedAreQueued /\ NoDoubleQueueing
    <2>1. QueuedOK(Ctx) /\ OnceOK(Ctx)
      BY DEF Inv, Safe, Sound
    <2>2. \A q \in Queues : DOMAIN queue[q] = 1 .. Len(queue[q])
      BY SoundRead, CtxFields DEF Inv, Safe
    <2>3. QueuedAreQueued
      BY <2>1, <2>2, CtxFields DEF QueuedAreQueued, QueuedOK, BelongsTo, Live, IsLive
    <2>4. NoDoubleQueueing
      BY <2>1, <2>2, CtxFields DEF NoDoubleQueueing, OnceOK, NoItemTwice
    <2> QED
      BY <2>3, <2>4
  <1>5. ActiveIsActive
    BY CtxFields DEF Inv, Safe, Tight, InSlice, ActiveIsActive
  <1>6. PanicOnlyBeforeFirstDispatch
    BY CtxFields DEF Inv, Safe, IdleFirst, PanicOnlyBeforeFirstDispatch
  <1> QED
    BY <1>1, <1>2, <1>3, <1>4, <1>5, <1>6

LEMMA InvLosesNobody == Inv({}) => QueueDiscipline
  <1> SUFFICES ASSUME Inv({})
               PROVE  NoLostProcess
    BY InvSays DEF QueueDiscipline
  <1> SUFFICES ASSUME NEW e \in Entries, proc_table[e].state \in Inactive,
                      proc_table[e].pid # 0
               PROVE  \E i \in DOMAIN queue[proc_table[e].scheduler_queue] :
                         queue[proc_table[e].scheduler_queue][i] = proc_table[e].pid
    BY DEF NoLostProcess, Inactive
  <1>1. NoneLost(Ctx, {}) /\ \A q \in Queues : DOMAIN queue[q] = 1 .. Len(queue[q])
    BY SoundRead, CtxFields DEF Inv, Safe, Sound
  <1>2. /\ proc_table[e].scheduler_queue \in Queues
        /\ InQueue(Ctx, proc_table[e].scheduler_queue, proc_table[e].pid)
    BY <1>1, CtxFields DEF NoneLost
  <1> QED
    BY <1>1, <1>2, CtxFields DEF InQueue

\* kproc_create and kproc_destroy neither leak nor double-book an entry.
THEOREM AllocatorSafety == Spec => []AllocatorExact
  <1>1. Inv({}) => AllocatorExact
    BY InvSays
  <1> QED
    BY <1>1, SafeAlways, PTL

\* A pid names one process, also after entries have been recycled.
THEOREM PidSafety == Spec => []PidsUnique
  <1>1. Inv({}) => PidsUnique
    BY InvSays
  <1> QED
    BY <1>1, SafeAlways, PTL

\* The queues hold exactly the processes that are ready, asleep or waiting, each
\* once and in the queue of its state.
THEOREM QueueSafety == Spec => []QueueDiscipline
  <1> QED
    BY InvLosesNobody, SafeAlways, PTL

\* active_proc is the one process in state ACTIVE, within its time slice.
THEOREM ActiveSafety == Spec => []ActiveIsActive
  <1>1. Inv({}) => ActiveIsActive
    BY InvSays
  <1> QED
    BY <1>1, SafeAlways, PTL

\* No queue is ever full and the scheduler always finds a process: the kernel
\* panics only when Ctrl-Q is pressed before the first process is scheduled.
THEOREM PanicSafety == Spec => []PanicOnlyBeforeFirstDispatch
  <1>1. Inv({}) => PanicOnlyBeforeFirstDispatch
    BY InvSays
  <1> QED
    BY <1>1, SafeAlways, PTL

-----------------------------------------------------------------------------
(***************************************************************************)
(* The action properties: what a kernel entry does to the run queue and to *)
(* the time slices.                                                        *)
(***************************************************************************)

\* What every handler does, and what it leaves alone: only the scheduled process
\* may be gone, and pids are given out up to the bound.
Handles(k) ==
    /\ Grows(Ctx, k) /\ Charged(Ctx, k) /\ Frame(Ctx, k, {active_proc})
    /\ \/ k.next = next_pid
       \/ MayCreate /\ k.next = next_pid + 1

LEMMA FrameWider ==
    ASSUME NEW k, NEW l, Frame(k, l, {}), NEW D
    PROVE  Frame(k, l, D)
  BY DEF Frame

LEMMA HandlesFrame ==
    ASSUME NEW k, Grows(Ctx, k), Charged(Ctx, k), Frame(Ctx, k, {}), k.next = Ctx.next
    PROVE  Handles(k)
  BY CtxFields, FrameWider DEF Handles

LEMMA SameHandles ==
    ASSUME Grows(Ctx, Ctx), Charged(Ctx, Ctx), NEW k, SameShape(Ctx, k), k.proc = Ctx.proc,
           k.queue = Ctx.queue, k.active = Ctx.active, k.next = Ctx.next
    PROVE  Handles(k)
  <1>1. Grows(Ctx, k) /\ Charged(Ctx, k) /\ Frame(Ctx, k, {})
    BY DEF Grows, Charged, Frame, Live
  <1> QED
    BY <1>1, HandlesFrame

\* Every step commits either the end of a kernel entry, or a handler's result alone.
LEMMA Steps ==
    ASSUME NEW X, Inv(X), Next
    PROVE  \E k : /\ Handles(k)
                  /\ \/ Commit(k) /\ k.active = active_proc
                         /\ \A e \in Entries : k.active # e
                     \/ Sound(k, X) /\ Loose(k) /\ k.status = "running" /\ ExitKernel(k)
  <1>0. /\ Sound(Ctx, X) /\ Tight(Ctx) /\ Loose(Ctx)
        /\ Ctx.status \in {"boot", "panic"} => Ctx.active = NULL
    BY TightLoose DEF Inv, Safe
  <1>a. Grows(Ctx, Ctx) /\ Charged(Ctx, Ctx)
    BY <1>0, GrowsSelf DEF Charged
  <1>b. \A e \in Entries : NULL # e
    BY NameAssumption, EntryNumbers
  <1>1. CASE BootCreate
    <2>1. PICK k : k = kproc_create(Ctx) /\ Commit(k)
      BY <1>1 DEF BootCreate
    <2>2. Frame(Ctx, k, {}) /\ k.next \in {Ctx.next, Ctx.next + 1} /\ Grows(Ctx, k)
            /\ Charged(Ctx, k)
      BY <1>0, <2>1, CreateFrame
    <2>4. k.active = Ctx.active
      BY <1>0, <2>1, CreateSound
    <2>5. Handles(k)
      BY <1>1, <2>2, CtxFields, FrameWider DEF Handles, BootCreate
    <2>3. Ctx.active = NULL /\ Ctx.active = active_proc
      BY <1>0, <1>1, CtxFields DEF BootCreate
    <2> QED
      BY <1>b, <2>1, <2>3, <2>4, <2>5
  <1>2. CASE BootDestroy
    <2>1. active_proc = NULL /\ Ctx.active = active_proc
      BY <1>0, <1>2, CtxFields DEF BootDestroy
    <2>2. PICK k : k = kernel_panic(Ctx) /\ Commit(k)
      BY <1>2, <2>1 DEF BootDestroy, kproc_destroy
    <2>3. /\ k.proc = Ctx.proc /\ k.queue = Ctx.queue /\ k.active = Ctx.active
          /\ k.next = Ctx.next /\ SameShape(Ctx, k)
      BY <1>0, <2>2, SoundRead, PanicFields
    <2>4. Handles(k)
      BY <1>a, <2>3, SameHandles
    <2> QED
      BY <1>b, <2>1, <2>2, <2>3, <2>4
  <1>3. CASE BootKey
    <2>1. PICK k : k = [Ctx EXCEPT !.status = "running"] /\ Commit(k)
      BY <1>3 DEF BootKey
    <2>2. /\ k.proc = Ctx.proc /\ k.queue = Ctx.queue /\ k.active = Ctx.active
          /\ k.next = Ctx.next /\ SameShape(Ctx, k)
      BY <2>1 DEF Ctx, SameShape, IsRecord, ContextFields
    <2>3. Handles(k)
      BY <1>a, <2>2, SameHandles
    <2>4. Ctx.active = NULL /\ Ctx.active = active_proc
      BY <1>0, <1>3, CtxFields DEF BootKey
    <2> QED
      BY <1>b, <2>1, <2>2, <2>3, <2>4
  <1>4. CASE TimerInterrupt
    <2>1. PICK k : k = scheduler_timer(Ctx) /\ ExitKernel(k)
      BY <1>4 DEF TimerInterrupt
    <2>2. Ctx.status = "running"
      BY <1>4, CtxFields DEF TimerInterrupt
    <2>3. Sound(k, X) /\ Tight(k) /\ k.status = "running"
      BY <1>0, <2>1, <2>2, TimerSound
    <2>4. Frame(Ctx, k, {}) /\ k.next = Ctx.next /\ Grows(Ctx, k) /\ Charged(Ctx, k)
      BY <1>0, <2>1, <2>2, TimerFrame
    <2> QED
      BY <2>1, <2>3, <2>4, TightLoose, HandlesFrame
  <1>5. CASE KeyCreate
    <2>1. PICK k : k = kproc_create(Ctx) /\ ExitKernel(k)
      BY <1>5 DEF KeyCreate
    <2>2. Ctx.status = "running"
      BY <1>5, CtxFields DEF KeyCreate
    <2>3. /\ Sound(k, X) /\ k.status = "running" /\ k.active = Ctx.active
          /\ \A f \in Entries : Live(Ctx, f) => k.proc[f] = Ctx.proc[f]
          /\ \A f \in Entries : ~Live(Ctx, f) => k.proc[f].state # "ACTIVE"
      BY <1>0, <2>1, <2>2, CreateSound
    <2>4. Frame(Ctx, k, {}) /\ k.next \in {Ctx.next, Ctx.next + 1} /\ Grows(Ctx, k)
            /\ Charged(Ctx, k)
      BY <1>0, <2>1, CreateFrame
    <2>6. Handles(k)
      BY <1>5, <2>4, CtxFields, FrameWider DEF Handles, KeyCreate
    <2>5. Loose(k)
      BY <1>0, <2>3 DEF Loose
    <2> QED
      BY <2>1, <2>3, <2>5, <2>6
  <1>6. ASSUME status = "running", ExitKernel(kproc_destroy(Ctx, active_proc))
        PROVE  \E k : /\ Handles(k)
                      /\ \/ Commit(k) /\ k.active = active_proc
                             /\ \A e \in Entries : k.active # e
                         \/ Sound(k, X) /\ Loose(k) /\ k.status = "running" /\ ExitKernel(k)
    <2>1. PICK k : k = kproc_destroy(Ctx, active_proc) /\ ExitKernel(k)
      BY <1>6
    <2>2. Ctx.active = active_proc /\ Ctx.status = "running"
      BY <1>6, CtxFields
    <2>3. CASE active_proc = NULL
      <3>1. k = kernel_panic(Ctx)
        BY <2>1, <2>3 DEF kproc_destroy
      <3>2. /\ k.proc = Ctx.proc /\ k.queue = Ctx.queue /\ k.active = Ctx.active
            /\ k.next = Ctx.next /\ SameShape(Ctx, k) /\ k.status = "panic"
        BY <1>0, <3>1, SoundRead, PanicFields
      <3>3. Handles(k)
        BY <1>a, <3>2, SameHandles
      <3>4. Commit(k)
        BY <2>1, <3>2 DEF ExitKernel, AfterHandler
      <3> QED
        BY <1>b, <2>2, <2>3, <3>2, <3>3, <3>4
    <2>4. CASE active_proc # NULL
      <3>1. Sound(k, X) /\ Loose(k) /\ k.status = "running"
        BY <1>0, <2>1, <2>2, <2>4, DestroySound
      <3>2. Frame(Ctx, k, {Ctx.active}) /\ k.next = Ctx.next /\ Grows(Ctx, k)
              /\ Charged(Ctx, k)
        BY <1>0, <2>1, <2>2, <2>4, DestroyFrame
      <3>3. Handles(k)
        BY <2>2, <3>2, CtxFields DEF Handles
      <3> QED
        BY <2>1, <3>1, <3>3
    <2> QED
      BY <2>3, <2>4
  <1>7. CASE KeyOther
    <2>1. Ctx.status = "running" /\ ExitKernel(Ctx)
      BY <1>7, CtxFields DEF KeyOther
    <2>2. SameShape(Ctx, Ctx)
      BY <1>0, SoundRead DEF SameShape, IsContext
    <2>3. Handles(Ctx)
      BY <1>a, <2>2, SameHandles
    <2> QED
      BY <1>0, <2>1, <2>3
  <1>8. ASSUME NEW seconds \in SLEEP_SECONDS, ProcSleep(seconds)
        PROVE  \E k : /\ Handles(k)
                      /\ Sound(k, X) /\ Loose(k) /\ k.status = "running" /\ ExitKernel(k)
    <2> DEFINE time == seconds * TICKS_PER_SECOND
    <2>1. time \in Int
      BY TimeAssumption
    <2> HIDE DEF time
    <2>2. PICK k : k = scheduler_sleep(Ctx, active_proc, time) /\ ExitKernel(k)
      BY <1>8 DEF ProcSleep, time
    <2>3. active_proc \in Entries \ {0} /\ Ctx.active = active_proc
            /\ Ctx.status = "running"
      BY <1>0, <1>8, CtxFields, SoundRead
         DEF ProcSleep, InUserProcess, Sound, PidsOK, IsContext
    <2>4. Sound(k, X) /\ Loose(k) /\ k.status = "running"
      BY <1>0, <2>1, <2>2, <2>3, SleepSound
    <2>5. Frame(Ctx, k, {}) /\ k.next = Ctx.next /\ k.queue[RunQ] = Ctx.queue[RunQ]
            /\ Charged(Ctx, k)
      BY <1>0, <2>1, <2>2, <2>3, SleepFrame
    <2>6. Grows(Ctx, k)
      BY <1>0, <2>5, GrowsSelf
    <2>7. Handles(k)
      BY <2>5, <2>6, HandlesFrame
    <2> QED
      BY <2>2, <2>4, <2>7
  <1> QED
    BY <1>1, <1>2, <1>3, <1>4, <1>5, <1>6, <1>7, <1>8
       DEF Next, BootNext, InterruptNext, CallNext, KeyDestroy, ProcExit, InUserProcess

\* t is s with at most its head taken off and items behind what is left.
Fifo(s, t) ==
    \E taken \in 0 .. 1 : SeqExt!IsPrefix(SubSeq(s, taken + 1, Len(s)), t)

LEMMA FifoTaken ==
    ASSUME NEW s, NEW t, NEW taken \in 0 .. 1,
           SeqExt!IsPrefix(SubSeq(s, taken + 1, Len(s)), t)
    PROVE  Fifo(s, t)
  BY DEF Fifo

LEMMA FifoGrows ==
    ASSUME NEW s \in Seq(Nat), NEW w \in Seq(Nat)
    PROVE  Fifo(s, s \o w)
  <1>1. SubSeq(s, 0 + 1, Len(s)) = s /\ 0 \in 0 .. 1
    OBVIOUS
  <1>2. SeqExt!IsPrefix(s, s \o w)
    BY DEF SeqExt!IsPrefix
  <1> QED
    BY <1>1, <1>2, FifoTaken

LEMMA FifoPops ==
    ASSUME NEW s \in Seq(Nat), NEW w \in Seq(Nat), s \o w # <<>>
    PROVE  Fifo(s, Tail(s \o w))
  <1>1. CASE s = <<>>
    <2>1. SubSeq(s, 0 + 1, Len(s)) = <<>> /\ 0 \in 0 .. 1
      BY <1>1
    <2>2. s \o w = w
      BY <1>1
    <2>3. Tail(w) \in Seq(Nat)
      BY <2>2
    <2>4. SeqExt!IsPrefix(<<>>, Tail(w))
      BY <2>3 DEF SeqExt!IsPrefix
    <2>5. SeqExt!IsPrefix(SubSeq(s, 0 + 1, Len(s)), Tail(s \o w))
      BY <2>1, <2>2, <2>4
    <2> QED
      BY <2>1, <2>5, FifoTaken
  <1>2. CASE s # <<>>
    <2> DEFINE r == Tail(s)
    <2>1. SubSeq(s, 1 + 1, Len(s)) = r /\ r \in Seq(Nat) /\ 1 \in 0 .. 1
      BY <1>2
    <2>2. Tail(s \o w) = r \o w
      <3>1. s = <<Head(s)>> \o r
        BY <1>2
      <3>2. /\ s \o w \in Seq(Nat) /\ r \o w \in Seq(Nat)
            /\ Len(s \o w) = Len(s) + Len(w) /\ Len(r \o w) = Len(r) + Len(w)
            /\ Len(r) = Len(s) - 1 /\ Len(s) \in Nat /\ Len(w) \in Nat
        BY <1>2
      <3>3. /\ Tail(s \o w) \in Seq(Nat) /\ Len(Tail(s \o w)) = Len(s) + Len(w) - 1
            /\ \A i \in 1 .. Len(Tail(s \o w)) : Tail(s \o w)[i] = (s \o w)[i + 1]
        BY <3>2, HeadTailProperties
      <3>4. \A i \in 1 .. Len(r) + Len(w) :
                (r \o w)[i] = IF i <= Len(r) THEN r[i] ELSE w[i - Len(r)]
        BY <2>1
      <3>5. \A i \in 1 .. Len(s) + Len(w) :
                (s \o w)[i] = IF i <= Len(s) THEN s[i] ELSE w[i - Len(s)]
        OBVIOUS
      <3>6. \A i \in 1 .. Len(r) : r[i] = s[i + 1]
        BY <1>2
      <3>7. \A i \in 1 .. Len(r) + Len(w) : Tail(s \o w)[i] = (r \o w)[i]
        <4> HIDE DEF r
        <4> SUFFICES ASSUME NEW i \in 1 .. Len(r) + Len(w)
                     PROVE  Tail(s \o w)[i] = (r \o w)[i]
          OBVIOUS
        <4>1. /\ i \in 1 .. Len(Tail(s \o w)) /\ i + 1 \in 1 .. Len(s) + Len(w)
              /\ i <= Len(r) <=> i + 1 <= Len(s)
              /\ (i + 1) - Len(s) = i - Len(r)
              /\ i <= Len(r) => i \in 1 .. Len(r)
          BY <3>2, <3>3, SMTT(40)
        <4> QED
          BY <3>3, <3>4, <3>5, <3>6, <4>1
      <3> HIDE DEF r
      <3>8. Len(Tail(s \o w)) = Len(r \o w)
        BY <3>2, <3>3
      <3> QED
        BY <3>2, <3>3, <3>7, <3>8, SeqEqual
    <2> HIDE DEF r
    <2>3. SeqExt!IsPrefix(r, r \o w)
      BY <2>1 DEF SeqExt!IsPrefix
    <2>4. SeqExt!IsPrefix(SubSeq(s, 1 + 1, Len(s)), Tail(s \o w))
      BY <2>1, <2>2, <2>3
    <2> QED
      BY <2>1, <2>4, FifoTaken
  <1> QED
    BY <1>1, <1>2

\* Preempted, woken and new processes go to the end of the run queue, and the
\* scheduler takes its head.
THEOREM RoundRobin == Spec => RunQueueIsFIFO
  <1>1. ASSUME Inv({}), Next
        PROVE  Fifo(queue[RunQ], queue'[RunQ])
    <2> DEFINE s == queue[RunQ]
    <2>1. s \in Seq(Nat) /\ Ctx.queue[RunQ] = s
      BY <1>1, SoundRead, QueueNames, CtxFields DEF Inv, Safe
    <2>2. PICK k : /\ Grows(Ctx, k)
                   /\ \/ Commit(k)
                      \/ Sound(k, {}) /\ Loose(k) /\ k.status = "running" /\ ExitKernel(k)
      BY <1>1, Steps DEF Handles
    <2>3. PICK w \in Seq(Nat) : k.queue[RunQ] = s \o w
      BY <2>1, <2>2 DEF Grows
    <2> HIDE DEF s
    <2>4. CASE Commit(k)
      <3>1. queue'[RunQ] = s \o w
        BY <2>3, <2>4 DEF Commit
      <3> QED
        BY <2>1, <3>1, FifoGrows DEF s
    <2>5. CASE Sound(k, {}) /\ Loose(k) /\ k.status = "running" /\ ExitKernel(k)
      <3>1. PICK l : l = scheduler_run(k) /\ Commit(l)
        BY <2>5 DEF ExitKernel, AfterHandler
      <3>2. PICK b : Grows(k, b) /\ Pops(b, l)
        BY <2>5, <3>1, RunFrame
      <3>3. PICK v \in Seq(Nat) : b.queue[RunQ] = (s \o w) \o v
        BY <2>3, <3>2 DEF Grows
      <3>4. (s \o w) \o v = s \o (w \o v) /\ w \o v \in Seq(Nat)
        BY <2>1, ConcatAssociative
      <3>5. queue'[RunQ] = l.queue[RunQ]
        BY <3>1 DEF Commit
      <3> DEFINE u == w \o v
      <3> HIDE DEF u
      <3>6. u \in Seq(Nat) /\ b.queue[RunQ] = s \o u
        BY <3>3, <3>4 DEF u
      <3>7. \/ l.queue[RunQ] = s \o u
            \/ s \o u # <<>> /\ l.queue[RunQ] = Tail(s \o u)
        BY <3>2, <3>6 DEF Pops
      <3>8. Fifo(s, l.queue[RunQ])
        BY <2>1, <3>6, <3>7, FifoGrows, FifoPops
      <3> QED
        BY <3>5, <3>8 DEF s
    <2> QED
      BY <2>2, <2>4, <2>5
  <1>2. Inv({}) /\ [Next]_vars =>
            [\E taken \in 0 .. 1 :
                LET rest == SubSeq(queue[RunQ], taken + 1, Len(queue[RunQ]))
                IN  SeqExt!IsPrefix(rest, queue'[RunQ])]_vars
    BY <1>1 DEF Fifo
  <1> QED
    BY <1>2, SafeAlways, PTL DEF Spec, RunQueueIsFIFO

\* A process keeps the CPU for a whole slice unless it gives it up, and begins
\* every slice at zero.
THEOREM WholeSlices == Spec => FullSlice
  <1>1. ASSUME Inv({}), Next
        PROVE  /\ \A e \in Entries :
                    proc_table[e].state = "ACTIVE" /\ proc_table'[e].state = "IDLE"
                    => proc_table[e].cpu_time = SCHEDULER_TIMESLICE - 1
               /\ active_proc' # active_proc /\ active_proc' # NULL
                    => proc_table'[active_proc'].cpu_time = 0
    <2>1. /\ Sound(Ctx, {}) /\ Tight(Ctx) /\ InSlice(Ctx)
          /\ Ctx.proc = proc_table /\ Ctx.active = active_proc
          /\ proc_table \in [Entries -> PCB]
      BY <1>1, SoundRead, CtxFields DEF Inv, Safe, IsContext
    <2>2. PICK k : /\ Charged(Ctx, k)
                   /\ \/ Commit(k) /\ k.active = active_proc
                         /\ \A e \in Entries : k.active # e
                      \/ Sound(k, {}) /\ Loose(k) /\ k.status = "running" /\ ExitKernel(k)
      BY <1>1, Steps DEF Handles
    <2>3. CASE Commit(k) /\ k.active = active_proc /\ \A e \in Entries : k.active # e
      BY <2>1, <2>3 DEF Commit, Tight
    <2>4. CASE Sound(k, {}) /\ Loose(k) /\ k.status = "running" /\ ExitKernel(k)
      <3>1. PICK l : l = scheduler_run(k) /\ Commit(l)
        BY <2>4 DEF ExitKernel, AfterHandler
      <3>2. Slices(k, l)
        BY <2>4, <3>1, RunFrame
      <3>3. proc_table' = l.proc /\ active_proc' = l.active
        BY <3>1 DEF Commit
      <3>4. ASSUME NEW e \in Entries, proc_table[e].state = "ACTIVE",
                   proc_table'[e].state = "IDLE"
            PROVE  proc_table[e].cpu_time = SCHEDULER_TIMESLICE - 1
        <4>1. /\ k.proc[e].state = "ACTIVE" /\ ~(k.proc[e].cpu_time < SCHEDULER_TIMESLICE)
              /\ k.proc[e].cpu_time \in {proc_table[e].cpu_time, proc_table[e].cpu_time + 1}
          BY <2>1, <2>2, <3>2, <3>3, <3>4 DEF Charged, Slices
        <4>2. proc_table[e].cpu_time < SCHEDULER_TIMESLICE
          BY <2>1, <3>4, EntryNumbers, NameAssumption DEF Tight, InSlice
        <4>3. proc_table[e].cpu_time \in Nat /\ SCHEDULER_TIMESLICE \in Nat
          BY <2>1, SizeAssumption DEF PCB
        <4> QED
          BY <4>1, <4>2, <4>3
      <3>5. ASSUME active_proc' # active_proc, active_proc' # NULL
            PROVE  proc_table'[active_proc'].cpu_time = 0
        BY <2>1, <2>2, <3>2, <3>3, <3>5 DEF Charged, Slices
      <3> QED
        BY <3>4, <3>5
    <2> QED
      BY <2>2, <2>3, <2>4
  <1>2. Inv({}) /\ [Next]_vars =>
           [/\ \A e \in Entries :
                 proc_table[e].state = "ACTIVE" /\ proc_table'[e].state = "IDLE"
                 => proc_table[e].cpu_time = SCHEDULER_TIMESLICE - 1
            /\ active_proc' # active_proc /\ active_proc' # NULL
                 => proc_table'[active_proc'].cpu_time = 0]_vars
    BY <1>1
  <1> QED
    BY <1>2, SafeAlways, PTL DEF Spec, FullSlice
-----------------------------------------------------------------------------
(***************************************************************************)
(* What a kernel entry does to the processes that sleep.                   *)
(***************************************************************************)

\* Who sleeps sleeps on, with as many ticks to go.
SleepOn(k, l) == \A f \in Entries : k.proc[f].state = "SLEEPING" => l.proc[f] = k.proc[f]

\* The sleep queue is the same, and nobody has joined it.
LeavesSleepers(k, l) ==
    /\ SleepOn(k, l) /\ l.queue[SleepQ] = k.queue[SleepQ]
    /\ \A f \in Entries : l.proc[f].state = "SLEEPING" => k.proc[f].state = "SLEEPING"

LEMMA LeavesTrans ==
    ASSUME NEW k, NEW l, NEW m, LeavesSleepers(k, l), LeavesSleepers(l, m)
    PROVE  LeavesSleepers(k, m)
  BY DEF LeavesSleepers, SleepOn

LEMMA PreemptLeaves ==
    ASSUME NEW k, NEW X, Sound(k, X), Tight(k), NEW l, l = Preempt(k)
    PROVE  LeavesSleepers(k, l)
  <1> DEFINE e == k.active
             m == [k EXCEPT !.proc[e].cpu_time = 0]
  <1>1. CASE k.active = NULL \/ k.proc[e].cpu_time < SCHEDULER_TIMESLICE
    <2>1. l = k
      BY <1>1 DEF Preempt
    <2> QED
      BY <2>1 DEF LeavesSleepers, SleepOn
  <1>2. CASE ~(k.active = NULL \/ k.proc[e].cpu_time < SCHEDULER_TIMESLICE)
    <2>1. /\ IsContext(k) /\ IsRecord(k) /\ ContextFields \subseteq DOMAIN k
          /\ e \in Entries /\ k.proc \in [Entries -> PCB] /\ DOMAIN k.queue = Queues
          /\ k.proc[e] \in PCB /\ k.proc[e].state = "ACTIVE"
      BY <1>2, SoundRead DEF IsContext, Tight
    <2> DEFINE p == [k.proc[e] EXCEPT !.cpu_time = 0]
    <2>2. p \in PCB /\ p.state = "ACTIVE" /\ DOMAIN p = DOMAIN k.proc[e]
      BY <2>1 DEF PCB
    <2>3. m = [k EXCEPT !.proc[e] = p]
      BY <2>1
    <2>4. \A f \in Entries \ {e} : l.proc[f] = k.proc[f]
      BY <2>1, PreemptFrame
    <2>5. l = IF k.proc[e].pid # 0
              THEN [scheduler_add(m, e) EXCEPT !.active = NULL]
              ELSE [m EXCEPT !.proc[e].state = "IDLE", !.active = NULL]
      BY <1>2 DEF Preempt
    <2> HIDE DEF p, m
    <2>6. /\ IsRecord(m) /\ ContextFields \subseteq DOMAIN m
          /\ m.proc = [k.proc EXCEPT ![e] = p] /\ m.queue = k.queue
      BY <2>1, <2>3 DEF IsRecord, ContextFields
    <2>7. m.proc \in [Entries -> PCB] /\ m.proc[e] = p
      BY <2>1, <2>2, <2>6
    <2>8. l.queue[SleepQ] = k.queue[SleepQ] /\ l.proc[e].state # "SLEEPING"
      <3>1. CASE k.proc[e].pid # 0 /\ Full(m.queue[RunQ])
        <4>1. l = [[m EXCEPT !.status = "panic"] EXCEPT !.active = NULL]
          BY <2>5, <3>1 DEF scheduler_add, kernel_panic
        <4>2. l.proc = m.proc /\ l.queue = m.queue
          BY <2>6, <4>1 DEF IsRecord, ContextFields
        <4> QED
          BY <2>2, <2>6, <2>7, <4>2
      <3>2. CASE k.proc[e].pid # 0 /\ ~Full(m.queue[RunQ])
        <4> DEFINE r == [m.proc EXCEPT ![e].scheduler_queue = RunQ, ![e].state = "IDLE",
                                       ![e].cpu_time = 0]
                   u == [m.queue EXCEPT ![RunQ] = Append(@, m.proc[e].pid)]
        <4>1. l = [[m EXCEPT !.proc = r, !.queue = u] EXCEPT !.active = NULL]
          BY <2>5, <3>2 DEF scheduler_add
        <4>2. r[e].state = "IDLE"
          <5>1. r[e] = [p EXCEPT !.scheduler_queue = RunQ, !.state = "IDLE", !.cpu_time = 0]
            BY <2>1, <2>7
          <5> QED
            BY <2>2, <5>1 DEF PCB
        <4>3. u[SleepQ] = m.queue[SleepQ]
          BY <2>1, <2>6, QueueNames
        <4> HIDE DEF r, u
        <4>4. l.proc = r /\ l.queue = u
          BY <2>6, <4>1 DEF IsRecord, ContextFields
        <4> QED
          BY <2>6, <4>2, <4>3, <4>4
      <3>3. CASE k.proc[e].pid = 0
        <4> DEFINE r == [m.proc EXCEPT ![e].state = "IDLE"]
        <4>1. l = [m EXCEPT !.proc = r, !.active = NULL]
          BY <2>5, <3>3
        <4>2. r[e].state = "IDLE"
          BY <2>1, <2>2, <2>7 DEF PCB
        <4> HIDE DEF r
        <4>3. l.proc = r /\ l.queue = m.queue
          BY <2>6, <4>1 DEF IsRecord, ContextFields
        <4> QED
          BY <2>6, <4>2, <4>3
      <3> QED
        BY <3>1, <3>2, <3>3
    <2> HIDE DEF e
    <2> QED
      BY <2>1, <2>4, <2>8 DEF LeavesSleepers, SleepOn
  <1> QED
    BY <1>1, <1>2

\* Whoever is chosen was ready or running.
LEMMA DispatchLeaves ==
    ASSUME NEW k, NEW X, Sound(k, X), Tight(k), NEW l, l = Dispatch(k)
    PROVE  /\ l.proc = k.proc /\ l.queue[SleepQ] = k.queue[SleepQ]
           /\ l.active \in Entries => k.proc[l.active].state # "SLEEPING"
  <1> DEFINE s == k.queue[RunQ]
  <1>1. /\ IsRecord(k) /\ ContextFields \subseteq DOMAIN k /\ DOMAIN k.queue = Queues
        /\ s \in Seq(Nat)
    BY SoundRead, QueueNames DEF IsContext
  <1>2. CASE k.active # NULL
    BY <1>2 DEF Dispatch, Tight
  <1>3. CASE k.active = NULL /\ s = <<>>
    <2>1. Live(k, 0) /\ 0 \in Entries /\ k.proc[0].pid = 0 /\ k.proc[0].state # "SLEEPING"
      BY SoundRead, EntryNumbers DEF Sound, PidsOK
    <2>2. pid_to_proc(k, 0) = 0
      BY <2>1, LookUp
    <2>3. l = [k EXCEPT !.active = 0]
      BY <1>3, <2>2 DEF Dispatch
    <2> QED
      BY <1>1, <2>1, <2>3 DEF IsRecord, ContextFields
  <1>4. CASE k.active = NULL /\ s # <<>>
    <2>1. 1 \in 1 .. Len(s) /\ Head(s) = s[1]
      <3> HIDE DEF s
      <3> QED
        BY <1>1, <1>4
    <2>2. PICK e \in Entries : BelongsTo(k, e, RunQ) /\ k.proc[e].pid = Head(s)
      BY <2>1, QueueNames DEF Sound, QueuedOK
    <2>3. pid_to_proc(k, Head(s)) = e
      BY <2>2, LookUp DEF BelongsTo
    <2>4. l = [k EXCEPT !.active = e, !.queue[RunQ] = Tail(@)]
      BY <1>4, <2>3 DEF Dispatch
    <2>5. /\ l.queue = [k.queue EXCEPT ![RunQ] = Tail(@)]
          /\ l.proc = k.proc /\ l.active = e
      BY <1>1, <2>4 DEF IsRecord, ContextFields
    <2>6. l.queue[SleepQ] = k.queue[SleepQ]
      BY <1>1, <2>5, QueueNames
    <2>7. k.proc[e].state # "SLEEPING"
      BY <2>2, QueueStates DEF BelongsTo
    <2> QED
      BY <2>5, <2>6, <2>7
  <1> QED
    BY <1>2, <1>3, <1>4

\* scheduler_run does not touch sleepers.
LEMMA RunLeaves ==
    ASSUME NEW k, NEW X, Sound(k, X), Loose(k), NEW l, l = scheduler_run(k)
    PROVE  LeavesSleepers(k, l)
  <1> DEFINE a == DropInactive(k)
             b == Preempt(a)
             c == Dispatch(b)
  <1>1. a = DropInactive(k) /\ Sound(a, X) /\ Tight(a)
    BY DropSound
  <1>2. b = Preempt(a) /\ c = Dispatch(b) /\ l = Activate(c)
    BY DEF scheduler_run
  <1> HIDE DEF a, b, c
  <1>3. Sound(b, X) /\ Tight(b) /\ InSlice(b)
    BY <1>1, <1>2, PreemptSound
  <1>4. PICK e \in Entries : c.active = e /\ Sound(c, With(X, e))
    BY <1>2, <1>3, DispatchSound
  <1>5. LeavesSleepers(k, a)
    <2>1. a.queue = k.queue /\ a.proc = k.proc
      BY <1>1, DropFrame
    <2> QED
      BY <2>1 DEF LeavesSleepers, SleepOn
  <1>6. LeavesSleepers(a, b)
    BY <1>1, <1>2, PreemptLeaves
  <1>7. /\ c.proc = b.proc /\ c.queue[SleepQ] = b.queue[SleepQ]
        /\ c.active \in Entries => b.proc[c.active].state # "SLEEPING"
    BY <1>2, <1>3, DispatchLeaves
  <1>8. LeavesSleepers(b, l)
    <2> DEFINE p == [c.proc[e] EXCEPT !.state = "ACTIVE"]
    <2>1. /\ IsRecord(c) /\ ContextFields \subseteq DOMAIN c /\ c.proc \in [Entries -> PCB]
          /\ e # NULL /\ e \in Entries
      BY <1>4, SoundRead, EntryNumbers DEF IsContext
    <2>2. l = [c EXCEPT !.proc[e] = p]
      BY <1>2, <1>4, <2>1 DEF Activate
    <2>3. p.state = "ACTIVE"
      BY <2>1 DEF PCB
    <2> HIDE DEF p
    <2>4. l.proc = [c.proc EXCEPT ![e] = p] /\ l.queue = c.queue
      BY <2>1, <2>2 DEF IsRecord, ContextFields
    <2>5. l.proc[e].state = "ACTIVE" /\ \A f \in Entries \ {e} : l.proc[f] = c.proc[f]
      BY <2>1, <2>3, <2>4
    <2>6. b.proc[e].state # "SLEEPING"
      BY <1>4, <1>7
    <2> QED
      BY <1>7, <2>4, <2>5, <2>6 DEF LeavesSleepers, SleepOn
  <1> QED
    BY <1>5, <1>6, <1>8, LeavesTrans

LEMMA ChargeSleepers ==
    ASSUME NEW k, NEW X, Sound(k, X), Tight(k), NEW l, l = ChargeActive(k)
    PROVE  \A f \in Entries : /\ l.proc[f].pid = k.proc[f].pid
                              /\ l.proc[f].state = k.proc[f].state
                              /\ l.proc[f].sleep_time = k.proc[f].sleep_time
  <1>1. CASE k.active = NULL
    BY <1>1 DEF ChargeActive
  <1>2. CASE k.active # NULL
    <2> DEFINE e == k.active
               p == [k.proc[e] EXCEPT !.cpu_time = @ + 1]
    <2>1. /\ IsRecord(k) /\ ContextFields \subseteq DOMAIN k /\ e \in Entries
          /\ k.proc \in [Entries -> PCB] /\ k.proc[e] \in PCB
      BY <1>2, SoundRead DEF IsContext
    <2>2. /\ p.pid = k.proc[e].pid /\ p.state = k.proc[e].state
          /\ p.sleep_time = k.proc[e].sleep_time
      BY <2>1 DEF PCB
    <2>3. l = [k EXCEPT !.proc[e] = p]
      BY <1>2, <2>1 DEF ChargeActive
    <2> HIDE DEF p, e
    <2>4. l.proc = [k.proc EXCEPT ![e] = p]
      BY <2>1, <2>3 DEF IsRecord, ContextFields
    <2> QED
      BY <2>1, <2>2, <2>4
  <1> QED
    BY <1>1, <1>2

\* What the walk makes of the process at each position of the sleep queue.
LEMMA WalkSleepers ==
    ASSUME NEW k, NEW X, Sound(k, X), k.status = "running", NEW l, l = WalkSleepQueue(k),
           NEW s, s = k.queue[SleepQ], NEW E, E = Expired(k), NEW R, R = Reached(s, E)
    PROVE  /\ s \in Seq(Nat) /\ E \in SUBSET Positions(s) /\ l.queue[SleepQ] = Rotate(s, E)
           /\ \A i \in Positions(s) : /\ Sleeper(k, i) \in Entries
                                      /\ k.proc[Sleeper(k, i)].state = "SLEEPING"
                                      /\ k.proc[Sleeper(k, i)].pid = s[i]
           /\ \A i, j \in Positions(s) : Sleeper(k, i) = Sleeper(k, j) => i = j
           /\ \A i \in R \cap E : /\ l.proc[Sleeper(k, i)].state # "SLEEPING"
                                  /\ k.proc[Sleeper(k, i)].sleep_time < 0
           /\ \A i \in R \ E :
                 /\ l.proc[Sleeper(k, i)].state = "SLEEPING"
                 /\ l.proc[Sleeper(k, i)].sleep_time = k.proc[Sleeper(k, i)].sleep_time - 1
           /\ \A i \in Positions(s) \ R : l.proc[Sleeper(k, i)] = k.proc[Sleeper(k, i)]
           /\ \A f \in Entries : (\A i \in Positions(s) : Sleeper(k, i) # f)
                                   => l.proc[f] = k.proc[f]
  <1>1. IsContext(k) /\ l.status = "running"
    BY SoundRead, WalkSound
  <1>2. ~(Len(k.queue[RunQ]) + Len(WokenItems(k)) > QUEUE_SIZE)
    <2> SUFFICES ASSUME Len(k.queue[RunQ]) + Len(WokenItems(k)) > QUEUE_SIZE
                 PROVE  FALSE
      OBVIOUS
    <2>1. l = kernel_panic(k)
      BY DEF WalkSleepQueue, WokenItems
    <2> QED
      BY <1>1, <2>1, PanicFields
  <1>3. /\ s \in Seq(Nat) /\ NoItemTwice(s) /\ k.proc \in [Entries -> PCB]
        /\ DOMAIN s = Positions(s)
    <2>1. SleepQ \in Queues
      BY QueueNames
    <2>2. s \in Seq(Nat) /\ k.proc \in [Entries -> PCB]
      BY <1>1, <2>1, SoundRead DEF IsContext
    <2>3. NoItemTwice(s)
      BY <2>1 DEF Sound, OnceOK
    <2>4. DOMAIN s = Positions(s)
      BY <2>2 DEF Positions
    <2> QED
      BY <2>2, <2>3, <2>4
  <1>4. Gone(k) = {} /\ E \in SUBSET Positions(s) /\ R \in SUBSET Positions(s)
          /\ R = Visited(k) /\ \A i \in E : k.proc[Sleeper(k, i)].sleep_time < 0
    <2>1. Gone(k) = {}
      BY SleepersBelong
    <2>2. E \in SUBSET Positions(s) /\ \A i \in E : k.proc[Sleeper(k, i)].sleep_time < 0
      BY <1>3 DEF Expired, Sleeper
    <2>3. Visited(k) = R
      BY <2>1 DEF Visited
    <2>4. R \in SUBSET Positions(s)
      BY DEF Reached, Positions
    <2> QED
      BY <2>1, <2>2, <2>3, <2>4
  <1>5. \A i \in Positions(s) : /\ Sleeper(k, i) \in Entries
                                /\ k.proc[Sleeper(k, i)].state = "SLEEPING"
                                /\ k.proc[Sleeper(k, i)].pid = s[i]
    BY SleepersBelong, QueueStates DEF BelongsTo, Positions
  <1>6. \A i, j \in Positions(s) : Sleeper(k, i) = Sleeper(k, j) => i = j
    BY <1>3, <1>5 DEF NoItemTwice, Positions
  <1>7. /\ WokenProcs(k) = {Sleeper(k, i) : i \in R \cap E}
        /\ VisitedProcs(k) = {Sleeper(k, i) : i \in R}
    <2>1. R \ Gone(k) = R
      BY <1>4
    <2> QED
      BY <1>4, <2>1 DEF WokenProcs, VisitedProcs, Sleeper
  <1>8. l.queue[SleepQ] = Rotate(s, E) /\ l.proc = WalkedTable(k)
    <2>1. /\ l.queue = [q \in Queues |->
                         IF q = SleepQ
                         THEN Rotate(k.queue[SleepQ], Gone(k) \cup Expired(k))
                         ELSE IF q = RunQ
                              THEN k.queue[RunQ] \o WokenItems(k)
                              ELSE k.queue[q]]
          /\ l.proc = WalkedTable(k)
      BY <1>1, <1>2, WalkFields
    <2>2. l.queue[SleepQ] = Rotate(k.queue[SleepQ], Gone(k) \cup Expired(k))
      BY <2>1, QueueNames
    <2>3. Gone(k) \cup Expired(k) = E
      BY <1>4
    <2> QED
      BY <2>1, <2>2, <2>3
  <1>9. ASSUME NEW f \in Entries
        PROVE  /\ f \in WokenProcs(k) => l.proc[f].state = "IDLE"
               /\ f \in VisitedProcs(k) \ WokenProcs(k) =>
                     /\ l.proc[f].state = k.proc[f].state
                     /\ l.proc[f].sleep_time = k.proc[f].sleep_time - 1
               /\ f \notin WokenProcs(k) \cup VisitedProcs(k) => l.proc[f] = k.proc[f]
    <2>1. k.proc[f] \in PCB
      BY <1>3
    <2>2. CASE f \in WokenProcs(k)
      <3>1. l.proc[f] = WokenPCB(k.proc[f])
        BY <1>8, <2>2 DEF WalkedTable
      <3> QED
        BY <2>1, <2>2, <3>1 DEF WokenPCB, PCB
    <2>3. CASE f \in VisitedProcs(k) \ WokenProcs(k)
      <3>1. l.proc[f] = [k.proc[f] EXCEPT !.sleep_time = @ - 1]
        BY <1>8, <2>3 DEF WalkedTable
      <3> QED
        BY <2>1, <2>3, <3>1 DEF PCB
    <2>4. CASE f \notin WokenProcs(k) \cup VisitedProcs(k)
      BY <1>8, <2>4 DEF WalkedTable
    <2> QED
      BY <2>2, <2>3, <2>4
  <1>10. \A i \in R \cap E : l.proc[Sleeper(k, i)].state # "SLEEPING"
    BY <1>4, <1>5, <1>7, <1>9
  <1>11. ASSUME NEW i \in R \ E
         PROVE  /\ l.proc[Sleeper(k, i)].state = "SLEEPING"
                /\ l.proc[Sleeper(k, i)].sleep_time = k.proc[Sleeper(k, i)].sleep_time - 1
    <2>1. Sleeper(k, i) \in VisitedProcs(k) /\ Sleeper(k, i) \notin WokenProcs(k)
      BY <1>4, <1>6, <1>7
    <2> QED
      BY <1>4, <1>5, <1>9, <2>1
  <1>12. ASSUME NEW i \in Positions(s) \ R
         PROVE  l.proc[Sleeper(k, i)] = k.proc[Sleeper(k, i)]
    <2>1. Sleeper(k, i) \notin WokenProcs(k) \cup VisitedProcs(k)
      BY <1>4, <1>6, <1>7
    <2> QED
      BY <1>5, <1>9, <2>1
  <1>13. ASSUME NEW f \in Entries, \A i \in Positions(s) : Sleeper(k, i) # f
         PROVE  l.proc[f] = k.proc[f]
    <2>1. f \notin WokenProcs(k) \cup VisitedProcs(k)
      BY <1>4, <1>7, <1>13
    <2> QED
      BY <1>9, <2>1
  <1> QED
    BY <1>3, <1>4, <1>5, <1>6, <1>8, <1>10, <1>11, <1>12, <1>13

\* Whoever sleeps is in the sleep queue.
LEMMA AsleepQueued ==
    ASSUME NEW k, Sound(k, {}), NEW f \in Entries, k.proc[f].state = "SLEEPING"
    PROVE  \E i \in Positions(k.queue[SleepQ]) : Sleeper(k, i) = f
  <1>1. Live(k, f) /\ k.proc[f].pid # 0
    <2>1. Live(k, f) /\ Live(k, 0) /\ 0 \in Entries /\ k.proc[0].pid = 0 /\ f # 0
      BY EntryNumbers DEF Live, Sound, PidsOK
    <2> QED
      BY <2>1 DEF Sound, PidsOK
  <1>2. k.proc[f].scheduler_queue \in Queues
          /\ InQueue(k, k.proc[f].scheduler_queue, k.proc[f].pid)
    BY <1>1 DEF Sound, NoneLost, Inactive
  <1>3. k.proc[f].scheduler_queue = SleepQ
    <2> DEFINE q == k.proc[f].scheduler_queue
    <2>1. q \in Queues /\ InQueue(k, q, k.proc[f].pid) /\ Live(k, f) /\ Sound(k, {})
      BY <1>1, <1>2
    <2> HIDE DEF q
    <2>2. k.proc[f].state = StateIn(q)
      BY <2>1, QueuedState
    <2>3. StateIn(q) = "SLEEPING" => q = SleepQ
      BY DEF StateIn
    <2>4. q = SleepQ
      BY <2>2, <2>3
    <2> QED
      BY <2>4 DEF q
  <1>4. PICK i \in 1 .. Len(k.queue[SleepQ]) : k.queue[SleepQ][i] = k.proc[f].pid
    BY <1>2, <1>3 DEF InQueue
  <1>5. Sleeper(k, i) = f
    BY <1>1, <1>4, LookUp DEF Sleeper
  <1> QED
    BY <1>4, <1>5 DEF Positions

\* A tick finds the pids s in the sleep queue, those at the positions E with their
\* time over, and g[i] is the process of the i-th.
Ticks(s, E, g) ==
    /\ queue'[SleepQ] = Rotate(s, E)
    /\ \A i, j \in Positions(s) : g[i] = g[j] => i = j
    /\ \A i \in Positions(s) : proc_table[g[i]].pid = s[i]
    /\ \A e \in Entries :
          /\ e \in SkippedByTick <=> \E i \in Positions(s) \ Reached(s, E) : g[i] = e
          /\ e \in WokenByTick <=> \E i \in Reached(s, E) \cap E : g[i] = e

LEMMA TimerStep ==
    ASSUME Inv({}), TimerInterrupt
    PROVE  \E s \in Seq(Nat) : \E E \in SUBSET Positions(s) :
             \E g \in [Positions(s) -> Entries] : Ticks(s, E, g)
  <1> DEFINE k == ChargeActive(Ctx)
             s == k.queue[SleepQ]
             E == Expired(k)
             R == Reached(s, E)
             l == WalkSleepQueue(k)
             m == scheduler_run(l)
             g == [i \in Positions(s) |-> Sleeper(k, i)]
  <1>1. /\ Sound(Ctx, {}) /\ Tight(Ctx) /\ Ctx.status = "running"
        /\ Ctx.proc = proc_table
    BY CtxFields DEF Inv, Safe, TimerInterrupt
  <1>2. k = ChargeActive(Ctx) /\ l = WalkSleepQueue(k) /\ m = scheduler_run(l)
    OBVIOUS
  <1>3. Commit(AfterHandler(l))
    BY DEF TimerInterrupt, ExitKernel, scheduler_timer
  <1>4. s = k.queue[SleepQ] /\ E = Expired(k) /\ R = Reached(s, E)
    OBVIOUS
  <1>5. g = [i \in Positions(s) |-> Sleeper(k, i)]
    OBVIOUS
  <1> HIDE DEF k, s, E, R, l, m, g
  <1>6. Sound(k, {}) /\ Tight(k) /\ k.status = "running"
    BY <1>1, <1>2, ChargeSound
  <1>7. \A f \in Entries : /\ k.proc[f].pid = proc_table[f].pid
                           /\ k.proc[f].state = proc_table[f].state
                           /\ k.proc[f].sleep_time = proc_table[f].sleep_time
    BY <1>1, <1>2, ChargeSleepers
  <1>8. Sound(l, {}) /\ Loose(l) /\ l.status = "running"
    <2>1. /\ Sound(l, {}) /\ l.active = k.active /\ l.status = k.status
          /\ \A e \in Entries : l.proc[e].state = "ACTIVE" <=> k.proc[e].state = "ACTIVE"
      BY <1>2, <1>6, WalkSound
    <2> QED
      BY <1>6, <2>1 DEF Tight, Loose
  <1>9. /\ proc_table' = m.proc /\ queue' = m.queue /\ LeavesSleepers(l, m)
    <2>1. Commit(m)
      BY <1>2, <1>3, <1>8 DEF AfterHandler
    <2>2. LeavesSleepers(l, m)
      BY <1>2, <1>8, RunLeaves
    <2> QED
      BY <2>1, <2>2 DEF Commit
  <1>10. /\ s \in Seq(Nat) /\ E \in SUBSET Positions(s) /\ l.queue[SleepQ] = Rotate(s, E)
         /\ \A i \in Positions(s) : /\ Sleeper(k, i) \in Entries
                                    /\ k.proc[Sleeper(k, i)].state = "SLEEPING"
                                    /\ k.proc[Sleeper(k, i)].pid = s[i]
         /\ \A i, j \in Positions(s) : Sleeper(k, i) = Sleeper(k, j) => i = j
         /\ \A i \in R \cap E : l.proc[Sleeper(k, i)].state # "SLEEPING"
         /\ \A i \in R \ E :
               /\ l.proc[Sleeper(k, i)].state = "SLEEPING"
               /\ l.proc[Sleeper(k, i)].sleep_time = k.proc[Sleeper(k, i)].sleep_time - 1
         /\ \A i \in Positions(s) \ R : l.proc[Sleeper(k, i)] = k.proc[Sleeper(k, i)]
    BY <1>2, <1>4, <1>6, WalkSleepers
  <1>11. R \subseteq Positions(s)
    BY <1>4 DEF Reached, Positions
  <1>12. ASSUME NEW i \in Positions(s)
         PROVE  /\ g[i] = Sleeper(k, i) /\ g[i] \in Entries
                /\ proc_table[g[i]].state = "SLEEPING" /\ proc_table[g[i]].pid = s[i]
                /\ g[i] \in SkippedByTick <=> i \notin R
                /\ g[i] \in WokenByTick <=> i \in R \cap E
    <2>1. g[i] = Sleeper(k, i) /\ g[i] \in Entries
      BY <1>5, <1>10
    <2>2. /\ proc_table[g[i]].state = "SLEEPING" /\ proc_table[g[i]].pid = s[i]
          /\ k.proc[g[i]].state = "SLEEPING"
          /\ k.proc[g[i]].sleep_time = proc_table[g[i]].sleep_time
          /\ proc_table[g[i]].sleep_time \in Int
      <3>1. k.proc[g[i]] \in PCB
        BY <1>6, <2>1, SoundRead
      <3> QED
        BY <1>7, <1>10, <2>1, <3>1 DEF PCB
    <2>3. l.proc[g[i]].state = "SLEEPING" =>
             /\ proc_table'[g[i]].state = "SLEEPING"
             /\ proc_table'[g[i]].sleep_time = l.proc[g[i]].sleep_time
      BY <1>9, <2>1 DEF LeavesSleepers, SleepOn
    <2>4. l.proc[g[i]].state # "SLEEPING" => proc_table'[g[i]].state # "SLEEPING"
      BY <1>9, <2>1 DEF LeavesSleepers
    <2>5. CASE i \notin R
      <3>1. l.proc[g[i]] = k.proc[g[i]]
        BY <1>10, <2>1, <2>5
      <3> QED
        BY <2>1, <2>2, <2>3, <2>5, <3>1 DEF SkippedByTick, WokenByTick, SleepsOn
    <2>6. CASE i \in R \cap E
      <3>1. l.proc[g[i]].state # "SLEEPING"
        BY <1>10, <2>1, <2>6
      <3> QED
        BY <2>1, <2>2, <2>4, <2>6, <3>1 DEF SkippedByTick, WokenByTick, SleepsOn
    <2>7. CASE i \in R \ E
      <3>1. /\ l.proc[g[i]].state = "SLEEPING"
            /\ l.proc[g[i]].sleep_time = k.proc[g[i]].sleep_time - 1
        BY <1>10, <2>1, <2>7
      <3>2. proc_table'[g[i]].sleep_time # proc_table[g[i]].sleep_time
        BY <2>2, <2>3, <3>1
      <3> QED
        BY <2>1, <2>2, <2>3, <2>7, <3>1, <3>2 DEF SkippedByTick, WokenByTick, SleepsOn
    <2> QED
      BY <2>1, <2>2, <2>5, <2>6, <2>7
  <1>13. ASSUME NEW e \in Entries, proc_table[e].state = "SLEEPING"
         PROVE  \E i \in Positions(s) : g[i] = e
    <2>1. k.proc[e].state = "SLEEPING"
      BY <1>7, <1>13
    <2>2. \E i \in Positions(s) : Sleeper(k, i) = e
      BY <1>4, <1>6, <2>1, AsleepQueued
    <2> QED
      BY <1>12, <2>2
  <1>14. g \in [Positions(s) -> Entries] /\ \A i, j \in Positions(s) : g[i] = g[j] => i = j
    BY <1>5, <1>10, <1>12
  <1>15. queue'[SleepQ] = Rotate(s, E)
    BY <1>9, <1>10 DEF LeavesSleepers
  <1>16. \A e \in SkippedByTick \cup WokenByTick : e \in Entries /\ proc_table[e].state = "SLEEPING"
    BY DEF SkippedByTick, WokenByTick, SleepsOn
  <1>17. \A e \in Entries :
            /\ e \in SkippedByTick <=> \E i \in Positions(s) \ Reached(s, E) : g[i] = e
            /\ e \in WokenByTick <=> \E i \in Reached(s, E) \cap E : g[i] = e
    <2> SUFFICES ASSUME NEW e \in Entries
                 PROVE  /\ e \in SkippedByTick <=> \E i \in Positions(s) \ R : g[i] = e
                        /\ e \in WokenByTick <=> \E i \in R \cap E : g[i] = e
      BY <1>4
    <2>1. CASE proc_table[e].state = "SLEEPING"
      <3>1. PICK i \in Positions(s) : g[i] = e
        BY <1>13, <2>1
      <3>2. \A j \in Positions(s) : g[j] = e => j = i
        BY <1>14, <3>1
      <3>3. (e \in SkippedByTick <=> i \notin R) /\ (e \in WokenByTick <=> i \in R \cap E)
        BY <1>12, <3>1
      <3> QED
        BY <1>11, <3>1, <3>2, <3>3
    <2>2. CASE proc_table[e].state # "SLEEPING"
      <3>1. \A j \in Positions(s) : g[j] # e
        BY <1>12, <2>2
      <3> QED
        BY <1>11, <1>16, <2>2, <3>1
    <2> QED
      BY <2>1, <2>2
  <1>18. \A i \in Positions(s) : proc_table[g[i]].pid = s[i]
    BY <1>12
  <1> QED
    <2>1. Ticks(s, E, g)
      BY <1>14, <1>15, <1>17, <1>18 DEF Ticks
    <2> QED
      BY <1>10, <1>14, <2>1

\* Whatever the number of processes, of ticks they asked for and of kernel
\* entries before: a tick misses at most as many sleepers as it wakes, and the
\* ones it missed are in front of the sleep queue for the next tick (the
\* counting loop of scheduler_timer over a queue that gets shorter under it).
THEOREM SkippedGoFirst == Spec => SkippedSleepersGoFirst
  <1>1. ASSUME Inv({}), TimerInterrupt
        PROVE  /\ Cardinality(SkippedByTick) <= Cardinality(WokenByTick)
               /\ {queue'[SleepQ][i] : i \in 1 .. Cardinality(SkippedByTick)}
                    = {proc_table[e].pid : e \in SkippedByTick}
    <2>a. PICK s \in Seq(Nat) : \E E \in SUBSET Positions(s) :
              \E g \in [Positions(s) -> Entries] : Ticks(s, E, g)
      BY <1>1, TimerStep
    <2>b. PICK E \in SUBSET Positions(s) : \E g \in [Positions(s) -> Entries] : Ticks(s, E, g)
      BY <2>a
    <2>c. PICK g \in [Positions(s) -> Entries] : Ticks(s, E, g)
      BY <2>b
    <2>1. /\ queue'[SleepQ] = Rotate(s, E)
          /\ \A i, j \in Positions(s) : g[i] = g[j] => i = j
          /\ \A i \in Positions(s) : proc_table[g[i]].pid = s[i]
          /\ \A e \in Entries :
                /\ e \in SkippedByTick <=> \E i \in Positions(s) \ Reached(s, E) : g[i] = e
                /\ e \in WokenByTick <=> \E i \in Reached(s, E) \cap E : g[i] = e
      BY <2>c DEF Ticks
    <2> DEFINE M == Positions(s) \ Reached(s, E)
               V == Reached(s, E) \cap E
               A == SkippedByTick
               B == WokenByTick
    <2>2. M \in SUBSET Positions(s) /\ V \in SUBSET Positions(s)
      BY DEF Reached, Positions
    <2>3. IsFiniteSet(M) /\ IsFiniteSet(V)
      <3>1. Len(s) \in Nat /\ Positions(s) = 1 .. Len(s)
        BY DEF Positions
      <3> HIDE DEF M, V
      <3> QED
        BY <2>2, <3>1, PositionsFinite
    <2>4. A \subseteq Entries /\ B \subseteq Entries
      BY DEF SkippedByTick, WokenByTick
    <2>5. (\A e \in Entries : e \in A <=> \E i \in M : g[i] = e)
          /\ (\A e \in Entries : e \in B <=> \E i \in V : g[i] = e)
      BY <2>1
    <2>6. Cardinality(M) <= Cardinality(V)
      BY MissedAreFew
    <2>7. {Rotate(s, E)[i] : i \in 1 .. Cardinality(M)} = {s[i] : i \in M}
      <3>1. M = Positions(s) \ Reached(s, E)
        OBVIOUS
      <3> HIDE DEF M
      <3>2. FrontIs(Rotate(s, E), Cardinality(M), s, M)
        BY <3>1, MissedFirst
      <3> QED
        BY <3>2 DEF FrontIs
    <2> HIDE DEF M, V, A, B
    <2>8. Cardinality(A) = Cardinality(M)
      <3> DEFINE h == [i \in M |-> g[i]]
      <3>1. h \in [M -> A]
        BY <2>1, <2>2, <2>5
      <3>2. \A i, j \in M : h[i] = h[j] => i = j
        BY <2>1, <2>2
      <3>3. \A y \in A : \E i \in M : h[i] = y
        BY <2>4, <2>5
      <3> HIDE DEF h
      <3> QED
        BY <2>3, <3>1, <3>2, <3>3, SameSize
    <2>9. Cardinality(B) = Cardinality(V)
      <3> DEFINE h == [i \in V |-> g[i]]
      <3>1. h \in [V -> B]
        BY <2>1, <2>2, <2>5
      <3>2. \A i, j \in V : h[i] = h[j] => i = j
        BY <2>1, <2>2
      <3>3. \A y \in B : \E i \in V : h[i] = y
        BY <2>4, <2>5
      <3> HIDE DEF h
      <3> QED
        BY <2>3, <3>1, <3>2, <3>3, SameSize
    <2>10. {s[i] : i \in M} = {proc_table[e].pid : e \in A}
      <3>1. ASSUME NEW y \in {s[i] : i \in M} PROVE y \in {proc_table[e].pid : e \in A}
        <4>1. PICK i \in M : y = s[i]
          OBVIOUS
        <4>2. g[i] \in A /\ proc_table[g[i]].pid = y
          BY <2>1, <2>2, <2>5, <4>1
        <4> QED
          BY <4>2
      <3>2. ASSUME NEW y \in {proc_table[e].pid : e \in A} PROVE y \in {s[i] : i \in M}
        <4>1. PICK e \in A : y = proc_table[e].pid
          OBVIOUS
        <4>2. PICK i \in M : g[i] = e
          BY <2>4, <2>5
        <4>3. y = s[i]
          BY <2>1, <2>2, <4>1, <4>2
        <4> QED
          BY <4>3
      <3> QED
        BY <3>1, <3>2, Zenon
    <2>11. Cardinality(A) <= Cardinality(B)
      BY <2>6, <2>8, <2>9
    <2>12. {queue'[SleepQ][i] : i \in 1 .. Cardinality(A)} = {proc_table[e].pid : e \in A}
      <3>1. queue'[SleepQ] = Rotate(s, E)
        BY <2>1
      <3>2. {queue'[SleepQ][i] : i \in 1 .. Cardinality(A)}
              = {Rotate(s, E)[i] : i \in 1 .. Cardinality(M)}
        BY ONLY <3>1, <2>8, Zenon
      <3> QED
        BY ONLY <3>2, <2>7, <2>10, Zenon
    <2> QED
      BY <2>11, <2>12 DEF A, B
  <1>2. Inv({}) /\ [Next]_vars =>
           [TimerInterrupt =>
              LET n == Cardinality(SkippedByTick)
              IN  /\ n <= Cardinality(WokenByTick)
                  /\ {queue'[SleepQ][i] : i \in 1 .. n}
                       = {proc_table[e].pid : e \in SkippedByTick}]_vars
    BY <1>1
  <1> QED
    BY <1>2, SafeAlways, PTL DEF Spec, SkippedSleepersGoFirst
=============================================================================
