------------------------------- MODULE KQueue -------------------------------
(***************************************************************************)
(* The circular queue of queue.c, which holds the run queue, the sleep     *)
(* queue, the wait queues and every allocator of the kernel.               *)
(***************************************************************************)
EXTENDS Integers, Sequences

CONSTANTS
    QUEUE_SIZE,     \* slots of the array (32)
    Items           \* values that are queued

ASSUME QueueAssumption == QUEUE_SIZE \in Nat \ {0} /\ Items \subseteq Int

VARIABLES
    items,      \* the array
    head,       \* slot of the oldest item
    tail,       \* slot the next item goes to
    size,       \* number of items
    item,       \* *item after the last successful queue_out
    rc          \* return value of the last call

qvars == <<items, head, tail, size, item, rc>>

Slots == 0 .. (QUEUE_SIZE - 1)

NextSlot(slot) == IF slot + 1 = QUEUE_SIZE THEN 0 ELSE slot + 1

queue_init ==
    /\ items = [s \in Slots |-> 0]
    /\ head = 0
    /\ tail = 0
    /\ size = 0
    /\ item = 0
    /\ rc = 0

queue_in(i) ==
    \/ /\ size = QUEUE_SIZE
       /\ rc' = -1
       /\ UNCHANGED <<items, head, tail, size, item>>
    \/ /\ size # QUEUE_SIZE
       /\ items' = [items EXCEPT ![tail] = i]
       /\ tail' = NextSlot(tail)
       /\ size' = size + 1
       /\ rc' = 0
       /\ UNCHANGED <<head, item>>

\* Mutant: the head is cleared before it is read.
queue_outClearedFirst ==
    \/ /\ size = 0
       /\ rc' = -1
       /\ UNCHANGED <<items, head, tail, size, item>>
    \/ /\ size # 0
       /\ item' = 0
       /\ items' = [items EXCEPT ![head] = 0]
       /\ head' = NextSlot(head)
       /\ size' = size - 1
       /\ rc' = 0
       /\ UNCHANGED tail

\* Mutant: the slot is not cleared.
queue_outUncleared ==
    \/ /\ size = 0
       /\ rc' = -1
       /\ UNCHANGED <<items, head, tail, size, item>>
    \/ /\ size # 0
       /\ item' = items[head]
       /\ head' = NextSlot(head)
       /\ size' = size - 1
       /\ rc' = 0
       /\ UNCHANGED <<items, tail>>

queue_out ==
    \/ /\ size = 0
       /\ rc' = -1
       /\ UNCHANGED <<items, head, tail, size, item>>
    \/ /\ size # 0
       /\ item' = items[head]
       /\ items' = [items EXCEPT ![head] = 0]
       /\ head' = NextSlot(head)
       /\ size' = size - 1
       /\ rc' = 0
       /\ UNCHANGED tail

QueueNext == queue_out \/ \E i \in Items : queue_in(i)

QueueSpec == queue_init /\ [][QueueNext]_qvars

-----------------------------------------------------------------------------
\* The slot of the n-th item, counted from 1.
SlotOf(n) ==
    IF head + n - 1 < QUEUE_SIZE THEN head + n - 1 ELSE head + n - 1 - QUEUE_SIZE

\* The variables have the types of queue.h.
QueueTypeOK ==
    /\ items \in [Slots -> Int]
    /\ head \in Slots
    /\ tail \in Slots
    /\ size \in 0 .. QUEUE_SIZE
    /\ item \in Int
    /\ rc \in {-1, 0}

\* The three counters of the array agree: the tail is size slots after the head,
\* around the end of the array, so that a full queue (tail = head) and an empty
\* one (tail = head) are told apart by size alone.  Slots in between are clear.
CountersAgree ==
    /\ \/ tail = head + size
       \/ tail = head + size - QUEUE_SIZE
    /\ \A s \in Slots : (\A n \in 1 .. size : s # SlotOf(n)) => items[s] = 0

\* The queue implements a bounded FIFO queue with QUEUE_SIZE places.
Fifo == INSTANCE BoundedFifo WITH
    Capacity <- QUEUE_SIZE,
    Values <- Items,
    contents <- [n \in 1 .. size |-> items[SlotOf(n)]],
    taken <- item,
    answer <- rc

ImplementsBoundedFifo == Fifo!FifoSpec
=============================================================================
