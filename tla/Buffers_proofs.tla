---------------------------- MODULE Buffers_proofs ----------------------------
(***************************************************************************)
(* Proofs about the two buffers.  The circular queue and the loops over it,*)
(* for every QUEUE_SIZE, every set of items and every set of items that    *)
(* leave; the ring buffer, for every RINGBUF_SIZE, every set of bytes and  *)
(* blocks, and every part that a flush leaves uncleared.                   *)
(***************************************************************************)
EXTENDS ShrinkingLoop, RingBuf, QueueWalk_proofs

-----------------------------------------------------------------------------
(***************************************************************************)
(* The circular queue, kqueue.c.                                           *)
(***************************************************************************)

QueueInv == QueueTypeOK /\ CountersAgree

-----------------------------------------------------------------------------
\* The slots of different items differ, and the tail is the slot of the item
\* that would come next.
LEMMA SlotsDistinct ==
    ASSUME QueueTypeOK
    PROVE  /\ \A n \in 1 .. (size + 1) : SlotOf(n) \in Slots
           /\ \A m, n \in 1 .. QUEUE_SIZE : SlotOf(m) = SlotOf(n) => m = n
  BY QueueAssumption DEF QueueTypeOK, SlotOf, Slots

LEMMA TailIsNext ==
    ASSUME QueueInv, size < QUEUE_SIZE
    PROVE  tail = SlotOf(size + 1)
  BY QueueAssumption DEF QueueInv, QueueTypeOK, CountersAgree, SlotOf, Slots

LEMMA QueueInInv ==
    ASSUME QueueInv, NEW i \in Int, queue_in(i)
    PROVE  QueueInv'
  <1>1. CASE size = QUEUE_SIZE
    BY <1>1 DEF QueueInv, queue_in, QueueTypeOK, CountersAgree, SlotOf
  <1>2. CASE size # QUEUE_SIZE
    <2> size < QUEUE_SIZE /\ size \in Nat
      BY <1>2, QueueAssumption DEF QueueInv, QueueTypeOK
    <2>1. /\ items' = [items EXCEPT ![tail] = i]
          /\ tail' = NextSlot(tail)
          /\ size' = size + 1
          /\ head' = head
          /\ item' = item
          /\ rc' = 0
      BY <1>2 DEF queue_in
    <2>2. QueueTypeOK'
      BY <2>1, QueueAssumption DEF QueueInv, QueueTypeOK, NextSlot, Slots
    <2>3. tail' = head' + size' \/ tail' = head' + size' - QUEUE_SIZE
      BY <2>1, QueueAssumption
      DEF QueueInv, QueueTypeOK, CountersAgree, NextSlot, Slots
    <2>4. ASSUME NEW s \in Slots, \A n \in 1 .. size' : s # SlotOf(n)'
          PROVE  items'[s] = 0
      <3>1. \A n \in 1 .. (size + 1) : s # SlotOf(n)
        BY <2>1, <2>4 DEF SlotOf
      <3>2. s # tail
        BY <3>1, TailIsNext
      <3>3. \A n \in 1 .. size : s # SlotOf(n)
        BY <3>1
      <3> QED
        BY <2>1, <3>2, <3>3 DEF QueueInv, QueueTypeOK, CountersAgree
    <2> QED
      BY <2>2, <2>3, <2>4 DEF QueueInv, CountersAgree
  <1> QED
    BY <1>1, <1>2

LEMMA QueueOutInv ==
    ASSUME QueueInv, queue_out
    PROVE  QueueInv'
  <1>1. CASE size = 0
    BY <1>1 DEF QueueInv, queue_out, QueueTypeOK, CountersAgree, SlotOf
  <1>2. CASE size # 0
    <2> size \in 1 .. QUEUE_SIZE /\ head \in Slots
      BY <1>2, QueueAssumption DEF QueueInv, QueueTypeOK
    <2>1. /\ item' = items[head]
          /\ items' = [items EXCEPT ![head] = 0]
          /\ head' = NextSlot(head)
          /\ size' = size - 1
          /\ tail' = tail
          /\ rc' = 0
      BY <1>2 DEF queue_out
    <2>2. QueueTypeOK'
      BY <2>1, QueueAssumption DEF QueueInv, QueueTypeOK, NextSlot, Slots
    <2>3. tail' = head' + size' \/ tail' = head' + size' - QUEUE_SIZE
      BY <2>1, QueueAssumption
      DEF QueueInv, QueueTypeOK, CountersAgree, NextSlot, Slots
    <2>4. ASSUME NEW s \in Slots, \A n \in 1 .. size' : s # SlotOf(n)'
          PROVE  items'[s] = 0
      <3>1. CASE s = head
        BY <3>1, <2>1 DEF QueueInv, QueueTypeOK
      <3>2. CASE s # head
        <4>1. ASSUME NEW n \in 1 .. size PROVE s # SlotOf(n)
          <5>1. CASE n = 1
            BY <5>1, <3>2, QueueAssumption DEF SlotOf, Slots
          <5>2. CASE n # 1
            <6>1. n - 1 \in 1 .. size'
              BY <5>2, <2>1, QueueAssumption
            <6>2. SlotOf(n) = SlotOf(n - 1)'
              BY <6>1, <5>2, <2>1, QueueAssumption DEF SlotOf, NextSlot, Slots
            <6> QED
              BY <6>1, <6>2, <2>4
          <5> QED
            BY <5>1, <5>2
        <4> QED
          BY <4>1, <3>2, <2>1 DEF QueueInv, QueueTypeOK, CountersAgree
      <3> QED
        BY <3>1, <3>2
    <2> QED
      BY <2>2, <2>3, <2>4 DEF QueueInv, CountersAgree
  <1> QED
    BY <1>1, <1>2

\* The indexes stay in the array and agree with size, and the slots without an
\* item stay clear, for every sequence of calls.
THEOREM QueueInvariant == QueueSpec => [](QueueTypeOK /\ CountersAgree)
  <1>1. queue_init => QueueInv
    BY QueueAssumption
    DEF queue_init, QueueInv, QueueTypeOK, CountersAgree, SlotOf, Slots
  <1>2. QueueInv /\ [QueueNext]_qvars => QueueInv'
    <2> SUFFICES ASSUME QueueInv, [QueueNext]_qvars PROVE QueueInv'
      OBVIOUS
    <2>1. CASE queue_out
      BY <2>1, QueueOutInv
    <2>2. ASSUME NEW i \in Items, queue_in(i) PROVE QueueInv'
      BY <2>2, QueueInInv, QueueAssumption
    <2>3. CASE UNCHANGED qvars
      BY <2>3 DEF qvars, QueueInv, QueueTypeOK, CountersAgree, SlotOf
    <2> QED
      BY <2>1, <2>2, <2>3 DEF QueueNext
  <1> QED
    BY <1>1, <1>2, PTL DEF QueueSpec, QueueInv

-----------------------------------------------------------------------------
\* The abstract contents of a state of the array.
Held == [n \in 1 .. size |-> items[SlotOf(n)]]

LEMMA HeldIsSequence ==
    ASSUME QueueInv
    PROVE  Held \in Seq(Int) /\ Len(Held) = size
  BY QueueAssumption, SlotsDistinct DEF QueueInv, QueueTypeOK, Held

\* Writing the tail slot appends; clearing the head slot removes the first.
LEMMA QueueInAppends ==
    ASSUME QueueInv, NEW i \in Int, queue_in(i), size < QUEUE_SIZE
    PROVE  Held' = Append(Held, i)
  <1> size \in Nat /\ size # QUEUE_SIZE /\ QueueTypeOK
    BY QueueAssumption DEF QueueInv, QueueTypeOK
  <1>1. /\ items' = [items EXCEPT ![tail] = i]
        /\ size' = size + 1
        /\ head' = head
    BY DEF queue_in
  <1>2. \A n \in 1 .. (size + 1) : SlotOf(n)' = SlotOf(n)
    BY <1>1 DEF SlotOf
  <1>3. \A n \in 1 .. size : items'[SlotOf(n)] = items[SlotOf(n)]
    <2> TAKE n \in 1 .. size
    <2>1. SlotOf(n) # SlotOf(size + 1)
      BY SlotsDistinct, QueueAssumption
    <2> QED
      BY <2>1, <1>1, TailIsNext DEF QueueTypeOK
  <1>4. items'[SlotOf(size + 1)] = i
    BY <1>1, TailIsNext DEF QueueTypeOK
  <1>5. Held' = [n \in 1 .. (size + 1) |-> items'[SlotOf(n)]]
    BY <1>1, <1>2 DEF Held
  <1>6. Held' \in Seq(Int) /\ Len(Held') = size + 1
    <2>1. QueueTypeOK' /\ \A n \in 1 .. (size + 1) : SlotOf(n) \in Slots
      BY QueueInInv, SlotsDistinct DEF QueueInv
    <2>2. \A n \in 1 .. (size + 1) : items'[SlotOf(n)] \in Int
      BY <2>1 DEF QueueTypeOK
    <2> QED
      BY <1>5, <2>2
  <1>7. /\ Held \in Seq(Int) /\ Len(Held) = size
        /\ \A n \in 1 .. size : Held[n] = items[SlotOf(n)]
    BY HeldIsSequence DEF Held
  <1>8. /\ Append(Held, i) \in Seq(Int)
        /\ Len(Append(Held, i)) = size + 1
        /\ Append(Held, i)[size + 1] = i
        /\ \A n \in 1 .. size : Append(Held, i)[n] = Held[n]
    BY <1>7, AppendProperties
  <1>9. \A n \in 1 .. (size + 1) : Held'[n] = Append(Held, i)[n]
    <2> SUFFICES ASSUME NEW n \in 1 .. (size + 1)
                 PROVE  Held'[n] = Append(Held, i)[n]
      OBVIOUS
    <2>1. CASE n = size + 1
      BY <2>1, <1>4, <1>5, <1>8
    <2>2. CASE n \in 1 .. size
      BY <2>2, <1>3, <1>5, <1>7, <1>8
    <2>3. n = size + 1 \/ n \in 1 .. size
      OBVIOUS
    <2> QED
      BY <2>1, <2>2, <2>3
  <1> QED
    BY <1>6, <1>8, <1>9, SeqEqual

LEMMA QueueOutRemoves ==
    ASSUME QueueInv, queue_out, size # 0
    PROVE  Held # <<>> /\ item' = Head(Held) /\ Held' = Tail(Held)
  <1> size \in 1 .. QUEUE_SIZE /\ QueueTypeOK /\ head \in Slots
    BY QueueAssumption DEF QueueInv, QueueTypeOK
  <1>1. /\ item' = items[head]
        /\ items' = [items EXCEPT ![head] = 0]
        /\ head' = NextSlot(head)
        /\ size' = size - 1
    BY DEF queue_out
  <1>2. SlotOf(1) = head
    BY QueueAssumption DEF SlotOf, Slots
  <1>3. \A n \in 1 .. (size - 1) : SlotOf(n)' = SlotOf(n + 1)
    BY <1>1, QueueAssumption DEF SlotOf, NextSlot, Slots
  <1>4. \A n \in 1 .. (size - 1) : items'[SlotOf(n + 1)] = items[SlotOf(n + 1)]
    <2> TAKE n \in 1 .. (size - 1)
    <2>1. SlotOf(n + 1) # SlotOf(1)
      BY SlotsDistinct, QueueAssumption
    <2> QED
      BY <2>1, <1>1, <1>2 DEF QueueTypeOK
  <1>5. Held' = [n \in 1 .. (size - 1) |-> items[SlotOf(n + 1)]]
    BY <1>1, <1>3, <1>4 DEF Held
  <1>6. /\ Held \in Seq(Int) /\ Len(Held) = size /\ Held # <<>>
        /\ \A n \in 1 .. size : Held[n] = items[SlotOf(n)]
    BY HeldIsSequence DEF Held
  <1>7. /\ Head(Held) = Held[1]
        /\ Tail(Held) \in Seq(Int)
        /\ Len(Tail(Held)) = size - 1
        /\ \A n \in 1 .. (size - 1) : Tail(Held)[n] = Held[n + 1]
    BY <1>6, HeadTailProperties
  <1>8. Held' \in Seq(Int) /\ Len(Held') = size - 1
    <2>1. \A n \in 1 .. (size - 1) : items[SlotOf(n + 1)] \in Int
      BY SlotsDistinct DEF QueueTypeOK
    <2> QED
      BY <1>5, <2>1
  <1>9. \A n \in 1 .. (size - 1) : Held'[n] = Tail(Held)[n]
    BY <1>5, <1>6, <1>7
  <1>10. Held' = Tail(Held)
    BY <1>7, <1>8, <1>9, SeqEqual
  <1> QED
    BY <1>1, <1>2, <1>6, <1>7, <1>10

\* queue.c implements a bounded FIFO queue: the indexes, the clearing and the
\* wrap-around are invisible, and the return values are the abstract ones.
THEOREM QueueImplementsFifo == QueueSpec => ImplementsBoundedFifo
  <1>1. queue_init => Fifo!FifoInit
    BY DEF queue_init, Fifo!FifoInit
  <1>2. QueueInv /\ [QueueNext]_qvars => [Fifo!FifoNext]_(Fifo!fifoVars)
    <2> SUFFICES ASSUME QueueInv, [QueueNext]_qvars
                 PROVE  [Fifo!FifoNext]_(Fifo!fifoVars)
      OBVIOUS
    <2> /\ Held \in Seq(Int) /\ Len(Held) = size
        /\ size \in 0 .. QUEUE_SIZE
      BY HeldIsSequence DEF QueueInv, QueueTypeOK
    <2>1. CASE queue_out /\ size # 0
      <3>1. Held # <<>> /\ item' = Head(Held) /\ Held' = Tail(Held) /\ rc' = 0
        BY <2>1, QueueOutRemoves DEF queue_out
      <3> QED
        BY <3>1 DEF Held, Fifo!FifoNext, Fifo!Get
    <2>2. CASE queue_out /\ size = 0
      <3>1. UNCHANGED <<items, head, size, item>> /\ rc' = -1
        BY <2>2 DEF queue_out
      <3>2. Held' = Held /\ Held = <<>>
        BY <3>1, <2>2 DEF Held, SlotOf
      <3> QED
        BY <3>1, <3>2 DEF Held, Fifo!FifoNext, Fifo!Get
    <2>3. ASSUME NEW i \in Items, queue_in(i), size < QUEUE_SIZE
          PROVE  Fifo!FifoNext
      <3>1. Held' = Append(Held, i) /\ rc' = 0 /\ item' = item
        BY <2>3, QueueInAppends, QueueAssumption DEF queue_in
      <3> QED
        BY <2>3, <3>1 DEF Held, Fifo!FifoNext, Fifo!Put
    <2>4. ASSUME NEW i \in Items, queue_in(i), size = QUEUE_SIZE
          PROVE  Fifo!FifoNext
      <3>1. UNCHANGED <<items, head, size, item>> /\ rc' = -1
        BY <2>4 DEF queue_in
      <3>2. Held' = Held
        BY <3>1 DEF Held, SlotOf
      <3> QED
        BY <2>4, <3>1, <3>2 DEF Held, Fifo!FifoNext, Fifo!Put
    <2>5. CASE UNCHANGED qvars
      BY <2>5 DEF qvars, Fifo!fifoVars, SlotOf
    <2> QED
      BY <2>1, <2>2, <2>3, <2>4, <2>5, QueueAssumption DEF QueueNext
  <1>3. QueueSpec => [](QueueTypeOK /\ CountersAgree)
    BY QueueInvariant
  <1> QED
    BY <1>1, <1>2, <1>3, PTL
    DEF QueueSpec, QueueInv, ImplementsBoundedFifo, Fifo!FifoSpec

-----------------------------------------------------------------------------
(***************************************************************************)
(* The loops of scheduler_timer and scheduler_remove leave in the array    *)
(* what their closed form says.                                            *)
(***************************************************************************)

LEMMA ContentsAreHeld == Contents = Held
  BY DEF Contents, Held

\* At the loop condition, counter items have been taken out; before queue_in, one more.
AtTest ==
    /\ counter \in 0 .. Len(original)
    /\ seen = 1 .. counter
    /\ seen \subseteq Reached(original, leaving)
    /\ Held = Turned(original, leaving, counter)

AtPut ==
    /\ counter \in 0 .. (Len(original) - 1)
    /\ counter + 1 \notin leaving
    /\ seen = 1 .. (counter + 1)
    /\ seen \subseteq Reached(original, leaving)
    /\ size < QUEUE_SIZE
    /\ item = original[counter + 1]
    /\ Held = Tail(Turned(original, leaving, counter))

LoopInv ==
    /\ QueueInv
    /\ original \in Seq(Int)
    /\ leaving \in SUBSET Positions(original)
    /\ \/ pc = "use" /\ counter = 0 /\ seen = {}
       \/ pc = "test" /\ AtTest
       \/ pc = "put" /\ AtPut

LEMMA StartKeepsLoop ==
    ASSUME LoopInv, StartLoop
    PROVE  LoopInv'
  <1>1. /\ pc = "use" /\ counter = 0 /\ seen = {} /\ QueueInv
        /\ Held \in Seq(Int) /\ Len(Held) = size /\ size \in Nat
    BY HeldIsSequence, QueueAssumption DEF LoopInv, StartLoop, QueueInv, QueueTypeOK
  <1>2. /\ pc' = "test" /\ counter' = 0 /\ seen' = {} /\ UNCHANGED qvars
        /\ original' = Held /\ leaving' \in SUBSET (1 .. size)
    BY <1>1, ContentsAreHeld DEF StartLoop
  <1>3. QueueInv' /\ Held' = Held
    BY <1>1, <1>2 DEF qvars, QueueInv, QueueTypeOK, CountersAgree, SlotOf, Held
  <1>4. /\ original' \in Seq(Int) /\ leaving' \in SUBSET Positions(original')
        /\ Len(original') \in Nat
    BY <1>1, <1>2 DEF Positions
  <1>5. Held' = Turned(original', leaving', 0)
    BY <1>2, <1>3, <1>4, TurnedNone
  <1>6. AtTest'
    BY <1>2, <1>4, <1>5 DEF AtTest
  <1> QED
    BY <1>2, <1>3, <1>4, <1>6 DEF LoopInv

LEMMA TakeOutKeepsLoop ==
    ASSUME LoopInv, TakeOut
    PROVE  LoopInv'
  <1> DEFINE c == counter
             t == Turned(original, leaving, c)
  <1>1. /\ pc = "test" /\ c < size /\ queue_out /\ UNCHANGED <<original, leaving>>
        /\ seen' = seen \cup {c + 1}
        /\ c + 1 \in leaving => pc' = "test" /\ counter' = c + 1
        /\ c + 1 \notin leaving => pc' = "put" /\ counter' = c
    BY DEF TakeOut, LoopTest
  <1>2. /\ QueueInv /\ original \in Seq(Int) /\ leaving \in SUBSET Positions(original)
        /\ AtTest
    BY <1>1 DEF LoopInv
  <1>3. /\ c \in 0 .. Len(original) /\ seen = 1 .. c
        /\ seen \subseteq Reached(original, leaving)
        /\ Held = t /\ Len(Held) = size /\ size \in 0 .. QUEUE_SIZE
        /\ Len(original) \in Nat
    BY <1>2, HeldIsSequence DEF AtTest, QueueInv, QueueTypeOK
  <1>4. c < Len(original) /\ c + 1 \in Reached(original, leaving)
    BY <1>1, <1>2, <1>3, ReachedNext
  <1>5. size # 0
    BY <1>1, <1>3
  <1>6. QueueInv' /\ item' = Head(Held) /\ Held' = Tail(Held) /\ size' = size - 1
    BY <1>1, <1>2, <1>5, QueueOutInv, QueueOutRemoves DEF queue_out
  <1>7. c \in 0 .. (Len(original) - 1) /\ c + 1 \in 0 .. Len(original)
    BY <1>3, <1>4
  <1>8. /\ Head(t) = original[c + 1]
        /\ c + 1 \in leaving => Turned(original, leaving, c + 1) = Tail(t)
    BY <1>2, <1>7, TurnedNext
  <1>9. seen' = 1 .. (c + 1) /\ seen' \subseteq Reached(original, leaving)
    <2>1. (1 .. c) \cup {c + 1} = 1 .. (c + 1)
      BY <1>3
    <2> QED
      BY <1>1, <1>3, <1>4, <2>1
  <1>10. size' < QUEUE_SIZE
    BY <1>3, <1>5, <1>6, QueueAssumption
  <1> HIDE DEF c, t
  <1>11. CASE c + 1 \in leaving
    <2>1. AtTest'
      BY <1>1, <1>3, <1>6, <1>7, <1>8, <1>9, <1>11 DEF AtTest
    <2> QED
      BY <1>1, <1>2, <1>6, <1>11, <2>1 DEF LoopInv
  <1>12. CASE c + 1 \notin leaving
    <2>1. AtPut'
      BY <1>1, <1>3, <1>6, <1>7, <1>8, <1>9, <1>10, <1>12 DEF AtPut, t
    <2> QED
      BY <1>1, <1>2, <1>6, <1>12, <2>1 DEF LoopInv
  <1> QED
    BY <1>11, <1>12

LEMMA PutBackKeepsLoop ==
    ASSUME LoopInv, PutBack
    PROVE  LoopInv'
  <1> DEFINE c == counter
             t == Turned(original, leaving, c)
  <1>1. /\ pc = "put" /\ queue_in(item) /\ pc' = "test" /\ counter' = c + 1
        /\ UNCHANGED <<original, leaving, seen>>
    BY DEF PutBack
  <1>2. /\ QueueInv /\ original \in Seq(Int) /\ leaving \in SUBSET Positions(original)
        /\ item \in Int /\ AtPut
    BY <1>1 DEF LoopInv, QueueInv, QueueTypeOK
  <1>3. /\ c \in 0 .. (Len(original) - 1) /\ c + 1 \notin leaving
        /\ seen = 1 .. (c + 1) /\ seen \subseteq Reached(original, leaving)
        /\ size < QUEUE_SIZE /\ item = original[c + 1] /\ Held = Tail(t)
        /\ Len(original) \in Nat
    BY <1>2 DEF AtPut
  <1>4. QueueInv' /\ Held' = Append(Held, item)
    BY <1>1, <1>2, <1>3, QueueInInv, QueueInAppends
  <1>5. Turned(original, leaving, c + 1) = Append(Tail(t), original[c + 1])
    BY <1>2, <1>3, TurnedNext
  <1>6. c + 1 \in 0 .. Len(original)
    BY <1>3
  <1> HIDE DEF c, t
  <1>7. AtTest'
    BY <1>1, <1>3, <1>4, <1>5, <1>6 DEF AtTest
  <1> QED
    BY <1>1, <1>2, <1>4, <1>7 DEF LoopInv

LEMMA EndKeepsLoop ==
    ASSUME LoopInv, EndLoop
    PROVE  LoopInv'
  <1>1. /\ pc' = "use" /\ counter' = 0 /\ original' = <<>> /\ leaving' = {} /\ seen' = {}
        /\ UNCHANGED qvars
    BY DEF EndLoop
  <1>2. QueueInv'
    BY <1>1 DEF LoopInv, qvars, QueueInv, QueueTypeOK, CountersAgree, SlotOf
  <1> QED
    BY <1>1, <1>2 DEF LoopInv, Positions

LEMMA UseKeepsLoop ==
    ASSUME LoopInv, UseQueue
    PROVE  LoopInv'
  <1>1. /\ pc = "use" /\ UNCHANGED <<pc, counter, original, leaving, seen>> /\ QueueInv
        /\ queue_out \/ \E i \in Items : queue_in(i)
    BY DEF UseQueue, QueueNext, LoopInv
  <1>2. QueueInv'
    BY <1>1, QueueOutInv, QueueInInv, QueueAssumption
  <1> QED
    BY <1>1, <1>2 DEF LoopInv

\* While a loop of the scheduler runs (scheduler.c:38, 147) the array holds the original
\* queue turned as far as the counter has come, without the items taken out.
THEOREM LoopInvariant == LoopSpec => []LoopInv
  <1>1. LoopInit => LoopInv
    <2> SUFFICES ASSUME LoopInit PROVE LoopInv
      OBVIOUS
    <2>1. QueueInv
      BY QueueAssumption
      DEF LoopInit, queue_init, QueueInv, QueueTypeOK, CountersAgree, SlotOf, Slots
    <2> QED
      BY <2>1 DEF LoopInit, LoopInv, Positions
  <1>2. LoopInv /\ [LoopNext]_lvars => LoopInv'
    <2> SUFFICES ASSUME LoopInv, [LoopNext]_lvars PROVE LoopInv'
      OBVIOUS
    <2>1. CASE UNCHANGED lvars
      <3>1. QueueInv' /\ Held' = Held
        BY <2>1 DEF LoopInv, lvars, qvars, QueueInv, QueueTypeOK, CountersAgree, SlotOf, Held
      <3> QED
        BY <2>1, <3>1 DEF LoopInv, lvars, qvars, AtTest, AtPut
    <2> QED
      BY <2>1, UseKeepsLoop, StartKeepsLoop, TakeOutKeepsLoop, PutBackKeepsLoop, EndKeepsLoop
      DEF LoopNext
  <1> QED
    BY <1>1, <1>2, PTL DEF LoopSpec

\* When a loop of the scheduler ends (scheduler.c:38, 147), the queue and the items it
\* has taken out are the ones of the closed form that Scheduler uses, for every size
\* of the array, every queue in it, and every set of items that are not put back.
THEOREM LoopsHaveClosedForm == LoopSpec => []ClosedForm
  <1>1. ASSUME LoopInv, Finished
        PROVE  /\ Contents = Rotate(original, leaving)
               /\ seen = Reached(original, leaving)
    <2>1. /\ pc = "test" /\ ~(counter < size) /\ AtTest /\ QueueInv
          /\ original \in Seq(Int) /\ leaving \in SUBSET Positions(original)
      BY <1>1 DEF Finished, LoopTest, LoopInv
    <2>2. /\ counter \in 0 .. Len(original) /\ seen = 1 .. counter
          /\ 1 .. counter \subseteq Reached(original, leaving)
          /\ Held = Turned(original, leaving, counter) /\ Len(Held) = size
      BY <2>1, HeldIsSequence DEF AtTest
    <2>3. /\ Reached(original, leaving) = 1 .. counter
          /\ Rotate(original, leaving) = Turned(original, leaving, counter)
      BY <2>1, <2>2, TurnedAll
    <2> QED
      BY <2>2, <2>3, ContentsAreHeld
  <1>2. LoopInv => ClosedForm
    BY <1>1 DEF ClosedForm
  <1> QED
    BY <1>2, LoopInvariant, PTL

-----------------------------------------------------------------------------
(***************************************************************************)
(* The ring buffer, ringbuf.c.                                             *)
(***************************************************************************)

RingInv == RingTypeOK /\ RingCountersAgree

Content == [i \in 1 .. buf_size |-> data[Wrap(buf_head + i - 1)]]

-----------------------------------------------------------------------------
\* The slots of the bytes, and what Distance says of them.
LEMMA SlotsOfBytes ==
    ASSUME RingInv, NEW i \in 1 .. RINGBUF_SIZE
    PROVE  /\ Wrap(buf_head + i - 1) \in BufSlots
           /\ i <= buf_size => Distance(buf_tail, Wrap(buf_head + i - 1)) >= RINGBUF_SIZE - buf_size
           /\ i > buf_size => Distance(buf_tail, Wrap(buf_head + i - 1)) = i - 1 - buf_size
  BY StreamAssumption DEF RingInv, RingTypeOK, RingCountersAgree, Wrap, Distance, BufSlots

LEMMA ContentIsSequence ==
    ASSUME RingInv
    PROVE  /\ Content \in Seq(Int)
           /\ Len(Content) = buf_size
           /\ buf_size \in 0 .. RINGBUF_SIZE
           /\ \A i \in 1 .. buf_size : Content[i] = data[Wrap(buf_head + i - 1)]
  <1>1. buf_size \in 0 .. RINGBUF_SIZE /\ data \in [BufSlots -> Int]
    BY DEF RingInv, RingTypeOK
  <1>2. \A i \in 1 .. buf_size : Wrap(buf_head + i - 1) \in BufSlots
    BY <1>1, SlotsOfBytes, StreamAssumption
  <1>3. \A i \in 1 .. buf_size : data[Wrap(buf_head + i - 1)] \in Int
    BY <1>1, <1>2
  <1> QED
    BY <1>1, <1>3 DEF Content

-----------------------------------------------------------------------------
\* A block that fits, written as ringbuf_write_mem writes it.
BlockStored(block) ==
    /\ data' = [s \in BufSlots |-> IF Distance(buf_tail, s) < Len(block)
                                   THEN block[Distance(buf_tail, s) + 1] ELSE data[s]]
    /\ buf_tail' = Wrap(buf_tail + Len(block))
    /\ buf_size' = buf_size + Len(block)
    /\ buf_head' = buf_head

LEMMA BlockKeepsInv ==
    ASSUME RingInv, NEW block \in Seq(Int), buf_size + Len(block) <= RINGBUF_SIZE,
           BlockStored(block), mem' = mem, buf_rc' = 0
    PROVE  RingInv'
  <1>1. /\ buf_size \in 0 .. RINGBUF_SIZE /\ buf_head \in BufSlots /\ buf_tail \in BufSlots
        /\ data \in [BufSlots -> Int] /\ Len(block) \in Nat
        /\ RINGBUF_SIZE \in Nat \ {0}
    BY StreamAssumption DEF RingInv, RingTypeOK
  <1>2. data' \in [BufSlots -> Int]
    <2> SUFFICES ASSUME NEW s \in BufSlots
                 PROVE  (IF Distance(buf_tail, s) < Len(block)
                         THEN block[Distance(buf_tail, s) + 1] ELSE data[s]) \in Int
      BY DEF BlockStored
    <2>1. Distance(buf_tail, s) \in Nat
      BY <1>1 DEF Distance, BufSlots
    <2>2. CASE Distance(buf_tail, s) < Len(block)
      <3>1. Distance(buf_tail, s) + 1 \in 1 .. Len(block)
        BY <1>1, <2>1, <2>2
      <3> QED
        BY <2>2, <3>1
    <2> QED
      BY <1>1, <2>2
  <1>3. buf_head' \in BufSlots /\ buf_tail' \in BufSlots /\ buf_size' \in 0 .. RINGBUF_SIZE
    BY <1>1 DEF BlockStored, Wrap, BufSlots
  <1>4. buf_tail' = Wrap(buf_head' + buf_size')
    BY <1>1 DEF BlockStored, Wrap, BufSlots, RingInv, RingCountersAgree
  <1>5. mem' \in Seq(Int) /\ buf_rc' \in -1 .. RINGBUF_SIZE
    BY <1>1 DEF RingInv, RingTypeOK
  <1>6. RingTypeOK'
    BY <1>2, <1>3, <1>5 DEF RingTypeOK, BufSlots
  <1>7. RingCountersAgree'
    BY <1>4 DEF RingCountersAgree, Wrap
  <1> QED
    BY <1>6, <1>7 DEF RingInv

LEMMA BlockAppends ==
    ASSUME RingInv, NEW block \in Seq(Int), buf_size + Len(block) <= RINGBUF_SIZE,
           BlockStored(block), mem' = mem, buf_rc' = 0
    PROVE  Content' = Content \o block
  <1>1. /\ buf_size \in 0 .. RINGBUF_SIZE /\ Len(block) \in Nat /\ RINGBUF_SIZE \in Nat
        /\ Content \in Seq(Int) /\ Len(Content) = buf_size
        /\ \A i \in 1 .. buf_size : Content[i] = data[Wrap(buf_head + i - 1)]
    BY ContentIsSequence, StreamAssumption
  <1>2. /\ Content' \in Seq(Int) /\ Len(Content') = buf_size + Len(block)
        /\ \A i \in 1 .. (buf_size + Len(block)) : Content'[i] = data'[Wrap(buf_head + i - 1)]
    <2>1. RingInv' /\ buf_size' = buf_size + Len(block) /\ buf_head' = buf_head
      BY BlockKeepsInv DEF BlockStored
    <2>2. data' \in [BufSlots -> Int] /\ buf_head \in BufSlots
      BY <2>1 DEF RingInv, RingTypeOK, BufSlots
    <2>3. Content' = [i \in 1 .. (buf_size + Len(block)) |-> data'[Wrap(buf_head + i - 1)]]
      BY <2>1 DEF Content, Wrap
    <2>4. \A i \in 1 .. (buf_size + Len(block)) : data'[Wrap(buf_head + i - 1)] \in Int
      <3> TAKE i \in 1 .. (buf_size + Len(block))
      <3>1. Wrap(buf_head + i - 1) \in BufSlots
        BY <1>1, <2>2 DEF Wrap, BufSlots
      <3> QED
        BY <2>2, <3>1
    <2> DEFINE total == buf_size + Len(block)
               byteAt(i) == data'[Wrap(buf_head + i - 1)]
    <2>5. total \in Nat /\ \A i \in 1 .. total : byteAt(i) \in Int
      BY <1>1, <2>4
    <2>6. Content' = [i \in 1 .. total |-> byteAt(i)]
      BY <2>3
    <2> HIDE DEF total, byteAt
    <2>7. /\ [i \in 1 .. total |-> byteAt(i)] \in Seq(Int)
          /\ Len([i \in 1 .. total |-> byteAt(i)]) = total
          /\ \A i \in 1 .. total : [j \in 1 .. total |-> byteAt(j)][i] = byteAt(i)
      BY <2>5
    <2>8. /\ Content' \in Seq(Int) /\ Len(Content') = total
          /\ \A i \in 1 .. total : (Content')[i] = byteAt(i)
      BY <2>6, <2>7
    <2> QED
      BY <2>8 DEF total, byteAt
  <1> DEFINE joined == Content \o block
  <1>3. /\ joined \in Seq(Int) /\ Len(joined) = buf_size + Len(block)
        /\ \A i \in 1 .. buf_size : joined[i] = Content[i]
        /\ \A i \in (buf_size + 1) .. (buf_size + Len(block)) : joined[i] = block[i - buf_size]
    <2>1. /\ joined \in Seq(Int) /\ Len(joined) = buf_size + Len(block)
          /\ \A i \in 1 .. (buf_size + Len(block)) :
                joined[i] = IF i <= buf_size THEN Content[i] ELSE block[i - buf_size]
      BY <1>1, ConcatProperties
    <2> HIDE DEF joined
    <2> QED
      BY <1>1, <2>1
  <1> HIDE DEF joined
  <1>4. ASSUME NEW i \in 1 .. (buf_size + Len(block)) PROVE Content'[i] = joined[i]
    <2>1. i \in 1 .. RINGBUF_SIZE
      BY <1>1
    <2> DEFINE slot == Wrap(buf_head + i - 1)
    <2>2. slot \in BufSlots
      BY <2>1, SlotsOfBytes
    <2>3. data'[slot] = IF Distance(buf_tail, slot) < Len(block)
                        THEN block[Distance(buf_tail, slot) + 1] ELSE data[slot]
      BY <2>2 DEF BlockStored
    <2>4. CASE i <= buf_size
      <3>1. Distance(buf_tail, slot) >= RINGBUF_SIZE - buf_size
        BY <2>1, <2>4, SlotsOfBytes
      <3>2. ~(Distance(buf_tail, slot) < Len(block))
        <4>1. Distance(buf_tail, slot) \in Int
          BY <2>2, <1>1 DEF Distance, BufSlots, RingInv, RingTypeOK
        <4> HIDE DEF slot
        <4> QED
          BY <3>1, <4>1, <1>1
      <3>3. i \in 1 .. buf_size
        BY <2>4, <1>1
      <3> QED
        BY <1>1, <1>2, <1>3, <2>3, <3>2, <3>3
    <2>5. CASE i > buf_size
      <3>1. Distance(buf_tail, slot) = i - 1 - buf_size
        BY <2>1, <2>5, SlotsOfBytes
      <3>2. data'[slot] = block[i - buf_size]
        <4> HIDE DEF slot
        <4>1. i - 1 - buf_size < Len(block) /\ (i - 1 - buf_size) + 1 = i - buf_size
          BY <1>1
        <4> QED
          BY <2>3, <3>1, <4>1
      <3>3. i \in (buf_size + 1) .. (buf_size + Len(block))
        BY <2>5, <1>1
      <3> QED
        BY <1>2, <1>3, <3>2, <3>3
    <2> QED
      BY <2>4, <2>5, <1>1
  <1>5. Content' = joined
    BY <1>2, <1>3, <1>4, SeqEqual
  <1> QED
    BY <1>5 DEF joined

\* ringbuf_write stores a block of one byte.
LEMMA ByteIsBlock ==
    ASSUME RingInv, NEW byte \in Int, ringbuf_write(byte), buf_size # RINGBUF_SIZE
    PROVE  BlockStored(<<byte>>) /\ mem' = mem /\ buf_rc' = 0
  <1>1. /\ data' = [data EXCEPT ![buf_tail] = byte] /\ buf_tail' = Wrap(buf_tail + 1)
        /\ buf_size' = buf_size + 1 /\ buf_rc' = 0 /\ buf_head' = buf_head /\ mem' = mem
    BY DEF ringbuf_write
  <1>2. data \in [BufSlots -> Int] /\ buf_tail \in BufSlots /\ RINGBUF_SIZE \in Nat
    BY StreamAssumption DEF RingInv, RingTypeOK
  <1>3. /\ Len(<<byte>>) = 1 /\ <<byte>>[1] = byte
    OBVIOUS
  <1>4. \A s \in BufSlots : /\ s = buf_tail => Distance(buf_tail, s) = 0
                            /\ s # buf_tail => ~(Distance(buf_tail, s) < 1)
    BY <1>2 DEF Distance, BufSlots
  <1>5. data' = [s \in BufSlots |-> IF Distance(buf_tail, s) < Len(<<byte>>)
                                    THEN <<byte>>[Distance(buf_tail, s) + 1] ELSE data[s]]
    <2>1. \A s \in BufSlots : data'[s] = IF Distance(buf_tail, s) < 1
                                         THEN <<byte>>[Distance(buf_tail, s) + 1] ELSE data[s]
      <3> TAKE s \in BufSlots
      <3>1. CASE s = buf_tail
        BY <3>1, <1>1, <1>2, <1>3, <1>4
      <3>2. CASE s # buf_tail
        BY <3>2, <1>1, <1>2, <1>4
      <3> QED
        BY <3>1, <3>2
    <2>2. data' = [s \in BufSlots |-> data'[s]]
      BY <1>1, <1>2
    <2> QED
      BY <2>1, <2>2, <1>3
  <1> QED
    BY <1>1, <1>3, <1>5 DEF BlockStored

-----------------------------------------------------------------------------
\* n bytes read from the head.
BytesTaken(n) ==
    /\ buf_head' = Wrap(buf_head + n)
    /\ buf_size' = buf_size - n
    /\ data' = data
    /\ buf_tail' = buf_tail

LEMMA TakenKeepsInv ==
    ASSUME RingInv, NEW n \in 0 .. buf_size, BytesTaken(n),
           mem' \in Seq(Int), buf_rc' \in -1 .. RINGBUF_SIZE
    PROVE  RingInv'
  <1>1. /\ buf_size \in 0 .. RINGBUF_SIZE /\ buf_head \in BufSlots /\ buf_tail \in BufSlots
        /\ RINGBUF_SIZE \in Nat \ {0}
    BY StreamAssumption DEF RingInv, RingTypeOK
  <1>2. buf_head' \in BufSlots /\ buf_size' \in 0 .. RINGBUF_SIZE
    BY <1>1 DEF BytesTaken, Wrap, BufSlots
  <1>3. buf_tail' = Wrap(buf_head' + buf_size')
    BY <1>1 DEF BytesTaken, Wrap, BufSlots, RingInv, RingCountersAgree
  <1>4. RingTypeOK'
    BY <1>2 DEF RingInv, RingTypeOK, BytesTaken, BufSlots
  <1>5. RingCountersAgree'
    BY <1>3 DEF RingCountersAgree, Wrap
  <1> QED
    BY <1>4, <1>5 DEF RingInv

LEMMA FirstTaken ==
    ASSUME RingInv, NEW n \in 0 .. buf_size
    PROVE  /\ [i \in 1 .. n |-> data[Wrap(buf_head + i - 1)]] = SubSeq(Content, 1, n)
           /\ SubSeq(Content, 1, n) \in Seq(Int)
  <1>1. /\ buf_size \in Nat /\ n \in Nat /\ n <= buf_size /\ Content \in Seq(Int) /\ Len(Content) = buf_size
        /\ \A i \in 1 .. buf_size : Content[i] = data[Wrap(buf_head + i - 1)]
    BY ContentIsSequence
  <1>2. SubSeq(Content, 1, n) = [i \in 1 .. n |-> Content[i]]
    BY <1>1
  <1>3. \A i \in 1 .. n : Content[i] = data[Wrap(buf_head + i - 1)] /\ Content[i] \in Int
    BY <1>1
  <1>4. [i \in 1 .. n |-> Content[i]] \in Seq(Int)
    BY <1>1, <1>3
  <1>5. [i \in 1 .. n |-> Content[i]] = [i \in 1 .. n |-> data[Wrap(buf_head + i - 1)]]
    BY <1>3
  <1> QED
    BY <1>2, <1>4, <1>5

LEMMA RestLeft ==
    ASSUME RingInv, NEW n \in 0 .. buf_size, BytesTaken(n)
    PROVE  Content' = SubSeq(Content, n + 1, buf_size)
  <1>1. /\ buf_size \in Nat /\ n \in Nat /\ n <= buf_size /\ Content \in Seq(Int) /\ Len(Content) = buf_size
        /\ buf_size <= RINGBUF_SIZE /\ RINGBUF_SIZE \in Nat /\ buf_head \in BufSlots
        /\ \A i \in 1 .. buf_size : Content[i] = data[Wrap(buf_head + i - 1)]
    BY ContentIsSequence, StreamAssumption DEF RingInv, RingTypeOK
  <1>2. \A i \in 1 .. (buf_size - n) : Wrap(Wrap(buf_head + n) + i - 1) = Wrap(buf_head + (n + i) - 1)
    BY <1>1 DEF Wrap, BufSlots
  <1>3. Content' = [i \in 1 .. (buf_size - n) |-> data[Wrap(Wrap(buf_head + n) + i - 1)]]
    BY DEF Content, BytesTaken, Wrap
  <1>4. Content' = [i \in 1 .. (buf_size - n) |-> data[Wrap(buf_head + (n + i) - 1)]]
    BY <1>2, <1>3
  <1>5. \A i \in 1 .. (buf_size - n) : Content[n + i] = data[Wrap(buf_head + (n + i) - 1)]
    <2> TAKE i \in 1 .. (buf_size - n)
    <2>1. n + i \in 1 .. buf_size
      BY <1>1
    <2> QED
      BY <2>1, <1>1
  <1>6. Content' = [i \in 1 .. (buf_size - n) |-> Content[n + i]]
    BY <1>4, <1>5
  <1>7. SubSeq(Content, n + 1, buf_size) = [i \in 1 .. (buf_size - n) |-> Content[n + i]]
    BY <1>1
  <1> QED
    BY <1>6, <1>7

-----------------------------------------------------------------------------
\* The invariant, one step for each operation.
LEMMA InitRingInv == Init => RingInv
  BY StreamAssumption DEF Init, RingInv, RingTypeOK, RingCountersAgree, Wrap, BufSlots

LEMMA FlushKeepsInv ==
    ASSUME RingInv, ringbuf_flush
    PROVE  RingInv'
  <1>1. data \in [BufSlots -> Int] /\ mem \in Seq(Int) /\ RINGBUF_SIZE \in Nat \ {0}
    BY StreamAssumption DEF RingInv, RingTypeOK
  <1>2. data' \in [BufSlots -> Int]
    BY <1>1 DEF ringbuf_flush
  <1>3. RingTypeOK'
    BY <1>1, <1>2 DEF ringbuf_flush, RingTypeOK, BufSlots
  <1>4. RingCountersAgree'
    BY <1>1 DEF ringbuf_flush, RingCountersAgree, Wrap
  <1> QED
    BY <1>3, <1>4 DEF RingInv

\* A refused call changes nothing but the return value.
LEMMA RefusedKeepsInv ==
    ASSUME RingInv, UNCHANGED <<data, buf_head, buf_tail, buf_size, mem>>, buf_rc' \in {buf_rc, -1}
    PROVE  RingInv' /\ Content' = Content
  <1>1. buf_rc' \in -1 .. RINGBUF_SIZE
    BY StreamAssumption DEF RingInv, RingTypeOK
  <1> QED
    BY <1>1 DEF RingInv, RingTypeOK, RingCountersAgree, Wrap, Content, BufSlots

\* The cases of RingNext in terms of the two lemmas about blocks.
LEMMA WriteCases ==
    ASSUME RingInv, NEW block \in Seq(Int),
           \/ ringbuf_write_mem(block)
           \/ \E byte \in Int : block = <<byte>> /\ ringbuf_write(byte)
    PROVE  /\ buf_size + Len(block) <= RINGBUF_SIZE =>
                  BlockStored(block) /\ mem' = mem /\ buf_rc' = 0
           /\ ~(buf_size + Len(block) <= RINGBUF_SIZE) =>
                  UNCHANGED <<data, buf_head, buf_tail, buf_size, mem>> /\ buf_rc' = -1
  <1>1. buf_size \in 0 .. RINGBUF_SIZE /\ RINGBUF_SIZE \in Nat /\ Len(block) \in Nat
    BY StreamAssumption DEF RingInv, RingTypeOK
  <1>2. CASE ringbuf_write_mem(block)
    BY <1>1, <1>2 DEF ringbuf_write_mem, BlockStored
  <1>3. ASSUME NEW byte \in Int, block = <<byte>>, ringbuf_write(byte)
        PROVE  /\ buf_size + 1 <= RINGBUF_SIZE => BlockStored(block) /\ mem' = mem /\ buf_rc' = 0
               /\ ~(buf_size + 1 <= RINGBUF_SIZE) =>
                      UNCHANGED <<data, buf_head, buf_tail, buf_size, mem>> /\ buf_rc' = -1
    <2>1. CASE buf_size = RINGBUF_SIZE
      BY <1>1, <1>3, <2>1 DEF ringbuf_write
    <2>2. CASE buf_size # RINGBUF_SIZE
      <3>1. BlockStored(<<byte>>) /\ mem' = mem /\ buf_rc' = 0
        BY <1>3, <2>2, ByteIsBlock
      <3>2. buf_size + 1 <= RINGBUF_SIZE
        BY <1>1, <2>2
      <3> QED
        BY <1>3, <3>1, <3>2
    <2> QED
      BY <2>1, <2>2
  <1>4. ASSUME NEW byte \in Int, block = <<byte>> PROVE Len(block) = 1
    BY <1>4
  <1> QED
    BY <1>2, <1>3, <1>4

LEMMA ReadMemCases ==
    ASSUME RingInv, NEW n \in Nat, ringbuf_read_mem(n),
           NEW count, count = IF n <= buf_size THEN n ELSE buf_size
    PROVE  /\ count \in 0 .. buf_size
           /\ BytesTaken(count)
           /\ mem' = SubSeq(Content, 1, count)
           /\ mem' \in Seq(Int)
           /\ buf_rc' = count
           /\ buf_rc' \in -1 .. RINGBUF_SIZE
  <1>1. buf_size \in 0 .. RINGBUF_SIZE /\ RINGBUF_SIZE \in Nat
    BY StreamAssumption DEF RingInv, RingTypeOK
  <1>2. count \in 0 .. buf_size
    BY <1>1
  <1>3. /\ mem' = [i \in 1 .. count |-> data[Wrap(buf_head + i - 1)]]
        /\ BytesTaken(count) /\ buf_rc' = count
    BY DEF ringbuf_read_mem, BytesTaken
  <1>4. mem' = SubSeq(Content, 1, count) /\ mem' \in Seq(Int)
    BY <1>2, <1>3, FirstTaken
  <1>5. buf_rc' \in -1 .. RINGBUF_SIZE
    BY <1>1, <1>2, <1>3
  <1> QED
    BY <1>2, <1>3, <1>4, <1>5

LEMMA ReadCases ==
    ASSUME RingInv, ringbuf_read, buf_size # 0
    PROVE  /\ BytesTaken(1)
           /\ 1 \in 0 .. buf_size
           /\ mem' = <<Head(Content)>>
           /\ mem' \in Seq(Int)
           /\ buf_rc' = 0
           /\ buf_rc' \in -1 .. RINGBUF_SIZE
  <1>1. /\ buf_size \in 0 .. RINGBUF_SIZE /\ RINGBUF_SIZE \in Nat /\ buf_head \in BufSlots
        /\ data \in [BufSlots -> Int]
    BY StreamAssumption DEF RingInv, RingTypeOK
  <1>2. 1 \in 1 .. buf_size /\ 1 \in 0 .. buf_size
    BY <1>1
  <1>3. BytesTaken(1) /\ mem' = <<data[buf_head]>> /\ buf_rc' = 0
    BY DEF ringbuf_read, BytesTaken
  <1>4. Wrap(buf_head + 1 - 1) = buf_head
    BY <1>1 DEF Wrap, BufSlots
  <1>5. /\ Content \in Seq(Int) /\ Len(Content) = buf_size
        /\ Content[1] = data[Wrap(buf_head + 1 - 1)]
    BY <1>2, ContentIsSequence
  <1>6. Head(Content) = Content[1]
    BY <1>1, <1>5
  <1>7. data[buf_head] \in Int
    BY <1>1
  <1> QED
    BY <1>1, <1>2, <1>3, <1>4, <1>5, <1>6, <1>7

LEMMA RingNextInv == RingInv /\ [RingNext]_ringVars => RingInv'
  <1> SUFFICES ASSUME RingInv, [RingNext]_ringVars PROVE RingInv'
    OBVIOUS
  <1>1. ASSUME NEW block \in Seq(Int),
               \/ ringbuf_write_mem(block)
               \/ \E byte \in Int : block = <<byte>> /\ ringbuf_write(byte)
        PROVE  RingInv'
    <2>1. CASE buf_size + Len(block) <= RINGBUF_SIZE
      BY <1>1, <2>1, WriteCases, BlockKeepsInv
    <2>2. CASE ~(buf_size + Len(block) <= RINGBUF_SIZE)
      BY <1>1, <2>2, WriteCases, RefusedKeepsInv
    <2> QED
      BY <2>1, <2>2
  <1>2. ASSUME NEW byte \in Chars, ringbuf_write(byte) PROVE RingInv'
    <2>1. byte \in Int /\ <<byte>> \in Seq(Int)
      BY RingAssumption
    <2> QED
      BY <1>1, <1>2, <2>1
  <1>3. ASSUME NEW block \in Blocks, ringbuf_write_mem(block) PROVE RingInv'
    <2>1. block \in Seq(Int)
      BY RingAssumption
    <2> QED
      BY <1>1, <1>3, <2>1
  <1>4. CASE ringbuf_read
    <2>1. CASE buf_size # 0
      BY <1>4, <2>1, ReadCases, TakenKeepsInv
    <2>2. CASE buf_size = 0
      <3>1. UNCHANGED <<data, buf_head, buf_tail, buf_size, mem>> /\ buf_rc' = -1
        BY <1>4, <2>2 DEF ringbuf_read
      <3> QED
        BY <3>1, RefusedKeepsInv
    <2> QED
      BY <2>1, <2>2
  <1>5. ASSUME NEW n \in Sizes, ringbuf_read_mem(n) PROVE RingInv'
    <2> DEFINE count == IF n <= buf_size THEN n ELSE buf_size
    <2>1. n \in Nat
      BY RingAssumption
    <2>2. count \in 0 .. buf_size /\ BytesTaken(count) /\ mem' \in Seq(Int) /\ buf_rc' \in -1 .. RINGBUF_SIZE
      BY <1>5, <2>1, ReadMemCases
    <2> HIDE DEF count
    <2> QED
      BY <2>2, TakenKeepsInv
  <1>6. CASE ringbuf_flush
    BY <1>6, FlushKeepsInv
  <1>7. CASE UNCHANGED ringVars
    BY <1>7, RefusedKeepsInv DEF ringVars
  <1> QED
    BY <1>2, <1>3, <1>4, <1>5, <1>6, <1>7 DEF RingNext

\* For every size of the buffer the indexes stay in the array and agree with size,
\* however reads, writes, blocks and flushes follow each other (ringbuf.c).
THEOREM RingInvariant == RingSpec => [](RingTypeOK /\ RingCountersAgree)
  BY InitRingInv, RingNextInv, PTL DEF RingSpec, RingInv

-----------------------------------------------------------------------------
(***************************************************************************)
(* The loops that copy blocks, ringbuf.c:106 and 128.                      *)
(***************************************************************************)

\* The buffer as a record, after a ringbuf_write and a ringbuf_read that succeed, which
\* are the turns of the loops.
Now == [data |-> data, tail |-> buf_tail, size |-> buf_size]

WriteTurn(b, byte) ==
    [data |-> [b.data EXCEPT ![b.tail] = byte], tail |-> Wrap(b.tail + 1), size |-> b.size + 1]

Source == [head |-> buf_head, size |-> buf_size, mem |-> <<>>]

ReadTurn(b) ==
    [head |-> Wrap(b.head + 1), size |-> b.size - 1, mem |-> Append(b.mem, data[b.head])]

\* What RingBuf says of the buffer after k bytes.
Filled(block, k) ==
    [data |-> [s \in BufSlots |-> IF Distance(buf_tail, s) < k
                                  THEN block[Distance(buf_tail, s) + 1] ELSE data[s]],
     tail |-> Wrap(buf_tail + k), size |-> buf_size + k]

Emptied(k) ==
    [head |-> Wrap(buf_head + k), size |-> buf_size - k,
     mem |-> [i \in 1 .. k |-> data[Wrap(buf_head + i - 1)]]]

LEMMA RingFacts ==
    ASSUME RingInv
    PROVE  /\ RINGBUF_SIZE \in Nat /\ RINGBUF_SIZE > 0
           /\ data \in [BufSlots -> Int] /\ buf_head \in BufSlots /\ buf_tail \in BufSlots
           /\ buf_size \in 0 .. RINGBUF_SIZE
  BY StreamAssumption DEF RingInv, RingTypeOK

\* The turns are the operations on single bytes.
LEMMA TurnsAreOperations ==
    ASSUME RingInv
    PROVE  /\ \A byte \in Int : ringbuf_write(byte) /\ buf_size # RINGBUF_SIZE
                                => Now' = WriteTurn(Now, byte)
           /\ ringbuf_read /\ buf_size # 0
              => /\ buf_head' = ReadTurn(Source).head /\ buf_size' = ReadTurn(Source).size
                 /\ mem' = ReadTurn(Source).mem
  <1>1. Append(<<>>, data[buf_head]) = <<data[buf_head]>>
    OBVIOUS
  <1> QED
    BY <1>1 DEF Now, WriteTurn, Source, ReadTurn, ringbuf_write, ringbuf_read, Wrap

\* One turn of ringbuf_write_mem: the next byte goes behind the ones before.
LEMMA WriteLoopTurn ==
    ASSUME RingInv, NEW block \in Seq(Int), buf_size + Len(block) <= RINGBUF_SIZE,
           NEW k \in 0 .. Len(block) - 1
    PROVE  /\ Filled(block, k).size # RINGBUF_SIZE
           /\ Filled(block, k + 1) = WriteTurn(Filled(block, k), block[k + 1])
  <1> DEFINE f == Filled(block, k).data
             t == Wrap(buf_tail + k)
             g == [f EXCEPT ![t] = block[k + 1]]
  <1>1. /\ Len(block) \in Nat /\ k \in Nat /\ k < Len(block) /\ k < RINGBUF_SIZE
        /\ buf_size + k < RINGBUF_SIZE /\ RINGBUF_SIZE \in Nat /\ buf_tail \in BufSlots
    BY RingFacts
  <1>e. t = IF buf_tail + k >= RINGBUF_SIZE THEN buf_tail + k - RINGBUF_SIZE ELSE buf_tail + k
    BY <1>1, SMT DEF Wrap, BufSlots
  <1>f. \A s \in BufSlots : Distance(buf_tail, s) =
            IF s >= buf_tail THEN s - buf_tail ELSE s - buf_tail + RINGBUF_SIZE
    BY DEF Distance
  <1>a. /\ t = IF buf_tail + k >= RINGBUF_SIZE THEN buf_tail + k - RINGBUF_SIZE ELSE buf_tail + k
        /\ \A s \in BufSlots : Distance(buf_tail, s) =
               IF s >= buf_tail THEN s - buf_tail ELSE s - buf_tail + RINGBUF_SIZE
    BY <1>e, <1>f
  <1> HIDE DEF t
  <1>b. t \in BufSlots
    BY <1>1, <1>a DEF BufSlots
  <1>c. Distance(buf_tail, t) = k
    BY <1>1, <1>a, <1>b DEF BufSlots
  <1>d. Wrap(t + 1) = Wrap(buf_tail + (k + 1))
    <2>1. CASE buf_tail + k >= RINGBUF_SIZE
      BY <1>1, <1>a, <2>1 DEF BufSlots, Wrap
    <2>2. CASE ~(buf_tail + k >= RINGBUF_SIZE)
      BY <1>1, <1>a, <2>2 DEF BufSlots, Wrap
    <2> QED
      BY <2>1, <2>2
  <1>2. t \in BufSlots /\ Wrap(t + 1) = Wrap(buf_tail + (k + 1)) /\ Distance(buf_tail, t) = k
    BY <1>b, <1>c, <1>d
  <1>3. \A s \in BufSlots : /\ Distance(buf_tail, s) \in Nat
                            /\ Distance(buf_tail, s) = k => s = t
    <2> TAKE s \in BufSlots
    <2>1. CASE s >= buf_tail
      <3>1. Distance(buf_tail, s) = s - buf_tail
        BY <1>a, <2>1
      <3> QED
        BY <1>1, <1>e, <2>1, <3>1 DEF BufSlots
    <2>2. CASE ~(s >= buf_tail)
      <3>1. Distance(buf_tail, s) = s - buf_tail + RINGBUF_SIZE
        BY <1>a, <2>2
      <3> QED
        BY <1>1, <1>e, <2>2, <3>1 DEF BufSlots
    <2> QED
      BY <2>1, <2>2
  <1> HIDE DEF t
  <1>4. f = [s \in BufSlots |-> IF Distance(buf_tail, s) < k
                                THEN block[Distance(buf_tail, s) + 1] ELSE data[s]]
    BY DEF Filled
  <1>5. \A s \in BufSlots : g[s] = IF Distance(buf_tail, s) < k + 1
                                   THEN block[Distance(buf_tail, s) + 1] ELSE data[s]
    <2> TAKE s \in BufSlots
    <2>1. f[s] = IF Distance(buf_tail, s) < k THEN block[Distance(buf_tail, s) + 1] ELSE data[s]
      BY <1>4
    <2>2. g[s] = IF s = t THEN block[k + 1] ELSE f[s]
      BY <1>4
    <2>3. CASE s = t
      BY <1>1, <1>2, <2>2, <2>3
    <2>4. CASE s # t
      <3>1. Distance(buf_tail, s) # k /\ Distance(buf_tail, s) \in Nat
        BY <1>3, <2>4
      <3>2. Distance(buf_tail, s) < k <=> Distance(buf_tail, s) < k + 1
        BY <1>1, <3>1
      <3> QED
        BY <2>1, <2>2, <2>4, <3>2
    <2> QED
      BY <2>3, <2>4
  <1>6. g = Filled(block, k + 1).data
    <2>1. g = [s \in BufSlots |-> g[s]]
      BY <1>4
    <2> QED
      BY <1>5, <2>1 DEF Filled
  <1>7. /\ Filled(block, k).tail = t /\ Filled(block, k).size = buf_size + k
        /\ Filled(block, k + 1).tail = Wrap(t + 1)
        /\ Filled(block, k + 1).size = (buf_size + k) + 1
    BY <1>1, <1>2, RingFacts DEF Filled, t
  <1>8. WriteTurn(Filled(block, k), block[k + 1])
        = [data |-> g, tail |-> Wrap(t + 1), size |-> (buf_size + k) + 1]
    BY <1>7 DEF WriteTurn
  <1>9. Filled(block, k + 1)
        = [data |-> Filled(block, k + 1).data, tail |-> Filled(block, k + 1).tail,
           size |-> Filled(block, k + 1).size]
    BY DEF Filled
  <1>10. Filled(block, k).size # RINGBUF_SIZE
    BY ONLY <1>1, <1>7, RingFacts
  <1>11. Filled(block, k + 1) = WriteTurn(Filled(block, k), block[k + 1])
    BY ONLY <1>6, <1>7, <1>8, <1>9
  <1> QED
    BY ONLY <1>10, <1>11

\* One turn of ringbuf_read_mem: the next byte comes from behind the ones before.
LEMMA ReadLoopTurn ==
    ASSUME RingInv, NEW k \in 0 .. buf_size - 1
    PROVE  /\ Emptied(k).size # 0
           /\ Emptied(k + 1) = ReadTurn(Emptied(k))
  <1> DEFINE m == [i \in 1 .. k |-> data[Wrap(buf_head + i - 1)]]
             n == [i \in 1 .. (k + 1) |-> data[Wrap(buf_head + i - 1)]]
             b == data[Wrap(buf_head + k)]
  <1>1. k \in Nat /\ k < buf_size /\ k < RINGBUF_SIZE /\ buf_size \in Nat
    BY RingFacts
  <1>2. Wrap(Wrap(buf_head + k) + 1) = Wrap(buf_head + (k + 1))
    BY <1>1, RingFacts DEF Wrap, BufSlots
  <1>3. \A i \in 1 .. (k + 1) : data[Wrap(buf_head + i - 1)] \in Int
    <2> TAKE i \in 1 .. (k + 1)
    <2>1. Wrap(buf_head + i - 1) \in BufSlots
      BY <1>1, RingFacts DEF Wrap, BufSlots
    <2> QED
      BY <2>1, RingFacts
  <1>4. buf_head + (k + 1) - 1 = buf_head + k
    BY <1>1, RingFacts DEF BufSlots
  <1>5. m \in Seq(Int) /\ Len(m) = k /\ b \in Int /\ n[k + 1] = b
    <2>1. \A i \in 1 .. k : i \in 1 .. (k + 1)
      BY <1>1
    <2>2. m \in Seq(Int) /\ Len(m) = k
      BY <1>1, <1>3, <2>1
    <2>3. n[k + 1] = b /\ b \in Int
      BY <1>1, <1>3, <1>4
    <2> QED
      BY <2>2, <2>3
  <1>6. Append(m, b) = n
    <2>1. \A i \in 1 .. k : i \in 1 .. (k + 1) /\ m[i] = n[i]
      BY <1>1
    <2>2. n \in Seq(Int) /\ Len(n) = k + 1
      BY <1>1, <1>3
    <2> HIDE DEF m, n, b
    <2>3. /\ Append(m, b) \in Seq(Int) /\ Len(Append(m, b)) = k + 1
          /\ Append(m, b)[k + 1] = b
          /\ \A i \in 1 .. k : Append(m, b)[i] = m[i]
      BY <1>1, <1>5
    <2>4. \A i \in 1 .. (k + 1) : Append(m, b)[i] = n[i]
      <3> TAKE i \in 1 .. (k + 1)
      <3>1. i = k + 1 \/ i \in 1 .. k
        BY <1>1
      <3> QED
        BY <1>5, <2>1, <2>3, <3>1
    <2> QED
      BY <2>2, <2>3, <2>4, SeqEqual
  <1>7. Emptied(k) = [head |-> Wrap(buf_head + k), size |-> buf_size - k, mem |-> m]
        /\ Emptied(k + 1) = [head |-> Wrap(buf_head + (k + 1)), size |-> buf_size - (k + 1), mem |-> n]
    BY DEF Emptied
  <1>8. (buf_size - k) - 1 = buf_size - (k + 1) /\ buf_size - k # 0
    BY <1>1
  <1> HIDE DEF m, n
  <1> QED
    BY <1>2, <1>6, <1>7, <1>8 DEF ReadTurn

\* The block operations are their loops (ringbuf.c:106, 128), for every buffer and block: they
\* start from the buffer as it is, every turn is a ringbuf_write or a ringbuf_read that
\* succeeds, and after the last the buffer is what RingBuf says.  A block that fits is never
\* cut off by the second condition of the loop, and a read stops early only when the
\* buffer is empty.
THEOREM BlocksAreCopiedByteByByte ==
    ASSUME RingInv
    PROVE  /\ \A byte \in Int : ringbuf_write(byte) /\ buf_size # RINGBUF_SIZE
                                => Now' = WriteTurn(Now, byte)
           /\ ringbuf_read /\ buf_size # 0
              => /\ buf_head' = ReadTurn(Source).head /\ buf_size' = ReadTurn(Source).size
                 /\ mem' = ReadTurn(Source).mem
           /\ \A block \in Seq(Int) : buf_size + Len(block) <= RINGBUF_SIZE =>
                 /\ Filled(block, 0) = Now
                 /\ \A k \in 0 .. Len(block) - 1 :
                        /\ Filled(block, k).size # RINGBUF_SIZE
                        /\ Filled(block, k + 1) = WriteTurn(Filled(block, k), block[k + 1])
                 /\ ringbuf_write_mem(block) => Now' = Filled(block, Len(block))
           /\ Emptied(0) = Source
           /\ \A k \in 0 .. buf_size - 1 :
                  Emptied(k).size # 0 /\ Emptied(k + 1) = ReadTurn(Emptied(k))
           /\ Emptied(buf_size).size = 0
           /\ \A n \in Nat : ringbuf_read_mem(n) =>
                  LET count == IF n <= buf_size THEN n ELSE buf_size
                  IN  /\ buf_head' = Emptied(count).head /\ buf_size' = Emptied(count).size
                      /\ mem' = Emptied(count).mem
  <1>1. ASSUME NEW block \in Seq(Int), buf_size + Len(block) <= RINGBUF_SIZE
        PROVE  /\ Filled(block, 0) = Now
               /\ ringbuf_write_mem(block) => Now' = Filled(block, Len(block))
    <2>1. Len(block) \in Nat /\ buf_size \in Nat /\ RINGBUF_SIZE \in Nat
      BY RingFacts
    <2>2. \A s \in BufSlots : ~(Distance(buf_tail, s) < 0)
      BY RingFacts DEF Distance, BufSlots
    <2>3. [s \in BufSlots |-> IF Distance(buf_tail, s) < 0
                              THEN block[Distance(buf_tail, s) + 1] ELSE data[s]] = data
      <3>1. data = [s \in BufSlots |-> data[s]]
        BY RingFacts
      <3> QED
        BY <2>2, <3>1
    <2>4. Wrap(buf_tail + 0) = buf_tail /\ buf_size + 0 = buf_size
      BY RingFacts DEF Wrap, BufSlots
    <2>5. Filled(block, 0) = Now
      BY <2>3, <2>4 DEF Filled, Now
    <2>6. ASSUME ringbuf_write_mem(block) PROVE Now' = Filled(block, Len(block))
      <3>1. ~(buf_size + Len(block) > RINGBUF_SIZE)
        BY <1>1, <2>1
      <3> QED
        BY <2>6, <3>1 DEF ringbuf_write_mem, Now, Filled
    <2> QED
      BY <2>5, <2>6
  <1>2. Emptied(0) = Source
    <2>1. Wrap(buf_head + 0) = buf_head /\ buf_size - 0 = buf_size
      BY RingFacts DEF Wrap, BufSlots
    <2>2. [i \in 1 .. 0 |-> data[Wrap(buf_head + i - 1)]] = <<>>
      OBVIOUS
    <2> QED
      BY <2>1, <2>2 DEF Emptied, Source
  <1>3. Emptied(buf_size).size = 0
    BY RingFacts DEF Emptied
  <1>4. ASSUME NEW n \in Nat, ringbuf_read_mem(n)
        PROVE  LET count == IF n <= buf_size THEN n ELSE buf_size
               IN  /\ buf_head' = Emptied(count).head /\ buf_size' = Emptied(count).size
                   /\ mem' = Emptied(count).mem
    BY <1>4 DEF ringbuf_read_mem, Emptied
  <1> QED
    BY <1>1, <1>2, <1>3, <1>4, TurnsAreOperations, WriteLoopTurn, ReadLoopTurn

-----------------------------------------------------------------------------
\* The operations of the abstract stream, one for each operation of the array.
LEMMA WriteRefines ==
    ASSUME RingInv, NEW block \in Seq(Int),
           \/ ringbuf_write_mem(block)
           \/ \E byte \in Int : block = <<byte>> /\ ringbuf_write(byte)
    PROVE  Stream!Write(block)
  <1>1. Content \in Seq(Int) /\ Len(Content) = buf_size
    BY ContentIsSequence
  <1>2. CASE buf_size + Len(block) <= RINGBUF_SIZE
    <2>1. Content' = Content \o block /\ mem' = mem /\ buf_rc' = 0
      BY <1>2, WriteCases, BlockAppends
    <2> QED
      BY <1>1, <1>2, <2>1 DEF Content, Stream!Write, Stream!Written, Stream!Fits
  <1>3. CASE ~(buf_size + Len(block) <= RINGBUF_SIZE)
    <2>1. UNCHANGED <<data, buf_head, buf_tail, buf_size, mem>> /\ buf_rc' = -1
      BY <1>3, WriteCases
    <2>2. Content' = Content
      BY <2>1, RefusedKeepsInv
    <2> QED
      BY <1>1, <1>3, <2>1, <2>2 DEF Content, Stream!Write, Stream!Written, Stream!Fits
  <1> QED
    BY <1>2, <1>3

LEMMA ReadRefines ==
    ASSUME RingInv, ringbuf_read
    PROVE  Stream!ReadByte
  <1>1. Content \in Seq(Int) /\ Len(Content) = buf_size /\ buf_size \in Nat
    BY ContentIsSequence
  <1>2. CASE buf_size # 0
    <2>1. /\ Content' = SubSeq(Content, 2, buf_size)
          /\ mem' = <<Head(Content)>> /\ buf_rc' = 0
      <3>1. BytesTaken(1) /\ 1 \in 0 .. buf_size /\ mem' = <<Head(Content)>> /\ buf_rc' = 0
        BY <1>2, ReadCases
      <3>2. Content' = SubSeq(Content, 1 + 1, buf_size)
        BY <3>1, RestLeft
      <3> QED
        BY <3>1, <3>2
    <2>2. Content # <<>> /\ 1 <= Len(Content) /\ 1 + 1 = 2
      BY <1>1, <1>2
    <2>3. Content' = SubSeq(Content, 1 + 1, Len(Content))
      BY <1>1, <2>1
    <2> QED
      BY <2>1, <2>2, <2>3 DEF Content, Stream!ReadByte, Stream!Left, Stream!Available
  <1>3. CASE buf_size = 0
    <2>1. UNCHANGED <<data, buf_head, buf_tail, buf_size, mem>> /\ buf_rc' = -1
      BY <1>3 DEF ringbuf_read
    <2>2. Content' = Content /\ Content = <<>>
      BY <1>1, <1>3, <2>1, RefusedKeepsInv
    <2>3. SubSeq(Content, 0 + 1, Len(Content)) = <<>> /\ ~(1 <= Len(Content)) /\ Len(Content) = 0
      BY <1>1, <1>3, <2>2
    <2> QED
      BY <2>1, <2>2, <2>3 DEF Content, Stream!ReadByte, Stream!Left, Stream!Available
  <1> QED
    BY <1>2, <1>3

LEMMA ReadMemRefines ==
    ASSUME RingInv, NEW n \in Nat, ringbuf_read_mem(n)
    PROVE  Stream!Read(n)
  <1> DEFINE count == IF n <= buf_size THEN n ELSE buf_size
  <1>1. Content \in Seq(Int) /\ Len(Content) = buf_size
    BY ContentIsSequence
  <1>2. count \in 0 .. buf_size /\ BytesTaken(count) /\ mem' = SubSeq(Content, 1, count) /\ buf_rc' = count
    BY ReadMemCases
  <1>3. count = IF n <= Len(Content) THEN n ELSE Len(Content)
    BY <1>1
  <1> HIDE DEF count
  <1>4. Content' = SubSeq(Content, count + 1, Len(Content))
    BY <1>1, <1>2, RestLeft
  <1> QED
    BY <1>2, <1>3, <1>4
    DEF Content, Stream!Read, Stream!Left, Stream!Taken, Stream!Available

\* The ring buffer implements a byte stream, for every size, at every alignment:
\* bytes and blocks come out once, in order, whole blocks are refused when they do
\* not fit, and what a flush leaves in the array is never delivered (ringbuf.c).
THEOREM RingImplementsStream == RingSpec => ImplementsByteStream
  <1>1. Init => Stream!StreamInit
    BY DEF Init, Stream!StreamInit
  <1>2. RingInv /\ [RingNext]_ringVars => [Stream!StreamNext]_(Stream!streamVars)
    <2> SUFFICES ASSUME RingInv, [RingNext]_ringVars
                 PROVE  [Stream!StreamNext]_(Stream!streamVars)
      OBVIOUS
    <2>1. ASSUME NEW byte \in Chars, ringbuf_write(byte) PROVE Stream!StreamNext
      <3>1. byte \in Int /\ <<byte>> \in Seq(Int)
        BY RingAssumption
      <3>2. Stream!Write(<<byte>>)
        BY <2>1, <3>1, WriteRefines
      <3> QED
        BY <3>2 DEF Stream!StreamNext
    <2>2. ASSUME NEW block \in Blocks, ringbuf_write_mem(block) PROVE Stream!StreamNext
      <3>1. block \in Seq(Int)
        BY RingAssumption
      <3>2. Stream!Write(block)
        BY <2>2, <3>1, WriteRefines
      <3> QED
        BY <3>2 DEF Stream!StreamNext
    <2>3. CASE ringbuf_read
      BY <2>3, ReadRefines DEF Stream!StreamNext
    <2>4. ASSUME NEW n \in Sizes, ringbuf_read_mem(n) PROVE Stream!StreamNext
      <3>1. n \in Nat
        BY RingAssumption
      <3>2. Stream!Read(n)
        BY <2>4, <3>1, ReadMemRefines
      <3> QED
        BY <3>2 DEF Stream!StreamNext
    <2>5. CASE ringbuf_flush
      <3>1. Content' = <<>> /\ buf_rc' = 0 /\ mem' = mem
        BY <2>5 DEF ringbuf_flush, Content
      <3> QED
        BY <3>1 DEF Content, Stream!StreamNext, Stream!Flush
    <2>6. CASE UNCHANGED ringVars
      BY <2>6 DEF ringVars, Stream!streamVars, Wrap
    <2> QED
      BY <2>1, <2>2, <2>3, <2>4, <2>5, <2>6 DEF RingNext
  <1>3. RingSpec => [](RingTypeOK /\ RingCountersAgree)
    BY RingInvariant
  <1> QED
    BY <1>1, <1>2, <1>3, PTL DEF RingSpec, RingInv, ImplementsByteStream, Stream!StreamSpec
=============================================================================
