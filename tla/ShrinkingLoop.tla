---------------------------- MODULE ShrinkingLoop ----------------------------
(***************************************************************************)
(* The loops of scheduler_timer and scheduler_remove, one queue operation  *)
(* at a time, on the circular array of KQueue.  Between loops the queue is *)
(* used in any way.  What QueueWalk says of the loops in closed form is    *)
(* checked here against the loop that the code runs.                       *)
(***************************************************************************)
EXTENDS KQueue, QueueWalk

VARIABLES
    pc,         \* "use", "test" (the loop condition) or "put" (an item back)
    counter,    \* i, the loop counter
    original,   \* the contents of the queue before the loop
    leaving,    \* the positions of the items that the loop does not put back
    seen        \* the positions of the items that it has taken out

lvars == <<qvars, pc, counter, original, leaving, seen>>

Contents == [n \in 1 .. size |-> items[SlotOf(n)]]

LoopInit ==
    /\ queue_init
    /\ pc = "use"
    /\ counter = 0
    /\ original = <<>>
    /\ leaving = {}
    /\ seen = {}

UseQueue ==
    /\ pc = "use"
    /\ QueueNext
    /\ UNCHANGED <<pc, counter, original, leaving, seen>>

StartLoop ==
    /\ pc = "use"
    /\ leaving' \in SUBSET (1 .. size)
    /\ original' = Contents
    /\ pc' = "test"
    /\ UNCHANGED <<qvars, counter, seen>>

\* Mutant: the counter is compared with the size before the loop.
TestFixedBound == pc = "test" /\ counter < Len(original)

LoopTest == pc = "test" /\ counter < size

TakeOut ==
    /\ LoopTest
    /\ queue_out
    /\ seen' = seen \cup {counter + 1}
    /\ IF counter + 1 \in leaving
       THEN pc' = "test" /\ counter' = counter + 1
       ELSE pc' = "put" /\ counter' = counter
    /\ UNCHANGED <<original, leaving>>

PutBack ==
    /\ pc = "put"
    /\ queue_in(item)
    /\ pc' = "test"
    /\ counter' = counter + 1
    /\ UNCHANGED <<original, leaving, seen>>

Finished == pc = "test" /\ ~LoopTest

EndLoop ==
    /\ Finished
    /\ pc' = "use"
    /\ counter' = 0
    /\ original' = <<>>
    /\ leaving' = {}
    /\ seen' = {}
    /\ UNCHANGED qvars

LoopNext == UseQueue \/ StartLoop \/ TakeOut \/ PutBack \/ EndLoop

LoopSpec == LoopInit /\ [][LoopNext]_lvars

\* When a loop ends, the queue and the items it has taken out are the ones that
\* Rotate and Reached say, wherever in the array the queue began.
ClosedForm ==
    Finished => /\ Contents = Rotate(original, leaving)
                /\ seen = Reached(original, leaving)
=============================================================================
