---------------------------- MODULE BoundedFifo ----------------------------
(***************************************************************************)
(* What queue.c promises: a first-in first-out queue of limited capacity   *)
(* whose operations return 0, or -1 when the queue is full or empty.       *)
(***************************************************************************)
EXTENDS Integers, Sequences

CONSTANTS Capacity, Values

VARIABLES
    contents,   \* the queued values, oldest first
    taken,      \* the value the last successful removal delivered
    answer      \* the value the last operation returned

fifoVars == <<contents, taken, answer>>

FifoInit == contents = <<>> /\ taken = 0 /\ answer = 0

Put(v) ==
    \/ /\ Len(contents) < Capacity
       /\ contents' = Append(contents, v)
       /\ answer' = 0
       /\ UNCHANGED taken
    \/ /\ Len(contents) >= Capacity
       /\ answer' = -1
       /\ UNCHANGED <<contents, taken>>

Get ==
    \/ /\ contents # <<>>
       /\ taken' = Head(contents)
       /\ contents' = Tail(contents)
       /\ answer' = 0
    \/ /\ contents = <<>>
       /\ answer' = -1
       /\ UNCHANGED <<contents, taken>>

FifoNext == Get \/ \E v \in Values : Put(v)

FifoSpec == FifoInit /\ [][FifoNext]_fifoVars
=============================================================================
