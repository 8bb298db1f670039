------------------------------ MODULE MC_Buffers ------------------------------
(***************************************************************************)
(* The two circular arrays of the kernel; Init chooses which one is used.  *)
(* A queue of five slots: the indexes wrap at every alignment of a full    *)
(* and an empty queue, and the loops run over every queue of at most five  *)
(* items, every set of items that leave and every alignment.  A ring       *)
(* buffer of four bytes whose flush leaves the last two uncleared, and     *)
(* blocks up to one byte longer than the buffer, an empty one included:    *)
(* every alignment, every fill level, and blocks that wrap or do not fit.  *)
(***************************************************************************)
EXTENDS ShrinkingLoop, RingBuf

VARIABLE used   \* the array that is used: "queue" or "ring buffer"

bvars == <<lvars, ringVars, used>>

MCItems == {1, 2}

MCChars == {1, 2}

MCBlocks == {<<>>, <<1>>, <<1, 2>>, <<2, 1, 1>>, <<1, 2, 1, 2>>, <<1, 1, 2, 2, 1>>}

MCSizes == 0 .. 5

BuffersInit == LoopInit /\ Init /\ used \in {"queue", "ring buffer"}

BuffersNext ==
    \/ used = "queue" /\ LoopNext /\ UNCHANGED <<ringVars, used>>
    \/ used = "ring buffer" /\ RingNext /\ UNCHANGED <<lvars, used>>

BuffersSpec == BuffersInit /\ [][BuffersNext]_bvars
=============================================================================
