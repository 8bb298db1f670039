------------------------------- MODULE Streams -------------------------------
(***************************************************************************)
(* What the ring buffers of ringbuf.c do to the bytes they hold, as a      *)
(* sequence with the oldest byte first.  A block that does not fit is      *)
(* refused whole; a read delivers what there is.  RingBuf has the array.   *)
(***************************************************************************)
EXTENDS Integers, Sequences

CONSTANT RINGBUF_SIZE       \* bytes a buffer holds (2048)

ASSUME StreamAssumption == RINGBUF_SIZE \in Nat \ {0}

Fits(bytes, block) == Len(bytes) + Len(block) <= RINGBUF_SIZE

Written(bytes, block) == IF Fits(bytes, block) THEN bytes \o block ELSE bytes

\* How many of the n bytes asked for there are.
Available(bytes, n) == IF n <= Len(bytes) THEN n ELSE Len(bytes)

Taken(bytes, n) == SubSeq(bytes, 1, Available(bytes, n))

Left(bytes, n) == SubSeq(bytes, Available(bytes, n) + 1, Len(bytes))
=============================================================================
