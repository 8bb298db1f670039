------------------------------- MODULE RingBuf -------------------------------
(***************************************************************************)
(* The ring buffer of ringbuf.c on its array: the input and the output     *)
(* buffer of every TTY.  The loops that copy blocks are in closed form:    *)
(* byte i of a block goes to, or comes from, the slot i - 1 places after   *)
(* the tail or the head, around the end of the array.                      *)
(***************************************************************************)
EXTENDS Streams

CONSTANTS
    HEADER_SIZE,    \* bytes of head, tail and size, which come before data (12)
    Chars,          \* bytes that are written one at a time
    Blocks,         \* blocks that are written
    Sizes           \* numbers of bytes that are asked for

ASSUME RingAssumption ==
    /\ HEADER_SIZE \in 1 .. RINGBUF_SIZE
    /\ Chars \subseteq Int
    /\ Blocks \subseteq Seq(Int)
    /\ Sizes \subseteq Nat

VARIABLES
    data,       \* buf->data, the array
    buf_head,   \* buf->head, the slot of the oldest byte
    buf_tail,   \* buf->tail, the slot the next byte goes to
    buf_size,   \* buf->size, the number of bytes
    mem,        \* what the last successful read stored
    buf_rc      \* return value of the last call

ringVars == <<data, buf_head, buf_tail, buf_size, mem, buf_rc>>

BufSlots == 0 .. (RINGBUF_SIZE - 1)

\* Mutant: the index may reach the end of the array.
WrapPastEnd(n) == IF n > RINGBUF_SIZE THEN n - RINGBUF_SIZE ELSE n

\* An index that has moved on by at most the size of the array.
Wrap(n) == IF n >= RINGBUF_SIZE THEN n - RINGBUF_SIZE ELSE n

\* How far slot s is after slot start.
Distance(start, s) == IF s >= start THEN s - start ELSE s - start + RINGBUF_SIZE

\* memset(tty_table, 0, sizeof(tty_table))
Init ==
    /\ data = [s \in BufSlots |-> 0]
    /\ buf_head = 0
    /\ buf_tail = 0
    /\ buf_size = 0
    /\ mem = <<>>
    /\ buf_rc = 0

ringbuf_write(byte) ==
    \/ /\ buf_size = RINGBUF_SIZE
       /\ buf_rc' = -1
       /\ UNCHANGED <<data, buf_head, buf_tail, buf_size, mem>>
    \/ /\ buf_size # RINGBUF_SIZE
       /\ data' = [data EXCEPT ![buf_tail] = byte]
       /\ buf_tail' = Wrap(buf_tail + 1)
       /\ buf_size' = buf_size + 1
       /\ buf_rc' = 0
       /\ UNCHANGED <<buf_head, mem>>

ringbuf_read ==
    \/ /\ buf_size = 0
       /\ buf_rc' = -1
       /\ UNCHANGED <<data, buf_head, buf_tail, buf_size, mem>>
    \/ /\ buf_size # 0
       /\ mem' = <<data[buf_head]>>
       /\ buf_head' = Wrap(buf_head + 1)
       /\ buf_size' = buf_size - 1
       /\ buf_rc' = 0
       /\ UNCHANGED <<data, buf_tail>>

\* Mutant: a block that does not fit is cut off and not refused.
ringbuf_write_memCut(block) ==
    LET n == IF buf_size + Len(block) > RINGBUF_SIZE THEN RINGBUF_SIZE - buf_size ELSE Len(block)
    IN  /\ data' = [s \in BufSlots |-> IF Distance(buf_tail, s) < n
                                       THEN block[Distance(buf_tail, s) + 1] ELSE data[s]]
        /\ buf_tail' = Wrap(buf_tail + n)
        /\ buf_size' = buf_size + n
        /\ buf_rc' = 0
        /\ UNCHANGED <<buf_head, mem>>

ringbuf_write_mem(block) ==
    \/ /\ buf_size + Len(block) > RINGBUF_SIZE
       /\ buf_rc' = -1
       /\ UNCHANGED <<data, buf_head, buf_tail, buf_size, mem>>
    \/ /\ buf_size + Len(block) <= RINGBUF_SIZE
       /\ data' = [s \in BufSlots |-> IF Distance(buf_tail, s) < Len(block)
                                      THEN block[Distance(buf_tail, s) + 1] ELSE data[s]]
       /\ buf_tail' = Wrap(buf_tail + Len(block))
       /\ buf_size' = buf_size + Len(block)
       /\ buf_rc' = 0
       /\ UNCHANGED <<buf_head, mem>>

ringbuf_read_mem(n) ==
    LET count == IF n <= buf_size THEN n ELSE buf_size
    IN  /\ mem' = [i \in 1 .. count |-> data[Wrap(buf_head + i - 1)]]
        /\ buf_head' = Wrap(buf_head + count)
        /\ buf_size' = buf_size - count
        /\ buf_rc' = count
        /\ UNCHANGED <<data, buf_tail>>

\* memset(buf, 0, RINGBUF_SIZE): the header and all but the last HEADER_SIZE bytes.
ringbuf_flush ==
    /\ data' = [s \in BufSlots |-> IF s < RINGBUF_SIZE - HEADER_SIZE THEN 0 ELSE data[s]]
    /\ buf_head' = 0
    /\ buf_tail' = 0
    /\ buf_size' = 0
    /\ buf_rc' = 0
    /\ UNCHANGED mem

RingNext ==
    \/ \E byte \in Chars : ringbuf_write(byte)
    \/ ringbuf_read
    \/ \E block \in Blocks : ringbuf_write_mem(block)
    \/ \E n \in Sizes : ringbuf_read_mem(n)
    \/ ringbuf_flush

RingSpec == Init /\ [][RingNext]_ringVars

-----------------------------------------------------------------------------
\* The variables have the types of ringbuf.h.
RingTypeOK ==
    /\ data \in [BufSlots -> Int]
    /\ buf_head \in BufSlots
    /\ buf_tail \in BufSlots
    /\ buf_size \in 0 .. RINGBUF_SIZE
    /\ mem \in Seq(Int)
    /\ buf_rc \in -1 .. RINGBUF_SIZE

\* The tail is size slots after the head, around the end of the array.
RingCountersAgree == buf_tail = Wrap(buf_head + buf_size)

\* A ring buffer implements a byte stream: whatever bytes and blocks are written,
\* read and flushed at whatever alignment, they come out once and in order, and
\* bytes that a flush leaves in the array (it clears only RINGBUF_SIZE bytes of the
\* structure) are never delivered.
Stream == INSTANCE ByteStream WITH
    Blocks <- Blocks \cup {<<c>> : c \in Chars},
    bytes <- [i \in 1 .. buf_size |-> data[Wrap(buf_head + i - 1)]],
    delivered <- mem,
    answer <- buf_rc

ImplementsByteStream == Stream!StreamSpec
=============================================================================
