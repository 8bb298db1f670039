----------------------------- MODULE ByteStream -----------------------------
(***************************************************************************)
(* What ringbuf.c promises: a first-in first-out stream of limited size,   *)
(* written and read byte by byte or in blocks.                             *)
(***************************************************************************)
EXTENDS Streams

CONSTANTS Blocks, Sizes     \* what is written, how much is read

VARIABLES
    bytes,      \* the stream, oldest byte first
    delivered,  \* what the last successful read delivered
    answer      \* what the last operation returned

streamVars == <<bytes, delivered, answer>>

StreamInit == bytes = <<>> /\ delivered = <<>> /\ answer = 0

Write(block) ==
    /\ bytes' = Written(bytes, block)
    /\ answer' = IF Fits(bytes, block) THEN 0 ELSE -1
    /\ UNCHANGED delivered

ReadByte ==
    /\ bytes' = Left(bytes, 1)
    /\ delivered' = IF bytes = <<>> THEN delivered ELSE <<Head(bytes)>>
    /\ answer' = IF bytes = <<>> THEN -1 ELSE 0

Read(n) ==
    /\ bytes' = Left(bytes, n)
    /\ delivered' = Taken(bytes, n)
    /\ answer' = Available(bytes, n)

Flush ==
    /\ bytes' = <<>>
    /\ answer' = 0
    /\ UNCHANGED delivered

StreamNext ==
    \/ \E block \in Blocks : Write(block)
    \/ ReadByte
    \/ \E n \in Sizes : Read(n)
    \/ Flush

StreamSpec == StreamInit /\ [][StreamNext]_streamVars
=============================================================================
