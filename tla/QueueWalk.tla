------------------------------ MODULE QueueWalk ------------------------------
(***************************************************************************)
(* Walking a queue.  scheduler_timer and scheduler_remove walk a queue by  *)
(* dequeuing its head size times and enqueuing most of the items again,    *)
(* but they compare the loop counter with the size the queue has at that   *)
(* moment, which shrinks by one for every item that is not enqueued again. *)
(* Leaving is the set of positions (in the original queue) of those items. *)
(* These are the closed forms; ShrinkingLoop runs the loops step by step.  *)
(***************************************************************************)
EXTENDS Integers, Sequences, FiniteSets

LeftBefore(Leaving, i) == Cardinality({j \in Leaving : j < i})

\* Mutant: the loop ends one item early.
ReachedOneEarly(s, Leaving) ==
    {i \in 1 .. Len(s) : i + LeftBefore(Leaving, i) < Len(s)}

\* The positions the loop reaches before its counter meets the shrunk size.
Reached(s, Leaving) ==
    {i \in 1 .. Len(s) : (i - 1) + LeftBefore(Leaving, i) < Len(s)}

Rank(I, i) == Cardinality({j \in I : j <= i})

\* The items of s at the positions in I, in the order of s.
AtIndices(s, I) ==
    [n \in 1 .. Cardinality(I) |-> s[CHOOSE i \in I : Rank(I, i) = n]]

\* Mutants: the items that were not reached end up last, or are lost.
RotateUnreachedLast(s, Leaving) ==
    AtIndices(s, Reached(s, Leaving) \ Leaving)
        \o AtIndices(s, (1 .. Len(s)) \ Reached(s, Leaving))

RotateUnreachedLost(s, Leaving) ==
    AtIndices(s, Reached(s, Leaving) \ Leaving)

\* The queue after the walk: what was not reached is now in front.
Rotate(s, Leaving) ==
    AtIndices(s, (1 .. Len(s)) \ Reached(s, Leaving))
        \o AtIndices(s, Reached(s, Leaving) \ Leaving)
=============================================================================
