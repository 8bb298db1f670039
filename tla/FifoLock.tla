------------------------------ MODULE FifoLock ------------------------------
(***************************************************************************)
(* What the mutex system calls promise to processes that follow the rules: *)
(* a lock has at most one holder, a process that finds it held waits and   *)
(* does nothing else, and a release hands the lock to the process that has *)
(* waited longest, so that nobody can take it in between.                  *)
(***************************************************************************)
EXTENDS Naturals, Sequences

CONSTANTS Procs, Locks, Nobody

VARIABLES holder, waiters

lockVars == <<holder, waiters>>

LockInit ==
    /\ holder = [l \in Locks |-> Nobody]
    /\ waiters = [l \in Locks |-> <<>>]

Waits(p) == \E l \in Locks : \E i \in DOMAIN waiters[l] : waiters[l][i] = p

Acquire(p, l) ==
    /\ ~Waits(p)
    /\ holder[l] = Nobody
    /\ holder' = [holder EXCEPT ![l] = p]
    /\ UNCHANGED waiters

Wait(p, l) ==
    /\ ~Waits(p)
    /\ holder[l] \notin {Nobody, p}
    /\ waiters' = [waiters EXCEPT ![l] = Append(@, p)]
    /\ UNCHANGED holder

Release(p, l) ==
    /\ ~Waits(p)
    /\ holder[l] = p
    /\ IF waiters[l] = <<>>
       THEN /\ holder' = [holder EXCEPT ![l] = Nobody]
            /\ UNCHANGED waiters
       ELSE /\ holder' = [holder EXCEPT ![l] = Head(waiters[l])]
            /\ waiters' = [waiters EXCEPT ![l] = Tail(@)]

LockNext ==
    \E p \in Procs, l \in Locks : Acquire(p, l) \/ Wait(p, l) \/ Release(p, l)

LockSpec == LockInit /\ [][LockNext]_lockVars
=============================================================================
