-------------------------- MODULE CountingSemaphore --------------------------
(***************************************************************************)
(* What the semaphore system calls promise of a semaphore from the moment  *)
(* it is made until it is removed: a wait takes one from a positive value  *)
(* or joins the waiting processes, a post gives one to the process that    *)
(* has waited longest or adds it to the value.  A process that waits does  *)
(* nothing until a post frees it.  The value a semaphore starts with is    *)
(* left open; SemValue is about the one that sem_init is asked for.        *)
(***************************************************************************)
EXTENDS Naturals, Sequences

CONSTANTS Procs, Sems

VARIABLES made, value, waiting

countVars == <<made, value, waiting>>

CountInit ==
    /\ made = {}
    /\ value \in [Sems -> Nat]
    /\ waiting = [s \in Sems |-> <<>>]

Make(s) ==
    /\ s \notin made
    /\ made' = made \cup {s}
    /\ value' \in [Sems -> Nat]
    /\ \A t \in Sems \ {s} : value'[t] = value[t]
    /\ UNCHANGED waiting

Remove(s) ==
    /\ s \in made
    /\ waiting[s] = <<>>
    /\ made' = made \ {s}
    /\ UNCHANGED <<value, waiting>>

Blocked(p) == \E s \in Sems : \E i \in DOMAIN waiting[s] : waiting[s][i] = p

Take(p, s) ==
    /\ s \in made
    /\ ~Blocked(p)
    /\ value[s] > 0
    /\ value' = [value EXCEPT ![s] = @ - 1]
    /\ UNCHANGED <<made, waiting>>

Join(p, s) ==
    /\ s \in made
    /\ ~Blocked(p)
    /\ value[s] = 0
    /\ waiting' = [waiting EXCEPT ![s] = Append(@, p)]
    /\ UNCHANGED <<made, value>>

Give(s) ==
    /\ s \in made
    /\ UNCHANGED made
    /\ IF waiting[s] = <<>>
       THEN /\ value' = [value EXCEPT ![s] = @ + 1]
            /\ UNCHANGED waiting
       ELSE /\ waiting' = [waiting EXCEPT ![s] = Tail(@)]
            /\ UNCHANGED value

CountNext ==
    \E s \in Sems :
        \/ Make(s)
        \/ Remove(s)
        \/ Give(s)
        \/ \E p \in Procs : Take(p, s) \/ Join(p, s)

CountSpec == CountInit /\ [][CountNext]_countVars
=============================================================================
