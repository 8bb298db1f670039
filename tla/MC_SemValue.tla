---------------------------- MODULE MC_SemValue ----------------------------
(***************************************************************************)
(* Two user processes and one semaphore, for callers that follow every     *)
(* rule.  Initial values 0 and 1, the ones that ping and pong ask for.     *)
(***************************************************************************)
EXTENDS SemValue

MCWaitQueues == {MutexQ(0), SemQ(0)}
MCSleepSeconds == {0}
MCIds == {0}
MCInitialValues == {0, 1}
MCDiscipline == {"owner", "alive", "allocated", "nowaiters"}
=============================================================================
