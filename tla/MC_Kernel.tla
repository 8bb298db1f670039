----------------------------- MODULE MC_Kernel -----------------------------
(***************************************************************************)
(* One mutex and one semaphore.  Three user processes for the runs in      *)
(* which the order of two waiters matters, two for the ones in which the   *)
(* callers follow no rule; 1 is an id just outside the tables.             *)
(***************************************************************************)
EXTENDS Kernel

MCWaitQueues == {MutexQ(0), SemQ(0)}
MCSleepSeconds == {0}
MCIds == {0, 1}
MCNoDiscipline == {}
MCOwnerDiscipline == {"owner", "alive"}
MCMortalDiscipline == {"owner", "allocated"}
MCAllocatedDiscipline == {"allocated"}
MCFullDiscipline == {"owner", "alive", "allocated", "nowaiters"}
=============================================================================
