---------------------------- MODULE MC_Scheduler ----------------------------
(***************************************************************************)
(* The process table and the scheduler on their own: no wait queues.       *)
(* Three sleepers fit beside the idle task: enough for a tick to wake one  *)
(* and miss another while a third is still counting down.                  *)
(***************************************************************************)
EXTENDS SleepTiming

MCWaitQueues == {}
MCSleepSeconds == {-1, 0, 1}
=============================================================================
