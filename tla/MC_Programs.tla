---------------------------- MODULE MC_Programs ----------------------------
(***************************************************************************)
(* Two shells of one parity and a process that only loops; one ping and    *)
(* two pongs; two pings, whose balls add up, and one pong.  There are ids  *)
(* enough for one lost race.  A slice of one tick: as ticks come at any    *)
(* moment, programs still run for as long as they like.                    *)
(***************************************************************************)
EXTENDS Programs

Boot(one, two, three) ==
    [e \in Entries |-> CASE e = 0 -> "idle" [] e = 1 -> one
                         [] e = 2 -> two [] e = 3 -> three]

MCAssignments == {Boot("shell", "idle", "shell"), Boot("pong", "ping", "pong"),
                  Boot("ping", "pong", "ping")}
MCWaitQueues == {MutexQ(m) : m \in 0 .. 1} \cup {SemQ(s) : s \in 0 .. 5}
MCSleepSeconds == {0}
MCNone == {}
MCDiscipline == {"nowaiters"}
=============================================================================
