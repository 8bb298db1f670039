------------------------------- MODULE Programs -------------------------------
(***************************************************************************)
(* The user programs of prog_user.c on top of the kernel: shells that share*)
(* two mutexes by the parity of their pids, and ping and pong, which share *)
(* two semaphores.  The ids of both are global variables that the programs *)
(* fill in by test and store, with a system call, and perhaps other        *)
(* programs, in between.                                                   *)
(*                                                                         *)
(* pc is where a program goes on.  What it does between two system calls   *)
(* that touch a process or a shared variable is in the step of one of them.*)
(* The read-only and output calls are left out: they change nothing that   *)
(* is modelled.  Programs may race for an id; the properties that this     *)
(* breaks are about behaviours without a race.                             *)
(***************************************************************************)
EXTENDS Kernel

CONSTANTS
    Assignments,    \* the programs that the entries of the process table may run
    INPUT_SIZE,     \* characters that a shell has room for (128)
    MAX_RACES       \* bound: programs that find an id still missing that another
                    \* program is about to store

\* Each shell asks for at most one mutex, each ping and pong for at most two
\* semaphores: kproc_init starts 4 shells and 6 of the others, for 16 ids of each kind.
EnoughIds(assigned) ==
    /\ Cardinality({e \in Entries : assigned[e] = "shell"}) <= MUTEX_MAX
    /\ 2 * Cardinality({e \in Entries : assigned[e] \in {"ping", "pong"}}) <= SEM_MAX

ASSUME ProgramsAssumption ==
    /\ Assignments \subseteq [Entries -> {"idle", "shell", "ping", "pong"}]
    /\ INPUT_SIZE \in Nat
    /\ MAX_RACES \in Nat
    /\ BOOT_PROCS = PROC_MAX
    /\ Discipline = {"nowaiters"}      \* no program destroys a semaphore
    /\ \A assigned \in Assignments : EnoughIds(assigned)

VARIABLES
    program,        \* the program of each entry
    pc,             \* where it goes on
    input_len,      \* characters of the line that a shell is reading
    ids,            \* shell_mutex and pingpong_semaphores
    races           \* history: how many of these there were

progVars == <<program, pc, input_len, ids, races>>

pvars == <<kvars, progVars>>

Players == {e \in Entries : program[e] \in {"ping", "pong"}}
Shells == {e \in Entries : program[e] = "shell"}

pid == active_proc     \* nothing is created after boot: pid e is in entry e

\* The global variables that hold ids, and what the programs call them.
Slots == {"shell_mutex", "pingpong_semaphores"} \X (0 .. 1)
ShellSlot(e) == <<"shell_mutex", e % 2>>
Ping == <<"pingpong_semaphores", 0>>
Pong == <<"pingpong_semaphores", 1>>
Own(e) == IF program[e] = "ping" THEN Ping ELSE Pong
Others(e) == IF program[e] = "ping" THEN Pong ELSE Ping

\* The slot whose id a program is about to ask for or to store.
Asking(e) ==
    IF pc[e] \notin {"init", "store", "initPong", "storePong"} THEN {}
    ELSE IF program[e] = "shell" THEN {ShellSlot(e)}
    ELSE IF pc[e] \in {"init", "store"} THEN {Ping} ELSE {Pong}

ProgramsInit ==
    /\ KernelInit
    /\ program \in Assignments
    /\ pc = [e \in Entries |-> IF program[e] = "idle" THEN "loop" ELSE "test"]
    /\ input_len = [e \in Entries |-> 0]
    /\ ids = [slot \in Slots |-> -1]
    /\ races = 0

-----------------------------------------------------------------------------
\* The active program is at one of these places.
At(kinds, places) ==
    /\ InUserProcess
    /\ program[pid] \in kinds
    /\ pc[pid] \in places

Goto(place) == pc' = [pc EXCEPT ![pid] = place]

InUser == UNCHANGED kvars

Quietly == UNCHANGED <<program, input_len, ids, races>>

Races(slot) == IF ids[slot] < 0 /\ \E e \in Entries : slot \in Asking(e) THEN 1 ELSE 0

\* Mutant: id 0 is taken for no id.
TestSlotZero(slot, init, done) ==
    /\ InUser
    /\ Goto(IF ids[slot] <= 0 THEN init ELSE done)
    /\ races' = races + Races(slot)
    /\ races' <= MAX_RACES
    /\ UNCHANGED <<program, input_len, ids>>

\* if (slot < 0) slot = init();
TestSlot(slot, init, done) ==
    /\ InUser
    /\ Goto(IF ids[slot] < 0 THEN init ELSE done)
    /\ races' = races + Races(slot)
    /\ races' <= MAX_RACES
    /\ UNCHANGED <<program, input_len, ids>>

StoreSlot(slot, done) ==
    /\ InUser
    /\ ids' = [ids EXCEPT ![slot] = eax[pid]]
    /\ Goto(done)
    /\ UNCHANGED <<program, input_len, races>>

-----------------------------------------------------------------------------
\* prog_shell
ShellTest == At({"shell"}, {"test"}) /\ TestSlot(ShellSlot(pid), "init", "nap")
ShellInit == At({"shell"}, {"init"}) /\ CallMutexInit /\ Goto("store") /\ Quietly
ShellStore == At({"shell"}, {"store"}) /\ StoreSlot(ShellSlot(pid), "nap")

\* At the start and in the command "sleep"; then the prompt.
ShellSleep ==
    /\ At({"shell"}, {"nap"})
    /\ \E seconds \in SLEEP_SECONDS : CallSleep(seconds)
    /\ Goto("lock")
    /\ input_len' = [input_len EXCEPT ![pid] = 0]
    /\ UNCHANGED <<program, ids, races>>

ShellLock ==
    /\ At({"shell"}, {"lock"})
    /\ CallMutexLock(ids[ShellSlot(pid)])
    /\ Goto("read")
    /\ Quietly

\* io_read brings n characters, and the end of the line or not.
ShellRead ==
    /\ At({"shell"}, {"read"})
    /\ \E n \in 0 .. 1, place \in {"unlock", "unlockEnd"} :
          LET len == input_len[pid] + n
          IN  /\ input_len' = [input_len EXCEPT ![pid] = len]
              /\ Goto(place)
              /\ Commit(IF len > INPUT_SIZE THEN Undefined(Ctx) ELSE Ctx)
    /\ UNCHANGED <<mutexVars, semVars, eax, program, ids, races>>

ShellUnlock ==
    /\ At({"shell"}, {"unlock", "unlockEnd"})
    /\ CallMutexUnlock(ids[ShellSlot(pid)])
    /\ Goto(IF pc[pid] = "unlock" THEN "lock" ELSE "command")
    /\ Quietly

\* The line is a command, or is printed: past its end if it fills the buffer.
ShellCommand ==
    /\ At({"shell"}, {"command"})
    /\ input_len[pid] > 0
    /\ \E place \in {"nap", "exit", "cmdLock"} : Goto(place)
    /\ InUser
    /\ Quietly

ShellPrint ==
    /\ At({"shell"}, {"command"})
    /\ \/ /\ InUser
          /\ Goto("lock")
          /\ input_len' = [input_len EXCEPT ![pid] = 0]
       \/ /\ input_len[pid] = INPUT_SIZE
          /\ Commit(Undefined(Ctx))
          /\ UNCHANGED <<mutexVars, semVars, eax, pc, input_len>>
    /\ UNCHANGED <<program, ids, races>>

ShellExit == At({"shell"}, {"exit"}) /\ CallExit /\ Goto("gone") /\ Quietly

\* The command "lock": lock, sleep, unlock.
CommandLock ==
    /\ At({"shell"}, {"cmdLock"})
    /\ CallMutexLock(ids[ShellSlot(pid)])
    /\ Goto("cmdNap")
    /\ Quietly

CommandSleep ==
    /\ At({"shell"}, {"cmdNap"})
    /\ \E seconds \in SLEEP_SECONDS : CallSleep(seconds)
    /\ Goto("cmdUnlock")
    /\ Quietly

\* Mutant: the command forgets to unlock.
CommandUnlockNot ==
    /\ At({"shell"}, {"cmdUnlock"})
    /\ InUser
    /\ Goto("lock")
    /\ input_len' = [input_len EXCEPT ![pid] = 0]
    /\ UNCHANGED <<program, ids, races>>

CommandUnlock ==
    /\ At({"shell"}, {"cmdUnlock"})
    /\ CallMutexUnlock(ids[ShellSlot(pid)])
    /\ Goto("lock")
    /\ input_len' = [input_len EXCEPT ![pid] = 0]
    /\ UNCHANGED <<program, ids, races>>

ShellStep ==
    \/ ShellTest \/ ShellInit \/ ShellStore \/ ShellSleep
    \/ ShellLock \/ ShellRead \/ ShellUnlock
    \/ ShellCommand \/ ShellPrint \/ ShellExit
    \/ CommandLock \/ CommandSleep \/ CommandUnlock

-----------------------------------------------------------------------------
\* prog_ping and prog_pong; only ping posts pong once more, to begin with.
PlayerBegins == IF program[pid] = "ping" THEN "serve" ELSE "wait"

PlayerTest ==
    At({"ping", "pong"}, {"test"}) /\ TestSlot(Ping, "init", "testPong")

\* Mutant: ping does not initialize pong.
PlayerTestPongNot ==
    /\ At({"ping", "pong"}, {"testPong"})
    /\ IF program[pid] = "ping"
       THEN InUser /\ Goto("serve") /\ Quietly
       ELSE TestSlot(Pong, "initPong", PlayerBegins)

PlayerTestPong ==
    At({"ping", "pong"}, {"testPong"}) /\ TestSlot(Pong, "initPong", PlayerBegins)

PlayerInit ==
    /\ At({"ping", "pong"}, {"init", "initPong"})
    /\ CallSemInit
    /\ Goto(IF pc[pid] = "init" THEN "store" ELSE "storePong")
    /\ Quietly

PlayerStore ==
    At({"ping", "pong"}, {"store"}) /\ StoreSlot(Ping, "testPong")
PlayerStorePong ==
    At({"ping", "pong"}, {"storePong"}) /\ StoreSlot(Pong, PlayerBegins)

PlayerWait ==
    /\ At({"ping", "pong"}, {"wait"})
    /\ CallSemWait(ids[Own(pid)])
    /\ Goto("sleep")
    /\ Quietly

PlayerSleep ==
    /\ At({"ping", "pong"}, {"sleep"})
    /\ \E seconds \in SLEEP_SECONDS : CallSleep(seconds)
    /\ Goto("post")
    /\ Quietly

\* Mutant: a player passes the turn to its own kind.
PlayerPostOwn ==
    /\ At({"ping", "pong"}, {"serve", "post"})
    /\ CallSemPost(ids[IF pc[pid] = "serve" THEN Pong ELSE Own(pid)])
    /\ Goto("wait")
    /\ Quietly

PlayerPost ==
    /\ At({"ping", "pong"}, {"serve", "post"})
    /\ CallSemPost(ids[Others(pid)])
    /\ Goto("wait")
    /\ Quietly

PlayerStep ==
    \/ PlayerTest \/ PlayerTestPong \/ PlayerInit \/ PlayerStore \/ PlayerStorePong
    \/ PlayerWait \/ PlayerSleep \/ PlayerPost

-----------------------------------------------------------------------------
\* Interrupts.  Nobody creates or kills a process here (Kernel has that).
Started ==
    BootKey /\ UNCHANGED <<mutexVars, semVars, eax, progVars>>

Tick ==
    TimerInterrupt /\ UNCHANGED <<mutexVars, semVars, eax, progVars>>

ProgramsNext == Started \/ Tick \/ ShellStep \/ PlayerStep

\* The timer ticks for ever, and a program that gets the CPU again and again goes
\* on: weak fairness of Tick and strong fairness of the steps, without ENABLED.
TickMatters == status = "running" /\ AfterHandler(scheduler_timer(Ctx)) # Ctx

Step(e) == active_proc = e /\ (ShellStep \/ PlayerStep)

Runs(e) == status = "running" /\ active_proc = e /\ program[e] # "idle"

ProgramsFairSpec ==
    /\ ProgramsInit /\ [][ProgramsNext]_pvars
    /\ <>[]TickMatters => []<><<Tick>>_pvars
    /\ \A e \in Entries \ {0} : []<>Runs(e) => []<><<Step(e)>>_pvars

-----------------------------------------------------------------------------
(***************************************************************************)
(* Properties.                                                             *)
(***************************************************************************)

\* No program makes the kernel panic, and every id that a program passes is one it
\* may pass, also when ids are raced for: what leaves C is a line of input that
\* fills its buffer (prog_user.c:89, 119), and nothing else.
ProgramsStayDefined ==
    /\ status # "panic"
    /\ status = "undefined" => \E e \in Shells : input_len[e] >= INPUT_SIZE

Blocked(e) == proc_table[e].state = "WAITING"

\* A shell that reads a line, or sleeps in the command "lock", owns the mutex that
\* its unlock will name: no two shells of one parity are in there together, unless
\* they raced for the mutex (prog_user.c:44).
HolderOwnsLock ==
    races = 0 => \A e \in Shells :
        /\ pc[e] \in {"read", "unlock", "unlockEnd", "cmdNap", "cmdUnlock"}
        /\ ~Blocked(e)
        => Owns(e, ids[ShellSlot(e)])

\* A player has the ball from the end of its sem_wait to its sem_post.
HasBall(e) == e \in Players /\ pc[e] \in {"sleep", "post"} /\ ~Blocked(e)

Served == {e \in Players : program[e] = "ping" /\ pc[e] \in {"wait", "sleep", "post"}}

Waiting(slot) == IF ids[slot] < 0 THEN 0 ELSE semaphores[ids[slot]].count

\* There are as many balls as pings that have served: a turn that is passed is
\* neither lost nor doubled, whoever is preempted, blocks or sleeps where
\* (prog_user.c:150, 172, ksem.c:160).
BallsConserved ==
    races = 0 =>
        Waiting(Ping) + Waiting(Pong) + Cardinality({e \in Players : HasBall(e)})
            = Cardinality(Served)

Disturbed == races > 0 \/ status # "running"

\* A shell that waits for the mutex gets it: every way from lock leads to unlock
\* (prog_user.c:81 to 93 and 115 to 117).
ShellGetsLock ==
    \A e \in Entries : e \in Shells /\ Blocked(e) ~> ~Blocked(e) \/ Disturbed

\* Once a ping has served, a ping and a pong have the ball again and again
\* (prog_user.c:146, 168), although both semaphores start at zero (ksem.c:54).
PingPongGoesOn ==
    \A kind \in {"ping", "pong"} :
        Served # {} /\ (\E e \in Entries : program[e] = "pong")
            ~> (\E e \in Entries : program[e] = kind /\ HasBall(e)) \/ Disturbed
=============================================================================
