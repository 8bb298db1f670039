# gmkOS: specifications, model checking and proofs

gmkOS is a small 32-bit x86 teaching kernel (`src/`, C and a little assembly):
preemptive round-robin processes, sleeping, kernel mutexes and semaphores,
timers, TTYs, a keyboard and a VGA driver. This directory holds TLA+ modules
translated from its source, the TLC configurations that check them on small
instances, and proofs for TLAPS. `PROJECT.json` lists the components, the runs,
the mutants, the lines of source each definition stands for, the findings, the
hazards and the theorems.

To check a run: `tlc -config MC_Kernel.cfg MC_Kernel`. To check the proofs:
`tlapm Scheduler_proofs.tla` (and the other `*_proofs` modules).

## The system

The kernel runs on one CPU. `interrupts_irq_register` fills every gate as an
interrupt gate (`ACC_INTR_GATE`), so interrupts are off from the entry of a
handler to the `iret` that ends it: **a kernel entry is atomic**. Each one is
`kernel_context_enter` (kernel.c:231): save the trapframe, run the handler of
the interrupt, run the scheduler, leave through the trapframe of `active_proc`.
What interleaves is the order of entries: timer ticks, keys, and the system
calls of whichever process is active. While `main` waits for the first key,
interrupts are off and `keyboard_poll` runs outside such an entry, so control
keys act without a scheduler run after them.

| Component | State | Operations | Interacts with | What makes it correct |
|---|---|---|---|---|
| Process table (kproc.c) | `proc_table`, `proc_allocator`, `next_pid` | create, destroy, look up by pid | queued by pid; recycles entries; destroyed by Ctrl-Q or by itself | entries neither leak nor are booked twice; a pid names one process |
| Scheduler (scheduler.c) | `run_queue`, `sleep_queue`, `active_proc`, PCB fields | timer tick, run, add, remove, sleep | called at the end of every entry, by kproc, kmutex, ksem | no process lost or queued twice; round robin; full slices; sleepers wake, never early |
| System calls (ksyscall.c) | saved EAX of each process | dispatch, range checks, return values | calls every service as `active_proc` | the caller gets the call's result |
| Mutexes (kmutex.c) | `mutexes` with wait queues, `mutex_queue` | init, destroy, lock, unlock | blocks and wakes through the scheduler | mutual exclusion, FIFO hand-over, ids exact |
| Semaphores (ksem.c) | `semaphores` with wait queues, `sem_queue` | init, destroy, wait, post | blocks and wakes through the scheduler | no lost wake-up, FIFO, ids exact |
| Queue (queue.c) | array, head, tail, size | init, in, out | under all of the above | a bounded FIFO |
| Timer (timer.c) | `timers`, `timer_allocator`, `timer_ticks` | register, unregister, tick | runs scheduler_timer, tty_refresh and display callbacks | callbacks keep their schedule; ids exact |
| Interrupts and PIC (interrupts.c) | IDT, handler table, PIC masks | register, dispatch, enable, dismiss | delivers everything; filled by main in the boot order | no interrupt before its handler; no request held back for ever |
| Ring buffer (ringbuf.c) | array, head, tail, size | write, read, flush, block copies | TTY input and output, process I/O | a bounded FIFO of bytes |
| TTY (tty.c) | `tty_table`, `active_tty` | select, input, update, refresh | keyboard writes, processes read and write, draws through VGA | each TTY holds the last lines of its output; the display shows the selected one |
| VGA (vga.c) | cells, position | clear, set position, put characters | drawn on by tty_refresh, the hooks of test.h, kernel_exit | positions and wrapping; a hook restores the position it moves |
| Test hooks (test.h) | counters | spinner, seconds, list of processes | timer callbacks that draw over the TTY | what they draw does not stay when another TTY is shown |
| Keyboard (keyboard.c) | status bits, `esc_status` | poll, decode, control keys | polled by main and by its interrupt; feeds the active TTY, creates and destroys processes | every scancode once and in order; modifiers track the keys held |
| User programs (prog_user.c) | shared mutex and semaphore ids, the line a shell reads | shell, ping, pong | only through system calls and those ids | exclusion, conserved turns, progress; no id used before it is stored |

Behaviours that are hard: a loop bound that the loop itself shrinks
(scheduler.c:38 and :147); handlers that leave `active_proc` NULL or pointing at
a blocked process; pids and entries that are recycled while queues, owners and
saved pointers may still refer to them; a tick that wakes and skips sleepers;
the hand-over of a mutex; return values written after the caller was
descheduled; processes destroyed at any point; uninitialized ids when a table is
exhausted; ids that programs test and store with a system call in between;
interrupts latched while main still polls; a tick count that wraps; four
callbacks that draw on one display.

## Modules

A C function is an operator from a *kernel context* `k`, a record of the
kernel's variables, to the context the function leaves; an action reads the
context from the variables (`Ctx`, `KernelCtx`), applies a handler and the
scheduler, and assigns the result (`Commit`, `CommitKernel`). A later module
adds fields to the context and uses the same operators. A `proc_t *` is an index
of `proc_table`, a `queue_t *` a queue's name, a queue the sequence of the pids
in it. `kernel_panic` and steps that C leaves undefined end a behaviour
(`status`).

| Module | Models | Notes |
|---|---|---|
| `KQueue` | queue.c on its array | refines `BoundedFifo`; justifies modelling queues as sequences elsewhere |
| `QueueWalk` | what the two loops of scheduler.c do to a queue, in closed form | `Reached`: the positions visited before the counter meets the shrinking size; `Rotate`: the queue afterwards |
| `ShrinkingLoop` | the same loops, one `queue_out`/`queue_in` at a time on `KQueue`'s array | shows the closed form, for TLC and for the proofs |
| `Scheduler` | kproc.c, scheduler.c, kernel entry, control keys, PROC_SLEEP, PROC_EXIT | `TimerInterrupt`, `KeyCreate`, `KeyDestroy`, `KeyOther`, `ProcSleep`, `ProcExit`; `Boot*` before interrupts are on |
| `SleepTiming` | `Scheduler` with a history variable | how long a sleep lasts |
| `KMutex`, `KSem` | kmutex.c, ksem.c and their wrappers in ksyscall.c | operators and state; the actions are in `Kernel` |
| `Kernel` | everything above through `ksyscall_irq_handler` | the call number and the return value in EAX; refines `FifoLock` and `CountingSemaphore` |
| `SemValue` | `Kernel` with a history variable | what is left of the value that sem_init was asked for |
| `Programs` | prog_user.c: shells, ping and pong | on top of the operations of `Kernel`; one step per system call or test of a shared id |
| `Timer` | timer.c | the tick count is an int of any width and wraps; the ids that one tick gives back are an `AtIndices` of `QueueWalk`; history variable: how long ago each callback ran |
| `Interrupts` | interrupts.c, the boot sequence of main.c, keyboard_poll and its ports | on top of `Timer`; the interrupt controller and the keyboard controller are external |
| `RingBuf` | ringbuf.c on its array, block copies in closed form | refines `ByteStream`; justifies modelling I/O buffers as sequences (`Streams`) |
| `Keyboard` | the status bits and the branches of keyboard_decode | a key is a scancode without its release bit; the keymaps are constants |
| `Vga` | vga.c as operators on a display | cells and position |
| `Tty` | tty.c: selection, input, output, cursor, scrolling | `inside` of a TTY: nothing was stored behind `buf` so far |
| `Console` | keyboard_irq_handler, the I/O calls, tty_refresh and the hooks of test.h as timer callbacks, kernel_exit | composes `Keyboard`, `Tty`, `Vga` and `Streams`; history variables: keys held, text printed |
| `BoundedFifo`, `ByteStream`, `FifoLock`, `CountingSemaphore` | what queues, ring buffers, mutexes and semaphores promise | abstract specifications |
| `MC_*` | instances for TLC | `MC_Buffers` runs `ShrinkingLoop` (with `KQueue`) or `RingBuf`, chosen by Init |
| `Buffers_proofs`, `QueueWalk_proofs`, `Scheduler_proofs`, `SleepTiming_proofs`, `Kernel_proofs`, `Programs_proofs`, `Interrupts_proofs`, `Console_proofs` | theorems | see below |

Names follow the source. A definition marked `Mutant` is a wrong version of the
definition after it; it is used by no specification, and each shows that one
property notices that mistake.

`Dispatch` follows scheduler.c:104, where `active_proc` is dereferenced before
it is tested: that the pid it took from the run queue always names a process is
a consequence of `QueueDiscipline`.

Two operators stand for undefined reads. `MutexIds` and `SemIds` give the values
an uninitialized `id` may have when the allocator is empty: an id in the table,
just below it, or just above it. `HandOver` and the range checks end in status
`"undefined"` where the code would index outside a table or look up an
uninitialized pid.

## Runs

Deadlock is checked in `buffers`, where some operation is always possible. It
is off elsewhere: a panic, an exit or an undefined state ends the machine, and
so do the bounds. That nobody waits for ever where the code should not let him is
left to the liveness properties.

| Run | Question | Bounds and why they are enough | Result |
|---|---|---|---|
| `scheduler` | Do table, allocator and queues stay consistent, is the run queue round robin, are slices whole, does every sleeper wake, never early, and does every ready process run, whatever order processes are created, destroyed, put to sleep and preempted in? | 4 entries, 3 processes at boot and two more pids, slice 2, sleeps of -1, 0, 1; fair timer: entries are recycled, the run queue is full, two sleepers wake in one tick and a third is skipped | holds |
| `sleep_exact` | Does a sleep last as long as asked (plus the two ticks of the countdown)? | 4 processes, sleeps of -1, 0, 1 | **violated**: a tick that wakes one sleeper skips another |
| `buffers` | Are the circular array of queue.c a bounded FIFO and the one of ringbuf.c a byte stream, and is the closed form of the scheduler's loops right? | a queue of 5 slots, items 1, 2 (0 is a cleared slot): every alignment, every queue and every set of items that leave; a ring buffer of 4 bytes, blocks of 0 to 5, a flush that leaves 2 bytes uncleared: every alignment and fill level | holds |
| `kernel` | With callers that follow the rules, are mutexes FIFO locks and semaphores counting semaphores, with everything else interleaved? | 3 user processes (an owner and two waiters), one more pid so that an entry is recycled, 1 mutex, 1 semaphore, an id outside each table | holds |
| `kernel_any` | What survives callers that follow no rule? | 2 user processes and one more pid; every outcome of an exhausted table | holds |
| `mutex_owner` | Is the owner of a mutex a process that exists? | 2 user processes | **violated** by exit or Ctrl-Q |
| `sem_destroy` | Is every waiting process in the wait queue it waits in? | 2 user processes | **violated** by sem_destroy |
| `sem_value` | Does a semaphore let as many pass as its initial value and the posts allow? | 2 user processes that follow every rule, initial values 0 and 1 | **violated** by the first wait after sem_init(1) |
| `mutex_lock_return` | Does mutex_lock return 0 or -1? | 2 user processes | **violated** for a process that blocked |
| `interrupts` | Does every interrupt find its handler, is every key read once, in order and at last, and do callbacks keep their schedule? | 3 scancodes: one polled, one that comes before interrupts are on, one after; 2 timers, intervals 1 to 3, repeats -1, 0, 2, an int of 4 bits: the count wraps, 3 does not divide its range, ids are given back and registered again; interrupts masked or not at boot | holds |
| `console` | Does a modifier stick, does the display show the selected TTY, and does each TTY hold the last lines of its output? | 2 TTYs and a display of 3 columns by 2 lines, buffers of 2 bytes, 5 characters of output to one TTY, 1 unread character of input; two ALT keys; two `Setups` (a user who switches TTYs while processes write, and one who presses every key): the text scrolls, blocks are refused, a line is too long, TTYs are switched and the hooks draw at every point | holds |
| `programs` | Is no turn and no mutex lost, do shells that wait get the mutex, does ping-pong go on, and what does a lost race for an id break? | two shells of one parity and an idle program; one ping and two pongs; two pings and one pong; lines of 1 character, a slice of one tick, sleeps of 0, one race; an id for every program that asks (`EnoughIds`), 6 semaphores and as many slots in a queue | holds |

Bounds on actions: `MAX_PIDS` (Ctrl-N only while `next_pid` is below it),
`MAX_COUNT` (sem_post), `MAX_KEYS` (scancodes), `MAX_INPUT` and `MAX_OUTPUT`
(characters typed and not read, characters written), `MAX_RACES` (programs that
test an id while another is about to store it), `Setups` (keys used and TTYs
written to in one behaviour). The tick count needs no bound: it wraps at
`INT_MAX`; in `Console` it is left out, and `Ticks` is every combination of
callbacks that can be due together. One second is one tick
(`TICKS_PER_SECOND`): only the comparison of the countdown with zero matters.
`QUEUE_SIZE` equals `PROC_MAX` in the runs, the tightest value the assumption
`PROC_MAX <= QUEUE_SIZE` allows (20 and 32 in the code); in `programs` the
allocator of the 6 semaphores needs a longer one.

**Fairness.** Three specifications state fairness.

* `TimedFairSpec` (`scheduler`): `TimerKeepsTicking` says that a machine that
  runs for ever ticks for ever. The 8253 interrupts at a fixed rate, nothing
  masks IRQ 0 after it was registered, and every process runs with interrupts
  enabled (`EF_INTR` in the trapframe). No process is assumed to make a call. It
  is the weak fairness of `TimerInterrupt` written without ENABLED, since
  the action is enabled in every running state.
* `InterruptsFairSpec` (`interrupts`): weak fairness of main's boot steps (with
  interrupts off nothing can keep main from going on, once the key it waits for
  comes), of the handler and the dismissal, and of the timer's acceptance; strong
  fairness of the keyboard's acceptance. The keyboard has the lower priority, so
  its request is withdrawn from the processor by every tick; it is offered again
  after every dismissal, and as a handler takes far less than the 10 ms between
  two ticks, the processor takes it. `TickRequested` says the same in its guard:
  the handler of a tick is over before the next one. The timer and the user are
  not assumed to do anything.
* `ProgramsFairSpec` (`programs`): the timer ticks for ever where a tick changes
  anything (`TickMatters` leaves out ticks of a machine in which all is asleep
  for good), and a program that gets the CPU again and again makes its next step
  at last. The first is the fixed rate again; the second says that a slice, ten
  ticks in the code, is long enough for some step at some time. Which program
  gets the CPU is up to the scheduler, not to fairness.

**Discipline.** `Kernel` takes the rules that user processes are assumed to
follow as a constant: `owner`, `alive`, `allocated`, `nowaiters` (see the
comment there). The kernel enforces none of them. Run `kernel` assumes all four,
`kernel_any` none, and each violation run drops the one that matters
(`mutex_lock_return` and `sem_value` drop none). `Programs` assumes `nowaiters` alone, since
prog_user.c has no call of sem_destroy: that its programs also use only ids that
they were given is shown, not assumed.

## What the runs found

Each of these is a run with a counterexample, and a finding in `PROJECT.json`:

* `SleepsForSpecifiedTime`: scheduler.c:38 compares the counter with the size of
  the queue that it shrinks, so that a tick that wakes a sleeper skips the last
  ones. `SkippedSleepersGoFirst` bounds the damage: no more are skipped than
  woken, and the skipped are first in line at the next tick.
* `OwnerIsLive`: kproc_destroy does not release mutexes; the owner dangles and
  the mutex stays locked.
* `WaitersAreQueued`: ksem_destroy refuses a *free* semaphore (count > 0) and
  destroys one that processes wait for.
* `MutexLockReturns`: kmutex_lock takes the caller off `active_proc`, so the
  return value is not written (ksyscall.c:129). ksem_wait does not, which is why
  `SemWaitReturns` holds.

* `InitialValueLetsPass`: ksem_init ignores its initial value (ksem.c:51, 54), so
  that the first wait after sem_init(1) blocks. What holds from there on is
  `ImplementsCountingSemaphore`, which leaves the initial value open. Ping and
  pong ask for 1; their game works because ping serves before it waits:
  `PingPongGoesOn` and `BallsConserved` hold with semaphores that start at zero.

Seen while translating, modelled as the code has it, with no run of their own:

* Programs test a shared id and store it with a system call in between
  (prog_user.c:44, 136): two of them may make two mutexes (or semaphores) for
  one slot. As they read the slot again at every call, a shell may then lock one
  mutex and unlock the other. `HolderOwnsLock`, `BallsConserved` and
  the liveness properties are false then, and are stated for behaviours in which
  no program lost such a race (`races = 0`); `ProgramsStayDefined` holds in any.
* A shell does not bound the length of a line: after 128 characters it stores
  behind its buffer (prog_user.c:89), and a line of exactly 128 has no
  terminator when it is printed (prog_user.c:119). `ProgramsStayDefined` shows
  that nothing else in these programs leaves C.
* main polls the first key with interrupts off; its request may stay latched in
  the interrupt controller, and the first keyboard interrupt then finds no
  scancode. keyboard_poll looks at the status port, so that nothing is read
  twice (`KeysInOrderOnce`).
* The spinner and the seconds are drawn over whatever TTY is shown and hide its
  characters; the list of processes is drawn over TTY 0 as a whole.
  `DisplayIsCurrent` is about the other cells.
* kmutex_init and ksem_init do not look at queue_out's result: with no id left
  the caller gets an arbitrary id, perhaps one in use (kmutex.c:56, ksem.c:57).
* ksyscall_mutex_unlock accepts MUTEX_MAX itself, and no call refuses a
  negative id (ksyscall.c:326).
* mutex_destroy and sem_destroy accept an id that is not allocated, which puts
  it in the allocator twice (kmutex.c:91, ksem.c:95).
* The repeat count of a timer goes down every tick and not every interval
  (timer.c:135).
* scheduler_remove rotates the queue it removes from, contrary to its comment
  (scheduler.c:154). For the run queue this has no effect: `RunQueueIsFIFO`
  holds because a running process is no longer in it, and a rotation all the way
  round is the identity.
* ringbuf_init and ringbuf_flush clear RINGBUF_SIZE bytes of a larger structure:
  the last 12 data bytes stay. `ImplementsByteStream` shows that they are never
  read, since head, tail and size come first.
* pos_x is not bounded by TTY_WIDTH: a line that is too long continues on the
  next one, which the following newline starts again, and on the last line it is
  stored behind `buf` (tty.c:153). Run `console` reaches that state (status
  `"undefined"`); `ScreenShowsText` is about lines that fit.
* io_write returns 0 and refuses a block that does not fit, while its comment
  promises the number of bytes, up to n (ksyscall.c:143 and 147).
* The left and the right key of a modifier share a status bit: releasing one
  clears it while the other is down. `ModifierNeedsKey` is the direction that
  holds.
* Selecting a TTY with ALT and a digit does not reset the count of ESC presses
  (keyboard.c:414).

## Proofs

TLAPS proves, for every value of the constants that satisfies the assumptions:

* `Buffers_proofs`: `QueueInvariant` (indexes in range, `tail = head + size`
  around the end of the array, slots outside the queue clear) and
  `QueueImplementsFifo` (refinement of `BoundedFifo`). The invariant is needed
  because head, tail and size are updated separately: the refinement of
  `queue_in` appends at `tail`, the abstract queue after its last item, and only
  the invariant says these are the same slot. `QueueTypeOK` alone is not
  inductive enough: a wrong `tail` in range satisfies it.

  `LoopsHaveClosedForm` is about the two loops of scheduler.c, run one
  `queue_out` and one `queue_in` at a time on that array: when one ends, the
  array holds `Rotate` of the original queue, and exactly the items at `Reached`
  positions that leave have been taken out. The closed form is false while the
  loop runs, so the invariant `LoopInv` describes every turn: the array holds
  `Turned(original, leaving, counter)`, what was not visited yet followed by
  what was visited and kept. A turn moves the head of that sequence to its end or
  drops it (`TurnedNext` in `QueueWalk_proofs`), and at the turn where the
  counter meets the size, the turned queue is the rotated one (`TurnedAll`). The
  induction over the queue becomes one over the steps of the loop.

  `RingInvariant` and `RingImplementsStream` are the same for ringbuf.c. Two
  lemmas carry both: a block stored from the tail on appends to the
  contents (`BlockAppends`; a single byte is a block of one, `ByteIsBlock`), and
  moving the head by n drops the first n bytes (`RestLeft`). `SlotsOfBytes`
  says how far each byte's slot is from the tail, which is where
  `tail = head + size` is needed: a block must not reach the bytes that wait.

  `BlocksAreCopiedByteByByte` says that the closed form of the block copies is
  what the loops of ringbuf.c:106 and 128 compute, for every buffer that
  satisfies `RingInv` and every block: the loop starts where the buffer is, each
  turn is a `ringbuf_write` or a `ringbuf_read` that does not refuse, and after
  the last the buffer is what the operation leaves. That chain of turns is
  stated for every k below the length of the block; putting it end to end is the
  induction that the provers cannot do and that the statement leaves to the
  reader.

* `QueueWalk_proofs`: facts about the closed form of the shrinking loops, cited
  by the modules below: the rotated queue has no item that was not in it,
  keeps every item that was not taken out as often as it was there, and is not
  longer; how it looks after each turn of the loop; and that the positions which
  the loop misses are no more than the items it takes out (`MissedAreFew`: the
  counter stops one position short of the end for each of them) and are the front
  of the rotated queue (`MissedFirst`).

* `Scheduler_proofs`: `TypeCorrect`, the type invariant, which includes that no
  queue exceeds its array. It is inductive as it stands; there is a lemma for
  every operator that says which fields of the context it changes and how, and
  what it preserves follows from those. `queue_in` refuses at a full queue, so
  that the bound needs no counting here.

  Then `AllocatorSafety`, `PidSafety`, `QueueSafety`,
  `ActiveSafety` and `PanicSafety`, all consequences of one inductive invariant
  `Inv`. It is stated about a kernel *context*, because C functions call one
  another in states in which the invariant between kernel entries does not hold:
  `Sound(k, X)` says that the context `k` is consistent when the processes in
  `X` may be in no queue for the moment (the one being created, removed, woken
  or preempted). There is a lemma for every C function: `scheduler_remove` adds
  its process to `X`, `scheduler_add` takes it out again, and so on; one for
  every action composes them, and after every action nothing is left in `X`.

  The parts of the invariant and why they are needed:
  - `PidsOK`: pids of live entries differ and are below `next_pid`; otherwise
    recycling could give out a pid twice, and look-up by pid would find the
    wrong entry.
  - `FreeOK`: an entry is in the allocator, once, exactly when it is free.
  - `QueuedOK`, `OnceOK`, `NoneLost`: every queued pid names a process in the
    state of that queue; it is there once; every process but the idle task whose
    state asks for a queue is in it. The three need each other: removing from "the" queue of a
    process is right only if it is in no second one.
  - `FreshOK`: a process that is ready has not used any of its slice.
  - `Tight` and `InSlice`: `active_proc` is the one ACTIVE process and within
    its slice.
  - `IdleFirst`: until the first dispatch the idle task is the head of the run
    queue. Without it the first dispatch could not be shown to find a process,
    and `PanicOnlyBeforeFirstDispatch` would not follow.

  That the run queue is never full when a process is added (`PanicSafety`) uses a counting argument: the pids
  in a queue are distinct and name entries of the table, so there are at most
  `PROC_MAX` of them, and `PROC_MAX <= QUEUE_SIZE` is an assumption.

  Three theorems are about steps. `RoundRobin` (`RunQueueIsFIFO`): every C function
  leaves the run queue alone, takes its head, or appends to it (`Fifo`, from the
  frame lemma of each function), and these compose within an entry. The point is
  `scheduler_remove`, whose loop rotates the queue: a pid that it removes from
  the run queue is only ever the one of a process in no queue or the whole
  rotation is the identity. `WholeSlices` (`FullSlice`): `cpu_time` starts at zero
  because it is reset on every way out of ACTIVE, and a process that leaves the
  CPU for the run queue has been charged its last tick just before.
  `SkippedGoFirst` (`SkippedSleepersGoFirst`): the processes that a tick neither
  counts down nor wakes are those at the positions of the sleep queue that the loop
  misses, and the woken ones those it takes out (`TimerStep`); position and process
  determine each other because of `OnceOK`, `QueuedOK` and `NoneLost`, so that the
  two lemmas of `QueueWalk_proofs` say how many they are and where they go.

* `SleepTiming_proofs`: `NobodyWakesEarly` (`NeverEarly`). The invariant
  `CountsDown` ties the countdown in the PCB to the ticks slept: what was asked for
  is at most what was slept plus what is left. A tick that
  counts down adds to one what it takes from the other, a tick that misses the
  process only adds, and nothing but a tick touches a sleeping process
  (`OnlyTicksWake`), also when others are created, killed or exit. That the
  countdown must be below zero gives the two further ticks.

* `Kernel_proofs`: the same kernel with mutexes and semaphores, for any number of
  each and for any calls. `KInv`, the inductive invariant, is the scheduler's
  invariant `Safe` on the larger context (the lemmas for the C functions of
  `Scheduler_proofs` speak of contexts and wait queues in general, so they
  hold here as they stand) together with `KernelOK` for the tables: `LocksOK`
  (a free mutex has neither owner nor waiters, a locked one counts both),
  `CountsOK` (nobody waits while the count is positive), and, under the rule that
  they need, `IdsOK` for both allocators and `OwnersOK`. The processes that may
  be in no queue between two entries are none, or, without the rule `nowaiters`,
  any (`Lost`): sem_destroy may lose whoever waits. There is a lemma for every
  function of `KMutex` and `KSem` that says which entry and which queue it
  changes and how; `Called` says the same of a whole call, trap to return, so that
  the theorems below reason about calls without opening them again.

  Which rule for user programs a theorem needs is a hypothesis of the theorem,
  an element of `Discipline`; all others may be broken:

  | Theorem | States | Rules needed |
  |---|---|---|
  | `KernelTypes`, `KernelScheduling`, `MutexCounts`, `NobodyWaitsInVain` | `KernelTypeOK`; `QueuedAreQueued`, `ActiveIsActive`, `PidsUnique`, `AllocatorExact`, `PanicOnlyBeforeFirstDispatch`; `LockCount`; `NoWaitWhilePositive` | none |
  | `KernelQueueSafety` | `QueueDiscipline` | `nowaiters` |
  | `IdSafety` | `IdsExact` | `allocated` |
  | `OwnerSafety` | `OwnerIsLive` | `alive` |
  | `SemWaitAnswers` | `SemWaitReturns` | `allocated` |
  | `MutexesAreFifoLocks` | `ImplementsFifoLock` | `owner`, `alive` |
  | `SemaphoresCount` | `ImplementsCountingSemaphore` | `allocated`, `nowaiters` |

  The violation runs show that the rules of `KernelQueueSafety` and
  `OwnerSafety` cannot be dropped. `SemWaitReturns` tells a
  delivered value from the number of the call by its value, and that number is
  16: the theorem asks for counts below 16 (`MAX_COUNT`, the bound on
  sem_post) and for tables of at most 16 entries, which the code's have.

  Both refinements map the wait queue of an entry to the abstract queue, and the
  owner or the count to the abstract one; a semaphore is made and removed when
  its entry is allocated and given back. Most of the work is that the
  other steps (ticks, keys, exits, calls of the other service) stutter: a wait
  queue changes only when a process of that queue is woken, killed or joins.

* `Programs_proofs`: three theorems about the user programs, for any number of
  shells, pings and pongs, on top of `Kernel_proofs`. Each needs the one before:
  - `ProgramSafety` (`ProgramsStayDefined`), for any number of races. Its
    invariant `IdsInv` is `KInv` and what the programs know of ids: an id that was
    stored, or is in EAX on its way to a variable, was given out by the allocator,
    which gives them in order and gets none back (`InOrder`); and the allocators
    hold at least an id for each program still to ask. The second is why no call of
    mutex_init or sem_init finds the allocator empty: a step takes at most one id,
    and then its own program out of those to ask.
  - `ShellExclusion` (`HolderOwnsLock`). The invariant `LockInvariant` adds, for
    behaviours without a race (`races = 0`): `Alone` (one program at most is
    between its test of an id and the store, and nobody has stored it before),
    without which a shell's unlock could name another mutex than its lock;
    `WaitersParked` (whoever is in a wait queue is a program right behind its
    lock or its wait, for that mutex or semaphore); `InsideOwns` (a shell between
    lock and unlock owns the mutex, or is in its queue still). The last is the
    property with the disjunct that makes it inductive: a shell that blocked gets
    the mutex while others run, and only `WaitersParked` says that the process
    which an unlock wakes is a shell that expects it.
  - `BallsKept` (`BallsConserved`). `BallsInvariant` adds, again without races:
    `SemsApart` (the two semaphores differ, also while their ids are on the way
    to a variable), `OthersZero` (a semaphore that nobody uses counts nothing, so
    that one counts nothing when it becomes ping's or pong's), and
    `Balls`, the property over `Turns`: those who are behind their wait and no
    longer in the queue. sem_wait, sem_post with and without somebody waiting,
    and the first post of each ping move a ball or add one.

  The steps are sorted into nine kinds (`StepKinds`), by what the programs
  can see of them: nothing, an id asked for, given or stored, a lock, an unlock, a
  wait, a post, or a move of a program alone. One lemma for each kind and
  invariant is enough, and only the lemmas that sort them open the calls.

  The condition `races = 0` is not there for the proof: run `programs` reaches
  states with a race in which `HolderOwnsLock` and `BallsConserved` without it
  are false (prog_user.c:44, 136; see above).

* `Interrupts_proofs`: `HandlerSafety`, `KeySafety` and `AnnouncedSafety`, from
  one inductive invariant `IInv`. `KeysInOrderOnce` is inductive together with
  the types; the other two are not:
  - `BootOK` ties the handlers and the mask bits to the steps of main that are
    left: a handler that is missing, or an interrupt that is masked, is one whose
    registration is still to come. Without it `EveryInterruptHandled` could not
    be shown at the moment interrupts are enabled.
  - `ServiceOK`: what is in service is the interrupt being handled, and nothing
    else. It is why the keyboard's request is not held back once the handler is
    over, and why a second trap or interrupt does not find the first in service.
  - `AnnouncedOK`: `WaitingKeyAnnounced` without its condition on the boot
    sequence; a scancode may come before main enables interrupts.

  `ScheduleSafety` says of every width of int, and of intervals that divide
  nothing, that a callback keeps its schedule. It has an invariant of its own,
  `ScheduleInv`: a callback has been quiet for at most the remainder of the tick
  count by its interval, and from a wrap until the count comes to zero for at
  most one interval more. What has to be seen is that the count passes zero after
  every wrap, so that the doubled interval happens once per wrap. The arithmetic is
  three lemmas: the remainder is in range, unique, and grows with the number
  until the next multiple.

  `TimerIdSafety`: the ids that one tick gives back are those of the timers that
  run out, in the order of the table, each once (`GivenBackOK`, from the facts
  about `AtIndices` in `QueueWalk_proofs`), and none of them was in the allocator.
  `InterruptsTypes` is the type invariant.

* `Console_proofs`: `NoModifierSticks`. The invariant is inductive as it stands;
  the work is that no other key, call or callback touches a modifier's bit, for
  which the keys of different modifiers must be disjoint
  (`KeyboardAssumption`).

  `DisplayIsRight` (`DisplayIsCurrent`) and `ScreenIsRight` (`ScreenShowsText`),
  for every size of the display and the buffers and every text, both on top of the
  types `ConsoleTypes`. What they speak of is computed by folds: of `tty_update` over the
  output, of `vga_putc` over a text, of `PutMark` over the cells, of `NextLines`
  over what was printed. The induction theorems of the library take operators, so
  the module has its own, `SetInduction`, for a set of numbers, from the
  well-foundedness of `<`. With it `FoldExists` and `FoldChain` show that a
  fold has a value after every item and that each comes from the one before; the
  lemmas `DrainChain`, `PutsChain`, `MarksChain` and `LinesChain` say so of the four
  operators, and the proofs follow these chains.
  - `DisplayIsCurrent` is inductive together with the types. The redraw writes
    every cell (`MarksDraw`: after i marks the first i cells are those of the
    buffer, which needs that cell, column and row determine one another:
    `CellPlace`, `CellsDiffer`); the hooks change two cells and the exit
    the first line (`HookedFacts`, `BannerFacts`); a TTY that is not marked after
    its output was drained had none (`DrainedFacts`).
  - `ScreenShowsText` needs the cursor. `TextShown` says of each TTY whose text fits
    that it shows the lines (`Shows`): its row is that of the last line, counted
    from the first line not scrolled away, its column the length of that line, and
    each cell is as expected. A line end with and without scrolling
    (`ShowsNewLine`) and any other character (`ShowsChar`) preserve it;
    `LinesAppend` says that the lines of a text that goes on are the lines so
    far, continued, so that blocks and redraws make no difference.

Assumptions used: only the named ASSUMEs of the modules, which TLC evaluates for
every instance above. Some are there for the proofs and hold by the code:
`BOOT_PROCS <= MAX_PIDS` (the processes of `kproc_init` have pids like any
others), `NULL \notin Nat` (the null pointer is no entry of a table), and
`EnoughIds` (one mutex id for each shell and two semaphore ids for each ping and
pong: `kproc_init` starts 4 shells and 6 of the others, and each table has 16
entries), and `ConsoleAssumption` (a TTY has the size of the display, both 80 by
25; the ten digits name the ten TTYs; the seconds are shown on the display).

Model-checked only:

* liveness (`SleeperWakes`, `ReadyRuns`, `EveryKeyIsRead`, `ShellGetsLock`,
  `PingPongGoesOn`), which needs fairness.

## Not modelled, and the plan

Bit utilities (bit_util.c) are stubs: every function returns its argument, and
none has a caller. Of interrupts.c, `pic_irq_disable` (which toggles the mask bit
instead of setting it) and `pic_irq_enabled` have no caller, and the gate
descriptors are constants. Kernel logging formats text and writes it to the serial
port; nothing reads it back but the log level. The build files, inline assembly
and `kernel_break` are not modelled.

Left out of what is modelled: names, stacks, registers other than EAX, colours,
the VGA cursor (vga_init disables it) and the scrolling of the display
(`vga_scroll` stays 0), the wording of what is printed, the calls that only read
(get_time, get_name, get_pid, proc_get_name), the log level keys, and the wrap of
`next_pid`, which takes 2^31 keystrokes.

In `Console`: echo (0 in every TTY), scrollback (size 0), negative sizes in I/O
calls, which no program passes; I/O of processes that no TTY is attached to,
which only returns -1. In `Programs`: the creation and destruction of processes by
keys, which `Scheduler` and `Kernel` have; killing a shell that holds its mutex
blocks the others for ever, which is what run `mutex_owner` is about.

Every invariant, every action property and every refinement of a passing run are
theorems as well; liveness stays with TLC. The plan has nothing left that the
provers can reach.
