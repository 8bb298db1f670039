-------------------------- MODULE Interrupts_proofs --------------------------
(***************************************************************************)
(* Theorems about Interrupts, for every number of keys, of timers and of   *)
(* ticks: no interrupt comes before its handler, no key is lost, read      *)
(* twice, or left waiting without an interrupt on the way, and the         *)
(* callbacks of the timer keep their schedule, also when the count wraps.  *)
(***************************************************************************)
EXTENDS Interrupts, QueueWalk_proofs

\* The steps of main that are left when n are done.
BootAfter(n) == [i \in 1 .. (6 - n) |-> BootOrder[i + n]]

LEMMA BootSteps ==
    /\ BootOrder = BootAfter(0)
    /\ BootAfter(6) = <<>>
    /\ \A n \in 0 .. 5 : /\ BootAfter(n) # <<>>
                         /\ Head(BootAfter(n)) = BootOrder[n + 1]
                         /\ Tail(BootAfter(n)) = BootAfter(n + 1)
  <1>1. BootOrder = BootAfter(0)
    BY DEF BootOrder, BootAfter
  <1>2. BootAfter(6) = <<>>
    BY DEF BootAfter
  <1>3. ASSUME NEW n \in 0 .. 5
        PROVE  /\ BootAfter(n) # <<>>
               /\ Head(BootAfter(n)) = BootOrder[n + 1]
               /\ Tail(BootAfter(n)) = BootAfter(n + 1)
    <2>1. BootAfter(n) \in Seq({BootOrder[i] : i \in 1 .. 6}) /\ Len(BootAfter(n)) = 6 - n
      BY DEF BootAfter
    <2>2. BootAfter(n) # <<>> /\ Head(BootAfter(n)) = BootOrder[n + 1]
      BY <2>1 DEF BootAfter
    <2>3. Tail(BootAfter(n)) = BootAfter(n + 1)
      BY <2>1 DEF BootAfter
    <2> QED
      BY <2>2, <2>3
  <1> QED
    BY <1>1, <1>2, <1>3

Interrupting == {IRQ_TIMER, IRQ_KEYBOARD}

TypesOK ==
    /\ masked \subseteq Interrupting
    /\ requested \subseteq Interrupting
    /\ cpu \in {"main", "loop", "process", "handler", "dismiss", "panic"}
    /\ irq \in IRQs
    /\ keyboard \in [full : BOOLEAN, data : 0 .. MAX_KEYS]
    /\ keyboard.full => keyboard.data # 0

\* n steps of main are done: what it has registered by then.
Registered(n) ==
    /\ boot = BootAfter(n)
    /\ n >= 2 => IRQ_TIMER \in irq_handlers /\ IRQ_TIMER \notin masked
    /\ n >= 3 => IRQ_KEYBOARD \in irq_handlers /\ IRQ_KEYBOARD \notin masked
    /\ n >= 4 => IRQ_SYSCALL \in irq_handlers
    /\ n = 6 <=> cpu # "main"

BootOK == \E n \in 0 .. 6 : Registered(n)

\* One interrupt is in service at most: the one that is handled.
ServiceOK ==
    in_service = IF cpu \in {"handler", "dismiss"} /\ FromPic(irq) THEN {irq} ELSE {}

\* The key that waits is announced, whether or not interrupts are on yet.
AnnouncedOK ==
    keyboard.full => IRQ_KEYBOARD \in requested \/ (cpu = "handler" /\ irq = IRQ_KEYBOARD)

IInv ==
    /\ TypesOK
    /\ BootOK
    /\ EveryInterruptHandled
    /\ ServiceOK
    /\ AnnouncedOK
    /\ KeysInOrderOnce

-----------------------------------------------------------------------------
LEMMA InitOK == InterruptsInit => IInv
  <1> SUFFICES ASSUME InterruptsInit PROVE IInv
    OBVIOUS
  <1> USE DEF InterruptsInit, Interrupting, IRQ_TIMER, IRQ_KEYBOARD, IRQ_SYSCALL, IRQs
  <1>1. TypesOK
    BY KeysAssumption DEF TypesOK
  <1>2. BootOK
    <2>1. Registered(0)
      BY BootSteps DEF Registered
    <2> QED
      BY <2>1 DEF BootOK
  <1>3. EveryInterruptHandled /\ ServiceOK /\ AnnouncedOK
    BY DEF EveryInterruptHandled, ServiceOK, AnnouncedOK, FromPic
  <1>4. KeysInOrderOnce
    BY DEF KeysInOrderOnce
  <1> QED
    BY <1>1, <1>2, <1>3, <1>4 DEF IInv

\* What has been booted stays so.
LEMMA BootKept ==
    ASSUME BootOK, UNCHANGED <<boot, irq_handlers, masked>>,
           cpu' = "main" <=> cpu = "main"
    PROVE  BootOK'
  <1>1. PICK n \in 0 .. 6 : Registered(n)
    BY DEF BootOK
  <1>2. Registered(n)'
    BY <1>1 DEF Registered
  <1> QED
    BY <1>2 DEF BootOK

\* Once main is over, every interrupt has its handler and none is masked.
LEMMA AllRegistered ==
    ASSUME BootOK, cpu # "main"
    PROVE  boot = <<>> /\ IRQs \subseteq irq_handlers /\ masked \cap Interrupting = {}
  <1>1. Registered(6)
    BY DEF BootOK, Registered
  <1> QED
    BY <1>1, BootSteps, SMTT(40) DEF Registered, IRQs, Interrupting

LEMMA NotBootedIsMain ==
    ASSUME BootOK, boot # <<>>
    PROVE  cpu = "main"
  BY AllRegistered

\* Reading the next key appends it.
LEMMA PollKeepsOrder ==
    ASSUME TypesOK, KeysInOrderOnce, keyboard_poll
    PROVE  /\ KeysInOrderOnce'
           /\ keyboard' \in [full : BOOLEAN, data : 0 .. MAX_KEYS]
           /\ ~keyboard'.full
  <1> DEFINE d == keyboard.data
  <1> d \in Nat /\ keyboard.full \in BOOLEAN /\ (keyboard.full => d # 0)
    BY KeysAssumption DEF TypesOK
  <1>1. keyboard' \in [full : BOOLEAN, data : 0 .. MAX_KEYS]
        /\ ~keyboard'.full /\ keyboard'.data = d
    BY DEF TypesOK, keyboard_poll
  <1>2. CASE keyboard.full
    <2>1. scanned = [n \in 1 .. (d - 1) |-> n]
      BY <1>2 DEF KeysInOrderOnce
    <2>2. scanned' = Append(scanned, d)
      BY <1>2 DEF keyboard_poll
    <2>3. scanned' = [n \in 1 .. d |-> n]
      <3>1. scanned \in Seq(Nat) /\ Len(scanned) = d - 1
        BY <2>1, <1>2
      <3> QED
        BY <3>1, <2>1, <2>2, <1>2
    <2> QED
      BY <1>1, <2>3 DEF KeysInOrderOnce
  <1>3. CASE ~keyboard.full
    BY <1>1, <1>3 DEF KeysInOrderOnce, keyboard_poll
  <1> QED
    BY <1>1, <1>2, <1>3

-----------------------------------------------------------------------------
LEMMA TickRequestedKeeps ==
    ASSUME IInv, TickRequested
    PROVE  IInv'
  <1> USE DEF TickRequested, IInv, keyVars
  <1>1. BootOK'
    BY BootKept
  <1>2. TypesOK' /\ ServiceOK' /\ AnnouncedOK'
    BY DEF TypesOK, ServiceOK, AnnouncedOK, Interrupting
  <1>3. EveryInterruptHandled' /\ KeysInOrderOnce'
    BY DEF EveryInterruptHandled, KeysInOrderOnce
  <1> QED
    BY <1>1, <1>2, <1>3

LEMMA KeyRequestedKeeps ==
    ASSUME IInv, KeyRequested
    PROVE  IInv'
  <1> USE DEF KeyRequested, IInv
  <1>0. keyboard.data \in Nat /\ keyboard'.full /\ keyboard'.data = keyboard.data + 1
    BY KeysAssumption DEF TypesOK
  <1>1. BootOK'
    BY BootKept
  <1>2. TypesOK'
    BY <1>0, KeysAssumption DEF TypesOK, Interrupting
  <1>3. ServiceOK' /\ AnnouncedOK' /\ EveryInterruptHandled'
    BY DEF ServiceOK, AnnouncedOK, EveryInterruptHandled
  <1>4. KeysInOrderOnce'
    BY <1>0 DEF KeysInOrderOnce
  <1> QED
    BY <1>1, <1>2, <1>3, <1>4

\* The step of main that comes next, and how many are done before and after it.
LEMMA NextStep ==
    ASSUME BootOK, NEW step, BootStep(step)
    PROVE  \E n \in 0 .. 5 :
               Registered(n) /\ step = BootOrder[n + 1] /\ Tail(boot) = BootAfter(n + 1)
  <1>1. PICK n \in 0 .. 6 : Registered(n)
    BY DEF BootOK
  <1>2. boot = BootAfter(n) /\ boot # <<>> /\ Head(boot) = step
    BY <1>1 DEF BootStep, Registered
  <1>3. n \in 0 .. 5
    BY <1>2, BootSteps
  <1> QED
    BY <1>1, <1>2, <1>3, BootSteps

LEMMA BootInterruptsKeeps ==
    ASSUME IInv, BootInterrupts
    PROVE  IInv'
  <1> USE DEF BootInterrupts, Booted, IInv, keyVars
  <1>1. BootOK'
    <2>1. PICK n \in 0 .. 5 : /\ Registered(n) /\ "interrupts" = BootOrder[n + 1]
                              /\ Tail(boot) = BootAfter(n + 1)
      BY NextStep
    <2>2. n = 0
      BY <2>1 DEF BootOrder
    <2>3. Registered(1)'
      BY <2>1, <2>2 DEF Registered
    <2> QED
      BY <2>3 DEF BootOK
  <1>2. TypesOK' /\ ServiceOK' /\ AnnouncedOK' /\ EveryInterruptHandled' /\ KeysInOrderOnce'
    BY DEF TypesOK, ServiceOK, AnnouncedOK, EveryInterruptHandled, KeysInOrderOnce
  <1> QED
    BY <1>1, <1>2

LEMMA BootRegisterKeeps ==
    ASSUME IInv, BootRegister
    PROVE  IInv'
  <1> USE DEF BootRegister, Booted, IInv, keyVars
  <1>1. PICK registered \in {<<"timer", IRQ_TIMER>>, <<"keyboard", IRQ_KEYBOARD>>,
                             <<"syscall", IRQ_SYSCALL>>} :
            BootStep(registered[1]) /\ interrupts_irq_register(registered[2])
    OBVIOUS
  <1>2. PICK n \in 0 .. 5 : /\ Registered(n) /\ registered[1] = BootOrder[n + 1]
                            /\ Tail(boot) = BootAfter(n + 1)
    BY <1>1, NextStep
  <1>3. registered = << <<"timer", IRQ_TIMER>>, <<"keyboard", IRQ_KEYBOARD>>,
                        <<"syscall", IRQ_SYSCALL>> >>[n] /\ n \in 1 .. 3
    BY <1>1, <1>2 DEF BootOrder
  <1>4. /\ irq_handlers' = irq_handlers \cup {registered[2]}
        /\ masked' = IF FromPic(registered[2]) THEN masked \ {registered[2]} ELSE masked
    BY <1>1 DEF interrupts_irq_register
  <1>5. Registered(n + 1)'
    <2> USE DEF IRQ_TIMER, IRQ_KEYBOARD, IRQ_SYSCALL, FromPic
    <2>1. CASE n = 1
      BY <2>1, <1>2, <1>3, <1>4 DEF Registered
    <2>2. CASE n = 2
      BY <2>2, <1>2, <1>3, <1>4 DEF Registered
    <2>3. CASE n = 3
      BY <2>3, <1>2, <1>3, <1>4 DEF Registered
    <2> QED
      BY <2>1, <2>2, <2>3, <1>3
  <1>6. BootOK'
    BY <1>5, <1>3 DEF BootOK
  <1>7. TypesOK' /\ ServiceOK' /\ AnnouncedOK' /\ EveryInterruptHandled' /\ KeysInOrderOnce'
    BY <1>4 DEF TypesOK, ServiceOK, AnnouncedOK, EveryInterruptHandled, KeysInOrderOnce
  <1> QED
    BY <1>6, <1>7

LEMMA BootCallbackKeeps ==
    ASSUME IInv, BootCallback
    PROVE  IInv'
  <1> USE DEF BootCallback, picVars, keyVars, IInv
  <1>1. BootOK'
    BY BootKept
  <1>2. TypesOK' /\ ServiceOK' /\ AnnouncedOK' /\ EveryInterruptHandled' /\ KeysInOrderOnce'
    BY DEF TypesOK, ServiceOK, AnnouncedOK, EveryInterruptHandled, KeysInOrderOnce
  <1> QED
    BY <1>1, <1>2

LEMMA BootPollKeeps ==
    ASSUME IInv, BootPoll
    PROVE  IInv'
  <1> USE DEF BootPoll, IInv
  <1>1. BootOK'
    <2>1. PICK n \in 0 .. 5 : /\ Registered(n) /\ "getc" = BootOrder[n + 1]
                              /\ Tail(boot) = BootAfter(n + 1)
      BY NextStep
    <2>2. n = 4
      BY <2>1 DEF BootOrder
    <2>3. CASE boot' = boot
      BY <2>3, BootKept
    <2>4. CASE boot' = Tail(boot)
      <3>1. Registered(5)'
        BY <2>1, <2>2, <2>4 DEF Registered
      <3> QED
        BY <3>1 DEF BootOK
    <2> QED
      BY <2>3, <2>4
  <1>2. KeysInOrderOnce' /\ keyboard' \in [full : BOOLEAN, data : 0 .. MAX_KEYS] /\ ~keyboard'.full
    BY PollKeepsOrder
  <1>3. TypesOK' /\ ServiceOK' /\ AnnouncedOK' /\ EveryInterruptHandled'
    BY <1>2 DEF TypesOK, ServiceOK, AnnouncedOK, EveryInterruptHandled
  <1> QED
    BY <1>1, <1>2, <1>3

LEMMA BootEnableKeeps ==
    ASSUME IInv, BootEnable
    PROVE  IInv'
  <1> USE DEF BootEnable, picVars, keyVars, IInv
  <1>1. BootOK'
    <2>1. PICK n \in 0 .. 5 : /\ Registered(n) /\ "enable" = BootOrder[n + 1]
                              /\ Tail(boot) = BootAfter(n + 1)
      BY NextStep
    <2>2. n = 5
      BY <2>1 DEF BootOrder
    <2>3. Registered(6)'
      BY <2>1, <2>2 DEF Registered
    <2> QED
      BY <2>3 DEF BootOK
  <1>2. cpu = "main"
    BY DEF BootStep
  <1>3. TypesOK' /\ ServiceOK' /\ AnnouncedOK' /\ EveryInterruptHandled' /\ KeysInOrderOnce'
    BY <1>2 DEF TypesOK, ServiceOK, AnnouncedOK, EveryInterruptHandled, KeysInOrderOnce
  <1> QED
    BY <1>1, <1>3

-----------------------------------------------------------------------------
\* A request that is accepted is one of the PIC; the keyboard's is then handled.
LEMMA AcceptKeeps ==
    ASSUME IInv, NEW i \in Interrupting, Accept(i)
    PROVE  IInv'
  <1> USE DEF Accept, keyVars, IInv
  <1>1. BootOK'
    BY BootKept
  <1>2. FromPic(i) /\ i \in IRQs
    BY DEF FromPic, Interrupting, IRQ_TIMER, IRQ_KEYBOARD, IRQs
  <1>3. ServiceOK'
    BY <1>2 DEF ServiceOK
  <1>4. AnnouncedOK'
    BY DEF AnnouncedOK
  <1>5. TypesOK' /\ EveryInterruptHandled' /\ KeysInOrderOnce'
    BY <1>2 DEF TypesOK, EveryInterruptHandled, KeysInOrderOnce
  <1> QED
    BY <1>1, <1>3, <1>4, <1>5

LEMMA TrapKeeps ==
    ASSUME IInv, Trap
    PROVE  IInv'
  <1> USE DEF Trap, picVars, keyVars, IInv
  <1>1. BootOK'
    BY BootKept
  <1>2. ServiceOK'
    BY DEF ServiceOK, FromPic, IRQ_SYSCALL
  <1>3. TypesOK' /\ AnnouncedOK' /\ EveryInterruptHandled' /\ KeysInOrderOnce'
    BY DEF TypesOK, AnnouncedOK, EveryInterruptHandled, KeysInOrderOnce, IRQs
  <1> QED
    BY <1>1, <1>2, <1>3

LEMMA HandlerKeeps ==
    ASSUME IInv, interrupts_irq_handler
    PROVE  IInv'
  <1> USE DEF interrupts_irq_handler, picVars, keyVars, IInv
  <1>1. irq \in irq_handlers /\ cpu' = "dismiss"
    BY AllRegistered DEF TypesOK
  <1>2. BootOK'
    BY <1>1, BootKept
  <1>3. ServiceOK' /\ EveryInterruptHandled'
    BY <1>1 DEF ServiceOK, EveryInterruptHandled
  <1>4. CASE irq = IRQ_KEYBOARD /\ keyboard_poll
    <2>1. /\ KeysInOrderOnce' /\ ~keyboard'.full
          /\ keyboard' \in [full : BOOLEAN, data : 0 .. MAX_KEYS]
      BY <1>4, PollKeepsOrder
    <2> QED
      BY <2>1, <1>1, <1>2, <1>3 DEF TypesOK, AnnouncedOK
  <1>5. CASE irq # IRQ_KEYBOARD /\ UNCHANGED <<keyboard, scanned>>
    BY <1>1, <1>2, <1>3, <1>5 DEF TypesOK, AnnouncedOK, KeysInOrderOnce
  <1> QED
    BY <1>1, <1>4, <1>5 DEF IRQ_TIMER, IRQ_KEYBOARD, IRQ_SYSCALL

LEMMA DismissKeeps ==
    ASSUME IInv, Dismiss
    PROVE  IInv'
  <1> USE DEF Dismiss, keyVars, IInv
  <1>1. BootOK'
    BY BootKept
  <1>2. ServiceOK'
    BY DEF ServiceOK, Dismissed
  <1>3. TypesOK' /\ AnnouncedOK' /\ EveryInterruptHandled' /\ KeysInOrderOnce'
    BY DEF TypesOK, AnnouncedOK, EveryInterruptHandled, KeysInOrderOnce
  <1> QED
    BY <1>1, <1>2, <1>3

LEMMA StutterKeeps ==
    ASSUME IInv, UNCHANGED ivars
    PROVE  IInv'
  <1> USE DEF ivars, picVars, keyVars, IInv
  <1>1. BootOK'
    BY BootKept
  <1>2. TypesOK' /\ ServiceOK' /\ AnnouncedOK' /\ EveryInterruptHandled' /\ KeysInOrderOnce'
    BY DEF TypesOK, ServiceOK, AnnouncedOK, EveryInterruptHandled, KeysInOrderOnce
  <1> QED
    BY <1>1, <1>2

LEMMA StepOK == IInv /\ [InterruptsNext]_ivars => IInv'
  <1> SUFFICES ASSUME IInv, [InterruptsNext]_ivars PROVE IInv'
    OBVIOUS
  <1>1. CASE TickRequested
    BY <1>1, TickRequestedKeeps
  <1>2. CASE KeyRequested
    BY <1>2, KeyRequestedKeeps
  <1>3. CASE Boot
    BY <1>3, BootInterruptsKeeps, BootRegisterKeeps, BootPollKeeps, BootEnableKeeps DEF Boot
  <1>4. CASE BootCallback
    BY <1>4, BootCallbackKeeps
  <1>5. CASE Accept(IRQ_TIMER) \/ Accept(IRQ_KEYBOARD)
    BY <1>5, AcceptKeeps DEF Interrupting
  <1>6. CASE Trap
    BY <1>6, TrapKeeps
  <1>7. CASE interrupts_irq_handler
    BY <1>7, HandlerKeeps
  <1>8. CASE Dismiss
    BY <1>8, DismissKeeps
  <1>9. CASE UNCHANGED ivars
    BY <1>9, StutterKeeps
  <1> QED
    BY <1>1, <1>2, <1>3, <1>4, <1>5, <1>6, <1>7, <1>8, <1>9 DEF InterruptsNext

\* The order of main's boot steps, the mask bits, what is in service and the scancodes
\* under way keep together, whatever is pressed and trapped (interrupts.c:63, 72).
THEOREM InterruptsInvariant == InterruptsSpec => []IInv
  BY InitOK, StepOK, PTL DEF InterruptsSpec

-----------------------------------------------------------------------------
\* The kernel never panics for want of a handler (interrupts.c:63).
THEOREM HandlerSafety == InterruptsSpec => []EveryInterruptHandled
  <1>1. IInv => EveryInterruptHandled
    BY DEF IInv
  <1> QED
    BY <1>1, InterruptsInvariant, PTL

\* Every scancode is read once and in order, polled or announced (keyboard.c:288).
THEOREM KeySafety == InterruptsSpec => []KeysInOrderOnce
  <1>1. IInv => KeysInOrderOnce
    BY DEF IInv
  <1> QED
    BY <1>1, InterruptsInvariant, PTL

\* A scancode that waits has an interrupt on the way that is not masked, so that the
\* keyboard never goes dead (interrupts.c:72).
THEOREM AnnouncedSafety == InterruptsSpec => []WaitingKeyAnnounced
  <1>1. ASSUME IInv
        PROVE  WaitingKeyAnnounced
    <2> SUFFICES ASSUME keyboard.full, boot = <<>>
                 PROVE  \/ IRQ_KEYBOARD \in requested \ masked
                        \/ cpu = "handler" /\ irq = IRQ_KEYBOARD
      BY DEF WaitingKeyAnnounced
    <2>1. PICK n \in 0 .. 6 : Registered(n)
      BY <1>1 DEF IInv, BootOK
    <2>2. BootAfter(n) = <<>>
      BY <2>1 DEF Registered
    <2>3. n = 6
      <3> SUFFICES ASSUME n \in 0 .. 5 PROVE FALSE
        BY <2>1
      <3> QED
        BY <2>2, BootSteps
    <2> QED
      BY <1>1, <2>1, <2>3 DEF IInv, AnnouncedOK, Registered
  <1> QED
    BY <1>1, InterruptsInvariant, PTL

-----------------------------------------------------------------------------
(***************************************************************************)
(* The schedule of the timer callbacks.                                    *)
(***************************************************************************)

LEMMA Remainder ==
    ASSUME NEW n \in Int, NEW d \in Nat \ {0}
    PROVE  (n \div d) \in Int /\ (n % d) \in 0 .. (d - 1) /\ n = d * (n \div d) + (n % d)
  OBVIOUS

LEMMA RemainderIsUnique ==
    ASSUME NEW d \in Nat \ {0}, NEW p \in Int, NEW q \in Int,
           NEW r \in 0 .. (d - 1), NEW s \in 0 .. (d - 1), d * q + r = d * p + s
    PROVE  r = s
  <1>1. d * (q - p) = s - r
    OBVIOUS
  <1>2. CASE q > p
    <2>1. d * (q - p) >= d
      BY <1>2
    <2> QED
      BY <1>1, <2>1
  <1>3. CASE q < p
    <2>1. d * (p - q) >= d
      BY <1>3
    <2>2. d * (p - q) = r - s
      OBVIOUS
    <2> QED
      BY <2>1, <2>2
  <1> QED
    BY <1>1, <1>2, <1>3

\* As long as the next number is no multiple, the remainder grows with the number.
LEMMA RemainderGrows ==
    ASSUME NEW n \in Int, NEW d \in Nat \ {0}, ((n + 1) % d) # 0
    PROVE  ((n + 1) % d) = (n % d) + 1
  <1> DEFINE q == ((n + 1) \div d)
             r == ((n + 1) % d)
  <1>1. q \in Int /\ r \in 1 .. (d - 1) /\ n + 1 = d * q + r
    BY Remainder
  <1>2. (n \div d) \in Int /\ (n % d) \in 0 .. (d - 1) /\ n = d * (n \div d) + (n % d)
    BY Remainder
  <1>3. r - 1 \in 0 .. (d - 1) /\ d * q + (r - 1) = d * (n \div d) + (n % d)
    BY <1>1, <1>2
  <1> HIDE DEF q, r
  <1>4. r - 1 = (n % d)
    BY <1>1, <1>2, <1>3, RemainderIsUnique
  <1> QED
    BY <1>1, <1>2, <1>4 DEF r

TimersOK ==
    /\ timers \in [Timers -> [callback : BOOLEAN, interval : Nat, repeat : Int]]
    /\ timer_ticks \in (-INT_MAX - 1) .. INT_MAX
    /\ history \in [Timers -> [asked : Int, quiet : Nat, wrapped : BOOLEAN]]

\* A callback has been quiet since the last multiple of its interval at most, and, from
\* the wrap of the count until it comes to zero, for as long as it was before the wrap.
OnSchedule(t) ==
    LET interval == timers[t].interval
    IN  /\ interval # 0
        /\ ~history[t].wrapped => history[t].quiet <= (timer_ticks % interval)
        /\ history[t].wrapped =>
              timer_ticks < 0 /\ history[t].quiet <= interval - 1 + (timer_ticks % interval)

ScheduleInv == TimersOK /\ \A t \in Timers : timers[t].callback => OnSchedule(t)

LEMMA RegisterKeepsSchedule ==
    ASSUME ScheduleInv, NEW interval \in Intervals, NEW repeat \in Repeats,
           timer_callback_register(interval, repeat)
    PROVE  ScheduleInv'
  <1> USE DEF ScheduleInv
  <1> DEFINE id == Head(timer_allocator)
             new == [callback |-> TRUE, interval |-> interval, repeat |-> repeat]
             past == [NoHistory EXCEPT !.asked = repeat]
  <1>1. /\ timers' = [timers EXCEPT ![id] = new]
        /\ history' = [history EXCEPT ![id] = past]
        /\ timer_ticks' = timer_ticks
    BY DEF timer_callback_register
  <1>2. /\ interval \in Nat \ {0}
        /\ new \in [callback : BOOLEAN, interval : Nat, repeat : Int]
        /\ past \in [asked : Int, quiet : Nat, wrapped : BOOLEAN]
        /\ past.quiet = 0 /\ ~past.wrapped
    BY TimerAssumption DEF NoHistory
  <1> HIDE DEF id, past
  <1>3. TimersOK'
    BY <1>1, <1>2 DEF TimersOK
  <1>4. ASSUME NEW t \in Timers, timers'[t].callback
        PROVE  OnSchedule(t)'
    <2>1. CASE t = id
      <3>1. timers'[t].interval = interval /\ history'[t] = past
        BY <1>1, <2>1 DEF TimersOK
      <3>2. timer_ticks \in Int
        BY TimerAssumption DEF TimersOK
      <3>3. (timer_ticks % interval) \in 0 .. (interval - 1)
        BY <1>2, <3>2, Remainder
      <3> QED
        BY <1>1, <1>2, <3>1, <3>3 DEF OnSchedule
    <2>2. CASE t # id
      BY <1>1, <1>4, <2>2 DEF OnSchedule, TimersOK
    <2> QED
      BY <2>1, <2>2
  <1> QED
    BY <1>3, <1>4

LEMMA TickKeepsSchedule ==
    ASSUME ScheduleInv, timer_irq_handler
    PROVE  ScheduleInv'
  <1> USE DEF ScheduleInv
  <1>1. timer_ticks \in Int /\ INT_MAX \in Nat /\ NextTick \in (-INT_MAX - 1) .. INT_MAX
    BY TimerAssumption DEF TimersOK, NextTick
  <1>2. /\ timer_ticks' = NextTick
        /\ timers' = [t \in Timers |-> Ticked(t)]
        /\ history' = [t \in Timers |-> Remembered(t)]
    BY DEF timer_irq_handler
  <1>3. TimersOK'
    <2>1. ASSUME NEW t \in Timers
          PROVE  Ticked(t) \in [callback : BOOLEAN, interval : Nat, repeat : Int]
      <3>1. timers[t] \in [callback : BOOLEAN, interval : Nat, repeat : Int]
        BY DEF TimersOK
      <3>2. NoTimer \in [callback : BOOLEAN, interval : Nat, repeat : Int]
        BY DEF NoTimer
      <3>3. [timers[t] EXCEPT !.repeat = @ - 1]
              \in [callback : BOOLEAN, interval : Nat, repeat : Int]
        BY <3>1
      <3> QED
        BY <3>1, <3>2, <3>3 DEF Ticked
    <2>2. ASSUME NEW t \in Timers
          PROVE  Remembered(t) \in [asked : Int, quiet : Nat, wrapped : BOOLEAN]
      <3>1. history[t] \in [asked : Int, quiet : Nat, wrapped : BOOLEAN]
        BY DEF TimersOK
      <3>2. NoHistory \in [asked : Int, quiet : Nat, wrapped : BOOLEAN]
        BY DEF NoHistory
      <3>3. [NoHistory EXCEPT !.asked = history[t].asked]
              \in [asked : Int, quiet : Nat, wrapped : BOOLEAN]
        BY <3>1, <3>2
      <3>4. [asked |-> history[t].asked, quiet |-> history[t].quiet + 1,
             wrapped |-> history[t].wrapped \/ timer_ticks = INT_MAX]
              \in [asked : Int, quiet : Nat, wrapped : BOOLEAN]
        <4>1. history[t].asked \in Int /\ history[t].quiet + 1 \in Nat
          BY <3>1
        <4> QED
          BY <4>1
      <3> QED
        BY <3>2, <3>3, <3>4 DEF Remembered
    <2> QED
      BY <1>1, <1>2, <2>1, <2>2 DEF TimersOK
  <1>4. ASSUME NEW t \in Timers, timers'[t].callback
        PROVE  OnSchedule(t)'
    <2> DEFINE d == timers[t].interval
    <2>1. timers[t].callback /\ ~Over(t) /\ timers'[t].interval = d
      BY <1>2, <1>4 DEF Ticked, NoTimer, TimersOK, Over
    <2>2. OnSchedule(t) /\ d \in Nat \ {0} /\ history[t].quiet \in Nat
          /\ history[t].wrapped \in BOOLEAN
      BY <2>1 DEF OnSchedule, TimersOK
    <2> HIDE DEF d
    <2>3. (NextTick % d) \in 0 .. (d - 1) /\ (timer_ticks % d) \in 0 .. (d - 1)
      <3>1. NextTick \in Int /\ timer_ticks \in Int
        BY <1>1
      <3> HIDE DEF NextTick
      <3> QED
        BY <2>2, <3>1, Remainder
    <2>4. CASE Due(t)
      <3>1. history'[t] = [NoHistory EXCEPT !.asked = history[t].asked]
        BY <1>2, <2>1, <2>4 DEF Remembered
      <3>2. history'[t].quiet = 0 /\ ~history'[t].wrapped
        BY <3>1 DEF NoHistory
      <3> QED
        BY <1>2, <2>1, <2>2, <2>3, <3>2 DEF OnSchedule
    <2>5. CASE ~Due(t)
      <3>1. (NextTick % d) # 0
        BY <2>1, <2>5 DEF Due, d
      <3>2. /\ history'[t].quiet = history[t].quiet + 1
            /\ history'[t].wrapped = (history[t].wrapped \/ timer_ticks = INT_MAX)
        BY <1>2, <2>1, <2>5 DEF Remembered, TimersOK
      <3>3. /\ d # 0
            /\ ~history[t].wrapped => history[t].quiet <= (timer_ticks % d)
            /\ history[t].wrapped =>
                  timer_ticks < 0 /\ history[t].quiet <= d - 1 + (timer_ticks % d)
        BY <2>2 DEF OnSchedule, d
      <3>4. CASE timer_ticks = INT_MAX
        <4>1. ~history[t].wrapped /\ NextTick < 0
          BY <1>1, <2>2, <3>3, <3>4 DEF NextTick
        <4>2. history[t].quiet + 1 <= d - 1 + (NextTick % d)
          BY <2>2, <2>3, <3>1, <3>3, <4>1
        <4> QED
          BY <1>2, <2>1, <3>2, <3>3, <3>4, <4>1, <4>2 DEF OnSchedule
      <3>5. CASE timer_ticks # INT_MAX
        <4>1. NextTick = timer_ticks + 1 /\ (NextTick % d) = (timer_ticks % d) + 1
          BY <1>1, <2>2, <3>1, <3>5, RemainderGrows DEF NextTick
        <4>2. NextTick # 0
          BY <2>2, <3>1
        <4>3. history[t].wrapped => NextTick < 0
          BY <1>1, <3>3, <4>1, <4>2
        <4>4. /\ ~history[t].wrapped => history[t].quiet + 1 <= (NextTick % d)
              /\ history[t].wrapped => history[t].quiet + 1 <= d - 1 + (NextTick % d)
          BY <2>2, <2>3, <3>3, <4>1
        <4> QED
          BY <1>2, <2>1, <3>2, <3>3, <3>5, <4>3, <4>4 DEF OnSchedule
      <3> QED
        BY <3>4, <3>5
    <2> QED
      BY <2>4, <2>5
  <1> QED
    BY <1>3, <1>4

LEMMA ScheduleIsEnough == ScheduleInv => RunsOnSchedule
  <1> SUFFICES ASSUME ScheduleInv, NEW t \in Timers, timers[t].callback
               PROVE  \/ history[t].quiet < timers[t].interval
                      \/ history[t].wrapped /\ history[t].quiet < 2 * timers[t].interval - 1
    BY DEF RunsOnSchedule
  <1> DEFINE d == timers[t].interval
  <1>1. /\ OnSchedule(t) /\ d \in Nat \ {0} /\ timer_ticks \in Int
        /\ history[t].quiet \in Nat /\ history[t].wrapped \in BOOLEAN
    BY TimerAssumption DEF ScheduleInv, TimersOK, OnSchedule
  <1>2. (timer_ticks % d) \in 0 .. (d - 1)
    BY <1>1, Remainder
  <1>3. /\ ~history[t].wrapped => history[t].quiet <= (timer_ticks % d)
        /\ history[t].wrapped => history[t].quiet <= d - 1 + (timer_ticks % d)
    BY <1>1 DEF OnSchedule
  <1> HIDE DEF d
  <1>4. \/ history[t].quiet < d
        \/ history[t].wrapped /\ history[t].quiet < 2 * d - 1
    BY <1>1, <1>2, <1>3
  <1> QED
    BY <1>4 DEF d

\* The steps that the timer table can see.
LEMMA TimerSteps ==
    ASSUME [InterruptsNext]_ivars
    PROVE  UNCHANGED tvars \/ timer_irq_handler \/ BootCallback
  BY DEF InterruptsNext, TickRequested, KeyRequested, Boot, BootInterrupts, BootRegister,
         BootPoll, BootEnable, Booted, Accept, Trap, interrupts_irq_handler, Dismiss, ivars

\* A callback registered for ever runs again within its interval, and within less than
\* two when the tick count wraps (timer.c:118, 127), for every width of int, every set
\* of intervals and every number of timers: no interval has to divide anything, as the
\* count comes to zero after every wrap.
THEOREM ScheduleSafety == InterruptsSpec => []RunsOnSchedule
  <1>1. InterruptsInit => ScheduleInv
    BY TimerAssumption
    DEF InterruptsInit, timer_init, ScheduleInv, TimersOK, NoTimer, NoHistory
  <1>2. ScheduleInv /\ [InterruptsNext]_ivars => ScheduleInv'
    <2> SUFFICES ASSUME ScheduleInv, [InterruptsNext]_ivars PROVE ScheduleInv'
      OBVIOUS
    <2>1. CASE UNCHANGED tvars
      BY <2>1 DEF tvars, ScheduleInv, TimersOK, OnSchedule
    <2>2. CASE timer_irq_handler
      BY <2>2, TickKeepsSchedule
    <2>3. CASE BootCallback
      BY <2>3, RegisterKeepsSchedule DEF BootCallback
    <2> QED
      BY <2>1, <2>2, <2>3, TimerSteps
  <1> QED
    BY <1>1, <1>2, ScheduleIsEnough, PTL DEF InterruptsSpec

-----------------------------------------------------------------------------
(***************************************************************************)
(* The ids of the timers.                                                  *)
(***************************************************************************)

TimerIdsOK == timer_allocator \in Seq(Timers) /\ TimerIdsExact

LEMMA TimerIdsType ==
    /\ TimerIds \in Seq(Timers) /\ Len(TimerIds) = TIMERS_MAX /\ NoItemTwice(TimerIds)
    /\ \A t \in Timers : t + 1 \in 1 .. TIMERS_MAX /\ TimerIds[t + 1] = t
  BY TimerAssumption DEF TimerIds, Timers, NoItemTwice

\* What the handler gives back: the timers that are over, each once.
LEMMA GivenBackOK ==
    /\ GivenBack \in Seq(Timers)
    /\ NoItemTwice(GivenBack)
    /\ \A n \in DOMAIN GivenBack : Over(GivenBack[n])
    /\ \A t \in Timers : Over(t) => \E n \in DOMAIN GivenBack : GivenBack[n] = t
  <1> DEFINE I == {n \in 1 .. TIMERS_MAX : Over(TimerIds[n])}
  <1>1. TimerIds \in Seq(Timers) /\ I \in SUBSET Positions(TimerIds) /\ NoItemTwice(TimerIds)
    BY TimerIdsType DEF Positions
  <1>2. \A n \in I : Over(TimerIds[n])
    OBVIOUS
  <1>3. \A t \in Timers : Over(t) => t + 1 \in I /\ TimerIds[t + 1] = t
    BY TimerIdsType
  <1>4. GivenBack = AtIndices(TimerIds, I)
    BY DEF GivenBack
  <1> HIDE DEF I
  <1>5. /\ GivenBack \in Seq(Timers) /\ Len(GivenBack) = Cardinality(I)
        /\ Cardinality(I) \in Nat
    BY <1>1, <1>4, AtIndicesType
  <1>6. DOMAIN GivenBack = 1 .. Cardinality(I)
    BY <1>5
  <1>7. NoItemTwice(GivenBack)
    BY <1>1, <1>4, <1>5, <1>6, AtIndicesOnce DEF NoItemTwice
  <1>8. ASSUME NEW n \in DOMAIN GivenBack
        PROVE  Over(GivenBack[n])
    <2>1. n \in 1 .. Cardinality(I)
      BY <1>6
    <2>2. PICK i \in I : AtIndices(TimerIds, I)[n] = TimerIds[i]
      BY <1>1, <2>1, AtIndicesFrom
    <2> QED
      BY <1>2, <1>4, <2>2
  <1>9. ASSUME NEW t \in Timers, Over(t)
        PROVE  \E n \in DOMAIN GivenBack : GivenBack[n] = t
    <2> DEFINE i == t + 1
    <2>1. i \in I /\ TimerIds[i] = t
      BY <1>3, <1>9
    <2> HIDE DEF i
    <2>2. Rank(I, i) \in 1 .. Cardinality(I) /\ AtIndices(TimerIds, I)[Rank(I, i)] = TimerIds[i]
      BY <1>1, <2>1, AtIndicesItem
    <2> QED
      BY <1>4, <1>6, <2>1, <2>2
  <1> QED
    BY <1>5, <1>7, <1>8, <1>9

LEMMA RegisterKeepsIds ==
    ASSUME TimersOK, TimerIdsOK, NEW interval \in Intervals, NEW repeat \in Repeats,
           timer_callback_register(interval, repeat)
    PROVE  TimerIdsOK'
  <1> DEFINE a == timer_allocator
             id == Head(a)
             new == [callback |-> TRUE, interval |-> interval, repeat |-> repeat]
  <1>1. /\ a \in Seq(Timers) /\ a # <<>> /\ timer_allocator' = Tail(a)
        /\ timers' = [timers EXCEPT ![id] = new]
    BY DEF timer_callback_register, TimerIdsOK
  <1>2. id \in Timers /\ a[1] = id /\ 1 \in DOMAIN a
    BY <1>1
  <1>3. /\ Tail(a) \in Seq(Timers) /\ DOMAIN Tail(a) = 1 .. (Len(a) - 1) /\ Len(a) \in Nat
        /\ \A n \in 1 .. (Len(a) - 1) : n + 1 \in DOMAIN a /\ Tail(a)[n] = a[n + 1]
    BY <1>1
  <1>4. \A m, n \in DOMAIN a : a[m] = a[n] => m = n
    BY DEF TimerIdsOK, TimerIdsExact
  <1>5. \A t \in Timers : timers[t].callback <=> ~ \E n \in DOMAIN a : a[n] = t
    BY DEF TimerIdsOK, TimerIdsExact
  <1>6. \A t \in Timers : timers'[t].callback = IF t = id THEN TRUE ELSE timers[t].callback
    BY <1>1, <1>2 DEF TimersOK
  <1>7. \A m, n \in DOMAIN Tail(a) : Tail(a)[m] = Tail(a)[n] => m = n
    BY <1>3, <1>4
  <1> HIDE DEF id, new
  <1>8. ASSUME NEW t \in Timers
        PROVE  timers'[t].callback <=> ~ \E n \in DOMAIN Tail(a) : Tail(a)[n] = t
    <2>1. CASE t = id
      <3>1. \A n \in DOMAIN Tail(a) : Tail(a)[n] # id
        BY <1>2, <1>3, <1>4
      <3> QED
        BY <1>6, <2>1, <3>1
    <2>2. CASE t # id
      <3>1. (\E n \in DOMAIN a : a[n] = t) <=> \E n \in DOMAIN Tail(a) : Tail(a)[n] = t
        <4>1. ASSUME NEW n \in DOMAIN a, a[n] = t
              PROVE  \E m \in DOMAIN Tail(a) : Tail(a)[m] = t
          <5>1. n \in 1 .. Len(a) /\ n # 1
            BY <1>1, <1>2, <2>2, <4>1
          <5>2. n - 1 \in DOMAIN Tail(a) /\ (n - 1) + 1 = n
            BY <1>3, <5>1
          <5> QED
            BY <1>3, <4>1, <5>2
        <4>2. ASSUME NEW m \in DOMAIN Tail(a), Tail(a)[m] = t
              PROVE  \E n \in DOMAIN a : a[n] = t
          BY <1>3, <4>2
        <4> QED
          BY <4>1, <4>2
      <3> QED
        BY <1>5, <1>6, <2>2, <3>1
    <2> QED
      BY <2>1, <2>2
  <1> QED
    BY <1>1, <1>3, <1>7, <1>8 DEF TimerIdsOK, TimerIdsExact

LEMMA TickKeepsIds ==
    ASSUME TimersOK, TimerIdsOK, timer_irq_handler
    PROVE  TimerIdsOK'
  <1> DEFINE a == timer_allocator
             g == GivenBack
             c == a \o g
  <1>1. /\ timer_allocator' = c
        /\ \A t \in Timers : timers'[t] = Ticked(t)
    BY DEF timer_irq_handler
  <1>2. /\ a \in Seq(Timers)
        /\ \A t \in Timers : timers[t].callback <=> ~ \E n \in DOMAIN a : a[n] = t
        /\ \A m, n \in DOMAIN a : a[m] = a[n] => m = n
    BY DEF TimerIdsOK, TimerIdsExact
  <1>3. /\ g \in Seq(Timers)
        /\ \A m, n \in DOMAIN g : g[m] = g[n] => m = n
        /\ \A n \in DOMAIN g : Over(g[n])
        /\ \A t \in Timers : Over(t) => \E n \in DOMAIN g : g[n] = t
    BY GivenBackOK DEF NoItemTwice
  <1>4. \A t \in Timers : Over(t) => timers[t].callback
    BY DEF Over
  <1>5. \A t \in Timers : timers'[t].callback <=> timers[t].callback /\ ~Over(t)
    <2>1. ASSUME NEW t \in Timers
          PROVE  Ticked(t).callback <=> timers[t].callback /\ ~Over(t)
      <3>1. timers[t] \in [callback : BOOLEAN, interval : Nat, repeat : Int]
        BY DEF TimersOK
      <3>2. CASE Over(t)
        BY <3>2 DEF Ticked, NoTimer
      <3>3. CASE ~Over(t)
        <4>1. Ticked(t).callback = timers[t].callback
          BY <3>1, <3>3 DEF Ticked
        <4> QED
          BY <3>3, <4>1
      <3> QED
        BY <3>2, <3>3
    <2> QED
      BY <1>1, <2>1
  <1> HIDE DEF a, g
  <1>6. /\ c \in Seq(Timers) /\ Len(a) \in Nat /\ Len(g) \in Nat
        /\ DOMAIN a = 1 .. Len(a) /\ DOMAIN g = 1 .. Len(g)
        /\ DOMAIN c = 1 .. (Len(a) + Len(g))
        /\ \A n \in 1 .. Len(a) : c[n] = a[n]
        /\ \A n \in 1 .. Len(g) : c[Len(a) + n] = g[n]
    BY <1>2, <1>3
  <1> HIDE DEF c
  <1>7. \A n \in DOMAIN c : n \in DOMAIN a \/ (n - Len(a) \in DOMAIN g /\ c[n] = g[n - Len(a)])
    BY <1>6
  <1>8. \A m \in DOMAIN a, n \in DOMAIN g : a[m] # g[n]
    <2> SUFFICES ASSUME NEW m \in DOMAIN a, NEW n \in DOMAIN g, a[m] = g[n] PROVE FALSE
      OBVIOUS
    <2>1. g[n] \in Timers /\ Over(g[n])
      BY <1>3
    <2> QED
      BY <1>2, <1>4, <2>1
  <1>9. ASSUME NEW m \in DOMAIN c, NEW n \in DOMAIN c, c[m] = c[n]
        PROVE  m = n
    <2>1. CASE m \in DOMAIN a /\ n \in DOMAIN a
      BY <1>2, <1>6, <1>9, <2>1
    <2>2. CASE m \in DOMAIN a /\ n \notin DOMAIN a
      BY <1>6, <1>7, <1>8, <1>9, <2>2
    <2>3. CASE m \notin DOMAIN a /\ n \in DOMAIN a
      BY <1>6, <1>7, <1>8, <1>9, <2>3
    <2>4. CASE m \notin DOMAIN a /\ n \notin DOMAIN a
      <3>1. m - Len(a) = n - Len(a)
        BY <1>3, <1>7, <1>9, <2>4
      <3> QED
        BY <1>6, <3>1
    <2> QED
      BY <2>1, <2>2, <2>3, <2>4
  <1>10. ASSUME NEW t \in Timers
         PROVE  timers'[t].callback <=> ~ \E n \in DOMAIN c : c[n] = t
    <2>1. (\E n \in DOMAIN c : c[n] = t)
             <=> (\E n \in DOMAIN a : a[n] = t) \/ \E n \in DOMAIN g : g[n] = t
      <3>1. ASSUME NEW n \in DOMAIN c, c[n] = t
            PROVE  (\E m \in DOMAIN a : a[m] = t) \/ \E m \in DOMAIN g : g[m] = t
        BY <1>6, <1>7, <3>1
      <3>2. ASSUME NEW n \in DOMAIN a, a[n] = t
            PROVE  \E m \in DOMAIN c : c[m] = t
        BY <1>6, <3>2
      <3>3. ASSUME NEW n \in DOMAIN g, g[n] = t
            PROVE  \E m \in DOMAIN c : c[m] = t
        <4>1. Len(a) + n \in DOMAIN c /\ c[Len(a) + n] = t
          BY <1>6, <3>3
        <4> QED
          BY <4>1
      <3> QED
        BY <3>1, <3>2, <3>3
    <2>2. (\E n \in DOMAIN g : g[n] = t) <=> Over(t)
      BY <1>3
    <2> QED
      BY <1>2, <1>5, <2>1, <2>2
  <1> QED
    BY <1>1, <1>6, <1>9, <1>10 DEF TimerIdsOK, TimerIdsExact

TimerInv == ScheduleInv /\ TimerIdsOK

\* The schedule and the ids together: the handler gives back the ids of the timers
\* that run out, and which ones do depends on the counts of the schedule (timer.c:135).
THEOREM TimerInvariant == InterruptsSpec => []TimerInv
  <1>1. InterruptsInit => TimerInv
    <2> SUFFICES ASSUME InterruptsInit PROVE TimerInv
      OBVIOUS
    <2>1. ScheduleInv
      BY TimerAssumption
      DEF InterruptsInit, timer_init, ScheduleInv, TimersOK, NoTimer, NoHistory
    <2>2. /\ timer_allocator = TimerIds
          /\ \A t \in Timers : ~timers[t].callback
      BY DEF InterruptsInit, timer_init, NoTimer
    <2>3. \A t \in Timers : \E n \in DOMAIN TimerIds : TimerIds[n] = t
      BY TimerIdsType
    <2>4. TimerIdsOK
      BY <2>2, <2>3, TimerIdsType DEF TimerIdsOK, TimerIdsExact, NoItemTwice
    <2> QED
      BY <2>1, <2>4 DEF TimerInv
  <1>2. TimerInv /\ [InterruptsNext]_ivars => TimerInv'
    <2> SUFFICES ASSUME TimerInv, [InterruptsNext]_ivars PROVE TimerInv'
      OBVIOUS
    <2>0. ScheduleInv /\ TimersOK /\ TimerIdsOK
      BY DEF TimerInv, ScheduleInv
    <2>1. CASE UNCHANGED tvars
      BY <2>1 DEF tvars, TimerInv, ScheduleInv, TimersOK, OnSchedule, TimerIdsOK, TimerIdsExact
    <2>2. CASE timer_irq_handler
      BY <2>0, <2>2, TickKeepsSchedule, TickKeepsIds DEF TimerInv
    <2>3. CASE BootCallback
      BY <2>0, <2>3, RegisterKeepsSchedule, RegisterKeepsIds DEF BootCallback, TimerInv
    <2> QED
      BY <2>1, <2>2, <2>3, TimerSteps
  <1> QED
    BY <1>1, <1>2, PTL DEF InterruptsSpec

\* A timer id is registered or free and never both, whatever timers end while the
\* handler walks the table (timer.c:138).
THEOREM TimerIdSafety == InterruptsSpec => []TimerIdsExact
  <1>1. TimerInv => TimerIdsExact
    BY DEF TimerInv, TimerIdsOK
  <1> QED
    BY <1>1, TimerInvariant, PTL

\* The types of the variables, and that only interrupts of the table are registered.
THEOREM InterruptsTypes == InterruptsSpec => []InterruptsTypeOK
  <1>1. InterruptsInit => irq_handlers \subseteq IRQs
    BY DEF InterruptsInit
  <1>2. irq_handlers \subseteq IRQs /\ [InterruptsNext]_ivars => (irq_handlers \subseteq IRQs)'
    BY DEF InterruptsNext, TickRequested, KeyRequested, Boot, BootInterrupts, BootRegister,
           interrupts_irq_register, BootCallback, BootPoll, BootEnable, Booted, Accept, Trap,
           interrupts_irq_handler, Dismiss, ivars, IRQs
  <1>3. ASSUME IInv, TimerInv, irq_handlers \subseteq IRQs
        PROVE  InterruptsTypeOK
    <2>1. TimerTypeOK
      BY <1>3 DEF TimerInv, ScheduleInv, TimersOK, TimerIdsOK, TimerTypeOK
    <2>2. TypesOK /\ KeysInOrderOnce /\ ServiceOK
      BY <1>3 DEF IInv
    <2>3. in_service \subseteq Interrupting
      BY <2>2 DEF ServiceOK, TypesOK, FromPic, IRQs, Interrupting, IRQ_TIMER, IRQ_KEYBOARD,
                  IRQ_SYSCALL
    <2>4. scanned \in Seq(0 .. MAX_KEYS)
      <3> DEFINE n == IF keyboard.full THEN keyboard.data - 1 ELSE keyboard.data
      <3>1. n \in Nat /\ n <= MAX_KEYS /\ MAX_KEYS \in Nat
        BY <2>2, KeysAssumption DEF TypesOK
      <3>2. scanned = [i \in 1 .. n |-> i]
        BY <2>2 DEF KeysInOrderOnce
      <3> HIDE DEF n
      <3> QED
        BY <3>1, <3>2
    <2> QED
      BY <1>3, <2>1, <2>2, <2>3, <2>4 DEF InterruptsTypeOK, TypesOK, Interrupting
  <1> QED
    BY <1>1, <1>2, <1>3, InterruptsInvariant, TimerInvariant, PTL DEF InterruptsSpec
=============================================================================
