------------------------------ MODULE Interrupts ------------------------------
(***************************************************************************)
(* How interrupts reach the handlers: the boot sequence of main.c, the     *)
(* handler table of interrupts.c, the interrupt controller, the keyboard   *)
(* controller, which keyboard_poll reads, and the timer table.  main polls *)
(* the keyboard with interrupts off before it enables them.                *)
(*                                                                         *)
(* The controllers are external.  The interrupt controller latches a       *)
(* request at its edge and forgets it when the processor accepts it; a     *)
(* second request before that is lost.  An accepted interrupt is in        *)
(* service, and holds back itself and the ones of lower priority, until it *)
(* is dismissed.  The keyboard controller holds one scancode and asks for  *)
(* an interrupt when it gets one; its data port repeats the last scancode  *)
(* when there is none.  Kernel code runs with interrupts off.              *)
(***************************************************************************)
EXTENDS Timer

CONSTANT MAX_KEYS   \* bound: scancodes that the keyboard sends, numbered from 1

ASSUME KeysAssumption == MAX_KEYS \in Nat

IRQ_TIMER == 0
IRQ_KEYBOARD == 1
IRQ_SYSCALL == 96       \* 0x80, relative to the first PIC interrupt 0x20

IRQs == {IRQ_TIMER, IRQ_KEYBOARD, IRQ_SYSCALL}

\* interrupts_irq_register and interrupts_irq_handler treat 0x20 to 0x2F so.
FromPic(i) == i \in 0 .. 15

VARIABLES
    boot,           \* the steps of main that are left
    irq_handlers,   \* the interrupts that have a handler
    masked,         \* PIC: interrupts that are masked
    requested,      \* PIC: requests that are latched
    in_service,     \* PIC: interrupts accepted and not dismissed
    cpu,            \* "main", "loop" (main at its end), "process", "handler",
                    \* "dismiss", "panic"
    irq,            \* the interrupt that is handled
    keyboard,       \* [full, data]: keyboard controller, and its last scancode
    scanned         \* history: the scancodes that keyboard_scan returned

picVars == <<masked, requested, in_service>>

keyVars == <<keyboard, scanned>>

ivars == <<tvars, boot, irq_handlers, picVars, cpu, irq, keyVars>>

\* Mutant: the handler table is cleared after the timer has been registered.
BootOrderSwapped == <<"timer", "interrupts", "keyboard", "syscall", "getc", "enable">>

\* main, as far as interrupts are concerned; callbacks are registered in between.
BootOrder == <<"interrupts", "timer", "keyboard", "syscall", "getc", "enable">>

\* The PIC masks what the boot loader left masked.
InterruptsInit ==
    /\ timer_init
    /\ boot = BootOrder
    /\ irq_handlers = {}
    /\ masked \in {{}, {IRQ_TIMER, IRQ_KEYBOARD}}
    /\ requested = {}
    /\ in_service = {}
    /\ cpu = "main"
    /\ irq = IRQ_SYSCALL
    /\ keyboard = [full |-> FALSE, data |-> 0]
    /\ scanned = <<>>

-----------------------------------------------------------------------------
\* Hardware, at any time.  The timer's handler is over before the next tick.
TickRequested ==
    /\ IRQ_TIMER \notin in_service
    /\ requested' = requested \cup {IRQ_TIMER}
    /\ UNCHANGED <<tvars, boot, irq_handlers, masked, in_service, cpu, irq, keyVars>>

KeyRequested ==
    /\ ~keyboard.full
    /\ keyboard.data < MAX_KEYS
    /\ keyboard' = [full |-> TRUE, data |-> keyboard.data + 1]
    /\ requested' = requested \cup {IRQ_KEYBOARD}
    /\ UNCHANGED <<tvars, boot, irq_handlers, masked, in_service, cpu, irq, scanned>>

-----------------------------------------------------------------------------
\* Mutant: the status port is not looked at.
keyboard_pollBlind ==
    /\ keyboard' = [keyboard EXCEPT !.full = FALSE]
    /\ scanned' = Append(scanned, keyboard.data)

keyboard_poll ==
    /\ keyboard' = [keyboard EXCEPT !.full = FALSE]
    /\ scanned' = IF keyboard.full THEN Append(scanned, keyboard.data) ELSE scanned

\* Mutant: pic_irq_enable toggles the mask bit, as pic_irq_disable does.
interrupts_irq_registerToggles(i) ==
    /\ irq_handlers' = irq_handlers \cup {i}
    /\ masked' = IF ~FromPic(i) THEN masked
                 ELSE IF i \in masked THEN masked \ {i} ELSE masked \cup {i}

\* interrupts_irq_register, and pic_irq_enable for interrupts from the PIC.
interrupts_irq_register(i) ==
    /\ irq_handlers' = irq_handlers \cup {i}
    /\ masked' = IF FromPic(i) THEN masked \ {i} ELSE masked

BootStep(step) ==
    /\ cpu = "main"
    /\ boot # <<>>
    /\ Head(boot) = step

Booted == boot' = Tail(boot) /\ UNCHANGED <<tvars, in_service, cpu, irq>>

BootInterrupts ==
    /\ BootStep("interrupts")
    /\ irq_handlers' = {}
    /\ Booted
    /\ UNCHANGED <<masked, requested, keyVars>>

BootRegister ==
    /\ \E registered \in {<<"timer", IRQ_TIMER>>, <<"keyboard", IRQ_KEYBOARD>>,
                          <<"syscall", IRQ_SYSCALL>>} :
          /\ BootStep(registered[1])
          /\ interrupts_irq_register(registered[2])
    /\ Booted
    /\ UNCHANGED <<requested, keyVars>>

\* timer_callback_register, which tty_init, scheduler_init and test_init call.
BootCallback ==
    /\ BootStep("keyboard") \/ BootStep("getc")
    /\ \E interval \in Intervals, repeat \in Repeats :
          timer_callback_register(interval, repeat)
    /\ UNCHANGED <<boot, irq_handlers, picVars, cpu, irq, keyVars>>

\* One round of keyboard_getc.  A scancode that decodes to KEY_NULL does not end it.
\* The request of a scancode that is polled may stay latched.
BootPoll ==
    /\ BootStep("getc")
    /\ keyboard.full
    /\ keyboard_poll
    /\ requested' \in {requested, requested \ {IRQ_KEYBOARD}}
    /\ boot' \in {boot, Tail(boot)}
    /\ UNCHANGED <<tvars, irq_handlers, masked, in_service, cpu, irq>>

\* interrupts_enable; main then loops until the first interrupt.
BootEnable ==
    /\ BootStep("enable")
    /\ boot' = Tail(boot)
    /\ cpu' = "loop"
    /\ UNCHANGED <<tvars, irq_handlers, picVars, irq, keyVars>>

Boot == BootInterrupts \/ BootRegister \/ BootPoll \/ BootEnable

-----------------------------------------------------------------------------
\* The interrupt that the PIC offers: the one of the highest priority.
Offered(i) ==
    /\ i \in (requested \ masked) \ in_service
    /\ \A j \in (requested \ masked) \cup in_service : i <= j

\* The processor accepts an interrupt from the PIC.
Accept(i) ==
    /\ cpu \in {"loop", "process"}
    /\ Offered(i)
    /\ requested' = requested \ {i}
    /\ in_service' = in_service \cup {i}
    /\ irq' = i
    /\ cpu' = "handler"
    /\ UNCHANGED <<tvars, boot, irq_handlers, masked, keyVars>>

\* A process executes int $0x80; an interrupt that is offered comes first.
Trap ==
    /\ cpu = "process"
    /\ \A i \in IRQs : ~Offered(i)
    /\ irq' = IRQ_SYSCALL
    /\ cpu' = "handler"
    /\ UNCHANGED <<tvars, boot, irq_handlers, picVars, keyVars>>

\* irq_handlers[irq](), or a panic if there is none.
interrupts_irq_handler ==
    /\ cpu = "handler"
    /\ \/ /\ irq \notin irq_handlers
          /\ cpu' = "panic"
          /\ UNCHANGED <<tvars, keyVars>>
       \/ /\ irq \in irq_handlers
          /\ cpu' = "dismiss"
          /\ \/ irq = IRQ_TIMER /\ timer_irq_handler /\ UNCHANGED keyVars
             \/ irq = IRQ_KEYBOARD /\ keyboard_poll /\ UNCHANGED tvars
             \/ irq = IRQ_SYSCALL /\ UNCHANGED <<tvars, keyVars>>
    /\ UNCHANGED <<boot, irq_handlers, picVars, irq>>

\* Mutant: 0x20 is not taken for an interrupt of the PIC.
DismissedLate == IF FromPic(irq - 1) THEN in_service \ {irq} ELSE in_service

\* The EOI ends the interrupt in service of the highest priority: this one.
Dismissed == IF FromPic(irq) THEN in_service \ {irq} ELSE in_service

\* pic_irq_dismiss, and kernel_context_exit to a process with interrupts on.
Dismiss ==
    /\ cpu = "dismiss"
    /\ in_service' = Dismissed
    /\ cpu' = "process"
    /\ UNCHANGED <<tvars, boot, irq_handlers, masked, requested, irq, keyVars>>

InterruptsNext ==
    \/ TickRequested \/ KeyRequested
    \/ Boot \/ BootCallback
    \/ Accept(IRQ_TIMER) \/ Accept(IRQ_KEYBOARD) \/ Trap
    \/ interrupts_irq_handler \/ Dismiss

InterruptsSpec == InterruptsInit /\ [][InterruptsNext]_ivars

\* The processor goes on, and finds time for the keyboard between two ticks.
InterruptsFairSpec ==
    /\ InterruptsSpec
    /\ WF_ivars(Boot)
    /\ WF_ivars(interrupts_irq_handler \/ Dismiss)
    /\ WF_ivars(Accept(IRQ_TIMER))
    /\ SF_ivars(Accept(IRQ_KEYBOARD))

-----------------------------------------------------------------------------
\* The variables have their types.
InterruptsTypeOK ==
    /\ TimerTypeOK
    /\ irq_handlers \subseteq IRQs
    /\ masked \cup requested \cup in_service \subseteq {IRQ_TIMER, IRQ_KEYBOARD}
    /\ cpu \in {"main", "loop", "process", "handler", "dismiss", "panic"}
    /\ irq \in IRQs
    /\ keyboard \in [full : BOOLEAN, data : 0 .. MAX_KEYS]
    /\ scanned \in Seq(0 .. MAX_KEYS)

\* No interrupt comes before its handler is registered (interrupts.c:63): main fills
\* the table it has cleared before it enables interrupts.
EveryInterruptHandled == cpu # "panic"

\* Every scancode is read once and in the order of the keys, the ones that main polls
\* (main.c:67) and the ones that interrupts announce, although the request of a
\* polled scancode stays latched and interrupts again for nothing (keyboard.c:288).
KeysInOrderOnce ==
    scanned = [n \in 1 .. (IF keyboard.full THEN keyboard.data - 1 ELSE keyboard.data) |-> n]

\* A scancode that waits has an interrupt on the way: the controller would never
\* raise another one, and the keyboard would be dead (interrupts.c:72).
WaitingKeyAnnounced ==
    keyboard.full /\ boot = <<>> =>
        IRQ_KEYBOARD \in requested \ masked \/ (cpu = "handler" /\ irq = IRQ_KEYBOARD)

\* Once interrupts are on, every scancode is read.
EveryKeyIsRead == keyboard.full /\ boot = <<>> ~> ~keyboard.full
=============================================================================
