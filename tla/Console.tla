------------------------------- MODULE Console -------------------------------
(***************************************************************************)
(* From the keys to the processes and from the processes to the display:   *)
(* keyboard_irq_handler, the I/O system calls of processes attached to     *)
(* TTYs, and the callbacks of the timer that draw: tty_refresh, and the    *)
(* hooks of test.h, which draw over it.  Every kernel entry is atomic, and *)
(* which process is active when does not matter here: a call names the TTY *)
(* its caller is attached to.  The control commands that create and        *)
(* destroy processes are in Scheduler.                                     *)
(***************************************************************************)
EXTENDS Keyboard, Tty, FiniteSets

CONSTANTS
    Setups,         \* bound: [keys, attached], the keys that are used in a behaviour
                    \* and the TTYs that processes are attached to
    TIME_X,         \* column in which the seconds are shown (73)
    OutputBlocks,   \* what processes write
    InputSizes,     \* how much they ask for (BUF_SIZE)
    MAX_INPUT,      \* bound: characters typed and not read, in all TTYs
    MAX_OUTPUT      \* bound: characters written and not flushed, in all TTYs

\* A TTY has the size of the display (tty.h:21, vga.h:18), and every digit names a TTY.
ASSUME ConsoleAssumption ==
    /\ TTY_WIDTH = VGA_WIDTH /\ TTY_HEIGHT = VGA_HEIGHT
    /\ \A c \in DOMAIN Digit : Digit[c] \in TTYs
    /\ \A s \in Setups : s.attached \subseteq TTYs
    /\ TIME_X \in 0 .. (VGA_WIDTH - 1)
    /\ OutputBlocks \subseteq Seq(STRING)

VARIABLES
    setup,          \* the setup of this behaviour
    status,         \* "running", "exited" (kernel_exit), "undefined"
    held,           \* history: the modifier keys that are down
    printed         \* history: the characters each TTY took from its output buffer

\* The characters in the sequences of all TTYs.
Total(bytes) == FoldFunction(LAMBDA seq, n : Len(seq) + n, 0, bytes)

historyVars == <<held, printed>>

consoleVars == <<keyboardVars, ttyVars, setup, status, historyVars>>

ConsoleInit ==
    /\ keyboard_init
    /\ tty_init
    /\ setup \in Setups
    /\ status = "running"
    /\ held = {}
    /\ printed = [t \in TTYs |-> <<>>]

-----------------------------------------------------------------------------
\* keyboard_irq_handler: the press and the release of a key.
PressModifier ==
    \E bit \in Modifiers : \E k \in ModifierKeys[bit] \cap setup.keys :
        /\ ModifierPressed(bit)
        /\ held' = held \cup {k}
        /\ UNCHANGED <<ttyVars, status, printed>>

ReleaseModifier ==
    \E bit \in Modifiers : \E k \in ModifierKeys[bit] \cap held :
        /\ ModifierReleased(bit)
        /\ held' = held \ {k}
        /\ UNCHANGED <<ttyVars, status, printed>>

PressLock ==
    \E bit \in Locks : \E k \in LockKeys[bit] \cap setup.keys :
        /\ LockPressed(bit)
        /\ UNCHANGED <<ttyVars, status, historyVars>>

PressDigit ==
    \E k \in CharKeys \cap setup.keys :
        /\ Selects(k)
        /\ tty_select(Digit[Decoded(k)])
        /\ UNCHANGED <<keyboardVars, status, historyVars>>

\* kernel_exit: a line of blanks, and then the text over it.
ExitBanner(d) ==
    vga_puts(vga_set_xy(vga_puts(vga_set_xy(d, 0, 0), [i \in 1 .. VGA_WIDTH |-> " "]), 0, 0),
             <<"EXIT", "NL">>)

PressEscape ==
    \E k \in CharKeys \cap setup.keys :
        /\ Escapes(k)
        /\ EscapePressed
        /\ status' = IF esc_status + 1 = 3 THEN "exited" ELSE status
        /\ vga' = IF esc_status + 1 = 3 THEN ExitBanner(vga) ELSE vga
        /\ UNCHANGED <<active_tty, tty, io_input, io_output, historyVars>>

PressCommand ==
    \E k \in CharKeys \cap setup.keys :
        /\ Commanded(k)
        /\ EscapesForgotten
        /\ UNCHANGED <<ttyVars, status, historyVars>>

PressCharacter ==
    \E k \in CharKeys \cap setup.keys :
        /\ Typed(k)
        /\ Total(io_input) < MAX_INPUT
        /\ EscapesForgotten
        /\ tty_input(Decoded(k))
        /\ UNCHANGED <<status, historyVars>>

Key ==
    \/ PressModifier \/ ReleaseModifier \/ PressLock
    \/ PressDigit \/ PressEscape \/ PressCommand \/ PressCharacter

-----------------------------------------------------------------------------
\* The I/O calls of a process attached to TTY t, as the programs make them: they
\* read IO[0], write IO[1] and flush both.
ksyscall_io_write(t, block) ==
    /\ io_output' = [io_output EXCEPT ![t] = Written(@, block)]
    /\ UNCHANGED <<keyboardVars, active_tty, tty, io_input, vga, status, historyVars>>

ksyscall_io_read(t, n) ==
    /\ io_input' = [io_input EXCEPT ![t] = Left(@, n)]
    /\ UNCHANGED <<keyboardVars, active_tty, tty, io_output, vga, status, historyVars>>

FlushInput(t) ==
    /\ io_input' = [io_input EXCEPT ![t] = <<>>]
    /\ UNCHANGED <<keyboardVars, active_tty, tty, io_output, vga, status, historyVars>>

FlushOutput(t) ==
    /\ io_output' = [io_output EXCEPT ![t] = <<>>]
    /\ UNCHANGED <<keyboardVars, active_tty, tty, io_input, vga, status, historyVars>>

Call ==
    \E t \in setup.attached :
        \/ \E block \in OutputBlocks :
              /\ Total(printed) + Total(io_output) + Len(block) <= MAX_OUTPUT
              /\ ksyscall_io_write(t, block)
        \/ \E n \in InputSizes : ksyscall_io_read(t, n)
        \/ FlushInput(t)
        \/ FlushOutput(t)

-----------------------------------------------------------------------------
\* The callbacks of the timer, in the order of their registration, by interval.
Interval == [refresh |-> 2, spinner |-> 10, time |-> 25, list |-> 10]

\* What is due at a tick, and whether the list of processes erases the screen then.
Ticks == {[due |-> {c \in DOMAIN Interval : t % Interval[c] = 0}, erase |-> t % 100 = 0] :
             t \in 1 .. 100}

test_spinner(d) == vga_putc_at(d, VGA_WIDTH - 1, 0, "SPIN")

test_timer(d) == vga_puts(vga_set_xy(d, TIME_X, 0), <<"TIME">>)

Erased(d) == [d EXCEPT !.cell = [c \in Screen |-> IF c < VGA_WIDTH THEN @[c] ELSE " "]]

\* A header and a line for each process, when TTY 0 is selected.
test_proc_list(d, erase) ==
    IF active_tty # 0 THEN d
    ELSE PutMarks(IF erase THEN Erased(d) ELSE d,
                  [i \in 1 .. VGA_HEIGHT |->
                      [x |-> 0, y |-> i - 1, char |-> IF i = 1 THEN "HEAD" ELSE "PROC"]])

\* The display d after the hooks among the callbacks of this tick.
Hooked(d, tick) ==
    LET spun  == IF "spinner" \in tick.due THEN test_spinner(d) ELSE d
        timed == IF "time" \in tick.due THEN test_timer(spun) ELSE spun
    IN  IF "list" \in tick.due THEN test_proc_list(timed, tick.erase) ELSE timed

\* A character stored behind buf overwrites other fields of the TTY, which C leaves
\* undefined.
Refresh ==
    /\ tty_refresh
    /\ printed' = [printed EXCEPT ![active_tty] = @ \o io_output[active_tty]]
    /\ status' = IF Drained.inside THEN status ELSE "undefined"

\* timer_irq_handler, as far as the display is concerned.
Tick ==
    \E tick \in Ticks :
        /\ \/ "refresh" \in tick.due /\ Refresh /\ vga' = Hooked(Redrawn(vga), tick)
           \/ /\ "refresh" \notin tick.due
              /\ vga' = Hooked(vga, tick)
              /\ UNCHANGED <<active_tty, tty, io_input, io_output, status, printed>>
        /\ UNCHANGED <<keyboardVars, held>>

ConsoleNext == status = "running" /\ (Key \/ Call \/ Tick) /\ UNCHANGED setup

ConsoleSpec == ConsoleInit /\ [][ConsoleNext]_consoleVars

-----------------------------------------------------------------------------
\* No modifier sticks: a status bit is set only while a key of that modifier is
\* down, also with both keys of a modifier pressed and released in any order
\* (keyboard.c:339, 356 and 373).  The converse does not hold: releasing one of two clears it.
ModifierNeedsKey ==
    \A bit \in Modifiers : bit \in kbd_status => ModifierKeys[bit] \cap held # {}

\* The cells that the hooks draw over, and kernel_exit.
Covered ==
    IF active_tty = 0 THEN Screen
    ELSE IF status = "exited" THEN 0 .. (VGA_WIDTH - 1)
    ELSE {TIME_X, VGA_WIDTH - 1}

\* The display shows the active TTY as soon as it is not marked to be drawn again
\* (tty.c:77), but for the spinner and the time: no selection and no output leaves
\* the contents of another TTY, an earlier state of this one, or anything of the
\* list of processes on the display, which is drawn over TTY 0 (test.h:48).
DisplayIsCurrent ==
    status # "undefined" /\ ~tty[active_tty].refresh =>
        \A c \in Screen \ Covered : vga.cell[c] = tty[active_tty].buf[c]

\* The lines of a text without other control characters.
NextLines(lines, byte) ==
    IF byte = "NL" THEN Append(lines, <<>>)
    ELSE [lines EXCEPT ![Len(lines)] = Append(@, byte)]

Lines(text) == FoldLeft(NextLines, << <<>> >>, text)

Plain(text) == \A i \in DOMAIN text : text[i] \notin {"TAB", "BS", "CR"}

\* What should be in column x of line y: the last TTY_HEIGHT lines are on the screen.
Expected(lines, x, y) ==
    LET first == IF Len(lines) > TTY_HEIGHT THEN Len(lines) - TTY_HEIGHT ELSE 0
    IN  IF first + y + 1 <= Len(lines) /\ x + 1 <= Len(lines[first + y + 1])
        THEN {lines[first + y + 1][x + 1]}
        ELSE {"NUL", " "}

\* As long as every line fits the width, each TTY holds the last lines of the text it
\* was sent, whoever wrote it in whatever blocks and whenever the TTY was selected:
\* nothing lost, nothing twice, in order, scrolled (tty.c:130 to 174).  Nothing is
\* stored outside the buffer then.
ScreenShowsText ==
    \A t \in TTYs :
        LET lines == Lines(printed[t])
        IN  Plain(printed[t]) /\ (\A i \in DOMAIN lines : Len(lines[i]) <= TTY_WIDTH) =>
                /\ tty[t].inside
                /\ \A x \in 0 .. (TTY_WIDTH - 1), y \in 0 .. (TTY_HEIGHT - 1) :
                       tty[t].buf[x + y * TTY_WIDTH] \in Expected(lines, x, y)
=============================================================================
