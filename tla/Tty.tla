--------------------------------- MODULE Tty ---------------------------------
(***************************************************************************)
(* The TTYs of tty.c: their input and output buffers, the screen contents  *)
(* and cursor that output updates, and what the VGA display shows.  The    *)
(* buffers are sequences of bytes, which RingBuf justifies.                *)
(***************************************************************************)
EXTENDS Streams, Vga

CONSTANTS
    TTY_MAX,        \* TTYs (10)
    TTY_WIDTH,      \* columns (80)
    TTY_HEIGHT      \* lines (25)

ASSUME TtyAssumption == {TTY_MAX, TTY_WIDTH, TTY_HEIGHT} \subseteq Nat \ {0}

TTYs == 0 .. (TTY_MAX - 1)

\* The slots of buf: TTY_BUF_SIZE bytes, TTY_SCROLLBACK and pos_scroll being 0.
Cells == 0 .. (TTY_WIDTH * TTY_HEIGHT - 1)

VARIABLES
    active_tty,     \* the selected TTY
    tty,            \* [buf, pos_x, pos_y, refresh, inside] of each TTY
    io_input,       \* input buffer of each TTY
    io_output,      \* output buffer of each TTY
    vga             \* the display

ttyVars == <<active_tty, tty, io_input, io_output, vga>>

\* memset(tty_table, 0, sizeof(tty_table)).  inside: every character so far was
\* stored in buf, and none behind it.
ClearedTty ==
    [buf |-> [c \in Cells |-> "NUL"], pos_x |-> 0, pos_y |-> 0, refresh |-> FALSE, inside |-> TRUE]

tty_init ==
    /\ active_tty = 0
    /\ tty = [t \in TTYs |-> [ClearedTty EXCEPT !.refresh = (t = 0)]]
    /\ io_input = [t \in TTYs |-> <<>>]
    /\ io_output = [t \in TTYs |-> <<>>]
    /\ vga = vga_clear

\* Mutant: the selected TTY is not marked to be drawn.
tty_selectUnmarked(n) ==
    /\ active_tty' = n
    /\ UNCHANGED <<tty, io_input, io_output, vga>>

tty_select(n) ==
    /\ active_tty' = n
    /\ tty' = [tty EXCEPT ![n].refresh = TRUE]
    /\ UNCHANGED <<io_input, io_output, vga>>

\* The result of ringbuf_write is not looked at; echo is 0 in every TTY.
tty_input(byte) ==
    /\ io_input' = [io_input EXCEPT ![active_tty] = Written(@, <<byte>>)]
    /\ UNCHANGED <<active_tty, tty, io_output, vga>>

\* The slot of the cursor.  pos_x is not bounded by the width.
Cursor(t) == t.pos_x + t.pos_y * TTY_WIDTH

\* What one character does to TTY t, but for scrolling.
Stored(t, byte) ==
    IF Cursor(t) \in Cells
    THEN [t EXCEPT !.buf[Cursor(t)] = byte, !.pos_x = @ + 1]
    ELSE [t EXCEPT !.inside = FALSE]

Backspaced(t) ==
    IF t.pos_x # 0 THEN [t EXCEPT !.pos_x = @ - 1]
    ELSE IF t.pos_y # 0 THEN [t EXCEPT !.pos_y = @ - 1, !.pos_x = TTY_WIDTH - 1]
    ELSE t

Moved(t, byte) ==
    CASE byte = "TAB" -> [t EXCEPT !.pos_x = @ + (4 - (@ % 4))]
      [] byte = "BS"  -> Backspaced(t)
      [] byte = "CR"  -> [t EXCEPT !.pos_x = 0]
      [] byte = "NL"  -> [t EXCEPT !.pos_y = @ + 1, !.pos_x = 0]
      [] OTHER        -> Stored(t, byte)

\* Mutant: the last line is not blanked.
ScrolledKeepsLast(t) ==
    IF t.pos_y < TTY_HEIGHT THEN t
    ELSE [t EXCEPT !.buf = [c \in Cells |->
                       IF c + TTY_WIDTH \in Cells THEN t.buf[c + TTY_WIDTH] ELSE t.buf[c]],
                   !.pos_y = TTY_HEIGHT - 1]

\* The lines move up by one and the last line is blanked.
Scrolled(t) ==
    IF t.pos_y < TTY_HEIGHT THEN t
    ELSE [t EXCEPT !.buf = [c \in Cells |->
                       IF c + TTY_WIDTH \in Cells THEN t.buf[c + TTY_WIDTH] ELSE " "],
                   !.pos_y = TTY_HEIGHT - 1]

tty_update(t, byte) == [Scrolled(Moved(t, byte)) EXCEPT !.refresh = TRUE]

\* The active TTY after the characters in its output buffer.
Drained == FoldLeft(tty_update, tty[active_tty], io_output[active_tty])

\* Drains the output of the active TTY; the display is redrawn if something changed.
tty_refresh ==
    /\ io_output' = [io_output EXCEPT ![active_tty] = <<>>]
    /\ tty' = [tty EXCEPT ![active_tty] = [Drained EXCEPT !.refresh = FALSE]]
    /\ UNCHANGED <<active_tty, io_input>>

\* The contents of buf, each character in the place of its cell.
Marks(buf) ==
    [i \in 1 .. (TTY_WIDTH * TTY_HEIGHT) |->
        [x |-> (i - 1) % VGA_WIDTH, y |-> (i - 1) \div VGA_WIDTH, char |-> buf[i - 1]]]

Redrawn(d) == IF Drained.refresh THEN PutMarks(d, Marks(Drained.buf)) ELSE d
=============================================================================
