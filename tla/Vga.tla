--------------------------------- MODULE Vga ---------------------------------
(***************************************************************************)
(* The VGA driver of vga.c as operators on a display d: what it shows in   *)
(* each cell, and the position.  Colours are left out, and so is the       *)
(* cursor, which vga_init disables.  vga_scroll is 0: a position below the *)
(* last row is in VGA memory that is not shown.                            *)
(***************************************************************************)
EXTENDS Integers, SequencesExt

CONSTANTS
    VGA_WIDTH,      \* columns (80)
    VGA_HEIGHT      \* rows (25)

ASSUME VgaAssumption == {VGA_WIDTH, VGA_HEIGHT} \subseteq Nat \ {0}

Screen == 0 .. (VGA_WIDTH * VGA_HEIGHT - 1)

vga_clear == [cell |-> [c \in Screen |-> "NUL"], x |-> 0, y |-> 0]

\* The coordinate of the screen that is next to n.
Clipped(n, size) == IF n < 0 THEN 0 ELSE IF n >= size THEN size - 1 ELSE n

vga_set_xy(d, x, y) ==
    [d EXCEPT !.x = Clipped(x, VGA_WIDTH), !.y = Clipped(y, VGA_HEIGHT)]

vga_setc(d, char) ==
    LET c == d.x + d.y * VGA_WIDTH
    IN  IF c \in Screen THEN [d EXCEPT !.cell[c] = char] ELSE d

BackOne(d) ==
    IF d.x # 0 THEN [d EXCEPT !.x = @ - 1]
    ELSE IF d.y # 0 THEN [d EXCEPT !.y = @ - 1, !.x = VGA_WIDTH - 1]
    ELSE d

EndOfLine(d) == IF d.x >= VGA_WIDTH THEN [d EXCEPT !.x = 0, !.y = @ + 1] ELSE d

vga_putc(d, char) ==
    EndOfLine(CASE char = "BS"  -> vga_setc(BackOne(d), "NUL")
                [] char = "TAB" -> [d EXCEPT !.x = @ + (4 - (@ % 4))]
                [] char = "CR"  -> [d EXCEPT !.x = 0]
                [] char = "NL"  -> [d EXCEPT !.x = 0, !.y = @ + 1]
                [] OTHER        -> [vga_setc(d, char) EXCEPT !.x = @ + 1])

vga_puts(d, text) == FoldLeft(vga_putc, d, text)

\* The position is kept.
vga_puts_at(d, x, y, text) ==
    [vga_puts(vga_set_xy(d, x, y), text) EXCEPT !.x = d.x, !.y = d.y]

vga_putc_at(d, x, y, char) == vga_puts_at(d, x, y, <<char>>)

\* Several characters, each at its place.
PutMark(d, mark) == vga_putc_at(d, mark.x, mark.y, mark.char)

PutMarks(d, marks) == FoldLeft(PutMark, d, marks)
=============================================================================
