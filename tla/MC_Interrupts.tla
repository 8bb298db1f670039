---------------------------- MODULE MC_Interrupts ----------------------------
(***************************************************************************)
(* Two timers with intervals that divide and do not divide each other and  *)
(* the int range, ones that end, and three scancodes: one polled, one that *)
(* comes before interrupts are on, and one after.                          *)
(***************************************************************************)
EXTENDS Interrupts

MCIntervals == {1, 2, 3}
MCRepeats == {-1, 0, 2}
=============================================================================
