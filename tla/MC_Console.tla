----------------------------- MODULE MC_Console -----------------------------
(***************************************************************************)
(* Two TTYs and a display of two lines of three columns, and buffers of    *)
(* two bytes.  ALT has two keys, and the key 1 types 1 or !, selects TTY 1,*)
(* or is a command with CTRL.  Texts scroll, overflow buffers and leave a  *)
(* line too long.  The list of processes is drawn over TTY 0, and the time *)
(* and the spinner cover two of the columns of TTY 1 in the first line.    *)
(***************************************************************************)
EXTENDS Console

MCModifierKeys == [CTRL |-> {"ctrl"}, ALT |-> {"altL", "altR"}, SHIFT |-> {}]

MCLockKeys == [CAPS |-> {"caps"}, NUMLOCK |-> {}]

MCCharKeys == {"esc", "0", "1", "plus", "f"}

\* A user who only switches TTYs, and one who presses everything before a process
\* is attached to a TTY.
MCSetups == {[keys |-> {"altL", "0", "1"}, attached |-> {1}],
             [keys |-> {"altL", "altR", "ctrl", "caps"} \cup MCCharKeys, attached |-> {}]}

MCPrimary == [k \in MCCharKeys |->
    CASE k = "esc" -> "ESCAPE" [] k = "f" -> "NULL" [] k = "plus" -> "=" [] OTHER -> k]

MCSecondary == [k \in MCCharKeys |->
    CASE k = "esc" -> "ESCAPE" [] k = "f" -> "NULL" [] k = "plus" -> "+"
      [] k = "0" -> ")" [] OTHER -> "!"]

MCDigit == [c \in {"0", "1"} |-> IF c = "0" THEN 0 ELSE 1]

MCOutputBlocks == {<<"x">>, <<"NL">>, <<"x", "NL">>}
=============================================================================
