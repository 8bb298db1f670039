------------------------------ MODULE Keyboard ------------------------------
(***************************************************************************)
(* The keyboard state of keyboard.c: which status bits are set, and how    *)
(* many times ESC was pressed.  A key is a scancode without its release    *)
(* bit.  The controller sends the right CTRL and ALT keys as the scancode  *)
(* of the left one after a prefix that keyboard_decode ignores, so several *)
(* keys may share a scancode and a status bit.                             *)
(***************************************************************************)
EXTENDS Integers

CONSTANTS
    ModifierKeys,   \* the keys of CTRL, ALT and SHIFT: a set of keys for each
    LockKeys,       \* the keys of CAPS and NUMLOCK: a set of keys for each
    CharKeys,       \* the other keys
    Keypad,         \* those among them with scancodes 0x47 to 0x53
    Primary,        \* keyboard_map_primary
    Secondary,      \* keyboard_map_secondary
    Digit,          \* the TTY that each digit selects with ALT
    Commands        \* characters that are commands with CTRL: + = - _ n N q Q b B

ASSUME KeyboardAssumption ==
    /\ {"CTRL", "ALT", "SHIFT"} = DOMAIN ModifierKeys
    /\ \A a, b \in DOMAIN ModifierKeys : a # b => ModifierKeys[a] \cap ModifierKeys[b] = {}
    /\ {"CAPS", "NUMLOCK"} = DOMAIN LockKeys
    /\ DOMAIN ModifierKeys \cap DOMAIN LockKeys = {}
    /\ Keypad \subseteq CharKeys
    /\ {"NULL", "ESCAPE"} \cap (DOMAIN Digit \cup Commands) = {}

Modifiers == DOMAIN ModifierKeys

Locks == DOMAIN LockKeys

VARIABLES
    kbd_status,     \* the status bits that are set
    esc_status      \* presses of ESC

keyboardVars == <<kbd_status, esc_status>>

keyboard_init == kbd_status = {} /\ esc_status = 0

ModifierPressed(bit) == kbd_status' = kbd_status \cup {bit} /\ UNCHANGED esc_status

\* Mutant: the release toggles the bit, like a lock.
ModifierReleasedToggles(bit) ==
    /\ kbd_status' = IF bit \in kbd_status THEN kbd_status \ {bit} ELSE kbd_status \cup {bit}
    /\ UNCHANGED esc_status

ModifierReleased(bit) == kbd_status' = kbd_status \ {bit} /\ UNCHANGED esc_status

LockPressed(bit) ==
    /\ kbd_status' = IF bit \in kbd_status THEN kbd_status \ {bit} ELSE kbd_status \cup {bit}
    /\ UNCHANGED esc_status

\* The map that decodes key k, and what it decodes to.
Shifted(k) ==
    IF k \in Keypad THEN "NUMLOCK" \in kbd_status
                    ELSE ("SHIFT" \in kbd_status) # ("CAPS" \in kbd_status)

Decoded(k) == IF Shifted(k) THEN Secondary[k] ELSE Primary[k]

\* The branches of keyboard_decode for the press of key k, in their order.
Selects(k) == "ALT" \in kbd_status /\ Decoded(k) \in DOMAIN Digit

Escapes(k) == ~Selects(k) /\ Decoded(k) = "ESCAPE"

Ignored(k) == ~Selects(k) /\ Decoded(k) = "NULL"

Commanded(k) ==
    ~Selects(k) /\ ~Escapes(k) /\ "CTRL" \in kbd_status /\ Decoded(k) \in Commands

Typed(k) == ~(Selects(k) \/ Escapes(k) \/ Ignored(k) \/ Commanded(k))

EscapePressed == esc_status' = esc_status + 1 /\ UNCHANGED kbd_status

EscapesForgotten == esc_status' = 0 /\ UNCHANGED kbd_status
=============================================================================
