--------------------------- MODULE Console_proofs ---------------------------
(***************************************************************************)
(* Theorems about Console, for every keyboard, every number and size of    *)
(* TTYs and buffers, and every text.                                       *)
(***************************************************************************)
EXTENDS Console, WellFoundedInduction, TLAPS

(***************************************************************************)
(* The modifiers.                                                          *)
(***************************************************************************)

\* A step that is not the press or the release of a modifier leaves the modifiers.
ModifiersKept ==
    /\ held' = held
    /\ kbd_status' \cap Modifiers = kbd_status \cap Modifiers

LEMMA KeptIsEnough ==
    ASSUME ModifierNeedsKey, ModifiersKept
    PROVE  ModifierNeedsKey'
  BY DEF ModifierNeedsKey, ModifiersKept, Modifiers

LEMMA PressKeepsInvariant ==
    ASSUME ModifierNeedsKey, PressModifier
    PROVE  ModifierNeedsKey'
  <1>1. PICK bit \in Modifiers : \E k \in ModifierKeys[bit] \cap setup.keys :
            ModifierPressed(bit) /\ held' = held \cup {k}
    BY DEF PressModifier
  <1>2. PICK k \in ModifierKeys[bit] :
            kbd_status' = kbd_status \cup {bit} /\ held' = held \cup {k}
    BY <1>1 DEF ModifierPressed
  <1> QED
    BY <1>2 DEF ModifierNeedsKey, Modifiers

\* The key that is released is no key of another modifier.
LEMMA ReleaseKeepsInvariant ==
    ASSUME ModifierNeedsKey, ReleaseModifier
    PROVE  ModifierNeedsKey'
  <1>1. PICK bit \in Modifiers : \E k \in ModifierKeys[bit] \cap held :
            ModifierReleased(bit) /\ held' = held \ {k}
    BY DEF ReleaseModifier
  <1>2. PICK k \in ModifierKeys[bit] :
            kbd_status' = kbd_status \ {bit} /\ held' = held \ {k}
    BY <1>1 DEF ModifierReleased
  <1>3. ASSUME NEW other \in Modifiers, other \in kbd_status'
        PROVE  ModifierKeys[other] \cap held' # {}
    <2>1. other # bit /\ other \in kbd_status
      BY <1>2, <1>3
    <2>2. PICK j \in ModifierKeys[other] : j \in held
      BY <2>1, <1>3 DEF ModifierNeedsKey, Modifiers
    <2>3. j # k
      BY <2>1, <2>2, <1>2, <1>3, KeyboardAssumption DEF Modifiers
    <2> QED
      BY <2>2, <2>3, <1>2
  <1> QED
    BY <1>3 DEF ModifierNeedsKey, Modifiers

LEMMA OtherKeysKeepModifiers ==
    ASSUME PressLock \/ PressDigit \/ PressEscape \/ PressCommand \/ PressCharacter
    PROVE  ModifiersKept
  <1>1. CASE PressLock
    <2>1. PICK bit \in Locks : LockPressed(bit) /\ held' = held
      BY <1>1 DEF PressLock, historyVars
    <2>2. bit \notin Modifiers
      BY KeyboardAssumption DEF Locks, Modifiers
    <2> QED
      BY <2>1, <2>2 DEF LockPressed, ModifiersKept
  <1>2. CASE PressDigit
    BY <1>2 DEF PressDigit, keyboardVars, historyVars, ModifiersKept
  <1>3. CASE PressEscape
    BY <1>3 DEF PressEscape, EscapePressed, historyVars, ModifiersKept
  <1>4. CASE PressCommand
    BY <1>4 DEF PressCommand, EscapesForgotten, historyVars, ModifiersKept
  <1>5. CASE PressCharacter
    BY <1>5 DEF PressCharacter, EscapesForgotten, historyVars, ModifiersKept
  <1> QED
    BY <1>1, <1>2, <1>3, <1>4, <1>5

LEMMA CallsKeepModifiers ==
    ASSUME Call
    PROVE  ModifiersKept
  BY DEF Call, ksyscall_io_write, ksyscall_io_read, FlushInput, FlushOutput, keyboardVars,
         historyVars, ModifiersKept

LEMMA TickKeepsModifiers ==
    ASSUME Tick
    PROVE  ModifiersKept
  BY DEF Tick, keyboardVars, ModifiersKept

\* No modifier sticks (keyboard.c:339, 356, 373): a status bit is set only while a key
\* of that modifier is down, for every assignment of keys to the modifiers in which no
\* key belongs to two, whatever else is pressed, printed, drawn and selected.
THEOREM NoModifierSticks == ConsoleSpec => []ModifierNeedsKey
  <1>1. ConsoleInit => ModifierNeedsKey
    BY DEF ConsoleInit, keyboard_init, ModifierNeedsKey
  <1>2. ModifierNeedsKey /\ [ConsoleNext]_consoleVars => ModifierNeedsKey'
    <2> SUFFICES ASSUME ModifierNeedsKey, [ConsoleNext]_consoleVars
                 PROVE  ModifierNeedsKey'
      OBVIOUS
    <2>1. CASE PressModifier
      BY <2>1, PressKeepsInvariant
    <2>2. CASE ReleaseModifier
      BY <2>2, ReleaseKeepsInvariant
    <2>3. CASE PressLock \/ PressDigit \/ PressEscape \/ PressCommand \/ PressCharacter
      BY <2>3, OtherKeysKeepModifiers, KeptIsEnough
    <2>4. CASE Call
      BY <2>4, CallsKeepModifiers, KeptIsEnough
    <2>5. CASE Tick
      BY <2>5, TickKeepsModifiers, KeptIsEnough
    <2>6. CASE UNCHANGED consoleVars
      BY <2>6, KeptIsEnough DEF consoleVars, keyboardVars, historyVars, ModifiersKept
    <2> QED
      BY <2>1, <2>2, <2>3, <2>4, <2>5, <2>6 DEF ConsoleNext, Key
  <1> QED
    BY <1>1, <1>2, PTL DEF ConsoleSpec

-----------------------------------------------------------------------------
(***************************************************************************)
(* Folds. The output of a TTY, a text on the display and the lines of a    *)
(* text are folds, which the library computes by a recursive function. The *)
(* values between the items form a chain, and a chain is followed by       *)
(* induction over a set of numbers: the induction theorems of the library  *)
(* take operators, which the provers cannot instantiate. The lemma is      *)
(* stated once for each operator, for the same reason.                     *)
(***************************************************************************)

\* The order of the numbers is well-founded.
Less == {ss \in Nat \X Nat : ss[1] < ss[2]}

LEMMA LessWellFounded == IsWellFoundedOn(Less, Nat)
  BY NatLessThanWellFounded, Zenon DEF OpToRel, Less

LEMMA LeastOf ==
    ASSUME NEW S \in SUBSET Nat, S # {}
    PROVE  \E m \in S : \A k \in S : m <= k
  <1>1. S \subseteq Nat
    OBVIOUS
  <1>2. PICK m \in S : \A k \in S : <<k, m>> \notin Less
    BY <1>1, LessWellFounded, WFMin
  <1>3. \A k \in S : ~(k < m)
    BY <1>2 DEF Less
  <1> QED
    BY <1>3

\* Induction over the natural numbers, for a set of them: the theorems of the library
\* are about operators.
LEMMA SetInduction ==
    ASSUME NEW T \in SUBSET Nat, 0 \in T, \A n \in T : n + 1 \in T
    PROVE  \A n \in Nat : n \in T
  <1> SUFFICES ASSUME Nat \ T # {} PROVE FALSE
    OBVIOUS
  <1>1. Nat \ T \in SUBSET Nat
    OBVIOUS
  <1>2. PICK m \in Nat \ T : \A k \in Nat \ T : m <= k
    BY <1>1, LeastOf
  <1>3. m # 0 /\ m - 1 \in Nat /\ (m - 1) + 1 = m
    OBVIOUS
  <1>4. m - 1 \notin T
    BY <1>3
  <1> QED
    BY <1>2, <1>3, <1>4

LEMMA MaxOf ==
    ASSUME NEW m \in Nat, NEW x \in SUBSET (1 .. m + 1), m + 1 \in x
    PROVE  Max(x) = m + 1
  <1>1. \A y \in x : m + 1 >= y
    OBVIOUS
  <1>2. \A z \in x : (\A y \in x : z >= y) => z = m + 1
    BY <1>1
  <1> QED
    BY <1>1, <1>2 DEF Max

LEMMA MaxIn ==
    ASSUME NEW n \in Nat, NEW x \in SUBSET (1 .. n), x # {}
    PROVE  Max(x) \in x
  <1> DEFINE S == {k \in Nat : \E z \in x : k = n - z}
  <1>1. S # {}
    <2>1. PICK z \in x : TRUE
      OBVIOUS
    <2>2. n - z \in Nat
      OBVIOUS
    <2> QED
      BY <2>2
  <1>2. PICK m \in S : \A k \in S : m <= k
    BY <1>1, LeastOf
  <1>3. PICK z \in x : m = n - z
    OBVIOUS
  <1>4. ASSUME NEW y \in x PROVE z >= y
    <2>1. n - y \in S /\ z \in Int /\ y \in Int
      OBVIOUS
    <2> QED
      BY <1>2, <1>3, <2>1
  <1> QED
    BY <1>4 DEF Max

\* The function by which a fold over the first n items of s is computed.
FoldFcn(h, V, g, base, s, n) ==
    /\ h \in [SUBSET (1 .. n) -> V]
    /\ \A x \in SUBSET (1 .. n) :
           h[x] = IF x = {} THEN base ELSE g[<<h[x \ {Max(x)}], s[Max(x)]>>]

LEMMA FoldExists ==
    ASSUME NEW V, NEW E, NEW g \in [V \X E -> V], NEW base \in V, NEW n \in Nat,
           NEW s \in [1 .. n -> E]
    PROVE  \E h : FoldFcn(h, V, g, base, s, n)
  <1> DEFINE Solved(m) == \E h : FoldFcn(h, V, g, base, s, m)
             T == {m \in Nat : m <= n => Solved(m)}
  <1>1. 0 \in T
    <2>1. 1 .. 0 = {}
      OBVIOUS
    <2>2. FoldFcn([x \in SUBSET (1 .. 0) |-> base], V, g, base, s, 0)
      BY <2>1 DEF FoldFcn
    <2> QED
      BY <2>2
  <1>2. ASSUME NEW m \in T PROVE m + 1 \in T
    <2>0. m \in Nat /\ m + 1 \in Nat
      OBVIOUS
    <2> HIDE DEF Solved
    <2> SUFFICES ASSUME m + 1 <= n PROVE Solved(m + 1)
      BY <2>0
    <2>a. Solved(m)
      BY <2>0
    <2>1. PICK h : FoldFcn(h, V, g, base, s, m)
      BY <2>a DEF Solved
    <2> HIDE DEF T
    <2> DEFINE f == [x \in SUBSET (1 .. m + 1) |->
                        IF m + 1 \in x THEN g[<<h[x \ {m + 1}], s[m + 1]>>] ELSE h[x]]
    <2>2. ASSUME NEW x \in SUBSET (1 .. m + 1), m + 1 \in x
          PROVE  /\ f[x] \in V
                 /\ f[x] = IF x = {} THEN base ELSE g[<<f[x \ {Max(x)}], s[Max(x)]>>]
      <3>1. Max(x) = m + 1 /\ x # {}
        <4>1. Max(x) = m + 1
          BY <2>0, <2>2, MaxOf
        <4> QED
          BY <4>1, <2>2
      <3>2. x \ {m + 1} \in SUBSET (1 .. m) /\ m + 1 \notin x \ {m + 1}
        BY <2>0
      <3>3. f[x \ {m + 1}] = h[x \ {m + 1}] /\ h[x \ {m + 1}] \in V
        BY <3>2, <2>1 DEF FoldFcn
      <3>4. s[m + 1] \in E
        BY <2>0
      <3>5. f[x] = g[<<h[x \ {m + 1}], s[m + 1]>>]
        BY <2>2
      <3> QED
        BY <3>1, <3>3, <3>4, <3>5
    <2>3. ASSUME NEW x \in SUBSET (1 .. m + 1), m + 1 \notin x
          PROVE  /\ f[x] \in V
                 /\ f[x] = IF x = {} THEN base ELSE g[<<f[x \ {Max(x)}], s[Max(x)]>>]
      <3>1. x \in SUBSET (1 .. m)
        BY <2>0, <2>3
      <3> DEFINE top == Max(x)
      <3> HIDE DEF top
      <3>2. /\ x \ {top} \in SUBSET (1 .. m) /\ m + 1 \notin x \ {top}
            /\ x \ {top} \in SUBSET (1 .. m + 1)
        BY <2>0, <2>3, <3>1
      <3> USE DEF top
      <3>3. f[x] = h[x] /\ f[x \ {Max(x)}] = h[x \ {Max(x)}]
        BY <2>3, <3>2
      <3> QED
        BY <2>1, <3>1, <3>3 DEF FoldFcn
    <2>4. FoldFcn(f, V, g, base, s, m + 1)
      BY <2>2, <2>3 DEF FoldFcn
    <2> QED
      BY <2>4 DEF Solved
  <1>3. T \in SUBSET Nat
    OBVIOUS
  <1> HIDE DEF Solved
  <1>4. n \in T
    BY <1>1, <1>2, <1>3, SetInduction
  <1>5. Solved(n)
    BY <1>4
  <1> QED
    BY <1>5 DEF Solved


\* What the fold has after each item.
Chain(c, V, g, base, s, n, result) ==
    /\ c \in [0 .. n -> V]
    /\ c[0] = base /\ c[n] = result
    /\ \A k \in 0 .. n - 1 : c[k + 1] = g[<<c[k], s[k + 1]>>]

LEMMA FoldChain ==
    ASSUME NEW V, NEW E, NEW g \in [V \X E -> V], NEW base \in V, NEW n \in Nat,
           NEW s \in [1 .. n -> E], NEW iter, iter[{}] = base,
           \A x \in SUBSET (1 .. n) :
               x # {} /\ iter[x \ {Max(x)}] \in V
               => iter[x] = g[<<iter[x \ {Max(x)}], s[Max(x)]>>]
    PROVE  \E c : Chain(c, V, g, base, s, n, iter[1 .. n])
  <1> DEFINE c == [k \in 0 .. n |-> iter[1 .. k]]
  <1>1. \A k \in 0 .. n - 1 : iter[1 .. k] \in V
                              => iter[1 .. k + 1] = g[<<iter[1 .. k], s[k + 1]>>]
    <2> TAKE k \in 0 .. n - 1
    <2>1. k \in Nat /\ 1 .. k + 1 \in SUBSET (1 .. k + 1) /\ k + 1 \in 1 .. k + 1
      OBVIOUS
    <2>2. Max(1 .. k + 1) = k + 1
      BY <2>1, MaxOf
    <2>3. 1 .. k + 1 \in SUBSET (1 .. n) /\ 1 .. k + 1 # {}
      <3>1. k + 1 <= n
        OBVIOUS
      <3>2. \A i \in 1 .. k + 1 : i \in 1 .. n
        BY ONLY <2>1, <3>1, n \in Nat
      <3> QED
        BY ONLY <2>1, <3>2
    <2>4. (1 .. k + 1) \ {k + 1} = 1 .. k
      BY ONLY <2>1
    <2> QED
      BY <2>2, <2>3, <2>4
  <1>2. 1 .. 0 = {}
    OBVIOUS
  <1> DEFINE T == {k \in Nat : k <= n => iter[1 .. k] \in V}
  <1>3. 0 \in T
    BY <1>2
  <1>4. ASSUME NEW k \in T PROVE k + 1 \in T
    <2> SUFFICES ASSUME k + 1 <= n PROVE iter[1 .. k + 1] \in V
      OBVIOUS
    <2>1. k \in 0 .. n - 1 /\ iter[1 .. k] \in V /\ s[k + 1] \in E
      OBVIOUS
    <2>2. iter[1 .. k + 1] = g[<<iter[1 .. k], s[k + 1]>>]
      BY <2>1, <1>1
    <2> QED
      BY <2>1, <2>2
  <1>5. \A k \in Nat : k \in T
    <2>1. T \in SUBSET Nat
      OBVIOUS
    <2> HIDE DEF T
    <2> QED
      BY <1>3, <1>4, <2>1, SetInduction
  <1>6. \A k \in 0 .. n : iter[1 .. k] \in V
    BY <1>5
  <1>7. c \in [0 .. n -> V] /\ c[0] = base /\ c[n] = iter[1 .. n]
    BY <1>2, <1>6
  <1>8. \A k \in 0 .. n - 1 : c[k + 1] = g[<<c[k], s[k + 1]>>]
    BY <1>1, <1>6
  <1> QED
    BY <1>7, <1>8 DEF Chain

\* The TTY t after the characters of s, and the lines t continued by them.
Updated(t, s) == FoldLeft(tty_update, t, s)

LinesAfter(t, s) == FoldLeft(NextLines, t, s)

\* The chain of the characters of s on a TTY.
UpdateCloses(V, E) == \A u \in V, b \in E : tty_update(u, b) \in V

UpdateSteps(c, V, t, s) ==
    /\ c \in [0 .. Len(s) -> V]
    /\ c[0] = t /\ c[Len(s)] = Updated(t, s)
    /\ \A k \in 0 .. Len(s) - 1 : c[k + 1] = tty_update(c[k], s[k + 1])

LEMMA DrainChain ==
    ASSUME NEW V, NEW E, NEW t \in V, NEW s \in Seq(E),
           UpdateCloses(V, E)
    PROVE  \E c : UpdateSteps(c, V, t, s)
  <1> DEFINE g == [p \in V \X E |-> tty_update(p[1], p[2])]
  <1>1. g \in [V \X E -> V] /\ Len(s) \in Nat /\ s \in [1 .. Len(s) -> E]
        /\ DOMAIN s = 1 .. Len(s)
    BY DEF UpdateCloses
  <1>2. \A u \in V, b \in E : g[<<u, b>>] = tty_update(u, b)
    OBVIOUS
  <1> HIDE DEF g
  <1>3. PICK h : FoldFcn(h, V, g, t, s, Len(s))
    BY <1>1, FoldExists
  <1>4. \A x \in SUBSET (1 .. Len(s)) : x # {} => Max(x) \in 1 .. Len(s)
    BY <1>1, MaxIn
  <1>5. h = [x \in SUBSET (1 .. Len(s)) |->
               IF x = {} THEN t ELSE tty_update(h[x \ {Max(x)}], s[Max(x)])]
    BY <1>1, <1>2, <1>3, <1>4 DEF FoldFcn
  <1>6. PICK iter :
          /\ iter = [x \in SUBSET (1 .. Len(s)) |->
                        IF x = {} THEN t ELSE tty_update(iter[x \ {Max(x)}], s[Max(x)])]
          /\ Updated(t, s) = iter[1 .. Len(s)]
    BY <1>1, <1>5 DEF Updated, FoldLeft, MapThenFoldSet
  <1>7. iter[{}] = t
    BY <1>6
  <1>8. \A x \in SUBSET (1 .. Len(s)) :
            x # {} /\ iter[x \ {Max(x)}] \in V
            => iter[x] = g[<<iter[x \ {Max(x)}], s[Max(x)]>>]
    <2> TAKE x \in SUBSET (1 .. Len(s))
    <2> HAVE x # {} /\ iter[x \ {Max(x)}] \in V
    <2>1. iter[x] = tty_update(iter[x \ {Max(x)}], s[Max(x)])
      BY <1>6
    <2>2. s[Max(x)] \in E
      BY <1>1, <1>4
    <2> QED
      BY <1>2, <2>1, <2>2
  <1>9. PICK c : Chain(c, V, g, t, s, Len(s), iter[1 .. Len(s)])
    BY <1>1, <1>7, <1>8, FoldChain
  <1>10. /\ c \in [0 .. Len(s) -> V] /\ c[0] = t /\ c[Len(s)] = Updated(t, s)
         /\ \A k \in 0 .. Len(s) - 1 : c[k + 1] = g[<<c[k], s[k + 1]>>]
    BY <1>6, <1>9 DEF Chain
  <1>11. \A k \in 0 .. Len(s) - 1 : c[k] \in V /\ s[k + 1] \in E
    BY <1>1, <1>10
  <1>12. \A k \in 0 .. Len(s) - 1 : c[k + 1] = tty_update(c[k], s[k + 1])
    BY <1>2, <1>10, <1>11
  <1> QED
    BY <1>10, <1>12 DEF UpdateSteps

\* The chain of the characters of s on the display.
PutcCloses(V, E) == \A u \in V, b \in E : vga_putc(u, b) \in V

PutcSteps(c, V, t, s) ==
    /\ c \in [0 .. Len(s) -> V]
    /\ c[0] = t /\ c[Len(s)] = vga_puts(t, s)
    /\ \A k \in 0 .. Len(s) - 1 : c[k + 1] = vga_putc(c[k], s[k + 1])

LEMMA PutsChain ==
    ASSUME NEW V, NEW E, NEW t \in V, NEW s \in Seq(E),
           PutcCloses(V, E)
    PROVE  \E c : PutcSteps(c, V, t, s)
  <1> DEFINE g == [p \in V \X E |-> vga_putc(p[1], p[2])]
  <1>1. g \in [V \X E -> V] /\ Len(s) \in Nat /\ s \in [1 .. Len(s) -> E]
        /\ DOMAIN s = 1 .. Len(s)
    BY DEF PutcCloses
  <1>2. \A u \in V, b \in E : g[<<u, b>>] = vga_putc(u, b)
    OBVIOUS
  <1> HIDE DEF g
  <1>3. PICK h : FoldFcn(h, V, g, t, s, Len(s))
    BY <1>1, FoldExists
  <1>4. \A x \in SUBSET (1 .. Len(s)) : x # {} => Max(x) \in 1 .. Len(s)
    BY <1>1, MaxIn
  <1>5. h = [x \in SUBSET (1 .. Len(s)) |->
               IF x = {} THEN t ELSE vga_putc(h[x \ {Max(x)}], s[Max(x)])]
    BY <1>1, <1>2, <1>3, <1>4 DEF FoldFcn
  <1>6. PICK iter :
          /\ iter = [x \in SUBSET (1 .. Len(s)) |->
                        IF x = {} THEN t ELSE vga_putc(iter[x \ {Max(x)}], s[Max(x)])]
          /\ vga_puts(t, s) = iter[1 .. Len(s)]
    BY <1>1, <1>5 DEF vga_puts, FoldLeft, MapThenFoldSet
  <1>7. iter[{}] = t
    BY <1>6
  <1>8. \A x \in SUBSET (1 .. Len(s)) :
            x # {} /\ iter[x \ {Max(x)}] \in V
            => iter[x] = g[<<iter[x \ {Max(x)}], s[Max(x)]>>]
    <2> TAKE x \in SUBSET (1 .. Len(s))
    <2> HAVE x # {} /\ iter[x \ {Max(x)}] \in V
    <2>1. iter[x] = vga_putc(iter[x \ {Max(x)}], s[Max(x)])
      BY <1>6
    <2>2. s[Max(x)] \in E
      BY <1>1, <1>4
    <2> QED
      BY <1>2, <2>1, <2>2
  <1>9. PICK c : Chain(c, V, g, t, s, Len(s), iter[1 .. Len(s)])
    BY <1>1, <1>7, <1>8, FoldChain
  <1>10. /\ c \in [0 .. Len(s) -> V] /\ c[0] = t /\ c[Len(s)] = vga_puts(t, s)
         /\ \A k \in 0 .. Len(s) - 1 : c[k + 1] = g[<<c[k], s[k + 1]>>]
    BY <1>6, <1>9 DEF Chain
  <1>11. \A k \in 0 .. Len(s) - 1 : c[k] \in V /\ s[k + 1] \in E
    BY <1>1, <1>10
  <1>12. \A k \in 0 .. Len(s) - 1 : c[k + 1] = vga_putc(c[k], s[k + 1])
    BY <1>2, <1>10, <1>11
  <1> QED
    BY <1>10, <1>12 DEF PutcSteps

\* The chain of the marks of s on the display.
MarkCloses(V, E) == \A u \in V, b \in E : PutMark(u, b) \in V

MarkSteps(c, V, t, s) ==
    /\ c \in [0 .. Len(s) -> V]
    /\ c[0] = t /\ c[Len(s)] = PutMarks(t, s)
    /\ \A k \in 0 .. Len(s) - 1 : c[k + 1] = PutMark(c[k], s[k + 1])

LEMMA MarksChain ==
    ASSUME NEW V, NEW E, NEW t \in V, NEW s \in Seq(E),
           MarkCloses(V, E)
    PROVE  \E c : MarkSteps(c, V, t, s)
  <1> DEFINE g == [p \in V \X E |-> PutMark(p[1], p[2])]
  <1>1. g \in [V \X E -> V] /\ Len(s) \in Nat /\ s \in [1 .. Len(s) -> E]
        /\ DOMAIN s = 1 .. Len(s)
    BY DEF MarkCloses
  <1>2. \A u \in V, b \in E : g[<<u, b>>] = PutMark(u, b)
    OBVIOUS
  <1> HIDE DEF g
  <1>3. PICK h : FoldFcn(h, V, g, t, s, Len(s))
    BY <1>1, FoldExists
  <1>4. \A x \in SUBSET (1 .. Len(s)) : x # {} => Max(x) \in 1 .. Len(s)
    BY <1>1, MaxIn
  <1>5. h = [x \in SUBSET (1 .. Len(s)) |->
               IF x = {} THEN t ELSE PutMark(h[x \ {Max(x)}], s[Max(x)])]
    BY <1>1, <1>2, <1>3, <1>4 DEF FoldFcn
  <1>6. PICK iter :
          /\ iter = [x \in SUBSET (1 .. Len(s)) |->
                        IF x = {} THEN t ELSE PutMark(iter[x \ {Max(x)}], s[Max(x)])]
          /\ PutMarks(t, s) = iter[1 .. Len(s)]
    BY <1>1, <1>5 DEF PutMarks, FoldLeft, MapThenFoldSet
  <1>7. iter[{}] = t
    BY <1>6
  <1>8. \A x \in SUBSET (1 .. Len(s)) :
            x # {} /\ iter[x \ {Max(x)}] \in V
            => iter[x] = g[<<iter[x \ {Max(x)}], s[Max(x)]>>]
    <2> TAKE x \in SUBSET (1 .. Len(s))
    <2> HAVE x # {} /\ iter[x \ {Max(x)}] \in V
    <2>1. iter[x] = PutMark(iter[x \ {Max(x)}], s[Max(x)])
      BY <1>6
    <2>2. s[Max(x)] \in E
      BY <1>1, <1>4
    <2> QED
      BY <1>2, <2>1, <2>2
  <1>9. PICK c : Chain(c, V, g, t, s, Len(s), iter[1 .. Len(s)])
    BY <1>1, <1>7, <1>8, FoldChain
  <1>10. /\ c \in [0 .. Len(s) -> V] /\ c[0] = t /\ c[Len(s)] = PutMarks(t, s)
         /\ \A k \in 0 .. Len(s) - 1 : c[k + 1] = g[<<c[k], s[k + 1]>>]
    BY <1>6, <1>9 DEF Chain
  <1>11. \A k \in 0 .. Len(s) - 1 : c[k] \in V /\ s[k + 1] \in E
    BY <1>1, <1>10
  <1>12. \A k \in 0 .. Len(s) - 1 : c[k + 1] = PutMark(c[k], s[k + 1])
    BY <1>2, <1>10, <1>11
  <1> QED
    BY <1>10, <1>12 DEF MarkSteps

\* The chain of the characters of s at the end of lines.
LineCloses(V, E) == \A u \in V, b \in E : NextLines(u, b) \in V

LineSteps(c, V, t, s) ==
    /\ c \in [0 .. Len(s) -> V]
    /\ c[0] = t /\ c[Len(s)] = LinesAfter(t, s)
    /\ \A k \in 0 .. Len(s) - 1 : c[k + 1] = NextLines(c[k], s[k + 1])

LEMMA LinesChain ==
    ASSUME NEW V, NEW E, NEW t \in V, NEW s \in Seq(E),
           LineCloses(V, E)
    PROVE  \E c : LineSteps(c, V, t, s)
  <1> DEFINE g == [p \in V \X E |-> NextLines(p[1], p[2])]
  <1>1. g \in [V \X E -> V] /\ Len(s) \in Nat /\ s \in [1 .. Len(s) -> E]
        /\ DOMAIN s = 1 .. Len(s)
    BY DEF LineCloses
  <1>2. \A u \in V, b \in E : g[<<u, b>>] = NextLines(u, b)
    OBVIOUS
  <1> HIDE DEF g
  <1>3. PICK h : FoldFcn(h, V, g, t, s, Len(s))
    BY <1>1, FoldExists
  <1>4. \A x \in SUBSET (1 .. Len(s)) : x # {} => Max(x) \in 1 .. Len(s)
    BY <1>1, MaxIn
  <1>5. h = [x \in SUBSET (1 .. Len(s)) |->
               IF x = {} THEN t ELSE NextLines(h[x \ {Max(x)}], s[Max(x)])]
    BY <1>1, <1>2, <1>3, <1>4 DEF FoldFcn
  <1>6. PICK iter :
          /\ iter = [x \in SUBSET (1 .. Len(s)) |->
                        IF x = {} THEN t ELSE NextLines(iter[x \ {Max(x)}], s[Max(x)])]
          /\ LinesAfter(t, s) = iter[1 .. Len(s)]
    BY <1>1, <1>5 DEF LinesAfter, FoldLeft, MapThenFoldSet
  <1>7. iter[{}] = t
    BY <1>6
  <1>8. \A x \in SUBSET (1 .. Len(s)) :
            x # {} /\ iter[x \ {Max(x)}] \in V
            => iter[x] = g[<<iter[x \ {Max(x)}], s[Max(x)]>>]
    <2> TAKE x \in SUBSET (1 .. Len(s))
    <2> HAVE x # {} /\ iter[x \ {Max(x)}] \in V
    <2>1. iter[x] = NextLines(iter[x \ {Max(x)}], s[Max(x)])
      BY <1>6
    <2>2. s[Max(x)] \in E
      BY <1>1, <1>4
    <2> QED
      BY <1>2, <2>1, <2>2
  <1>9. PICK c : Chain(c, V, g, t, s, Len(s), iter[1 .. Len(s)])
    BY <1>1, <1>7, <1>8, FoldChain
  <1>10. /\ c \in [0 .. Len(s) -> V] /\ c[0] = t /\ c[Len(s)] = LinesAfter(t, s)
         /\ \A k \in 0 .. Len(s) - 1 : c[k + 1] = g[<<c[k], s[k + 1]>>]
    BY <1>6, <1>9 DEF Chain
  <1>11. \A k \in 0 .. Len(s) - 1 : c[k] \in V /\ s[k + 1] \in E
    BY <1>1, <1>10
  <1>12. \A k \in 0 .. Len(s) - 1 : c[k + 1] = NextLines(c[k], s[k + 1])
    BY <1>2, <1>10, <1>11
  <1> QED
    BY <1>10, <1>12 DEF LineSteps

-----------------------------------------------------------------------------
(***************************************************************************)
(* Types and sizes.                                                        *)
(***************************************************************************)

\* The characters.  The ones that the code itself puts somewhere are named: the provers
\* do not know that a literal is a string.
Bytes == STRING \cup {"NUL", " ", "NL", "SPIN", "TIME", "HEAD", "PROC", "EXIT"}

\* What is stored in a cell: characters that vga_putc shows as they are.
Glyphs == Bytes \ {"TAB", "BS", "CR", "NL"}

TtyRecord == [buf: [Cells -> Glyphs], pos_x: Nat, pos_y: Nat, refresh: BOOLEAN, inside: BOOLEAN]

Display == [cell: [Screen -> Bytes], x: Nat, y: Nat]

ConsoleTypes ==
    /\ active_tty \in TTYs
    /\ tty \in [TTYs -> TtyRecord]
    /\ io_output \in [TTYs -> Seq(Bytes)]
    /\ printed \in [TTYs -> Seq(Bytes)]
    /\ vga \in Display
    /\ setup \in Setups

LEMMA Sizes ==
    /\ VGA_WIDTH \in Nat /\ VGA_WIDTH > 0 /\ VGA_HEIGHT \in Nat /\ VGA_HEIGHT > 0
    /\ TTY_WIDTH = VGA_WIDTH /\ TTY_HEIGHT = VGA_HEIGHT
    /\ VGA_WIDTH * VGA_HEIGHT \in Nat /\ Screen = Cells
    /\ TTY_MAX \in Nat /\ TTY_MAX > 0 /\ 0 \in TTYs
  <1>1. /\ VGA_WIDTH \in Nat /\ VGA_WIDTH > 0 /\ VGA_HEIGHT \in Nat /\ VGA_HEIGHT > 0
        /\ TTY_WIDTH = VGA_WIDTH /\ TTY_HEIGHT = VGA_HEIGHT
        /\ TTY_MAX \in Nat /\ TTY_MAX > 0
    BY VgaAssumption, TtyAssumption, ConsoleAssumption
  <1>2. \A w, h \in Nat : w * h \in Nat
    OBVIOUS
  <1> QED
    BY <1>1, <1>2 DEF Screen, Cells, TTYs

LEMMA DivisionFacts ==
    ASSUME NEW n \in Nat, NEW w \in Nat \ {0}
    PROVE  (n % w) \in 0 .. (w - 1) /\ (n \div w) \in Nat /\ n = w * (n \div w) + (n % w)
  OBVIOUS

\* A product grows with its factor.
LEMMA ProductGrows ==
    ASSUME NEW w \in Nat, NEW p \in Nat, NEW q \in Nat, NEW m \in Nat, NEW n \in Nat,
           p < w, q < n
    PROVE  p + q * w < m + n * w
  <1>1. PICK d \in Nat : n = q + 1 + d
    <2>1. n - q - 1 \in Nat /\ n = q + 1 + (n - q - 1)
      OBVIOUS
    <2> QED
      BY <2>1
  <1>2. n * w = q * w + w + d * w /\ d * w \in Nat /\ q * w \in Nat
    BY <1>1
  <1> QED
    BY <1>2

\* The place of a cell.
LEMMA CellPlace ==
    ASSUME NEW c \in Screen
    PROVE  /\ (c % VGA_WIDTH) \in 0 .. (VGA_WIDTH - 1)
           /\ (c \div VGA_WIDTH) \in 0 .. (VGA_HEIGHT - 1)
           /\ (c % VGA_WIDTH) + (c \div VGA_WIDTH) * VGA_WIDTH = c
  <1>1. c \in Nat /\ c < VGA_WIDTH * VGA_HEIGHT /\ VGA_WIDTH \in Nat \ {0} /\ VGA_HEIGHT \in Nat
    BY Sizes DEF Screen
  <1> DEFINE q == c \div VGA_WIDTH
             r == c % VGA_WIDTH
  <1>2. q \in Nat /\ r \in 0 .. (VGA_WIDTH - 1) /\ c = VGA_WIDTH * q + r
    BY <1>1, DivisionFacts
  <1> HIDE DEF q, r
  <1>3. VGA_WIDTH * q = q * VGA_WIDTH /\ VGA_WIDTH * VGA_HEIGHT = VGA_HEIGHT * VGA_WIDTH
    BY <1>1, <1>2
  <1>4. q < VGA_HEIGHT
    <2>1. CASE VGA_HEIGHT < q
      <3>1. 0 + VGA_HEIGHT * VGA_WIDTH < r + q * VGA_WIDTH
        BY <2>1, <1>1, <1>2, ProductGrows
      <3> QED
        BY <3>1, <1>1, <1>2, <1>3
    <2>2. CASE VGA_HEIGHT = q
      BY <2>2, <1>1, <1>2, <1>3
    <2> QED
      BY <2>1, <2>2, <1>1, <1>2
  <1>5. q \in 0 .. (VGA_HEIGHT - 1) /\ r \in 0 .. (VGA_WIDTH - 1) /\ r + q * VGA_WIDTH = c
    <2>1. q * VGA_WIDTH \in Nat
      BY <1>1, <1>2
    <2> QED
      BY <1>1, <1>2, <1>3, <1>4, <2>1
  <1> QED
    BY <1>5 DEF q, r

LEMMA CellOf ==
    ASSUME NEW x \in 0 .. (VGA_WIDTH - 1), NEW y \in 0 .. (VGA_HEIGHT - 1)
    PROVE  x + y * VGA_WIDTH \in Screen
  <1>1. VGA_WIDTH \in Nat /\ VGA_HEIGHT \in Nat /\ x \in Nat /\ y \in Nat /\ 0 \in Nat
        /\ x < VGA_WIDTH /\ y < VGA_HEIGHT
    BY Sizes
  <1>2. x + y * VGA_WIDTH < 0 + VGA_HEIGHT * VGA_WIDTH
    BY <1>1, ProductGrows
  <1>3. VGA_HEIGHT * VGA_WIDTH = VGA_WIDTH * VGA_HEIGHT /\ y * VGA_WIDTH \in Nat
        /\ VGA_WIDTH * VGA_HEIGHT \in Nat
    BY <1>1
  <1> QED
    BY <1>1, <1>2, <1>3 DEF Screen

\* Different places are different cells.
LEMMA CellsDiffer ==
    ASSUME NEW x \in 0 .. (VGA_WIDTH - 1), NEW y \in Nat,
           NEW a \in 0 .. (VGA_WIDTH - 1), NEW b \in Nat,
           x + y * VGA_WIDTH = a + b * VGA_WIDTH
    PROVE  x = a /\ y = b
  <1>1. VGA_WIDTH \in Nat /\ x \in Nat /\ a \in Nat /\ x < VGA_WIDTH /\ a < VGA_WIDTH
    BY Sizes
  <1>2. y < b => x + y * VGA_WIDTH < a + b * VGA_WIDTH
    BY <1>1, ProductGrows
  <1>3. b < y => a + b * VGA_WIDTH < x + y * VGA_WIDTH
    BY <1>1, ProductGrows
  <1>4. y * VGA_WIDTH \in Nat /\ b * VGA_WIDTH \in Nat
    BY <1>1
  <1>5. y = b
    BY <1>1, <1>2, <1>3, <1>4
  <1> QED
    BY <1>1, <1>4, <1>5

-----------------------------------------------------------------------------
(***************************************************************************)
(* What one character does, to a TTY and to the display.                   *)
(***************************************************************************)

\* The fields of a TTY, set one by one.
LEMMA TtyFields ==
    ASSUME NEW t \in TtyRecord
    PROVE  /\ t.buf \in [Cells -> Glyphs] /\ t.pos_x \in Nat /\ t.pos_y \in Nat
           /\ t.refresh \in BOOLEAN /\ t.inside \in BOOLEAN
           /\ \A x \in Nat : [t EXCEPT !.pos_x = x] \in TtyRecord
           /\ \A y \in Nat, x \in Nat : [t EXCEPT !.pos_y = y, !.pos_x = x] \in TtyRecord
           /\ \A b \in [Cells -> Glyphs], n \in Nat :
                  /\ [t EXCEPT !.buf = b, !.pos_y = n] \in TtyRecord
                  /\ [t EXCEPT !.buf = b, !.pos_x = n] \in TtyRecord
           /\ \A f \in BOOLEAN :
                  /\ [t EXCEPT !.refresh = f] \in TtyRecord
                  /\ [t EXCEPT !.inside = f] \in TtyRecord
  BY DEF TtyRecord

LEMMA SpecialGlyphs == "NUL" \in Glyphs /\ " " \in Glyphs
  <1>1. "NUL" \in Bytes /\ " " \in Bytes
    BY DEF Bytes
  <1>2. "NUL" # "TAB" /\ "NUL" # "BS" /\ "NUL" # "CR" /\ "NUL" # "NL"
    OBVIOUS
  <1>3. " " # "TAB" /\ " " # "BS" /\ " " # "CR" /\ " " # "NL"
    OBVIOUS
  <1> QED
    BY <1>1, <1>2, <1>3 DEF Glyphs

LEMMA UpdateTypes ==
    ASSUME NEW t \in TtyRecord, NEW byte \in Bytes
    PROVE  tty_update(t, byte) \in TtyRecord /\ tty_update(t, byte).refresh
  <1>0. TTY_WIDTH \in Nat /\ TTY_WIDTH > 0 /\ TTY_HEIGHT \in Nat /\ TTY_HEIGHT > 0
        /\ TTY_WIDTH - 1 \in Nat /\ TTY_HEIGHT - 1 \in Nat
    BY Sizes
  <1>a. t.buf \in [Cells -> Glyphs] /\ t.pos_x \in Nat /\ t.pos_y \in Nat
    BY TtyFields
  <1>1. Backspaced(t) \in TtyRecord
    <2>1. t.pos_x # 0 => t.pos_x - 1 \in Nat
      BY <1>a
    <2>2. t.pos_y # 0 => t.pos_y - 1 \in Nat
      BY <1>a
    <2> QED
      BY <1>0, <2>1, <2>2, TtyFields DEF Backspaced
  <1>2. byte \in Glyphs => Stored(t, byte) \in TtyRecord
    <2> SUFFICES ASSUME byte \in Glyphs PROVE Stored(t, byte) \in TtyRecord
      OBVIOUS
    <2>1. CASE Cursor(t) \in Cells
      <3>1. [t.buf EXCEPT ![Cursor(t)] = byte] \in [Cells -> Glyphs] /\ t.pos_x + 1 \in Nat
        BY <1>a, <2>1
      <3>2. Stored(t, byte) = [t EXCEPT !.buf = [t.buf EXCEPT ![Cursor(t)] = byte],
                                        !.pos_x = t.pos_x + 1]
        BY <2>1 DEF Stored, TtyRecord
      <3> DEFINE b == [t.buf EXCEPT ![Cursor(t)] = byte]
      <3>3. b \in [Cells -> Glyphs]
        BY <3>1
      <3> HIDE DEF b
      <3>4. [t EXCEPT !.buf = b, !.pos_x = t.pos_x + 1] \in TtyRecord
        BY <3>1, <3>3, TtyFields
      <3> QED
        BY <3>2, <3>4 DEF b
    <2>2. CASE Cursor(t) \notin Cells
      BY <2>2, TtyFields DEF Stored
    <2> QED
      BY <2>1, <2>2
  <1>3. [t EXCEPT !.pos_x = @ + (4 - (@ % 4))] \in TtyRecord
    <2>2. t.pos_x + (4 - (t.pos_x % 4)) \in Nat
      BY <1>a
    <2> QED
      BY <2>2, TtyFields
  <1>4. Moved(t, byte) \in TtyRecord
    <2>1. CASE byte = "TAB"
      BY <2>1, <1>3 DEF Moved
    <2>2. CASE byte = "BS"
      BY <2>2, <1>1 DEF Moved
    <2>3. CASE byte = "CR"
      BY <2>3, TtyFields DEF Moved
    <2>4. CASE byte = "NL"
      <3>1. t.pos_y + 1 \in Nat /\ 0 \in Nat
        BY <1>a
      <3>2. Moved(t, byte) = [t EXCEPT !.pos_y = t.pos_y + 1, !.pos_x = 0]
        BY <2>4 DEF Moved
      <3> DEFINE n == t.pos_y + 1
      <3>3. n \in Nat
        BY <3>1
      <3> HIDE DEF n
      <3>4. [t EXCEPT !.pos_y = n, !.pos_x = 0] \in TtyRecord
        BY <3>1, <3>3, TtyFields
      <3> QED
        BY <3>2, <3>4 DEF n
    <2>5. CASE byte \notin {"TAB", "BS", "CR", "NL"}
      BY <2>5, <1>2 DEF Moved, Glyphs
    <2> QED
      BY <2>1, <2>2, <2>3, <2>4, <2>5
  <1>5. ASSUME NEW u \in TtyRecord PROVE Scrolled(u) \in TtyRecord
    <2>1. \A c \in Cells : c + TTY_WIDTH \in Cells => u.buf[c + TTY_WIDTH] \in Glyphs
      BY TtyFields
    <2>3. [c \in Cells |-> IF c + TTY_WIDTH \in Cells THEN u.buf[c + TTY_WIDTH] ELSE " "]
             \in [Cells -> Glyphs]
      BY <2>1, SpecialGlyphs
    <2> QED
      BY <1>0, <2>3, TtyFields DEF Scrolled
  <1>6. Scrolled(Moved(t, byte)) \in TtyRecord
    BY <1>4, <1>5
  <1> QED
    BY <1>6 DEF tty_update, TtyRecord

\* What the output of the active TTY makes of it.
LEMMA DrainedFacts ==
    ASSUME ConsoleTypes
    PROVE  /\ Drained \in TtyRecord
           /\ ~Drained.refresh => Drained = tty[active_tty]
  <1> DEFINE t == tty[active_tty]
             s == io_output[active_tty]
  <1>1. t \in TtyRecord /\ s \in Seq(Bytes)
    BY DEF ConsoleTypes
  <1>3. Drained = Updated(t, s)
    BY DEF Drained, Updated
  <1>t. t = tty[active_tty]
    OBVIOUS
  <1> HIDE DEF s, t
  <1>c. UpdateCloses(TtyRecord, Bytes)
    BY UpdateTypes DEF UpdateCloses
  <1>p. PICK c : UpdateSteps(c, TtyRecord, t, s)
    BY <1>1, <1>c, DrainChain
  <1>2. /\ c \in [0 .. Len(s) -> TtyRecord] /\ c[0] = t /\ c[Len(s)] = Updated(t, s)
        /\ \A k \in 0 .. Len(s) - 1 : c[k + 1] = tty_update(c[k], s[k + 1])
    BY <1>p DEF UpdateSteps
  <1>4. Len(s) \in Nat /\ \A k \in 1 .. Len(s) : s[k] \in Bytes
    BY <1>1
  <1>7. c[Len(s)] \in TtyRecord /\ Drained = c[Len(s)]
    BY <1>2, <1>3, <1>4
  <1>5. CASE Len(s) = 0
    BY <1>2, <1>7, <1>4, <1>5, <1>t
  <1>6. CASE Len(s) # 0
    <2>1. Len(s) - 1 \in 0 .. Len(s) - 1 /\ (Len(s) - 1) + 1 = Len(s)
      BY <1>4, <1>6
    <2>2. c[Len(s)] = tty_update(c[Len(s) - 1], s[Len(s)])
      BY <1>2, <2>1
    <2>3. c[Len(s) - 1] \in TtyRecord /\ s[Len(s)] \in Bytes
      BY <1>2, <1>4, <2>1
    <2>4. tty_update(c[Len(s) - 1], s[Len(s)]).refresh
      BY <2>3, UpdateTypes
    <2> QED
      BY <1>7, <2>2, <2>4
  <1> QED
    BY <1>5, <1>6, <1>7

-----------------------------------------------------------------------------
(***************************************************************************)
(* The display.                                                            *)
(***************************************************************************)

LEMMA DisplayFields ==
    ASSUME NEW d \in Display
    PROVE  /\ d.cell \in [Screen -> Bytes] /\ d.x \in Nat /\ d.y \in Nat
           /\ \A x \in Nat : [d EXCEPT !.x = x] \in Display
           /\ \A x \in Nat, y \in Nat :
                  /\ [d EXCEPT !.x = x, !.y = y] \in Display
                  /\ [d EXCEPT !.y = y, !.x = x] \in Display
           /\ \A f \in [Screen -> Bytes] : [d EXCEPT !.cell = f] \in Display
  BY DEF Display

LEMMA SetcFacts ==
    ASSUME NEW d \in Display, NEW char \in Bytes
    PROVE  /\ vga_setc(d, char) \in Display
           /\ vga_setc(d, char).x = d.x /\ vga_setc(d, char).y = d.y
           /\ \A c \in Screen : vga_setc(d, char).cell[c]
                   = IF c = d.x + d.y * VGA_WIDTH THEN char ELSE d.cell[c]
  <1>1. d.cell \in [Screen -> Bytes]
    BY DisplayFields
  <1>2. CASE d.x + d.y * VGA_WIDTH \in Screen
    <2> DEFINE f == [d.cell EXCEPT ![d.x + d.y * VGA_WIDTH] = char]
    <2>1. f \in [Screen -> Bytes]
          /\ \A c \in Screen : f[c] = IF c = d.x + d.y * VGA_WIDTH THEN char ELSE d.cell[c]
      BY <1>1, <1>2
    <2>2. vga_setc(d, char) = [d EXCEPT !.cell = f]
      BY <1>2 DEF vga_setc, Display
    <2> HIDE DEF f
    <2>3. [d EXCEPT !.cell = f] \in Display
      BY <2>1, DisplayFields
    <2>4. [d EXCEPT !.cell = f].x = d.x /\ [d EXCEPT !.cell = f].y = d.y
          /\ [d EXCEPT !.cell = f].cell = f
      BY DEF Display
    <2> QED
      BY <2>1, <2>2, <2>3, <2>4
  <1>3. CASE d.x + d.y * VGA_WIDTH \notin Screen
    BY <1>3 DEF vga_setc
  <1> QED
    BY <1>2, <1>3

LEMMA EndOfLineFacts ==
    ASSUME NEW d \in Display
    PROVE  EndOfLine(d) \in Display /\ EndOfLine(d).cell = d.cell
  <1>0. d.y \in Nat
    BY DisplayFields
  <1>1. d.y + 1 \in Nat
    BY <1>0
  <1>2. [d EXCEPT !.x = 0, !.y = d.y + 1] \in Display
    BY <1>1, DisplayFields
  <1>3. [d EXCEPT !.x = 0, !.y = d.y + 1].cell = d.cell
    BY DEF Display
  <1>4. EndOfLine(d) = IF d.x >= VGA_WIDTH THEN [d EXCEPT !.x = 0, !.y = d.y + 1] ELSE d
    BY DEF EndOfLine, Display
  <1> QED
    BY <1>2, <1>3, <1>4

\* What one character does to the display.
LEMMA PutcFacts ==
    ASSUME NEW d \in Display, NEW char \in Bytes
    PROVE  /\ vga_putc(d, char) \in Display
           /\ char \in Glyphs =>
                 \A c \in Screen : vga_putc(d, char).cell[c]
                     = IF c = d.x + d.y * VGA_WIDTH THEN char ELSE d.cell[c]
           /\ char \in Glyphs /\ d.x + 1 < VGA_WIDTH =>
                 vga_putc(d, char).x = d.x + 1 /\ vga_putc(d, char).y = d.y
           /\ char \in Glyphs /\ d.x + 1 = VGA_WIDTH =>
                 vga_putc(d, char).x = 0 /\ vga_putc(d, char).y = d.y + 1
           /\ char = "NL" => vga_putc(d, char).cell = d.cell
  <1>0. VGA_WIDTH \in Nat /\ VGA_WIDTH > 0 /\ VGA_WIDTH - 1 \in Nat
    BY Sizes
  <1>a. d.x \in Nat /\ d.y \in Nat
    BY DisplayFields
  <1>1. CASE char = "BS"
    <2>1. d.x # 0 => d.x - 1 \in Nat
      BY <1>a
    <2>2. d.y # 0 => d.y - 1 \in Nat
      BY <1>a
    <2>3. BackOne(d) \in Display
      BY <2>1, <2>2, <1>0, DisplayFields DEF BackOne
    <2>n. "NUL" \in Bytes
      BY DEF Bytes
    <2>4. vga_setc(BackOne(d), "NUL") \in Display
      BY <2>3, <2>n, SetcFacts
    <2>5. vga_putc(d, char) = EndOfLine(vga_setc(BackOne(d), "NUL"))
      BY <1>1 DEF vga_putc
    <2>6. char \notin Glyphs /\ char # "NL"
      BY <1>1 DEF Glyphs
    <2> QED
      BY <2>4, <2>5, <2>6, EndOfLineFacts
  <1>2. CASE char = "TAB"
    <2>1. d.x + (4 - (d.x % 4)) \in Nat
      BY <1>a
    <2>2. [d EXCEPT !.x = d.x + (4 - (d.x % 4))] \in Display
      BY <2>1, DisplayFields
    <2>3. vga_putc(d, char) = EndOfLine([d EXCEPT !.x = d.x + (4 - (d.x % 4))])
      BY <1>2 DEF vga_putc
    <2>4. char \notin Glyphs /\ char # "NL"
      BY <1>2 DEF Glyphs
    <2> QED
      BY <2>2, <2>3, <2>4, EndOfLineFacts
  <1>3. CASE char = "CR"
    <2>1. vga_putc(d, char) = EndOfLine([d EXCEPT !.x = 0])
      BY <1>3 DEF vga_putc
    <2>2. [d EXCEPT !.x = 0] \in Display
      BY DisplayFields
    <2>3. char \notin Glyphs /\ char # "NL"
      BY <1>3 DEF Glyphs
    <2> QED
      BY <2>1, <2>2, <2>3, EndOfLineFacts
  <1>4. CASE char = "NL"
    <2>1. vga_putc(d, char) = EndOfLine([d EXCEPT !.x = 0, !.y = d.y + 1])
      BY <1>4 DEF vga_putc
    <2>2. d.y + 1 \in Nat
      BY <1>a
    <2>3. [d EXCEPT !.x = 0, !.y = d.y + 1] \in Display
          /\ [d EXCEPT !.x = 0, !.y = d.y + 1].cell = d.cell
      BY <2>2, DisplayFields DEF Display
    <2>4. char \notin Glyphs
      BY <1>4 DEF Glyphs
    <2> QED
      BY <2>1, <2>3, <2>4, EndOfLineFacts
  <1>5. CASE char \notin {"BS", "TAB", "CR", "NL"}
    <2> DEFINE e == vga_setc(d, char)
               f == [e EXCEPT !.x = e.x + 1]
    <2>1. vga_putc(d, char) = EndOfLine(f)
      BY <1>5 DEF vga_putc
    <2>2. /\ e \in Display /\ e.x = d.x /\ e.y = d.y
          /\ \A c \in Screen : e.cell[c] = IF c = d.x + d.y * VGA_WIDTH THEN char ELSE d.cell[c]
      BY SetcFacts
    <2> HIDE DEF e
    <2>3. f \in Display /\ f.cell = e.cell /\ f.x = d.x + 1 /\ f.y = d.y
      <3>1. e.x + 1 \in Nat
        BY <2>2, <1>a
      <3> QED
        BY <3>1, <2>2, DisplayFields DEF Display
    <2> HIDE DEF f
    <2>4. EndOfLine(f) \in Display /\ EndOfLine(f).cell = e.cell
      BY <2>3, EndOfLineFacts
    <2>5. d.x + 1 < VGA_WIDTH => EndOfLine(f) = f
      BY <2>3, <1>a, <1>0 DEF EndOfLine
    <2>6. d.x + 1 = VGA_WIDTH => EndOfLine(f).x = 0 /\ EndOfLine(f).y = d.y + 1
      BY <2>3, <1>a, <1>0 DEF EndOfLine, Display
    <2>7. char # "NL"
      BY <1>5
    <2> QED
      BY <2>1, <2>2, <2>3, <2>4, <2>5, <2>6, <2>7
  <1> QED
    BY <1>1, <1>2, <1>3, <1>4, <1>5

\* A text of one character.
LEMMA PutsOne ==
    ASSUME NEW d \in Display, NEW char \in Bytes
    PROVE  vga_puts(d, <<char>>) = vga_putc(d, char)
  <1> DEFINE text == <<char>>
  <1>1. text \in Seq(Bytes) /\ Len(text) = 1 /\ text[1] = char
    OBVIOUS
  <1> HIDE DEF text
  <1>2. PutcCloses(Display, Bytes)
    BY PutcFacts DEF PutcCloses
  <1>3. PICK c : PutcSteps(c, Display, d, text)
    BY <1>1, <1>2, PutsChain
  <1>4. /\ c[0] = d /\ c[1] = vga_puts(d, text)
        /\ \A k \in 0 .. 1 - 1 : c[k + 1] = vga_putc(c[k], text[k + 1])
    BY <1>1, <1>3 DEF PutcSteps
  <1>5. c[0 + 1] = vga_putc(c[0], text[0 + 1])
    BY <1>4
  <1>6. vga_puts(d, text) = vga_putc(d, char)
    BY <1>1, <1>4, <1>5
  <1> QED
    BY <1>6 DEF text

LEMMA SetXyFacts ==
    ASSUME NEW d \in Display, NEW x \in 0 .. (VGA_WIDTH - 1), NEW y \in 0 .. (VGA_HEIGHT - 1)
    PROVE  /\ vga_set_xy(d, x, y) \in Display
           /\ vga_set_xy(d, x, y).cell = d.cell
           /\ vga_set_xy(d, x, y).x = x /\ vga_set_xy(d, x, y).y = y
  <1>1. Clipped(x, VGA_WIDTH) = x /\ Clipped(y, VGA_HEIGHT) = y /\ x \in Nat /\ y \in Nat
    BY Sizes DEF Clipped
  <1>2. vga_set_xy(d, x, y) = [d EXCEPT !.x = x, !.y = y]
    BY <1>1 DEF vga_set_xy
  <1>3. [d EXCEPT !.x = x, !.y = y] \in Display
    BY <1>1, DisplayFields
  <1>4. /\ [d EXCEPT !.x = x, !.y = y].cell = d.cell
        /\ [d EXCEPT !.x = x, !.y = y].x = x /\ [d EXCEPT !.x = x, !.y = y].y = y
    BY DEF Display
  <1> QED
    BY <1>2, <1>3, <1>4

\* A character that is put somewhere changes that cell, and the position is kept.
LEMMA PutcAtFacts ==
    ASSUME NEW d \in Display, NEW x \in 0 .. (VGA_WIDTH - 1), NEW y \in 0 .. (VGA_HEIGHT - 1),
           NEW char \in Glyphs
    PROVE  /\ vga_putc_at(d, x, y, char) \in Display
           /\ \A c \in Screen : vga_putc_at(d, x, y, char).cell[c]
                   = IF c = x + y * VGA_WIDTH THEN char ELSE d.cell[c]
  <1> DEFINE e == vga_set_xy(d, x, y)
             f == vga_putc(e, char)
  <1>0. char \in Bytes
    BY DEF Glyphs
  <1>1. e \in Display /\ e.cell = d.cell /\ e.x = x /\ e.y = y
    BY SetXyFacts
  <1>2. vga_putc_at(d, x, y, char) = [vga_puts(e, <<char>>) EXCEPT !.x = d.x, !.y = d.y]
    BY DEF vga_putc_at, vga_puts_at
  <1> HIDE DEF e
  <1>3. vga_puts(e, <<char>>) = f
    BY <1>0, <1>1, PutsOne
  <1>4. f \in Display
        /\ \A c \in Screen : f.cell[c] = IF c = x + y * VGA_WIDTH THEN char ELSE d.cell[c]
    BY <1>0, <1>1, PutcFacts
  <1> HIDE DEF f
  <1>5. [f EXCEPT !.x = d.x, !.y = d.y] \in Display
    BY <1>4, DisplayFields
  <1>6. [f EXCEPT !.x = d.x, !.y = d.y].cell = f.cell
    BY <1>4 DEF Display
  <1> QED
    BY <1>2, <1>3, <1>4, <1>5, <1>6

\* A character and its place on the display.
Mark == [x: 0 .. (VGA_WIDTH - 1), y: 0 .. (VGA_HEIGHT - 1), char: Glyphs]

LEMMA PutMarkFacts ==
    ASSUME NEW d \in Display, NEW mark \in Mark
    PROVE  /\ PutMark(d, mark) \in Display
           /\ \A c \in Screen : PutMark(d, mark).cell[c]
                   = IF c = mark.x + mark.y * VGA_WIDTH THEN mark.char ELSE d.cell[c]
  <1>1. mark.x \in 0 .. (VGA_WIDTH - 1) /\ mark.y \in 0 .. (VGA_HEIGHT - 1)
        /\ mark.char \in Glyphs
    BY DEF Mark
  <1> QED
    BY <1>1, PutcAtFacts DEF PutMark

LEMMA PutMarksTypes ==
    ASSUME NEW d \in Display, NEW marks \in Seq(Mark)
    PROVE  PutMarks(d, marks) \in Display
  <1>1. MarkCloses(Display, Mark)
    BY PutMarkFacts DEF MarkCloses
  <1>2. PICK c : MarkSteps(c, Display, d, marks)
    BY <1>1, MarksChain
  <1>3. c \in [0 .. Len(marks) -> Display] /\ c[Len(marks)] = PutMarks(d, marks)
        /\ Len(marks) \in Nat
    BY <1>2 DEF MarkSteps
  <1> QED
    BY <1>3

LEMMA MarksOf ==
    ASSUME NEW buf \in [Cells -> Glyphs]
    PROVE  /\ Marks(buf) \in Seq(Mark) /\ Len(Marks(buf)) = VGA_WIDTH * VGA_HEIGHT
           /\ \A i \in 1 .. VGA_WIDTH * VGA_HEIGHT :
                  /\ Marks(buf)[i] \in Mark
                  /\ Marks(buf)[i].x + Marks(buf)[i].y * VGA_WIDTH = i - 1
                  /\ Marks(buf)[i].char = buf[i - 1]
  <1> DEFINE n == VGA_WIDTH * VGA_HEIGHT
             m(i) == [x |-> (i - 1) % VGA_WIDTH, y |-> (i - 1) \div VGA_WIDTH,
                      char |-> buf[i - 1]]
  <1>1. n \in Nat /\ Screen = 0 .. (n - 1) /\ Cells = Screen
        /\ TTY_WIDTH * TTY_HEIGHT = n
    BY Sizes DEF Screen
  <1>2. Marks(buf) = [i \in 1 .. n |-> m(i)]
    BY <1>1 DEF Marks
  <1>3. ASSUME NEW i \in 1 .. n
        PROVE  m(i) \in Mark /\ m(i).x + m(i).y * VGA_WIDTH = i - 1 /\ m(i).char = buf[i - 1]
    <2> DEFINE k == i - 1
    <2>1. k \in Screen /\ k \in Cells
      BY <1>1
    <2>2. /\ (k % VGA_WIDTH) \in 0 .. (VGA_WIDTH - 1)
          /\ (k \div VGA_WIDTH) \in 0 .. (VGA_HEIGHT - 1)
          /\ (k % VGA_WIDTH) + (k \div VGA_WIDTH) * VGA_WIDTH = k
      BY <2>1, CellPlace
    <2>3. buf[k] \in Glyphs
      BY <2>1
    <2> HIDE DEF k
    <2> DEFINE a == k % VGA_WIDTH
               b == k \div VGA_WIDTH
    <2>4. m(i) = [x |-> a, y |-> b, char |-> buf[k]]
      BY DEF k
    <2>5. a \in 0 .. (VGA_WIDTH - 1) /\ b \in 0 .. (VGA_HEIGHT - 1)
          /\ a + b * VGA_WIDTH = k
      BY <2>2
    <2> HIDE DEF a, b, m
    <2>6. m(i) \in Mark /\ m(i).x = a /\ m(i).y = b /\ m(i).char = buf[k]
      BY <2>3, <2>4, <2>5 DEF Mark
    <2>7. k = i - 1
      BY DEF k
    <2> QED
      BY <2>5, <2>6, <2>7
  <1> HIDE DEF m
  <1>4. [i \in 1 .. n |-> m(i)] \in Seq(Mark) /\ Len([i \in 1 .. n |-> m(i)]) = n
    <2>1. [i \in 1 .. n |-> m(i)] \in [1 .. n -> Mark]
      BY <1>3
    <2> QED
      BY <1>1, <2>1
  <1>5. \A i \in 1 .. n : Marks(buf)[i] = m(i)
    BY <1>2
  <1> QED
    BY <1>2, <1>3, <1>4, <1>5

\* tty_refresh draws every cell of the buffer.
LEMMA MarksDraw ==
    ASSUME NEW d \in Display, NEW buf \in [Cells -> Glyphs]
    PROVE  /\ PutMarks(d, Marks(buf)) \in Display
           /\ \A c \in Screen : PutMarks(d, Marks(buf)).cell[c] = buf[c]
  <1> DEFINE s == Marks(buf)
             n == VGA_WIDTH * VGA_HEIGHT
  <1>1. /\ s \in Seq(Mark) /\ Len(s) = n
        /\ \A i \in 1 .. n : /\ s[i] \in Mark
                             /\ s[i].x + s[i].y * VGA_WIDTH = i - 1
                             /\ s[i].char = buf[i - 1]
    BY MarksOf
  <1> HIDE DEF s
  <1>2. n \in Nat /\ Screen = 0 .. (n - 1)
    BY Sizes DEF Screen
  <1> HIDE DEF n
  <1>3. MarkCloses(Display, Mark)
    BY PutMarkFacts DEF MarkCloses
  <1>p. PICK c : MarkSteps(c, Display, d, s)
    BY <1>1, <1>3, MarksChain
  <1>4. /\ c \in [0 .. n -> Display] /\ c[0] = d /\ c[n] = PutMarks(d, s)
        /\ \A k \in 0 .. n - 1 : c[k + 1] = PutMark(c[k], s[k + 1])
    BY <1>1, <1>p DEF MarkSteps
  <1> DEFINE T == {k \in Nat : k <= n => \A j \in 0 .. (k - 1) : c[k].cell[j] = buf[j]}
  <1>5. 0 \in T
    OBVIOUS
  <1>6. ASSUME NEW k \in T PROVE k + 1 \in T
    <2>1. k \in Nat /\ k + 1 \in Nat
      OBVIOUS
    <2> SUFFICES ASSUME k + 1 <= n, NEW j \in 0 .. k PROVE c[k + 1].cell[j] = buf[j]
      BY <2>1
    <2>2. k <= n /\ k \in 0 .. n /\ k \in 0 .. n - 1 /\ k + 1 \in 1 .. n /\ (k + 1) - 1 = k
      BY <2>1, <1>2
    <2>3. \A i \in 0 .. (k - 1) : c[k].cell[i] = buf[i]
      BY <2>2
    <2>4. /\ s[k + 1] \in Mark /\ s[k + 1].x + s[k + 1].y * VGA_WIDTH = k
          /\ s[k + 1].char = buf[k]
      BY <1>1, <2>2
    <2>5. c[k] \in Display /\ c[k + 1] = PutMark(c[k], s[k + 1])
      BY <1>4, <2>2
    <2>6. \A i \in Screen : c[k + 1].cell[i] = IF i = k THEN buf[k] ELSE c[k].cell[i]
      BY <2>4, <2>5, PutMarkFacts
    <2>7. j \in Screen /\ (j # k => j \in 0 .. (k - 1))
      BY <1>2, <2>1
    <2> QED
      BY <2>3, <2>6, <2>7
  <1>7. \A k \in Nat : k \in T
    <2>1. T \in SUBSET Nat
      OBVIOUS
    <2> HIDE DEF T
    <2> QED
      BY <1>5, <1>6, <2>1, SetInduction
  <1>8. \A j \in 0 .. (n - 1) : c[n].cell[j] = buf[j]
    BY <1>2, <1>7
  <1>9. c[n] \in Display
    BY <1>2, <1>4
  <1> QED
    BY <1>2, <1>4, <1>8, <1>9 DEF s

LEMMA OtherGlyphs == {"SPIN", "TIME", "HEAD", "PROC", "EXIT"} \subseteq Glyphs
  <1>1. {"SPIN", "TIME", "HEAD", "PROC", "EXIT"} \subseteq Bytes
    BY DEF Bytes
  <1>2. {"SPIN", "TIME", "HEAD", "PROC", "EXIT"} \cap {"TAB", "BS", "CR", "NL"} = {}
    OBVIOUS
  <1> QED
    BY <1>1, <1>2 DEF Glyphs

LEMMA SpinnerFacts ==
    ASSUME NEW d \in Display
    PROVE  /\ test_spinner(d) \in Display
           /\ \A c \in Screen : c # VGA_WIDTH - 1 => test_spinner(d).cell[c] = d.cell[c]
  <1>1. VGA_WIDTH - 1 \in 0 .. (VGA_WIDTH - 1) /\ 0 \in 0 .. (VGA_HEIGHT - 1)
        /\ (VGA_WIDTH - 1) + 0 * VGA_WIDTH = VGA_WIDTH - 1
    BY Sizes
  <1>2. "SPIN" \in Glyphs
    BY OtherGlyphs
  <1> QED
    BY <1>1, <1>2, PutcAtFacts DEF test_spinner

LEMMA TimerFacts ==
    ASSUME NEW d \in Display
    PROVE  /\ test_timer(d) \in Display
           /\ \A c \in Screen : c # TIME_X => test_timer(d).cell[c] = d.cell[c]
  <1> DEFINE e == vga_set_xy(d, TIME_X, 0)
  <1>1. TIME_X \in 0 .. (VGA_WIDTH - 1) /\ 0 \in 0 .. (VGA_HEIGHT - 1)
        /\ TIME_X + 0 * VGA_WIDTH = TIME_X
    BY Sizes, ConsoleAssumption
  <1>2. "TIME" \in Glyphs /\ "TIME" \in Bytes
    BY OtherGlyphs DEF Glyphs
  <1>3. e \in Display /\ e.cell = d.cell /\ e.x = TIME_X /\ e.y = 0
    BY <1>1, SetXyFacts
  <1>4. test_timer(d) = vga_puts(e, <<"TIME">>)
    BY DEF test_timer
  <1> HIDE DEF e
  <1>5. test_timer(d) = vga_putc(e, "TIME")
    BY <1>2, <1>3, <1>4, PutsOne
  <1> QED
    BY <1>1, <1>2, <1>3, <1>5, PutcFacts

LEMMA ListFacts ==
    ASSUME NEW d \in Display, NEW erase
    PROVE  /\ test_proc_list(d, erase) \in Display
           /\ active_tty # 0 => test_proc_list(d, erase) = d
  <1> DEFINE e == IF erase THEN Erased(d) ELSE d
             s == [i \in 1 .. VGA_HEIGHT |->
                      [x |-> 0, y |-> i - 1, char |-> IF i = 1 THEN "HEAD" ELSE "PROC"]]
  <1>1. Erased(d) \in Display
    <2> DEFINE f == [c \in Screen |-> IF c < VGA_WIDTH THEN d.cell[c] ELSE " "]
    <2>1. d.cell \in [Screen -> Bytes] /\ " " \in Bytes
      BY DisplayFields DEF Bytes
    <2>2. f \in [Screen -> Bytes]
      BY <2>1
    <2>3. Erased(d) = [d EXCEPT !.cell = f]
      BY DEF Erased, Display
    <2> HIDE DEF f
    <2> QED
      BY <2>2, <2>3, DisplayFields
  <1>2. e \in Display
    BY <1>1
  <1>3. s \in Seq(Mark)
    <2>1. VGA_HEIGHT \in Nat /\ 0 \in 0 .. (VGA_WIDTH - 1)
      BY Sizes
    <2>2. "HEAD" \in Glyphs /\ "PROC" \in Glyphs
      BY OtherGlyphs
    <2>3. s \in [1 .. VGA_HEIGHT -> Mark]
      BY <2>1, <2>2 DEF Mark
    <2> HIDE DEF s
    <2> QED
      BY <2>1, <2>3
  <1>4. test_proc_list(d, erase) = IF active_tty # 0 THEN d ELSE PutMarks(e, s)
    BY DEF test_proc_list
  <1> HIDE DEF e, s
  <1>5. PutMarks(e, s) \in Display
    BY <1>2, <1>3, PutMarksTypes
  <1> QED
    BY <1>4, <1>5

\* The hooks draw over two cells, and over TTY 0.
LEMMA HookedFacts ==
    ASSUME NEW d \in Display, NEW tick
    PROVE  /\ Hooked(d, tick) \in Display
           /\ active_tty # 0 =>
                 \A c \in Screen \ {TIME_X, VGA_WIDTH - 1} : Hooked(d, tick).cell[c] = d.cell[c]
  <1> DEFINE spun == IF "spinner" \in tick.due THEN test_spinner(d) ELSE d
             timed == IF "time" \in tick.due THEN test_timer(spun) ELSE spun
  <1>0. Hooked(d, tick) = IF "list" \in tick.due THEN test_proc_list(timed, tick.erase) ELSE timed
    BY DEF Hooked
  <1>1. spun \in Display /\ \A c \in Screen : c # VGA_WIDTH - 1 => spun.cell[c] = d.cell[c]
    BY SpinnerFacts
  <1>2. timed \in Display /\ \A c \in Screen : c # TIME_X => timed.cell[c] = spun.cell[c]
    <2> HIDE DEF spun
    <2> QED
      BY <1>1, TimerFacts
  <1> HIDE DEF spun, timed
  <1> QED
    BY <1>0, <1>1, <1>2, ListFacts

\* kernel_exit draws over the first line.
LEMMA BannerFacts ==
    ASSUME NEW d \in Display
    PROVE  /\ ExitBanner(d) \in Display
           /\ \A c \in Screen : c >= VGA_WIDTH => ExitBanner(d).cell[c] = d.cell[c]
  <1> DEFINE e == vga_set_xy(d, 0, 0)
             s == [i \in 1 .. VGA_WIDTH |-> " "]
             f == vga_puts(e, s)
             g == vga_set_xy(f, 0, 0)
             r == <<"EXIT", "NL">>
  <1>0. VGA_WIDTH \in Nat /\ VGA_WIDTH > 0 /\ 0 \in 0 .. (VGA_WIDTH - 1)
        /\ 0 \in 0 .. (VGA_HEIGHT - 1) /\ 0 * VGA_WIDTH = 0
    BY Sizes
  <1>1. e \in Display /\ e.cell = d.cell /\ e.x = 0 /\ e.y = 0
    BY <1>0, SetXyFacts
  <1>b. " " \in Bytes /\ " " \in Glyphs
    BY SpecialGlyphs DEF Glyphs
  <1>2. s \in Seq(Bytes) /\ Len(s) = VGA_WIDTH /\ \A i \in 1 .. VGA_WIDTH : s[i] = " "
    <2>1. s \in [1 .. VGA_WIDTH -> Bytes]
      BY <1>b
    <2>4. \A i \in 1 .. VGA_WIDTH : s[i] = " "
      OBVIOUS
    <2>2. Len(s) = VGA_WIDTH
      BY <1>0
    <2> HIDE DEF s
    <2>5. VGA_WIDTH \in Nat
      BY Sizes
    <2>3. s \in Seq(Bytes)
      BY <2>1, <2>5
    <2> QED
      BY <2>2, <2>3, <2>4
  <1>3. PutcCloses(Display, Bytes)
    BY PutcFacts DEF PutcCloses
  <1>4. ExitBanner(d) = vga_puts(g, r)
    BY DEF ExitBanner
  <1> HIDE DEF e, s
  <1>5. f \in Display /\ \A c \in Screen : c >= VGA_WIDTH => f.cell[c] = e.cell[c]
    <2>1. PICK c : PutcSteps(c, Display, e, s)
      BY <1>1, <1>2, <1>3, PutsChain
    <2>2. /\ c \in [0 .. VGA_WIDTH -> Display] /\ c[0] = e /\ c[VGA_WIDTH] = f
          /\ \A k \in 0 .. VGA_WIDTH - 1 : c[k + 1] = vga_putc(c[k], s[k + 1])
      BY <2>1, <1>2 DEF PutcSteps
    <2> HIDE DEF f
    <2> DEFINE Kept(k) == \A i \in Screen : i >= VGA_WIDTH => c[k].cell[i] = e.cell[i]
               T == {k \in Nat : k <= VGA_WIDTH =>
                        Kept(k) /\ (k < VGA_WIDTH => c[k].x = k /\ c[k].y = 0)}
    <2>3. 0 \in T
      BY <2>2, <1>1
    <2>4. ASSUME NEW k \in T PROVE k + 1 \in T
      <3>1. k \in Nat /\ k + 1 \in Nat
        OBVIOUS
      <3> SUFFICES ASSUME k + 1 <= VGA_WIDTH
                   PROVE  Kept(k + 1) /\ (k + 1 < VGA_WIDTH => c[k + 1].x = k + 1 /\ c[k + 1].y = 0)
        BY <3>1
      <3>2. k <= VGA_WIDTH /\ k < VGA_WIDTH /\ k \in 0 .. VGA_WIDTH /\ k \in 0 .. VGA_WIDTH - 1
            /\ k + 1 \in 1 .. VGA_WIDTH
        BY <3>1, <1>0
      <3>3. Kept(k) /\ c[k].x = k /\ c[k].y = 0
        BY <3>2
      <3>4. c[k] \in Display /\ c[k + 1] = vga_putc(c[k], " ")
        BY <2>2, <3>2, <1>2
      <3>a. /\ \A i \in Screen : vga_putc(c[k], " ").cell[i]
                   = IF i = c[k].x + c[k].y * VGA_WIDTH THEN " " ELSE c[k].cell[i]
            /\ c[k].x + 1 < VGA_WIDTH =>
                   vga_putc(c[k], " ").x = c[k].x + 1 /\ vga_putc(c[k], " ").y = c[k].y
        <4> DEFINE u == c[k]
                   b == " "
        <4>1. u \in Display /\ b \in Bytes /\ b \in Glyphs
          BY <3>4, <1>b
        <4> HIDE DEF u, b
        <4>2. /\ \A i \in Screen : vga_putc(u, b).cell[i]
                   = IF i = u.x + u.y * VGA_WIDTH THEN b ELSE u.cell[i]
              /\ u.x + 1 < VGA_WIDTH =>
                   vga_putc(u, b).x = u.x + 1 /\ vga_putc(u, b).y = u.y
          BY <4>1, PutcFacts
        <4> QED
          BY <4>2 DEF u, b
      <3>5. \A i \in Screen : c[k + 1].cell[i] = IF i = k + 0 * VGA_WIDTH THEN " " ELSE c[k].cell[i]
        BY <3>3, <3>4, <3>a
      <3>6. k + 1 < VGA_WIDTH => c[k + 1].x = k + 1 /\ c[k + 1].y = 0
        BY <3>3, <3>4, <3>a
      <3>7. \A i \in Screen : i >= VGA_WIDTH => i # k + 0 * VGA_WIDTH
        BY <3>2, <1>0 DEF Screen
      <3>8. Kept(k + 1)
        BY <3>3, <3>5, <3>7
      <3> QED
        BY <3>6, <3>8
    <2>5. \A k \in Nat : k \in T
      <3>1. T \in SUBSET Nat
        OBVIOUS
      <3> HIDE DEF T
      <3> QED
        BY <2>3, <2>4, <3>1, SetInduction
    <2>6. Kept(VGA_WIDTH) /\ c[VGA_WIDTH] \in Display
      <3>1. VGA_WIDTH \in T
        BY <1>0, <2>5
      <3> QED
        BY <1>0, <2>2, <3>1
    <2> QED
      BY <2>2, <2>6
  <1> HIDE DEF f
  <1>6. g \in Display /\ g.cell = f.cell /\ g.x = 0 /\ g.y = 0
    BY <1>0, <1>5, SetXyFacts
  <1> HIDE DEF g
  <1>7. r \in Seq(Bytes) /\ Len(r) = 2 /\ r[1] = "EXIT" /\ r[2] = "NL"
        /\ "EXIT" \in Glyphs /\ "EXIT" \in Bytes /\ "NL" \in Bytes
    <2>1. "EXIT" \in Glyphs /\ "EXIT" \in Bytes /\ "NL" \in Bytes
      BY OtherGlyphs DEF Glyphs, Bytes
    <2> QED
      BY <2>1
  <1> HIDE DEF r
  <1>8. PICK c : PutcSteps(c, Display, g, r)
    BY <1>3, <1>6, <1>7, PutsChain
  <1>9. /\ c \in [0 .. 2 -> Display] /\ c[0] = g /\ c[2] = vga_puts(g, r)
        /\ \A k \in 0 .. 2 - 1 : c[k + 1] = vga_putc(c[k], r[k + 1])
    BY <1>7, <1>8 DEF PutcSteps
  <1>10. c[1] \in Display /\ c[2] \in Display
         /\ c[0 + 1] = vga_putc(c[0], r[0 + 1]) /\ c[1 + 1] = vga_putc(c[1], r[1 + 1])
    BY <1>9
  <1>11. c[1] = vga_putc(g, "EXIT") /\ c[2] = vga_putc(c[1], "NL")
    BY <1>7, <1>9, <1>10
  <1>12. \A i \in Screen : i >= VGA_WIDTH => c[1].cell[i] = g.cell[i]
    <2>1. \A i \in Screen : c[1].cell[i] = IF i = g.x + g.y * VGA_WIDTH THEN "EXIT" ELSE g.cell[i]
      BY <1>6, <1>7, <1>11, PutcFacts
    <2>2. \A i \in Screen : i >= VGA_WIDTH => i # g.x + g.y * VGA_WIDTH
      BY <1>0, <1>6 DEF Screen
    <2> QED
      BY <2>1, <2>2
  <1>13. c[2].cell = c[1].cell
    BY <1>7, <1>10, <1>11, PutcFacts
  <1> QED
    BY <1>1, <1>4, <1>5, <1>6, <1>9, <1>10, <1>12, <1>13

LEMMA SeqOfBytes ==
    ASSUME NEW s \in Seq(STRING)
    PROVE  s \in Seq(Bytes)
  <1>1. Len(s) \in Nat /\ s \in [1 .. Len(s) -> STRING]
    OBVIOUS
  <1>2. s \in [1 .. Len(s) -> Bytes]
    BY <1>1 DEF Bytes
  <1> QED
    BY <1>1, <1>2

LEMMA InitTypes ==
    ASSUME ConsoleInit
    PROVE  ConsoleTypes
  <1>1. 0 \in Nat /\ "NUL" \in Glyphs /\ "NUL" \in Bytes
    BY SpecialGlyphs DEF Glyphs
  <1>2. vga \in Display
    BY <1>1 DEF ConsoleInit, tty_init, vga_clear, Display
  <1>3. \A t \in TTYs : [ClearedTty EXCEPT !.refresh = (t = 0)] \in TtyRecord
    <2>1. ClearedTty \in TtyRecord
      BY <1>1 DEF ClearedTty, TtyRecord
    <2> TAKE t \in TTYs
    <2> DEFINE f == (t = 0)
    <2>2. f \in BOOLEAN
      OBVIOUS
    <2> HIDE DEF f
    <2>3. [ClearedTty EXCEPT !.refresh = f] \in TtyRecord
      BY <2>1, <2>2, TtyFields
    <2> QED
      BY <2>3 DEF f
  <1>4. tty \in [TTYs -> TtyRecord]
    BY <1>3 DEF ConsoleInit, tty_init
  <1>5. <<>> \in Seq(Bytes)
    OBVIOUS
  <1>6. active_tty \in TTYs
    BY Sizes DEF ConsoleInit, tty_init
  <1> QED
    BY <1>2, <1>4, <1>5, <1>6 DEF ConsoleInit, tty_init, ConsoleTypes

LEMMA RedrawnFacts ==
    ASSUME ConsoleTypes
    PROVE  /\ Redrawn(vga) \in Display
           /\ Drained.refresh => \A c \in Screen : Redrawn(vga).cell[c] = Drained.buf[c]
           /\ ~Drained.refresh => Redrawn(vga) = vga /\ Drained = tty[active_tty]
  <1>1. Drained \in TtyRecord /\ (~Drained.refresh => Drained = tty[active_tty])
        /\ vga \in Display
    BY DrainedFacts DEF ConsoleTypes
  <1>2. Drained.buf \in [Cells -> Glyphs]
    BY <1>1, TtyFields
  <1> QED
    BY <1>1, <1>2, MarksDraw DEF Redrawn

\* Types.
LEMMA KeyTypes ==
    ASSUME ConsoleTypes, Key, UNCHANGED setup
    PROVE  ConsoleTypes'
  <1>1. CASE UNCHANGED <<active_tty, tty, io_output, printed, vga>>
    BY <1>1 DEF ConsoleTypes
  <1>2. CASE PressDigit
    <2>1. PICK k : Selects(k) /\ tty_select(Digit[Decoded(k)]) /\ printed' = printed
      BY <1>2 DEF PressDigit, historyVars
    <2>2. Digit[Decoded(k)] \in TTYs
      BY <2>1, ConsoleAssumption DEF Selects
    <2> DEFINE n == Digit[Decoded(k)]
    <2>3. /\ active_tty' = n /\ tty' = [tty EXCEPT ![n].refresh = TRUE]
          /\ io_output' = io_output /\ vga' = vga
      BY <2>1 DEF tty_select
    <2> HIDE DEF n
    <2>4. n \in TTYs
      BY <2>2 DEF n
    <2>5. [tty[n] EXCEPT !.refresh = TRUE] \in TtyRecord
      BY <2>4, TtyFields DEF ConsoleTypes
    <2>6. tty' = [tty EXCEPT ![n] = [tty[n] EXCEPT !.refresh = TRUE]]
      BY <2>3
    <2>7. tty' \in [TTYs -> TtyRecord]
      BY <2>5, <2>6 DEF ConsoleTypes
    <2> QED
      BY <2>1, <2>3, <2>4, <2>7 DEF ConsoleTypes
  <1>3. CASE PressEscape
    <2>1. /\ vga' = IF esc_status + 1 = 3 THEN ExitBanner(vga) ELSE vga
          /\ UNCHANGED <<active_tty, tty, io_output, printed>>
      BY <1>3 DEF PressEscape, historyVars
    <2>2. vga' \in Display
      BY <2>1, BannerFacts DEF ConsoleTypes
    <2> QED
      BY <2>1, <2>2 DEF ConsoleTypes
  <1>4. CASE PressModifier \/ ReleaseModifier \/ PressLock \/ PressCommand \/ PressCharacter
    BY <1>1, <1>4 DEF PressModifier, ReleaseModifier, PressLock, PressCommand, PressCharacter,
         ttyVars, historyVars, tty_input
  <1> QED
    BY <1>2, <1>3, <1>4 DEF Key

LEMMA CallTypes ==
    ASSUME ConsoleTypes, Call, UNCHANGED setup
    PROVE  /\ ConsoleTypes'
           /\ UNCHANGED <<active_tty, tty, printed, vga, status>>
  <1>1. PICK t \in setup.attached :
            \/ \E block \in OutputBlocks : ksyscall_io_write(t, block)
            \/ \E n \in InputSizes : ksyscall_io_read(t, n)
            \/ FlushInput(t)
            \/ FlushOutput(t)
    BY DEF Call
  <1>2. t \in TTYs
    BY ConsoleAssumption DEF ConsoleTypes
  <1>3. UNCHANGED <<active_tty, tty, printed, vga, status>>
    BY <1>1 DEF ksyscall_io_write, ksyscall_io_read, FlushInput, FlushOutput, historyVars
  <1>4. io_output' \in [TTYs -> Seq(Bytes)]
    <2>0. io_output \in [TTYs -> Seq(Bytes)] /\ io_output[t] \in Seq(Bytes)
      BY <1>2 DEF ConsoleTypes
    <2>1. ASSUME NEW block \in OutputBlocks, ksyscall_io_write(t, block)
          PROVE  io_output' \in [TTYs -> Seq(Bytes)]
      <3>1. block \in Seq(Bytes)
        <4>1. block \in Seq(STRING)
          BY ConsoleAssumption
        <4> QED
          BY <4>1, SeqOfBytes
      <3>2. Written(io_output[t], block) \in Seq(Bytes)
        BY <2>0, <3>1 DEF Written
      <3>3. io_output' = [io_output EXCEPT ![t] = Written(io_output[t], block)]
        BY <2>1 DEF ksyscall_io_write
      <3> QED
        BY <2>0, <3>2, <3>3
    <2>2. CASE FlushOutput(t)
      <3>1. io_output' = [io_output EXCEPT ![t] = <<>>] /\ <<>> \in Seq(Bytes)
        BY <2>2 DEF FlushOutput
      <3> QED
        BY <2>0, <3>1
    <2>3. CASE io_output' = io_output
      BY <2>0, <2>3
    <2> QED
      BY <1>1, <2>1, <2>2, <2>3 DEF ksyscall_io_read, FlushInput
  <1> QED
    BY <1>3, <1>4 DEF ConsoleTypes

\* A tick that draws the active TTY, and one that does not.
Drawing(tick) ==
    /\ Refresh /\ vga' = Hooked(Redrawn(vga), tick)

NotDrawing(tick) ==
    /\ vga' = Hooked(vga, tick)
    /\ UNCHANGED <<active_tty, tty, io_output, status, printed>>

LEMMA TickCases ==
    ASSUME Tick
    PROVE  \E tick : Drawing(tick) \/ NotDrawing(tick)
  BY DEF Tick, Drawing, NotDrawing

LEMMA TickTypes ==
    ASSUME ConsoleTypes, UNCHANGED setup, NEW tick, Drawing(tick) \/ NotDrawing(tick)
    PROVE  ConsoleTypes'
  <1>1. CASE Drawing(tick)
    <2>1. /\ io_output' = [io_output EXCEPT ![active_tty] = <<>>]
          /\ tty' = [tty EXCEPT ![active_tty] = [Drained EXCEPT !.refresh = FALSE]]
          /\ active_tty' = active_tty
          /\ printed' = [printed EXCEPT
                             ![active_tty] = printed[active_tty] \o io_output[active_tty]]
          /\ vga' = Hooked(Redrawn(vga), tick)
      BY <1>1 DEF Drawing, Refresh, tty_refresh
    <2>2. vga' \in Display
      BY <2>1, RedrawnFacts, HookedFacts
    <2>3. [Drained EXCEPT !.refresh = FALSE] \in TtyRecord
      BY DrainedFacts, TtyFields
    <2>4. active_tty \in TTYs /\ tty \in [TTYs -> TtyRecord]
          /\ io_output \in [TTYs -> Seq(Bytes)] /\ printed \in [TTYs -> Seq(Bytes)]
      BY DEF ConsoleTypes
    <2>5. <<>> \in Seq(Bytes) /\ printed[active_tty] \o io_output[active_tty] \in Seq(Bytes)
      <3>1. printed[active_tty] \in Seq(Bytes) /\ io_output[active_tty] \in Seq(Bytes)
        BY <2>4
      <3> QED
        BY <3>1
    <2>6. tty' \in [TTYs -> TtyRecord]
      BY <2>1, <2>3, <2>4
    <2>7. io_output' \in [TTYs -> Seq(Bytes)]
      BY <2>1, <2>4, <2>5
    <2>8. printed' \in [TTYs -> Seq(Bytes)]
      BY <2>1, <2>4, <2>5
    <2> QED
      BY <2>1, <2>2, <2>4, <2>6, <2>7, <2>8 DEF ConsoleTypes
  <1>2. CASE NotDrawing(tick)
    <2>1. vga' \in Display
      BY <1>2, HookedFacts DEF NotDrawing, ConsoleTypes
    <2> QED
      BY <1>2, <2>1 DEF NotDrawing, ConsoleTypes
  <1> QED
    BY <1>1, <1>2

LEMMA TypesKept ==
    ASSUME ConsoleTypes, [ConsoleNext]_consoleVars
    PROVE  ConsoleTypes'
  <1>1. CASE Key /\ UNCHANGED setup
    BY <1>1, KeyTypes
  <1>2. CASE Call /\ UNCHANGED setup
    BY <1>2, CallTypes
  <1>3. CASE Tick /\ UNCHANGED setup
    BY <1>3, TickCases, TickTypes
  <1>4. CASE UNCHANGED consoleVars
    BY <1>4 DEF consoleVars, ttyVars, historyVars, ConsoleTypes
  <1> QED
    BY <1>1, <1>2, <1>3, <1>4 DEF ConsoleNext

-----------------------------------------------------------------------------
\* The display.
LEMMA ShownAreOutside ==
    ASSUME NEW c \in Screen \ Covered
    PROVE  active_tty # 0 /\ (status # "exited" => c # TIME_X /\ c # VGA_WIDTH - 1)
           /\ (status = "exited" => c >= VGA_WIDTH)
  <1>1. c \in Nat /\ VGA_WIDTH \in Nat
    BY Sizes DEF Screen
  <1> QED
    BY <1>1 DEF Covered

LEMMA TickDraws ==
    ASSUME ConsoleTypes, DisplayIsCurrent, status = "running",
           NEW tick, Drawing(tick) \/ NotDrawing(tick)
    PROVE  DisplayIsCurrent'
  <1> SUFFICES ASSUME status' # "undefined", ~tty'[active_tty'].refresh,
                      NEW c \in Screen \ Covered'
               PROVE  vga'.cell[c] = tty'[active_tty'].buf[c]
    BY DEF DisplayIsCurrent
  <1>0. status' = "running" /\ active_tty' = active_tty
    BY DEF Drawing, NotDrawing, Refresh, tty_refresh
  <1>1. c \in Screen \ Covered /\ active_tty # 0 /\ c \in Screen \ {TIME_X, VGA_WIDTH - 1}
    <2>1. Covered' = Covered
      BY <1>0 DEF Covered
    <2>2. c \in Screen \ Covered
      BY <2>1
    <2> QED
      BY <2>2, ShownAreOutside
  <1>2. CASE Drawing(tick)
    <2>1. /\ tty' = [tty EXCEPT ![active_tty] = [Drained EXCEPT !.refresh = FALSE]]
          /\ vga' = Hooked(Redrawn(vga), tick)
      BY <1>2 DEF Drawing, Refresh, tty_refresh
    <2>2. active_tty \in TTYs /\ tty \in [TTYs -> TtyRecord] /\ Drained \in TtyRecord
      BY DrainedFacts DEF ConsoleTypes
    <2>3. tty'[active_tty].buf = Drained.buf
      BY <2>1, <2>2 DEF TtyRecord
    <2>4. vga'.cell[c] = Redrawn(vga).cell[c]
      BY <1>1, <2>1, RedrawnFacts, HookedFacts
    <2>5. Redrawn(vga).cell[c] = Drained.buf[c]
      <3>1. CASE Drained.refresh
        BY <3>1, RedrawnFacts
      <3>2. CASE ~Drained.refresh
        <4>1. Redrawn(vga) = vga /\ Drained = tty[active_tty]
          BY <3>2, RedrawnFacts
        <4> QED
          BY <1>1, <3>2, <4>1 DEF DisplayIsCurrent
      <3> QED
        BY <3>1, <3>2
    <2> QED
      BY <1>0, <2>3, <2>4, <2>5
  <1>3. CASE NotDrawing(tick)
    <2>1. vga' = Hooked(vga, tick) /\ tty' = tty /\ vga \in Display
      BY <1>3 DEF NotDrawing, ConsoleTypes
    <2>2. vga'.cell[c] = vga.cell[c]
      BY <1>1, <2>1, HookedFacts
    <2>3. vga.cell[c] = tty[active_tty].buf[c]
      BY <1>0, <1>1, <2>1 DEF DisplayIsCurrent
    <2> QED
      BY <1>0, <2>1, <2>2, <2>3
  <1> QED
    BY <1>2, <1>3

LEMMA KeyDraws ==
    ASSUME ConsoleTypes, DisplayIsCurrent, status = "running", Key
    PROVE  DisplayIsCurrent'
  <1>1. CASE UNCHANGED <<active_tty, tty, vga, status>>
    BY <1>1 DEF DisplayIsCurrent, Covered
  <1>2. CASE PressDigit
    <2>1. PICK k : Selects(k) /\ tty_select(Digit[Decoded(k)])
      BY <1>2 DEF PressDigit
    <2>2. Digit[Decoded(k)] \in TTYs
      BY <2>1, ConsoleAssumption DEF Selects
    <2> DEFINE n == Digit[Decoded(k)]
    <2>3. active_tty' = n /\ tty' = [tty EXCEPT ![n].refresh = TRUE]
      BY <2>1 DEF tty_select
    <2> HIDE DEF n
    <2>4. tty'[active_tty'].refresh
      BY <2>2, <2>3 DEF ConsoleTypes, TtyRecord, n
    <2> QED
      BY <2>4 DEF DisplayIsCurrent
  <1>3. CASE PressEscape
    <2>1. /\ vga' = IF esc_status + 1 = 3 THEN ExitBanner(vga) ELSE vga
          /\ status' = IF esc_status + 1 = 3 THEN "exited" ELSE status
          /\ active_tty' = active_tty /\ tty' = tty
      BY <1>3 DEF PressEscape
    <2>2. CASE esc_status + 1 # 3
      BY <1>1, <2>1, <2>2
    <2>3. CASE esc_status + 1 = 3
      <3> SUFFICES ASSUME ~tty[active_tty].refresh, NEW c \in Screen \ Covered'
                   PROVE  vga'.cell[c] = tty[active_tty].buf[c]
        BY <2>1 DEF DisplayIsCurrent
      <3>1. status' = "exited" /\ vga' = ExitBanner(vga)
        BY <2>1, <2>3
      <3>2. active_tty # 0 /\ c >= VGA_WIDTH
        <4>1. c \in Nat /\ VGA_WIDTH \in Nat
          BY Sizes DEF Screen
        <4> QED
          BY <2>1, <3>1, <4>1 DEF Covered
      <3>3. c \in Screen \ Covered
        <4>1. c \in Nat /\ VGA_WIDTH \in Nat /\ TIME_X \in 0 .. (VGA_WIDTH - 1)
          BY Sizes, ConsoleAssumption DEF Screen
        <4> QED
          BY <3>2, <4>1 DEF Covered
      <3>4. vga.cell[c] = tty[active_tty].buf[c]
        BY <3>3 DEF DisplayIsCurrent
      <3>5. vga'.cell[c] = vga.cell[c]
        BY <3>1, <3>2, BannerFacts DEF ConsoleTypes
      <3> QED
        BY <3>4, <3>5
    <2> QED
      BY <2>2, <2>3
  <1>4. CASE PressModifier \/ ReleaseModifier \/ PressLock \/ PressCommand \/ PressCharacter
    BY <1>1, <1>4 DEF PressModifier, ReleaseModifier, PressLock, PressCommand, PressCharacter,
         ttyVars, tty_input
  <1> QED
    BY <1>2, <1>3, <1>4 DEF Key

\* A display that is not to be redrawn shows the selected TTY (tty.c:77): whatever is typed,
\* selected and printed, and whichever hooks draw, for every size of the display.
THEOREM DisplayIsRight == ConsoleSpec => []DisplayIsCurrent
  <1>1. ConsoleInit => ConsoleTypes /\ DisplayIsCurrent
    <2> SUFFICES ASSUME ConsoleInit PROVE ConsoleTypes /\ DisplayIsCurrent
      OBVIOUS
    <2>1. Covered = Screen
      BY DEF ConsoleInit, tty_init, Covered
    <2> QED
      BY <2>1, InitTypes DEF DisplayIsCurrent
  <1>2. ConsoleTypes /\ DisplayIsCurrent /\ [ConsoleNext]_consoleVars
        => (ConsoleTypes /\ DisplayIsCurrent)'
    <2> SUFFICES ASSUME ConsoleTypes, DisplayIsCurrent, [ConsoleNext]_consoleVars
                 PROVE  (ConsoleTypes /\ DisplayIsCurrent)'
      OBVIOUS
    <2>1. ConsoleTypes'
      BY TypesKept
    <2>2. CASE status = "running" /\ Key
      BY <2>1, <2>2, KeyDraws
    <2>3. CASE status = "running" /\ Call /\ UNCHANGED setup
      <3>1. UNCHANGED <<active_tty, tty, vga, status>>
        BY <2>3, CallTypes
      <3> QED
        BY <2>1, <3>1 DEF DisplayIsCurrent, Covered
    <2>4. CASE status = "running" /\ Tick
      BY <2>1, <2>4, TickCases, TickDraws
    <2>5. CASE UNCHANGED consoleVars
      BY <2>1, <2>5 DEF consoleVars, ttyVars, DisplayIsCurrent, Covered
    <2> QED
      BY <2>2, <2>3, <2>4, <2>5 DEF ConsoleNext
  <1> QED
    BY <1>1, <1>2, PTL DEF ConsoleSpec

\* The cells of a TTY.
LEMMA TtyCells ==
    ASSUME NEW x \in 0 .. (TTY_WIDTH - 1), NEW y \in 0 .. (TTY_HEIGHT - 1)
    PROVE  /\ x + y * TTY_WIDTH \in Cells
           /\ \A a \in 0 .. (TTY_WIDTH - 1), b \in 0 .. (TTY_HEIGHT - 1) :
                  x + y * TTY_WIDTH = a + b * TTY_WIDTH => x = a /\ y = b
           /\ x + y * TTY_WIDTH + TTY_WIDTH \in Cells <=> y # TTY_HEIGHT - 1
           /\ x + y * TTY_WIDTH + TTY_WIDTH = x + (y + 1) * TTY_WIDTH
  <1>0. /\ TTY_WIDTH = VGA_WIDTH /\ TTY_HEIGHT = VGA_HEIGHT /\ Screen = Cells
        /\ TTY_WIDTH \in Nat /\ TTY_HEIGHT \in Nat /\ TTY_WIDTH > 0 /\ TTY_HEIGHT > 0
    BY Sizes
  <1>1. x + y * TTY_WIDTH \in Cells
    BY <1>0, CellOf
  <1>2. \A a \in 0 .. (TTY_WIDTH - 1), b \in 0 .. (TTY_HEIGHT - 1) :
            x + y * TTY_WIDTH = a + b * TTY_WIDTH => x = a /\ y = b
    <2> TAKE a \in 0 .. (TTY_WIDTH - 1), b \in 0 .. (TTY_HEIGHT - 1)
    <2> HAVE x + y * TTY_WIDTH = a + b * TTY_WIDTH
    <2>1. y \in Nat /\ b \in Nat
      BY <1>0
    <2> QED
      BY <1>0, <2>1, CellsDiffer
  <1>3. x + y * TTY_WIDTH + TTY_WIDTH = x + (y + 1) * TTY_WIDTH
    BY <1>0
  <1>4. CASE y # TTY_HEIGHT - 1
    <2>1. y + 1 \in 0 .. (TTY_HEIGHT - 1)
      BY <1>0, <1>4
    <2>2. x + (y + 1) * TTY_WIDTH \in Cells
      BY <1>0, <2>1, CellOf
    <2> QED
      BY <1>1, <1>2, <1>3, <1>4, <2>2
  <1>5. CASE y = TTY_HEIGHT - 1
    <2>1. x + (y + 1) * TTY_WIDTH = x + TTY_HEIGHT * TTY_WIDTH
          /\ TTY_HEIGHT * TTY_WIDTH = TTY_WIDTH * TTY_HEIGHT /\ TTY_WIDTH * TTY_HEIGHT \in Nat
      BY <1>0, <1>5
    <2>2. x + (y + 1) * TTY_WIDTH \notin Cells
      BY <1>0, <2>1 DEF Cells
    <2> QED
      BY <1>1, <1>2, <1>3, <1>5, <2>2
  <1> QED
    BY <1>4, <1>5

-----------------------------------------------------------------------------
(***************************************************************************)
(* The lines of a text.                                                    *)
(***************************************************************************)

Text == {l \in Seq(Seq(Bytes)) : Len(l) >= 1}

\* The first line on the screen is the one after this.
Gone(lines) == IF Len(lines) > TTY_HEIGHT THEN Len(lines) - TTY_HEIGHT ELSE 0

Narrow(lines) == \A i \in DOMAIN lines : Len(lines[i]) <= TTY_WIDTH

\* TTY u shows the lines, and its cursor is behind the last of them.
Shows(u, lines) ==
    /\ u.inside
    /\ u.pos_y = Len(lines) - 1 - Gone(lines)
    /\ u.pos_x = Len(lines[Len(lines)])
    /\ \A x \in 0 .. (TTY_WIDTH - 1), y \in 0 .. (TTY_HEIGHT - 1) :
           u.buf[x + y * TTY_WIDTH] \in Expected(lines, x, y)

LEMMA ExpectedIs ==
    ASSUME NEW lines, NEW x, NEW y
    PROVE  Expected(lines, x, y) =
               IF Gone(lines) + y + 1 <= Len(lines) /\ x + 1 <= Len(lines[Gone(lines) + y + 1])
               THEN {lines[Gone(lines) + y + 1][x + 1]}
               ELSE {"NUL", " "}
  BY DEF Expected, Gone

LEMMA TextFacts ==
    ASSUME NEW l \in Text
    PROVE  /\ Len(l) \in Nat /\ Len(l) >= 1 /\ DOMAIN l = 1 .. Len(l)
           /\ \A i \in 1 .. Len(l) : l[i] \in Seq(Bytes) /\ Len(l[i]) \in Nat
           /\ Gone(l) \in Nat /\ Gone(l) < Len(l)
           /\ Len(l) - 1 - Gone(l) \in 0 .. (TTY_HEIGHT - 1)
  <1>1. l \in Seq(Seq(Bytes)) /\ Len(l) >= 1 /\ Len(l) \in Nat
    BY DEF Text
  <1>2. \A i \in 1 .. Len(l) : l[i] \in Seq(Bytes)
    BY <1>1
  <1>3. TTY_HEIGHT \in Nat /\ TTY_HEIGHT > 0
    BY Sizes
  <1> QED
    BY <1>1, <1>2, <1>3 DEF Gone

LEMMA NewLine ==
    ASSUME NEW l \in Text
    PROVE  /\ NextLines(l, "NL") \in Text
           /\ Len(NextLines(l, "NL")) = Len(l) + 1
           /\ \A i \in 1 .. Len(l) : NextLines(l, "NL")[i] = l[i]
           /\ NextLines(l, "NL")[Len(l) + 1] = <<>>
  <1>1. l \in Seq(Seq(Bytes)) /\ Len(l) >= 1 /\ <<>> \in Seq(Bytes)
    BY DEF Text
  <1> DEFINE e == <<>>
  <1>2. NextLines(l, "NL") = Append(l, e) /\ e \in Seq(Bytes)
    BY <1>1 DEF NextLines
  <1>h. e = <<>>
    OBVIOUS
  <1> HIDE DEF e
  <1>3. /\ Append(l, e) \in Seq(Seq(Bytes)) /\ Len(Append(l, e)) = Len(l) + 1
        /\ \A i \in 1 .. Len(l) : Append(l, e)[i] = l[i]
        /\ Append(l, e)[Len(l) + 1] = e
    BY <1>1, <1>2
  <1>4. Len(Append(l, e)) >= 1
    BY <1>1, <1>3
  <1> QED
    BY <1>2, <1>3, <1>4, <1>h DEF Text

LEMMA NewChar ==
    ASSUME NEW l \in Text, NEW b \in Bytes, b # "NL"
    PROVE  /\ NextLines(l, b) \in Text
           /\ Len(NextLines(l, b)) = Len(l)
           /\ \A i \in 1 .. Len(l) : i # Len(l) => NextLines(l, b)[i] = l[i]
           /\ NextLines(l, b)[Len(l)] = Append(l[Len(l)], b)
  <1>1. l \in Seq(Seq(Bytes)) /\ Len(l) >= 1 /\ Len(l) \in Nat /\ Len(l) \in 1 .. Len(l)
    BY DEF Text
  <1>2. l[Len(l)] \in Seq(Bytes)
    BY <1>1
  <1> DEFINE a == Append(l[Len(l)], b)
  <1>3. a \in Seq(Bytes)
    BY <1>2
  <1>4. NextLines(l, b) = [l EXCEPT ![Len(l)] = a]
    BY DEF NextLines
  <1> HIDE DEF a
  <1>5. [l EXCEPT ![Len(l)] = a] \in Seq(Seq(Bytes)) /\ Len([l EXCEPT ![Len(l)] = a]) = Len(l)
        /\ [l EXCEPT ![Len(l)] = a][Len(l)] = a
        /\ \A i \in 1 .. Len(l) : i # Len(l) => [l EXCEPT ![Len(l)] = a][i] = l[i]
    BY <1>1, <1>3
  <1> QED
    BY <1>1, <1>4, <1>5 DEF Text, a

LEMMA NextLinesFacts ==
    ASSUME NEW l \in Text, NEW b \in Bytes
    PROVE  /\ NextLines(l, b) \in Text
           /\ Narrow(NextLines(l, b)) => Narrow(l)
  <1>1. CASE b = "NL"
    <2>1. /\ NextLines(l, b) \in Text /\ Len(NextLines(l, b)) = Len(l) + 1
          /\ \A i \in 1 .. Len(l) : NextLines(l, b)[i] = l[i]
      BY <1>1, NewLine
    <2>2. DOMAIN l = 1 .. Len(l) /\ DOMAIN NextLines(l, b) = 1 .. (Len(l) + 1) /\ Len(l) \in Nat
      BY <2>1, TextFacts
    <2>3. \A i \in 1 .. Len(l) : i \in 1 .. (Len(l) + 1)
      BY <2>2
    <2> QED
      BY <2>1, <2>2, <2>3 DEF Narrow
  <1>2. CASE b # "NL"
    <2> DEFINE m == NextLines(l, b)
    <2>1. /\ m \in Text /\ Len(m) = Len(l)
          /\ \A i \in 1 .. Len(l) : i # Len(l) => m[i] = l[i]
          /\ m[Len(l)] = Append(l[Len(l)], b)
      BY <1>2, NewChar
    <2>2. DOMAIN l = 1 .. Len(l) /\ DOMAIN m = 1 .. Len(l) /\ Len(l) \in Nat
          /\ Len(l) \in 1 .. Len(l) /\ l[Len(l)] \in Seq(Bytes)
      BY <2>1, TextFacts
    <2> HIDE DEF m
    <2>3. Len(m[Len(l)]) = Len(l[Len(l)]) + 1 /\ Len(l[Len(l)]) \in Nat
      <3> DEFINE q == l[Len(l)]
      <3>1. q \in Seq(Bytes) /\ m[Len(l)] = Append(q, b)
        BY <2>1, <2>2
      <3> HIDE DEF q
      <3>2. Len(Append(q, b)) = Len(q) + 1 /\ Len(q) \in Nat
        BY <3>1
      <3> QED
        BY <3>1, <3>2 DEF q
    <2>4. TTY_WIDTH \in Nat
      BY Sizes
    <2>5. ASSUME Narrow(m), NEW i \in 1 .. Len(l) PROVE Len(l[i]) <= TTY_WIDTH
      <3>1. Len(m[i]) <= TTY_WIDTH
        BY <2>2, <2>5 DEF Narrow
      <3>2. CASE i # Len(l)
        BY <2>1, <3>1, <3>2
      <3>3. CASE i = Len(l)
        BY <2>3, <2>4, <3>1, <3>3
      <3> QED
        BY <3>2, <3>3
    <2> QED
      BY <2>1, <2>2, <2>5 DEF Narrow, m
  <1> QED
    BY <1>1, <1>2

\* A line end: the cursor goes to the next line, which is empty, and at the last line of the
\* screen the lines move up.
LEMMA ShowsNewLine ==
    ASSUME NEW u \in TtyRecord, NEW l \in Text, Shows(u, l)
    PROVE  Shows(tty_update(u, "NL"), NextLines(l, "NL"))
  <1> DEFINE m == NextLines(l, "NL")
             v == tty_update(u, "NL")
             n == Len(l)
             p == u.pos_y + 1
  <1>1. /\ m \in Text /\ Len(m) = n + 1 /\ (\A i \in 1 .. n : m[i] = l[i])
        /\ m[n + 1] = <<>>
    BY NewLine
  <1>2. /\ n \in Nat /\ n >= 1 /\ Gone(l) \in Nat /\ Gone(l) < n
        /\ n - 1 - Gone(l) \in 0 .. (TTY_HEIGHT - 1)
    BY TextFacts
  <1>3. /\ TTY_WIDTH \in Nat /\ TTY_HEIGHT \in Nat /\ TTY_WIDTH > 0 /\ TTY_HEIGHT > 0
        /\ TTY_HEIGHT - 1 \in Nat
    BY Sizes
  <1>4. u.inside /\ u.pos_y = n - 1 - Gone(l)
    BY DEF Shows
  <1>5. v = [Scrolled([u EXCEPT !.pos_y = p, !.pos_x = 0]) EXCEPT !.refresh = TRUE]
    BY DEF tty_update, Moved
  <1>6. p \in Nat /\ p = n - Gone(l)
    BY <1>2, <1>4
  <1> HIDE DEF m, v, p
  <1> DEFINE w == [u EXCEPT !.pos_y = p, !.pos_x = 0]
  <1>7. w \in TtyRecord /\ w.pos_y = p /\ w.pos_x = 0 /\ w.buf = u.buf /\ w.inside = u.inside
    BY <1>6, TtyFields DEF TtyRecord
  <1>8. v = [Scrolled(w) EXCEPT !.refresh = TRUE]
    BY <1>5
  <1> HIDE DEF w
  <1>9. Len(m[Len(m)]) = 0
    BY <1>1
  <1>10. CASE p < TTY_HEIGHT
    <2>1. v.inside /\ v.pos_y = p /\ v.pos_x = 0 /\ v.buf = u.buf
      BY <1>4, <1>7, <1>8, <1>10 DEF Scrolled, TtyRecord
    <2>2. Gone(l) = 0 /\ Gone(m) = 0
      BY <1>1, <1>2, <1>3, <1>6, <1>10 DEF Gone
    <2>3. v.pos_y = Len(m) - 1 - Gone(m) /\ v.pos_x = Len(m[Len(m)])
      BY <1>1, <1>2, <1>6, <1>9, <2>1, <2>2
    <2>4. ASSUME NEW x \in 0 .. (TTY_WIDTH - 1), NEW y \in 0 .. (TTY_HEIGHT - 1)
          PROVE  Expected(m, x, y) = Expected(l, x, y)
      <3>0. x \in Nat /\ y \in Nat
        BY <1>3
      <3>1. CASE y + 1 <= n
        <4>1. m[y + 1] = l[y + 1] /\ y + 1 <= n + 1 /\ 0 + y + 1 = y + 1
          BY <1>1, <1>2, <3>0, <3>1
        <4> QED
          BY <1>1, <2>2, <3>1, <4>1, ExpectedIs
      <3>2. CASE y + 1 = n + 1
        <4>1. Len(m[y + 1]) = 0 /\ 0 + y + 1 = y + 1 /\ ~(x + 1 <= 0) /\ ~(y + 1 <= n)
          BY <1>1, <1>2, <3>0, <3>2
        <4> QED
          BY <1>1, <2>2, <4>1, ExpectedIs
      <3>3. CASE y + 1 > n + 1
        <4>1. ~(0 + y + 1 <= n) /\ ~(0 + y + 1 <= n + 1)
          BY <1>2, <3>0, <3>3
        <4> QED
          BY <1>1, <2>2, <4>1, ExpectedIs
      <3> QED
        BY <1>2, <3>0, <3>1, <3>2, <3>3
    <2>5. \A x \in 0 .. (TTY_WIDTH - 1), y \in 0 .. (TTY_HEIGHT - 1) :
              v.buf[x + y * TTY_WIDTH] \in Expected(m, x, y)
      BY <2>1, <2>4 DEF Shows
    <2> QED
      BY <2>1, <2>3, <2>5 DEF Shows, m, v
  <1>11. CASE ~(p < TTY_HEIGHT)
    <2> DEFINE b == [c \in Cells |-> IF c + TTY_WIDTH \in Cells THEN u.buf[c + TTY_WIDTH] ELSE " "]
    <2>1. Scrolled(w) = [w EXCEPT !.buf = b, !.pos_y = TTY_HEIGHT - 1]
      BY <1>7, <1>11 DEF Scrolled
    <2>b. \A c \in Cells : b[c] = IF c + TTY_WIDTH \in Cells THEN u.buf[c + TTY_WIDTH] ELSE " "
      OBVIOUS
    <2> HIDE DEF b
    <2>2. v.inside /\ v.pos_y = TTY_HEIGHT - 1 /\ v.pos_x = 0 /\ v.buf = b
      BY <1>4, <1>7, <1>8, <2>1 DEF TtyRecord
    <2>3. p = TTY_HEIGHT /\ Gone(l) = n - TTY_HEIGHT /\ n >= TTY_HEIGHT
          /\ Gone(m) = n + 1 - TTY_HEIGHT
      BY <1>1, <1>2, <1>3, <1>6, <1>11 DEF Gone
    <2>4. v.pos_y = Len(m) - 1 - Gone(m) /\ v.pos_x = Len(m[Len(m)])
      BY <1>1, <1>2, <1>3, <1>9, <2>2, <2>3
    <2>5. ASSUME NEW x \in 0 .. (TTY_WIDTH - 1), NEW y \in 0 .. (TTY_HEIGHT - 1)
          PROVE  v.buf[x + y * TTY_WIDTH] \in Expected(m, x, y)
      <3>0. x \in Nat /\ y \in Nat /\ y <= TTY_HEIGHT - 1
        BY <1>3
      <3> DEFINE c == x + y * TTY_WIDTH
      <3>1. /\ c \in Cells
            /\ c + TTY_WIDTH \in Cells <=> y # TTY_HEIGHT - 1
            /\ c + TTY_WIDTH = x + (y + 1) * TTY_WIDTH
        BY TtyCells
      <3> HIDE DEF c
      <3>2. v.buf[c] = IF y # TTY_HEIGHT - 1 THEN u.buf[c + TTY_WIDTH] ELSE " "
        BY <2>2, <2>b, <3>1
      <3>3. CASE y # TTY_HEIGHT - 1
        <4>1. y + 1 \in 0 .. (TTY_HEIGHT - 1)
          BY <1>3, <3>3
        <4>2. u.buf[x + (y + 1) * TTY_WIDTH] \in Expected(l, x, y + 1)
          BY <4>1 DEF Shows
        <4>3. /\ Gone(m) + y + 1 = Gone(l) + (y + 1) + 1
              /\ Gone(m) + y + 1 \in 1 .. n
          BY <1>2, <1>3, <2>3, <3>0, <3>3
        <4>4. m[Gone(m) + y + 1] = l[Gone(l) + (y + 1) + 1]
              /\ Gone(m) + y + 1 <= n + 1 /\ Gone(l) + (y + 1) + 1 <= n
          BY <1>1, <1>2, <4>3
        <4>5. Expected(m, x, y) = Expected(l, x, y + 1)
          BY <1>1, <4>4, ExpectedIs
        <4> QED
          BY <3>1, <3>2, <3>3, <4>2, <4>5 DEF c
      <3>4. CASE y = TTY_HEIGHT - 1
        <4>1. Gone(m) + y + 1 = n + 1
          BY <1>2, <1>3, <2>3, <3>0, <3>4
        <4>2. ~(x + 1 <= Len(m[n + 1]))
          BY <1>1, <3>0
        <4>3. Expected(m, x, y) = {"NUL", " "}
          BY <4>1, <4>2, ExpectedIs
        <4> QED
          BY <3>2, <3>4, <4>3 DEF c
      <3> QED
        BY <3>3, <3>4
    <2> QED
      BY <2>2, <2>4, <2>5 DEF Shows, m, v
  <1> QED
    BY <1>10, <1>11

\* A character that fits the line.
LEMMA ShowsChar ==
    ASSUME NEW u \in TtyRecord, NEW l \in Text, Shows(u, l), NEW b \in Glyphs,
           Narrow(NextLines(l, b))
    PROVE  Shows(tty_update(u, b), NextLines(l, b))
  <1> DEFINE m == NextLines(l, b)
             v == tty_update(u, b)
             n == Len(l)
             k == Cursor(u)
             last == l[n]
  <1>0. b \in Bytes /\ b \notin {"TAB", "BS", "CR", "NL"}
    BY DEF Glyphs
  <1>1. /\ m \in Text /\ Len(m) = n /\ (\A i \in 1 .. n : i # n => m[i] = l[i])
        /\ m[n] = Append(last, b)
    BY <1>0, NewChar
  <1>2. /\ n \in Nat /\ n >= 1 /\ Gone(l) \in Nat /\ Gone(l) < n
        /\ n - 1 - Gone(l) \in 0 .. (TTY_HEIGHT - 1)
        /\ n \in 1 .. n /\ last \in Seq(Bytes) /\ Len(last) \in Nat
    BY TextFacts
  <1>3. /\ TTY_WIDTH \in Nat /\ TTY_HEIGHT \in Nat /\ TTY_WIDTH > 0 /\ TTY_HEIGHT > 0
    BY Sizes
  <1>4. /\ u.inside /\ u.pos_y = n - 1 - Gone(l) /\ u.pos_x = Len(last)
        /\ \A x \in 0 .. (TTY_WIDTH - 1), y \in 0 .. (TTY_HEIGHT - 1) :
               u.buf[x + y * TTY_WIDTH] \in Expected(l, x, y)
    BY DEF Shows
  <1>5. v = [Scrolled(Stored(u, b)) EXCEPT !.refresh = TRUE]
    BY <1>0 DEF tty_update, Moved
  <1>d. DOMAIN m = 1 .. n /\ k = u.pos_x + u.pos_y * TTY_WIDTH
    BY <1>1, TextFacts DEF Cursor
  <1>n. Narrow(m)
    OBVIOUS
  <1> HIDE DEF m, v, k, last
  <1>6. /\ Len(m[n]) = Len(last) + 1 /\ m[n][Len(last) + 1] = b
        /\ \A i \in 1 .. Len(last) : m[n][i] = last[i]
    BY <1>0, <1>1, <1>2
  <1>7. Len(last) + 1 <= TTY_WIDTH
    BY <1>2, <1>6, <1>d, <1>n DEF Narrow
  <1>8. u.pos_x \in 0 .. (TTY_WIDTH - 1) /\ u.pos_y \in 0 .. (TTY_HEIGHT - 1)
    BY <1>2, <1>3, <1>4, <1>7
  <1>9. k \in Cells
    BY <1>8, <1>d, TtyCells
  <1>10. u.buf \in [Cells -> Glyphs] /\ u.pos_x \in Nat
    BY TtyFields
  <1> DEFINE f == [u.buf EXCEPT ![k] = b]
             w == [u EXCEPT !.buf = f, !.pos_x = u.pos_x + 1]
  <1>11. Stored(u, b) = w
    BY <1>9 DEF Stored, TtyRecord, k
  <1>12. \A c \in Cells : f[c] = IF c = k THEN b ELSE u.buf[c]
    BY <1>9, <1>10
  <1> HIDE DEF f
  <1>13. /\ w.buf = f /\ w.pos_x = u.pos_x + 1 /\ w.pos_y = u.pos_y /\ w.inside = u.inside
         /\ [w EXCEPT !.refresh = TRUE].buf = w.buf
         /\ [w EXCEPT !.refresh = TRUE].pos_x = w.pos_x
         /\ [w EXCEPT !.refresh = TRUE].pos_y = w.pos_y
         /\ [w EXCEPT !.refresh = TRUE].inside = w.inside
    BY DEF TtyRecord
  <1> HIDE DEF w
  <1>14. Scrolled(w) = w
    BY <1>3, <1>8, <1>13 DEF Scrolled
  <1>15. v.inside /\ v.pos_y = u.pos_y /\ v.pos_x = u.pos_x + 1 /\ v.buf = f
    BY <1>4, <1>5, <1>11, <1>13, <1>14
  <1>16. Gone(m) = Gone(l)
    BY <1>1 DEF Gone
  <1>17. v.pos_y = Len(m) - 1 - Gone(m) /\ v.pos_x = Len(m[Len(m)])
    BY <1>1, <1>4, <1>6, <1>15, <1>16
  <1>18. ASSUME NEW x \in 0 .. (TTY_WIDTH - 1), NEW y \in 0 .. (TTY_HEIGHT - 1)
         PROVE  v.buf[x + y * TTY_WIDTH] \in Expected(m, x, y)
    <2> DEFINE c == x + y * TTY_WIDTH
               j == Gone(l) + y + 1
    <2>0. x \in Nat /\ y \in Nat /\ j \in Nat /\ j >= 1
      BY <1>2, <1>3
    <2>1. c \in Cells /\ (c = k => x = u.pos_x /\ y = u.pos_y)
      BY <1>8, <1>d, TtyCells
    <2>2. u.buf[c] \in Expected(l, x, y)
      BY <1>4
    <2>3. v.buf[c] = IF c = k THEN b ELSE u.buf[c]
      BY <1>12, <1>15, <2>1
    <2>4. j = n <=> y = u.pos_y
      BY <1>2, <1>4, <2>0
    <2>5. /\ Expected(l, x, y) =
                 IF j <= n /\ x + 1 <= Len(l[j]) THEN {l[j][x + 1]} ELSE {"NUL", " "}
          /\ Expected(m, x, y) =
                 IF j <= n /\ x + 1 <= Len(m[j]) THEN {m[j][x + 1]} ELSE {"NUL", " "}
      BY <1>1, <1>16, ExpectedIs
    <2>6. c = x + y * TTY_WIDTH
      OBVIOUS
    <2> HIDE DEF c, j
    <2>7. CASE j # n
      <3>1. c # k
        BY <2>1, <2>4, <2>7
      <3>2. j <= n => m[j] = l[j]
        BY <1>1, <1>2, <2>0, <2>7
      <3> QED
        BY <2>2, <2>3, <2>5, <2>6, <3>1, <3>2
    <2>8. CASE j = n
      <3>0. y = u.pos_y /\ l[j] = last
        BY <2>4, <2>8 DEF last
      <3>1. CASE x = u.pos_x
        <4>1. c = k
          BY <1>d, <2>6, <3>0, <3>1
        <4>2. x + 1 = Len(last) + 1
          BY <1>4, <3>1
        <4>3. Expected(m, x, y) = {b}
          <5>1. m[j][x + 1] = b
            BY <1>6, <2>8, <4>2
          <5>2. j <= n /\ x + 1 <= Len(m[j])
            BY <1>2, <1>6, <2>8, <4>2
          <5> QED
            BY <2>5, <5>1, <5>2
        <4> QED
          BY <2>3, <2>6, <4>1, <4>3
      <3>2. CASE x # u.pos_x
        <4>1. c # k
          BY <2>1, <3>2
        <4>2. x + 1 <= Len(m[n]) <=> x + 1 <= Len(last)
          BY <1>2, <1>4, <1>6, <2>0, <3>2
        <4>3. x + 1 <= Len(last) => m[n][x + 1] = last[x + 1]
          BY <1>2, <1>6, <2>0
        <4>4. Expected(m, x, y) = Expected(l, x, y)
          BY <2>5, <2>8, <3>0, <4>2, <4>3
        <4> QED
          BY <2>2, <2>3, <2>6, <4>1, <4>4
      <3> QED
        BY <3>1, <3>2
    <2> QED
      BY <2>7, <2>8
  <1> QED
    BY <1>15, <1>17, <1>18 DEF Shows, m, v

Empty == << <<>> >>

LEMMA EmptyIsText == Empty \in Text /\ Len(Empty) = 1 /\ Len(Empty[1]) = 0
  <1> DEFINE e == <<>>
  <1>1. e \in Seq(Bytes) /\ Len(e) = 0
    OBVIOUS
  <1>2. Empty = <<e>>
    BY DEF Empty
  <1> HIDE DEF e
  <1>3. <<e>> \in Seq(Seq(Bytes)) /\ Len(<<e>>) = 1 /\ <<e>>[1] = e
    BY <1>1
  <1> QED
    BY <1>1, <1>2, <1>3 DEF Text

LEMMA LinesIs ==
    ASSUME NEW text
    PROVE  Lines(text) = LinesAfter(Empty, text)
  BY DEF Lines, LinesAfter, Empty

LEMMA LinesClose == LineCloses(Text, Bytes)
  BY NextLinesFacts DEF LineCloses

LEMMA LinesTypes ==
    ASSUME NEW text \in Seq(Bytes)
    PROVE  Lines(text) \in Text
  <1>1. PICK c : LineSteps(c, Text, Empty, text)
    BY LinesClose, EmptyIsText, LinesChain
  <1>2. c \in [0 .. Len(text) -> Text] /\ c[Len(text)] = LinesAfter(Empty, text)
        /\ Len(text) \in Nat
    BY <1>1 DEF LineSteps
  <1> QED
    BY <1>2, LinesIs

\* The lines of a text that goes on.
LEMMA LinesAppend ==
    ASSUME NEW p \in Seq(Bytes), NEW s \in Seq(Bytes)
    PROVE  Lines(p \o s) = LinesAfter(Lines(p), s)
  <1> DEFINE q == p \o s
             np == Len(p)
             ns == Len(s)
             mid == Lines(p)
  <1>1. /\ np \in Nat /\ ns \in Nat /\ q \in Seq(Bytes) /\ Len(q) = np + ns
        /\ \A i \in 1 .. np : q[i] = p[i]
        /\ \A i \in 1 .. ns : q[np + i] = s[i]
    OBVIOUS
  <1>2. mid \in Text
    BY LinesTypes
  <1> HIDE DEF q, mid
  <1>3. PICK a : LineSteps(a, Text, Empty, p)
    BY LinesClose, EmptyIsText, LinesChain
  <1>4. PICK e : LineSteps(e, Text, Empty, q)
    BY <1>1, LinesClose, EmptyIsText, LinesChain
  <1>5. PICK c : LineSteps(c, Text, mid, s)
    BY <1>2, LinesClose, LinesChain
  <1> HIDE DEF np, ns
  <1>6. /\ a[0] = Empty /\ a[np] = mid
        /\ \A k \in 0 .. np - 1 : a[k + 1] = NextLines(a[k], p[k + 1])
    BY <1>3, LinesIs DEF LineSteps, np, mid
  <1>7. /\ e[0] = Empty /\ e[np + ns] = Lines(q)
        /\ \A k \in 0 .. (np + ns) - 1 : e[k + 1] = NextLines(e[k], q[k + 1])
    BY <1>1, <1>4, LinesIs DEF LineSteps
  <1>8. /\ c[0] = mid /\ c[ns] = LinesAfter(mid, s)
        /\ \A k \in 0 .. ns - 1 : c[k + 1] = NextLines(c[k], s[k + 1])
    BY <1>5 DEF LineSteps, ns
  <1> DEFINE S == {k \in Nat : k <= np => e[k] = a[k]}
  <1>9. 0 \in S
    BY <1>6, <1>7
  <1>10. ASSUME NEW k \in S PROVE k + 1 \in S
    <2> SUFFICES ASSUME k + 1 <= np PROVE e[k + 1] = a[k + 1]
      OBVIOUS
    <2>1. k \in 0 .. np - 1 /\ k \in 0 .. (np + ns) - 1 /\ k + 1 \in 1 .. np /\ e[k] = a[k]
      BY <1>1
    <2>2. q[k + 1] = p[k + 1]
      BY <1>1, <2>1
    <2> QED
      BY <1>6, <1>7, <2>1, <2>2
  <1>11. \A k \in Nat : k \in S
    <2>1. S \in SUBSET Nat
      OBVIOUS
    <2> HIDE DEF S
    <2> QED
      BY <1>9, <1>10, <2>1, SetInduction
  <1>12. e[np] = mid
    <2>1. np \in S /\ np <= np
      BY <1>1, <1>11
    <2>2. e[np] = a[np]
      BY <2>1
    <2> QED
      BY <1>6, <2>2
  <1> DEFINE T == {k \in Nat : k <= ns => e[np + k] = c[k]}
  <1>13. 0 \in T
    BY <1>1, <1>8, <1>12
  <1>14. ASSUME NEW k \in T PROVE k + 1 \in T
    <2> SUFFICES ASSUME k + 1 <= ns PROVE e[np + (k + 1)] = c[k + 1]
      OBVIOUS
    <2>1. /\ k \in 0 .. ns - 1 /\ np + k \in 0 .. (np + ns) - 1 /\ k + 1 \in 1 .. ns
          /\ e[np + k] = c[k] /\ (np + k) + 1 = np + (k + 1)
      BY <1>1
    <2>2. q[np + (k + 1)] = s[k + 1]
      BY <1>1, <2>1
    <2>3. e[(np + k) + 1] = NextLines(e[np + k], q[(np + k) + 1])
      BY <1>7, <2>1
    <2>4. c[k + 1] = NextLines(c[k], s[k + 1])
      BY <1>8, <2>1
    <2> QED
      BY <2>1, <2>2, <2>3, <2>4
  <1>15. \A k \in Nat : k \in T
    <2>1. T \in SUBSET Nat
      OBVIOUS
    <2> HIDE DEF T
    <2> QED
      BY <1>13, <1>14, <2>1, SetInduction
  <1>16. e[np + ns] = c[ns]
    BY <1>1, <1>15
  <1> QED
    BY <1>7, <1>8, <1>16 DEF q, mid

\* What a TTY shows after the characters of s, when it showed the lines l before.
LEMMA ShowsAfter ==
    ASSUME NEW u \in TtyRecord, NEW l \in Text, NEW s \in Seq(Bytes),
           \A k \in 1 .. Len(s) : s[k] \notin {"TAB", "BS", "CR"},
           Narrow(l) => Shows(u, l), Narrow(LinesAfter(l, s))
    PROVE  Shows(Updated(u, s), LinesAfter(l, s))
  <1>0. Len(s) \in Nat /\ \A k \in 1 .. Len(s) : s[k] \in Bytes
    OBVIOUS
  <1>1. UpdateCloses(TtyRecord, Bytes)
    BY UpdateTypes DEF UpdateCloses
  <1>p. PICK a : UpdateSteps(a, TtyRecord, u, s)
    BY <1>1, DrainChain
  <1>2. /\ a \in [0 .. Len(s) -> TtyRecord] /\ a[0] = u /\ a[Len(s)] = Updated(u, s)
        /\ \A k \in 0 .. Len(s) - 1 : a[k + 1] = tty_update(a[k], s[k + 1])
    BY <1>p DEF UpdateSteps
  <1>q. PICK c : LineSteps(c, Text, l, s)
    BY LinesClose, LinesChain
  <1>3. /\ c \in [0 .. Len(s) -> Text] /\ c[0] = l /\ c[Len(s)] = LinesAfter(l, s)
        /\ \A k \in 0 .. Len(s) - 1 : c[k + 1] = NextLines(c[k], s[k + 1])
    BY <1>q DEF LineSteps
  <1> DEFINE T == {k \in Nat : k <= Len(s) => (Narrow(c[k]) => Shows(a[k], c[k]))}
  <1>4. 0 \in T
    BY <1>2, <1>3
  <1>5. ASSUME NEW k \in T PROVE k + 1 \in T
    <2> SUFFICES ASSUME k + 1 <= Len(s), Narrow(c[k + 1]) PROVE Shows(a[k + 1], c[k + 1])
      OBVIOUS
    <2>1. /\ k \in 0 .. Len(s) - 1 /\ k + 1 \in 1 .. Len(s) /\ k <= Len(s) /\ k \in 0 .. Len(s)
      BY <1>0
    <2> DEFINE b == s[k + 1]
    <2>2. /\ a[k + 1] = tty_update(a[k], b) /\ c[k + 1] = NextLines(c[k], b)
          /\ a[k] \in TtyRecord /\ c[k] \in Text /\ b \in Bytes /\ b \notin {"TAB", "BS", "CR"}
      BY <1>0, <1>2, <1>3, <2>1
    <2> HIDE DEF b
    <2>3. Narrow(c[k])
      BY <2>2, NextLinesFacts
    <2>4. Shows(a[k], c[k])
      BY <2>1, <2>3
    <2>5. CASE b = "NL"
      BY <2>2, <2>4, <2>5, ShowsNewLine
    <2>6. CASE b # "NL"
      <3>1. b \in Glyphs /\ Narrow(NextLines(c[k], b))
        BY <2>2, <2>6 DEF Glyphs
      <3> QED
        BY <2>2, <2>4, <3>1, ShowsChar
    <2> QED
      BY <2>5, <2>6
  <1>6. \A k \in Nat : k \in T
    <2>1. T \in SUBSET Nat
      OBVIOUS
    <2> HIDE DEF T
    <2> QED
      BY <1>4, <1>5, <2>1, SetInduction
  <1>7. Narrow(c[Len(s)]) => Shows(a[Len(s)], c[Len(s)])
    BY <1>0, <1>6
  <1> QED
    BY <1>2, <1>3, <1>7

\* Narrow lines stay narrow only if they were.
LEMMA NarrowBefore ==
    ASSUME NEW l \in Text, NEW s \in Seq(Bytes), Narrow(LinesAfter(l, s))
    PROVE  Narrow(l)
  <1>0. Len(s) \in Nat /\ \A k \in 1 .. Len(s) : s[k] \in Bytes
    OBVIOUS
  <1>q. PICK c : LineSteps(c, Text, l, s)
    BY LinesClose, LinesChain
  <1>3. /\ c \in [0 .. Len(s) -> Text] /\ c[0] = l /\ c[Len(s)] = LinesAfter(l, s)
        /\ \A k \in 0 .. Len(s) - 1 : c[k + 1] = NextLines(c[k], s[k + 1])
    BY <1>q DEF LineSteps
  <1> DEFINE T == {k \in Nat : k <= Len(s) => (Narrow(c[k]) => Narrow(l))}
  <1>4. 0 \in T
    BY <1>3
  <1>5. ASSUME NEW k \in T PROVE k + 1 \in T
    <2> SUFFICES ASSUME k + 1 <= Len(s), Narrow(c[k + 1]) PROVE Narrow(l)
      OBVIOUS
    <2>1. /\ k \in 0 .. Len(s) - 1 /\ k + 1 \in 1 .. Len(s) /\ k <= Len(s) /\ k \in 0 .. Len(s)
      BY <1>0
    <2>2. c[k + 1] = NextLines(c[k], s[k + 1]) /\ c[k] \in Text /\ s[k + 1] \in Bytes
      BY <1>0, <1>3, <2>1
    <2>3. Narrow(c[k])
      BY <2>2, NextLinesFacts
    <2> QED
      BY <2>1, <2>3
  <1>6. \A k \in Nat : k \in T
    <2>1. T \in SUBSET Nat
      OBVIOUS
    <2> HIDE DEF T
    <2> QED
      BY <1>4, <1>5, <2>1, SetInduction
  <1> QED
    BY <1>0, <1>3, <1>6

-----------------------------------------------------------------------------
\* Each TTY shows the text it was sent.
TextShown ==
    \A t \in TTYs : Plain(printed[t]) /\ Narrow(Lines(printed[t]))
                    => Shows(tty[t], Lines(printed[t]))

LEMMA ShownIsEnough ==
    ASSUME ConsoleTypes, TextShown
    PROVE  ScreenShowsText
  BY DEF TextShown, ScreenShowsText, Shows, Narrow

\* Being drawn or selected does not change what is shown.
LEMMA ShowsKept ==
    ASSUME NEW u \in TtyRecord, NEW f \in BOOLEAN, NEW l
    PROVE  Shows([u EXCEPT !.refresh = f], l) <=> Shows(u, l)
  <1>1. /\ [u EXCEPT !.refresh = f].buf = u.buf
        /\ [u EXCEPT !.refresh = f].pos_x = u.pos_x
        /\ [u EXCEPT !.refresh = f].pos_y = u.pos_y
        /\ [u EXCEPT !.refresh = f].inside = u.inside
    BY DEF TtyRecord
  <1> QED
    BY <1>1 DEF Shows

LEMMA InitShows ==
    ASSUME ConsoleInit
    PROVE  TextShown
  <1> SUFFICES ASSUME NEW t \in TTYs PROVE Shows(tty[t], Lines(printed[t]))
    BY DEF TextShown
  <1> DEFINE u == tty[t]
             none == printed[t]
  <1>1. none = <<>>
    BY DEF ConsoleInit
  <1>2. Lines(none) = Empty
    <2>0. none \in Seq(Bytes)
      BY <1>1
    <2>1. PICK c : LineSteps(c, Text, Empty, none)
      BY <2>0, LinesClose, EmptyIsText, LinesChain
    <2>2. c[0] = Empty /\ c[Len(none)] = LinesAfter(Empty, none) /\ Len(none) = 0
      BY <1>1, <2>1 DEF LineSteps
    <2> QED
      BY <2>2, LinesIs
  <1>3. tty = [i \in TTYs |-> [ClearedTty EXCEPT !.refresh = (i = 0)]]
    BY DEF ConsoleInit, tty_init
  <1>4. u.inside /\ u.pos_x = 0 /\ u.pos_y = 0 /\ u.buf = [c \in Cells |-> "NUL"]
    BY <1>3 DEF ClearedTty
  <1> HIDE DEF u, none
  <1>5. TTY_HEIGHT \in Nat /\ TTY_HEIGHT > 0 /\ TTY_WIDTH \in Nat
    BY Sizes
  <1>6. Gone(Empty) = 0 /\ Len(Empty) = 1 /\ Len(Empty[1]) = 0
    BY <1>5, EmptyIsText DEF Gone
  <1>7. ASSUME NEW x \in 0 .. (TTY_WIDTH - 1), NEW y \in 0 .. (TTY_HEIGHT - 1)
        PROVE  u.buf[x + y * TTY_WIDTH] \in Expected(Empty, x, y)
    <2>1. u.buf[x + y * TTY_WIDTH] = "NUL"
      BY <1>4, TtyCells
    <2>2. x \in Nat /\ y \in Nat
      BY <1>5
    <2>3. ~(0 + y + 1 <= 1 /\ x + 1 <= Len(Empty[0 + y + 1]))
      <3>1. CASE y = 0
        BY <1>6, <2>2, <3>1
      <3>2. CASE y # 0
        BY <2>2, <3>2
      <3> QED
        BY <3>1, <3>2
    <2>4. Expected(Empty, x, y) = {"NUL", " "}
      BY <1>6, <2>3, ExpectedIs
    <2> QED
      BY <2>1, <2>4
  <1>8. Shows(u, Empty)
    BY <1>4, <1>6, <1>7 DEF Shows
  <1> QED
    BY <1>2, <1>8 DEF u, none

LEMMA SelectShows ==
    ASSUME ConsoleTypes, TextShown, PressDigit
    PROVE  TextShown'
  <1>1. PICK k : Selects(k) /\ tty_select(Digit[Decoded(k)]) /\ printed' = printed
    BY DEF PressDigit, historyVars
  <1> DEFINE n == Digit[Decoded(k)]
  <1>2. n \in TTYs
    BY <1>1, ConsoleAssumption DEF Selects
  <1>3. tty' = [tty EXCEPT ![n] = [tty[n] EXCEPT !.refresh = TRUE]]
    BY <1>1 DEF tty_select
  <1> HIDE DEF n
  <1>4. ASSUME NEW t \in TTYs, NEW l PROVE Shows(tty'[t], l) <=> Shows(tty[t], l)
    <2>1. CASE t = n
      BY <1>2, <1>3, <2>1, ShowsKept DEF ConsoleTypes
    <2>2. CASE t # n
      BY <1>2, <1>3, <2>2 DEF ConsoleTypes
    <2> QED
      BY <2>1, <2>2
  <1> QED
    BY <1>1, <1>4 DEF TextShown

\* tty_refresh takes what is in the output buffer of the selected TTY.
LEMMA RefreshShows ==
    ASSUME ConsoleTypes, TextShown, Refresh
    PROVE  TextShown'
  <1> DEFINE n == active_tty
             p == printed[n]
             s == io_output[n]
  <1>1. /\ n \in TTYs /\ tty[n] \in TtyRecord /\ p \in Seq(Bytes) /\ s \in Seq(Bytes)
        /\ tty \in [TTYs -> TtyRecord] /\ printed \in [TTYs -> Seq(Bytes)]
    BY DEF ConsoleTypes
  <1>2. /\ tty' = [tty EXCEPT ![n] = [Drained EXCEPT !.refresh = FALSE]]
        /\ printed' = [printed EXCEPT ![n] = p \o s]
    BY DEF Refresh, tty_refresh
  <1>3. Drained = Updated(tty[n], s)
    BY DEF Drained, Updated
  <1> SUFFICES ASSUME NEW t \in TTYs, Plain(printed'[t]), Narrow(Lines(printed'[t]))
               PROVE  Shows(tty'[t], Lines(printed'[t]))
    BY DEF TextShown
  <1>p. p = printed[n]
    OBVIOUS
  <1> HIDE DEF n, p, s
  <1>4. CASE t # n
    <2>1. tty'[t] = tty[t] /\ printed'[t] = printed[t]
      BY <1>1, <1>2, <1>4
    <2> QED
      BY <2>1 DEF TextShown
  <1>5. CASE t = n
    <2>1. tty'[t] = [Drained EXCEPT !.refresh = FALSE] /\ printed'[t] = p \o s
      BY <1>1, <1>2, <1>5
    <2>2. Lines(p \o s) = LinesAfter(Lines(p), s) /\ Lines(p) \in Text
      BY <1>1, LinesAppend, LinesTypes
    <2>3. Plain(p) /\ \A k \in 1 .. Len(s) : s[k] \notin {"TAB", "BS", "CR"}
      <3>1. Plain(p \o s)
        BY <2>1
      <3>2. /\ Len(p) \in Nat /\ Len(s) \in Nat /\ DOMAIN p = 1 .. Len(p)
            /\ DOMAIN (p \o s) = 1 .. (Len(p) + Len(s))
            /\ \A i \in 1 .. Len(p) : (p \o s)[i] = p[i]
            /\ \A i \in 1 .. Len(s) : (p \o s)[Len(p) + i] = s[i]
        BY <1>1
      <3>3. ASSUME NEW i \in 1 .. Len(p) PROVE p[i] \notin {"TAB", "BS", "CR"}
        <4>1. i \in DOMAIN (p \o s)
          BY <3>2
        <4> QED
          BY <3>1, <3>2, <4>1 DEF Plain
      <3>4. ASSUME NEW i \in 1 .. Len(s) PROVE s[i] \notin {"TAB", "BS", "CR"}
        <4>1. Len(p) + i \in DOMAIN (p \o s)
          BY <3>2
        <4> QED
          BY <3>1, <3>2, <4>1 DEF Plain
      <3> QED
        BY <3>2, <3>3, <3>4 DEF Plain
    <2>4. Narrow(LinesAfter(Lines(p), s))
      BY <2>1, <2>2
    <2>5. Narrow(Lines(p)) => Shows(tty[n], Lines(p))
      BY <1>1, <1>p, <2>3 DEF TextShown
    <2>6. Shows(Updated(tty[n], s), LinesAfter(Lines(p), s))
      BY <1>1, <2>2, <2>3, <2>4, <2>5, ShowsAfter
    <2>7. Drained \in TtyRecord
      BY DrainedFacts
    <2>8. Shows(Drained, Lines(p \o s))
      BY ONLY <1>3, <2>2, <2>6
    <2>9. Shows([Drained EXCEPT !.refresh = FALSE], Lines(p \o s))
      BY ONLY <2>7, <2>8, ShowsKept
    <2> QED
      BY ONLY <2>1, <2>9
  <1> QED
    BY <1>4, <1>5

\* Each TTY holds the last lines of what it was sent (tty.c:130 to 174), for every text,
\* every size of the screen and of the buffers, and every selection.
THEOREM ScreenIsRight == ConsoleSpec => []ScreenShowsText
  <1>1. ConsoleInit => ConsoleTypes /\ TextShown
    BY InitTypes, InitShows
  <1>2. ConsoleTypes /\ TextShown /\ [ConsoleNext]_consoleVars => (ConsoleTypes /\ TextShown)'
    <2> SUFFICES ASSUME ConsoleTypes, TextShown, [ConsoleNext]_consoleVars
                 PROVE  (ConsoleTypes /\ TextShown)'
      OBVIOUS
    <2>1. ConsoleTypes'
      BY TypesKept
    <2>2. CASE UNCHANGED <<tty, printed>>
      BY <2>1, <2>2 DEF TextShown
    <2>3. CASE PressDigit
      BY <2>1, <2>3, SelectShows
    <2>4. CASE PressModifier \/ ReleaseModifier \/ PressLock \/ PressEscape \/ PressCommand
               \/ PressCharacter
      BY <2>2, <2>4 DEF PressModifier, ReleaseModifier, PressLock, PressEscape, PressCommand,
           PressCharacter, ttyVars, historyVars, tty_input
    <2>5. CASE Call /\ UNCHANGED setup
      BY <2>2, <2>5, CallTypes
    <2>6. CASE Tick
      <3>1. PICK tick : Drawing(tick) \/ NotDrawing(tick)
        BY <2>6, TickCases
      <3> QED
        BY <2>1, <2>2, <3>1, RefreshShows DEF Drawing, NotDrawing
    <2>7. CASE UNCHANGED consoleVars
      BY <2>2, <2>7 DEF consoleVars, ttyVars, historyVars
    <2> QED
      BY <2>3, <2>4, <2>5, <2>6, <2>7 DEF ConsoleNext, Key
  <1>3. ConsoleTypes /\ TextShown => ScreenShowsText
    BY ShownIsEnough
  <1> QED
    BY <1>1, <1>2, <1>3, PTL DEF ConsoleSpec
=============================================================================
