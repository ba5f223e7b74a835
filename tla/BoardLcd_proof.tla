--------------------------- MODULE BoardLcd_proof ---------------------------
(***************************************************************************)
(* Proofs about Board: the LCD.  The nibbles of lcd_init() bring the       *)
(* controller in step from whatever state a killed program has left, a     *)
(* byte keeps it in step, and a print leaves its text on the line and      *)
(* nothing else, for every width of the line and every text.  From that    *)
(* follows LcdTruth, for every sequence of programs and wherever each of   *)
(* them is killed.                                                         *)
(***************************************************************************)
EXTENDS Board_proof

-----------------------------------------------------------------------------
(***************************************************************************)
(* The calls of lcd_init() and lcd_print().                                *)
(***************************************************************************)
\* The ten nibbles that InitBytes are sent as.
InitNibbles == <<3, 3, 3, 2, 2, 8, 0, 12, 0, 1>>

\* The calls of lcd_print() before those of the text.
PrintHead ==
  <<Select(0), Delay, Nibble(0), Nibble(1), Delay, Nibble(0), Nibble(2), Delay,
    Nibble(8), Nibble(0), Delay, Select(1)>>

\* A byte is two calls.
LEMMA TextLine ==
  ASSUME NEW t \in Seq(Bytes)
  PROVE  /\ lcd_bytes(t) \in Seq(Proper) /\ Len(lcd_bytes(t)) = 2 * Len(t)
         /\ \A i \in 0..(Len(t) - 1) : /\ lcd_bytes(t)[2 * i + 1] = Nibble(t[i + 1][1])
                                       /\ lcd_bytes(t)[2 * i + 2] = Nibble(t[i + 1][2])
  <1>1. Len(t) \in Nat /\ 2 * Len(t) \in Nat
    BY LenProperties
  <1>2. lcd_bytes(t) \in Seq(Proper)
    BY TextCalls, OthersAreCalls, SeqMonotonic
  <1>3. DOMAIN lcd_bytes(t) = 1..(2 * Len(t)) /\ DOMAIN lcd_bytes(t) = 1..Len(lcd_bytes(t))
    BY <1>2, LenProperties DEF lcd_bytes
  <1>4. Len(lcd_bytes(t)) = 2 * Len(t)
    BY <1>1, <1>2, <1>3, LenProperties
  <1>5. ASSUME NEW i \in 0..(Len(t) - 1)
        PROVE  /\ lcd_bytes(t)[2 * i + 1] = Nibble(t[i + 1][1])
               /\ lcd_bytes(t)[2 * i + 2] = Nibble(t[i + 1][2])
    <2>1. /\ 2 * i + 1 \in 1..(2 * Len(t)) /\ 2 * i + 2 \in 1..(2 * Len(t))
          /\ ((2 * i + 1) + 1) \div 2 = i + 1 /\ (2 * i + 1) % 2 = 1
          /\ ((2 * i + 2) + 1) \div 2 = i + 1 /\ (2 * i + 2) % 2 # 1
      BY <1>1
    <2>2. /\ lcd_bytes(t)[2 * i + 1] = lcd_byte(t[i + 1])[1]
          /\ lcd_bytes(t)[2 * i + 2] = lcd_byte(t[i + 1])[2]
      BY <2>1 DEF lcd_bytes
    <2>3. QED
      BY <2>2 DEF lcd_byte
  <1>6. QED
    BY <1>2, <1>4, <1>5

\* The calls of lcd_init().
LEMMA InitLine ==
  /\ lcd_init \in Seq(Proper) /\ Len(lcd_init) = 13
  /\ lcd_init[1] = PinModes /\ lcd_init[2] = Select(0) /\ lcd_init[13] = Delay
  /\ \A i \in 1..10 : lcd_init[i + 2] = Nibble(InitNibbles[i])
  <1> DEFINE a == <<PinModes>> \o SetCmdMode
             b == lcd_bytes(InitBytes)
             c == <<Delay>>
             d == a \o b
  <1>1. InitBytes \in Seq(Bytes) /\ Len(InitBytes) = 5
    BY DEF InitBytes, Bytes, Nibbles
  <1>2. /\ b \in Seq(Proper) /\ Len(b) = 10
        /\ \A i \in 1..10 : b[i] = Nibble(InitNibbles[i])
    <2> DEFINE n == Len(InitBytes)
    <2>1. /\ b \in Seq(Proper) /\ Len(b) = 2 * n
          /\ \A i \in 0..(n - 1) : /\ b[2 * i + 1] = Nibble(InitBytes[i + 1][1])
                                   /\ b[2 * i + 2] = Nibble(InitBytes[i + 1][2])
      BY <1>1, TextLine, Zenon
    <2> HIDE DEF b, n
    <2>2. /\ Len(b) = 10
          /\ \A i \in 0..4 : /\ b[2 * i + 1] = Nibble(InitBytes[i + 1][1])
                             /\ b[2 * i + 2] = Nibble(InitBytes[i + 1][2])
      <3>1. n = 5
        BY <1>1 DEF n
      <3>2. QED
        BY <2>1, <3>1
    <2>3. /\ b[1] = Nibble(3) /\ b[2] = Nibble(3) /\ b[3] = Nibble(3) /\ b[4] = Nibble(2)
          /\ b[5] = Nibble(2) /\ b[6] = Nibble(8) /\ b[7] = Nibble(0) /\ b[8] = Nibble(12)
          /\ b[9] = Nibble(0) /\ b[10] = Nibble(1)
      <3>1. /\ b[2 * 0 + 1] = Nibble(3) /\ b[2 * 0 + 2] = Nibble(3)
        BY <2>2 DEF InitBytes
      <3>2. /\ b[2 * 1 + 1] = Nibble(3) /\ b[2 * 1 + 2] = Nibble(2)
        BY <2>2 DEF InitBytes
      <3>3. /\ b[2 * 2 + 1] = Nibble(2) /\ b[2 * 2 + 2] = Nibble(8)
        BY <2>2 DEF InitBytes
      <3>4. /\ b[2 * 3 + 1] = Nibble(0) /\ b[2 * 3 + 2] = Nibble(12)
        BY <2>2 DEF InitBytes
      <3>5. /\ b[2 * 4 + 1] = Nibble(0) /\ b[2 * 4 + 2] = Nibble(1)
        BY <2>2 DEF InitBytes
      <3>6. QED
        BY <3>1, <3>2, <3>3, <3>4, <3>5
    <2>4. \A i \in 1..10 : b[i] = Nibble(InitNibbles[i])
      <3>1. /\ InitNibbles[1] = 3 /\ InitNibbles[2] = 3 /\ InitNibbles[3] = 3
            /\ InitNibbles[4] = 2 /\ InitNibbles[5] = 2 /\ InitNibbles[6] = 8
            /\ InitNibbles[7] = 0 /\ InitNibbles[8] = 12 /\ InitNibbles[9] = 0
            /\ InitNibbles[10] = 1
        BY DEF InitNibbles
      <3>2. \A i \in 1..10 : i = 1 \/ i = 2 \/ i = 3 \/ i = 4 \/ i = 5 \/ i = 6 \/ i = 7
                             \/ i = 8 \/ i = 9 \/ i = 10
        OBVIOUS
      <3>3. QED
        BY <2>3, <3>1, <3>2, Zenon
    <2>5. QED
      BY <2>1, <2>2, <2>4
  <1>3. a \in Seq(Proper) /\ Len(a) = 2 /\ a[1] = PinModes /\ a[2] = Select(0)
    <2>1. PinModes \in Proper /\ Select(0) \in Proper
      BY SingleCalls, OthersAreCalls
    <2>2. QED
      BY <2>1 DEF SetCmdMode
  <1>4. c \in Seq(Proper) /\ Len(c) = 1 /\ c[1] = Delay
    BY SingleCalls, OthersAreCalls
  <1>5. lcd_init = d \o c
    BY DEF lcd_init
  <1> HIDE DEF a, b, c
  <1>6. /\ d \in Seq(Proper) /\ Len(d) = 12
        /\ \A i \in 1..12 : d[i] = IF i <= 2 THEN a[i] ELSE b[i - 2]
    <2>1. d \in Seq(Proper) /\ Len(d) = Len(a) + Len(b)
      BY <1>2, <1>3, ConcatProperties
    <2>2. \A i \in 1..(Len(a) + Len(b)) : d[i] = IF i <= Len(a) THEN a[i] ELSE b[i - Len(a)]
      BY <1>2, <1>3, ConcatProperties
    <2> HIDE DEF d
    <2>3. Len(a) = 2 /\ Len(b) = 10
      BY <1>2, <1>3
    <2>4. Len(d) = 12
      BY <2>1, <2>3
    <2>5. \A i \in 1..12 : d[i] = IF i <= 2 THEN a[i] ELSE b[i - 2]
      BY <2>2, <2>3
    <2>6. QED
      BY <2>1, <2>4, <2>5
  <1> HIDE DEF d
  <1>7. /\ lcd_init \in Seq(Proper) /\ Len(lcd_init) = 13
        /\ \A i \in 1..13 : lcd_init[i] = IF i <= 12 THEN d[i] ELSE c[i - 12]
    <2>1. lcd_init \in Seq(Proper) /\ Len(lcd_init) = Len(d) + Len(c)
      BY <1>4, <1>5, <1>6, ConcatProperties
    <2>2. \A i \in 1..(Len(d) + Len(c)) :
            lcd_init[i] = IF i <= Len(d) THEN d[i] ELSE c[i - Len(d)]
      BY <1>4, <1>5, <1>6, ConcatProperties
    <2>3. Len(d) = 12 /\ Len(c) = 1
      BY <1>4, <1>6
    <2>4. Len(lcd_init) = 13
      BY <2>1, <2>3
    <2>5. \A i \in 1..13 : lcd_init[i] = IF i <= 12 THEN d[i] ELSE c[i - 12]
      BY <2>2, <2>3
    <2>6. QED
      BY <2>1, <2>4, <2>5
  <1>8. lcd_init[1] = PinModes /\ lcd_init[2] = Select(0)
    BY <1>3, <1>6, <1>7
  <1>9. lcd_init[13] = Delay
    <2>1. lcd_init[13] = c[13 - 12]
      BY <1>7
    <2>2. QED
      BY <1>4, <2>1
  <1>10. ASSUME NEW i \in 1..10 PROVE lcd_init[i + 2] = Nibble(InitNibbles[i])
    <2>1. /\ i + 2 \in 1..12 /\ i + 2 \in 1..13 /\ i + 2 <= 12 /\ ~ (i + 2 <= 2)
          /\ (i + 2) - 2 = i
      OBVIOUS
    <2>2. lcd_init[i + 2] = d[i + 2] /\ d[i + 2] = b[i]
      BY <1>6, <1>7, <2>1
    <2>3. QED
      BY <1>2, <2>2
  <1>11. QED
    BY <1>7, <1>8, <1>9, <1>10

\* The calls of lcd_print(): twelve before those of the text.
LEMMA PrintLine ==
  ASSUME NEW t \in Texts
  PROVE  /\ lcd_print(t) \in Seq(Proper) /\ Len(lcd_print(t)) = 12 + 2 * Len(t)
         /\ \A i \in 1..12 : lcd_print(t)[i] = PrintHead[i]
         /\ \A i \in 1..Len(lcd_text(t)) : lcd_print(t)[12 + i] = lcd_text(t)[i]
  <1>1. lcd_print(t) = PrintHead \o lcd_text(t)
    BY DEF lcd_print, PrintHead, SetCmdMode, SetChrMode, lcd_byte
  <1>2. lcd_text(t) \in Seq(Proper) /\ Len(lcd_text(t)) = 2 * Len(t) /\ Len(t) \in Nat
    BY TextLine, LenProperties DEF Texts, lcd_text
  <1>3. PrintHead \in Seq(Proper) /\ Len(PrintHead) = 12
    <2>1. /\ Select(0) \in Proper /\ Select(1) \in Proper /\ Delay \in Proper
          /\ Nibble(0) \in Proper /\ Nibble(1) \in Proper /\ Nibble(2) \in Proper
          /\ Nibble(8) \in Proper
      BY SingleCalls, OthersAreCalls DEF Nibbles
    <2>2. QED
      BY <2>1 DEF PrintHead
  <1> DEFINE x == lcd_text(t)
             p == PrintHead
             s == lcd_print(t)
  <1> HIDE DEF x, p, s
  <1>4. /\ s \in Seq(Proper) /\ Len(s) = Len(p) + Len(x)
        /\ \A i \in 1..(Len(p) + Len(x)) : s[i] = IF i <= Len(p) THEN p[i] ELSE x[i - Len(p)]
    <2>1. s = p \o x /\ p \in Seq(Proper) /\ x \in Seq(Proper)
      BY <1>1, <1>2, <1>3 DEF x, p, s
    <2>2. s \in Seq(Proper) /\ Len(s) = Len(p) + Len(x)
      BY <2>1, ConcatProperties
    <2>3. \A i \in 1..(Len(p) + Len(x)) : s[i] = IF i <= Len(p) THEN p[i] ELSE x[i - Len(p)]
      BY <2>1, ConcatProperties
    <2>4. QED
      BY <2>2, <2>3
  <1>5. Len(p) = 12 /\ Len(x) = 2 * Len(t) /\ Len(x) \in Nat
    BY <1>2, <1>3 DEF x, p
  <1>6. Len(s) = 12 + 2 * Len(t)
    BY <1>4, <1>5
  <1>7. \A i \in 1..(12 + Len(x)) : s[i] = IF i <= 12 THEN p[i] ELSE x[i - 12]
    BY <1>4, <1>5
  <1>8. ASSUME NEW i \in 1..12 PROVE s[i] = p[i]
    <2>1. i \in 1..(12 + Len(x)) /\ i <= 12
      BY <1>5
    <2>2. QED
      BY <1>7, <2>1
  <1>9. ASSUME NEW i \in 1..Len(x) PROVE s[12 + i] = x[i]
    <2>1. 12 + i \in 1..(12 + Len(x)) /\ ~ (12 + i <= 12) /\ (12 + i) - 12 = i
      BY <1>5
    <2>2. QED
      BY <1>7, <2>1
  <1>10. QED
    BY <1>4, <1>6, <1>8, <1>9 DEF x, p, s

-----------------------------------------------------------------------------
(***************************************************************************)
(* What a command changes, and what the falling edge of E does.            *)
(***************************************************************************)
LEMMA SwitchesBus ==
  ASSUME NEW l \in LcdStates, NEW u \in Nibbles
  PROVE  /\ Execute(l, 0, <<3, u>>) = [l EXCEPT !.wide = TRUE]
         /\ Execute(l, 0, <<2, u>>) = [l EXCEPT !.wide = FALSE]
  BY DEF Execute, Command, Nibbles

LEMMA SwitchesOn ==
  ASSUME NEW l \in LcdStates
  PROVE  Execute(l, 0, <<0, 12>>) = [l EXCEPT !.on = TRUE]
  <1>1. Execute(l, 0, <<0, 12>>) = [l EXCEPT !.on = (12 > 11)]
    BY DEF Execute, Command, Nibbles
  <1>2. (12 > 11) = TRUE
    OBVIOUS
  <1>3. QED
    BY <1>1, <1>2, Zenon

LEMMA Clears ==
  ASSUME NEW l \in LcdStates
  PROVE  /\ Execute(l, 0, <<0, 1>>) = [l EXCEPT !.at = 0, !.slow = TRUE, !.line = Blanks]
         /\ Execute(l, 0, <<0, 2>>) = [l EXCEPT !.at = 0, !.slow = TRUE]
         /\ Execute(l, 0, <<8, 0>>) = [l EXCEPT !.at = 0]
  <1>1. (IF 0 < Width THEN 0 ELSE Width) = 0
    BY LcdAssumption
  <1>2. /\ Execute(l, 0, <<0, 1>>) = [l EXCEPT !.at = 0, !.slow = TRUE, !.line = Blanks]
        /\ Execute(l, 0, <<0, 2>>) = [l EXCEPT !.at = 0, !.slow = TRUE]
    BY DEF Execute, Command, Nibbles
  <1>3. Execute(l, 0, <<8, 0>>) = [l EXCEPT !.at = IF 0 < Width THEN 0 ELSE Width]
    BY DEF Execute, Command, Nibbles
  <1>4. QED
    BY <1>1, <1>2, <1>3

LEMMA OnlyMoves ==
  ASSUME NEW l \in LcdStates, NEW n \in Nibbles \ {0, 2, 3}, NEW m \in Nibbles
  PROVE  \E a \in 0..Width : Execute(l, 0, <<n, m>>) = [l EXCEPT !.at = a]
  <1>1. CASE n = 8
    BY <1>1, LcdAssumption DEF Execute, Command, Nibbles
  <1>2. CASE n # 8
    BY <1>2, LcdAssumption DEF Execute, Command, Nibbles
  <1>3. QED
    BY <1>1, <1>2

\* What Latch is on a bus of 8 bits, for a high nibble and for a low one.
LEMMA LatchCases ==
  ASSUME NEW l \in LcdStates, ~ l.slow, NEW r, NEW n, NEW u
  PROVE  /\ l.wide => Latch(l, r, n, u) = Execute(l, r, <<n, u>>)
         /\ ~ l.wide /\ l.half = None => Latch(l, r, n, u) = [l EXCEPT !.half = n]
         /\ ~ l.wide /\ l.half # None =>
              Latch(l, r, n, u) = Execute([l EXCEPT !.half = None], r, <<l.half, n>>)
  BY DEF Latch

\* The byte is complete: nothing waits.
LEMMA Emptied ==
  ASSUME NEW l \in LcdStates
  PROVE  LET k == [l EXCEPT !.half = None]
         IN  /\ k \in LcdStates /\ k.half = None
             /\ k.wide = l.wide /\ k.on = l.on /\ k.line = l.line /\ k.at = l.at /\ k.slow = l.slow
  BY DEF LcdStates

\* A byte that is sent to a controller in step is executed, and leaves it in step unless
\* it asks for the 8-bit bus: so a program that is in step stays so.
THEOREM ByteInStep ==
  ASSUME NEW l \in LcdStates, InStep(l), ~ l.slow,
         NEW b \in Bytes, NEW r \in {0, 1}, NEW u1 \in Nibbles, NEW u2 \in Nibbles
  PROVE  /\ Latch(Latch(l, r, lcd_byte(b)[1].value, u1), r, lcd_byte(b)[2].value, u2)
              = Execute(l, r, b)
         /\ r = 1 \/ b[1] # 3 => InStep(Execute(l, r, b))
  <1>1. /\ lcd_byte(b)[1].value = b[1] /\ lcd_byte(b)[2].value = b[2]
        /\ b[1] \in Nibbles /\ b[2] \in Nibbles /\ b = <<b[1], b[2]>>
    BY DEF lcd_byte, Nibble, Do, Bytes
  <1>2. Latch(l, r, b[1], u1) = [l EXCEPT !.half = b[1]]
    BY DEF Latch, InStep
  <1>3. Latch([l EXCEPT !.half = b[1]], r, b[2], u2)
          = Execute([[l EXCEPT !.half = b[1]] EXCEPT !.half = None], r, <<b[1], b[2]>>)
    BY <1>1 DEF Latch, InStep, LcdStates, Nibbles, None
  <1>4. [[l EXCEPT !.half = b[1]] EXCEPT !.half = None] = l
    BY DEF InStep, LcdStates
  <1>5. r = 1 \/ b[1] # 3 => InStep(Execute(l, r, b))
    BY <1>1 DEF Execute, Character, Command, InStep, LcdStates, Nibbles
  <1>6. QED
    BY <1>1, <1>2, <1>3, <1>4, <1>5

-----------------------------------------------------------------------------
(***************************************************************************)
(* The controller behind each call of lcd_init().                          *)
(***************************************************************************)
\* The controller l, the line RS and the direction of D4 when the first j calls of
\* lcd_init() are done.  A bus of 8 bits knows no halves; and until the first nibble
\* (j = 2) no byte has begun with a nibble 0, what the nibble 3 would make a home of,
\* which takes the controller too long.
InitAt(j, l, r, d) ==
  /\ l \in LcdStates /\ (l.wide => l.half = None)
  /\ j >= 1 => d = Output
  /\ j >= 2 => r = 0
  /\ j \in 0..2 => l.half # 0
  /\ j \in 0..11 \cup {13} => ~ l.slow
  /\ j = 3 => l.wide \/ l.half \in {3, None}
  /\ j = 4 => l.wide \/ l.half = 3
  /\ j = 5 => l.wide
  /\ j >= 6 => ~ l.wide
  /\ j \in {6, 8, 10, 12, 13} => l.half = None
  /\ j = 7 => l.half = 2
  /\ j \in {9, 11} => l.half = 0
  /\ j >= 10 => l.on
  /\ j >= 12 => l.line = Blanks /\ l.at = 0

\* A nibble of lcd_init().
LEMMA LatchedInInit ==
  ASSUME NEW j \in 2..11, NEW l, NEW u \in Nibbles, InitAt(j, l, 0, Output)
  PROVE  InitAt(j + 1, Latch(l, 0, InitNibbles[j - 1], u), 0, Output)
  <1> DEFINE k == [l EXCEPT !.half = None]
             m == Latch(l, 0, InitNibbles[j - 1], u)
  <1>1. /\ l \in LcdStates /\ (l.wide => l.half = None)
        /\ k \in LcdStates /\ k.half = None
        /\ k.wide = l.wide /\ k.on = l.on /\ k.line = l.line /\ k.at = l.at /\ k.slow = l.slow
    BY Emptied DEF InitAt
  <1>2. ~ l.slow
    BY DEF InitAt
  <1>3. /\ 3 \in Nibbles /\ 2 \in Nibbles /\ 8 \in Nibbles /\ 0 \in Nibbles /\ 12 \in Nibbles
        /\ 1 \in Nibbles
    BY DEF Nibbles
  <1>4. /\ l.wide => m = Execute(l, 0, <<InitNibbles[j - 1], u>>)
        /\ ~ l.wide /\ l.half = None => m = [l EXCEPT !.half = InitNibbles[j - 1]]
        /\ ~ l.wide /\ l.half # None => m = Execute(k, 0, <<l.half, InitNibbles[j - 1]>>)
    <2> DEFINE n == InitNibbles[j - 1]
    <2> HIDE DEF n
    <2>1. /\ ~ l.slow /\ l.wide => Latch(l, 0, n, u) = Execute(l, 0, <<n, u>>)
          /\ ~ l.slow /\ ~ l.wide /\ l.half = None => Latch(l, 0, n, u) = [l EXCEPT !.half = n]
          /\ ~ l.slow /\ ~ l.wide /\ l.half # None => Latch(l, 0, n, u) = Execute(k, 0, <<l.half, n>>)
      BY DEF Latch
    <2>2. QED
      BY <1>2, <2>1 DEF n
  <1> HIDE DEF k, m
  <1>5. CASE j = 2
    <2>1. InitNibbles[j - 1] = 3
      BY <1>5 DEF InitNibbles
    <2>2. CASE l.wide
      <3>1. m = Execute(l, 0, <<3, u>>)
        BY <1>4, <2>1, <2>2
      <3>2. m = [l EXCEPT !.wide = TRUE]
        BY <1>1, <3>1, SwitchesBus
      <3>3. m \in LcdStates /\ m.wide /\ m.half = None /\ ~ m.slow
        BY <1>1, <1>2, <2>2, <3>2 DEF LcdStates
      <3>4. QED
        BY <1>5, <3>3 DEF InitAt, m
    <2>3. CASE ~ l.wide /\ l.half = None
      <3>1. m = [l EXCEPT !.half = 3]
        BY <1>4, <2>1, <2>3
      <3>2. m \in LcdStates /\ ~ m.wide /\ m.half = 3 /\ ~ m.slow
        BY <1>1, <1>2, <1>3, <2>3, <3>1 DEF LcdStates
      <3>3. QED
        BY <1>5, <3>2 DEF InitAt, m
    <2>4. CASE ~ l.wide /\ l.half # None
      <3>1. l.half \in Nibbles /\ l.half # 0
        BY <1>1, <1>5, <2>4 DEF InitAt, LcdStates
      <3>2. m = Execute(k, 0, <<l.half, 3>>)
        BY <1>4, <2>1, <2>4
      <3>3. \/ m = [k EXCEPT !.wide = TRUE]
            \/ m = [k EXCEPT !.wide = FALSE]
            \/ \E a \in 0..Width : m = [k EXCEPT !.at = a]
        <4>1. CASE l.half = 3
          <5>1. Execute(k, 0, <<3, 3>>) = [k EXCEPT !.wide = TRUE]
            BY <1>1, <1>3, SwitchesBus
          <5>2. QED
            BY <3>2, <4>1, <5>1
        <4>2. CASE l.half = 2
          <5>1. Execute(k, 0, <<2, 3>>) = [k EXCEPT !.wide = FALSE]
            BY <1>1, <1>3, SwitchesBus
          <5>2. QED
            BY <3>2, <4>2, <5>1
        <4>3. CASE l.half \in Nibbles \ {0, 2, 3}
          <5>1. \E a \in 0..Width : Execute(k, 0, <<l.half, 3>>) = [k EXCEPT !.at = a]
            BY <1>1, <1>3, <4>3, OnlyMoves
          <5>2. QED
            BY <3>2, <5>1
        <4>4. QED
          BY <3>1, <4>1, <4>2, <4>3
      <3>4. m \in LcdStates /\ m.half = None /\ ~ m.slow
        BY <1>1, <1>2, <3>3 DEF LcdStates
      <3>5. QED
        BY <1>5, <3>4 DEF InitAt, m
    <2>5. QED
      BY <2>2, <2>3, <2>4
  <1>6. CASE j = 3
    <2>1. InitNibbles[j - 1] = 3
      BY <1>6 DEF InitNibbles
    <2>2. CASE l.wide
      <3>1. m = Execute(l, 0, <<3, u>>)
        BY <1>4, <2>1, <2>2
      <3>2. m = [l EXCEPT !.wide = TRUE]
        BY <1>1, <3>1, SwitchesBus
      <3>3. m \in LcdStates /\ m.wide /\ m.half = None /\ ~ m.slow
        BY <1>1, <1>2, <2>2, <3>2 DEF LcdStates
      <3>4. QED
        BY <1>6, <3>3 DEF InitAt, m
    <2>3. CASE ~ l.wide /\ l.half = None
      <3>1. m = [l EXCEPT !.half = 3]
        BY <1>4, <2>1, <2>3
      <3>2. m \in LcdStates /\ ~ m.wide /\ m.half = 3 /\ ~ m.slow
        BY <1>1, <1>2, <1>3, <2>3, <3>1 DEF LcdStates
      <3>3. QED
        BY <1>6, <3>2 DEF InitAt, m
    <2>4. CASE ~ l.wide /\ l.half = 3
      <3>1. m = Execute(k, 0, <<3, 3>>)
        BY <1>4, <2>1, <2>4 DEF None
      <3>2. m = [k EXCEPT !.wide = TRUE]
        BY <1>1, <1>3, <3>1, SwitchesBus
      <3>3. m \in LcdStates /\ m.wide /\ m.half = None /\ ~ m.slow
        BY <1>1, <1>2, <3>2 DEF LcdStates
      <3>4. QED
        BY <1>6, <3>3 DEF InitAt, m
    <2>5. QED
      BY <1>6, <2>2, <2>3, <2>4 DEF InitAt
  <1>7. CASE j = 4
    <2>1. InitNibbles[j - 1] = 3
      BY <1>7 DEF InitNibbles
    <2>2. CASE l.wide
      <3>1. m = Execute(l, 0, <<3, u>>)
        BY <1>4, <2>1, <2>2
      <3>2. m = [l EXCEPT !.wide = TRUE]
        BY <1>1, <3>1, SwitchesBus
      <3>3. m \in LcdStates /\ m.wide /\ m.half = None /\ ~ m.slow
        BY <1>1, <1>2, <2>2, <3>2 DEF LcdStates
      <3>4. QED
        BY <1>7, <3>3 DEF InitAt, m
    <2>3. CASE ~ l.wide /\ l.half = 3
      <3>1. m = Execute(k, 0, <<3, 3>>)
        BY <1>4, <2>1, <2>3 DEF None
      <3>2. m = [k EXCEPT !.wide = TRUE]
        BY <1>1, <1>3, <3>1, SwitchesBus
      <3>3. m \in LcdStates /\ m.wide /\ m.half = None /\ ~ m.slow
        BY <1>1, <1>2, <3>2 DEF LcdStates
      <3>4. QED
        BY <1>7, <3>3 DEF InitAt, m
    <2>4. QED
      BY <1>7, <2>2, <2>3 DEF InitAt
  <1>8. CASE j = 5
    <2>1. InitNibbles[j - 1] = 2 /\ l.wide /\ l.half = None
      BY <1>1, <1>8 DEF InitNibbles, InitAt
    <2>2. m = [l EXCEPT !.wide = FALSE]
      BY <1>1, <1>4, <2>1, SwitchesBus
    <2>3. m \in LcdStates /\ ~ m.wide /\ m.half = None /\ ~ m.slow
      BY <1>1, <1>2, <2>1, <2>2 DEF LcdStates
    <2>4. QED
      BY <1>8, <2>3 DEF InitAt, m
  <1>9. CASE j \in {6, 8, 10}
    <2>1. ~ l.wide /\ l.half = None /\ (j >= 10 => l.on)
      BY <1>9 DEF InitAt
    <2>2. /\ InitNibbles[j - 1] = IF j = 6 THEN 2 ELSE 0
          /\ InitNibbles[j - 1] \in Nibbles
      BY <1>9, <1>3 DEF InitNibbles
    <2>3. m = [l EXCEPT !.half = InitNibbles[j - 1]]
      BY <1>4, <2>1
    <2>4. m \in LcdStates /\ ~ m.wide /\ m.half = InitNibbles[j - 1] /\ ~ m.slow /\ m.on = l.on
      BY <1>1, <1>2, <2>1, <2>2, <2>3 DEF LcdStates
    <2>5. QED
      BY <1>9, <2>1, <2>2, <2>4 DEF InitAt, m
  <1>10. CASE j = 7
    <2>1. InitNibbles[j - 1] = 8 /\ ~ l.wide /\ l.half = 2 /\ l.half # None
      BY <1>1, <1>10 DEF InitNibbles, InitAt, None
    <2>2. m = [k EXCEPT !.wide = FALSE]
      BY <1>1, <1>3, <1>4, <2>1, SwitchesBus
    <2>3. m \in LcdStates /\ ~ m.wide /\ m.half = None /\ ~ m.slow
      BY <1>1, <1>2, <2>2 DEF LcdStates
    <2>4. QED
      BY <1>10, <2>3 DEF InitAt, m
  <1>11. CASE j = 9
    <2>1. InitNibbles[j - 1] = 12 /\ ~ l.wide /\ l.half = 0 /\ l.half # None
      BY <1>1, <1>11 DEF InitNibbles, InitAt, None
    <2>2. m = [k EXCEPT !.on = TRUE]
      BY <1>1, <1>3, <1>4, <2>1, SwitchesOn
    <2>3. m \in LcdStates /\ ~ m.wide /\ m.half = None /\ ~ m.slow /\ m.on
      BY <1>1, <1>2, <2>1, <2>2 DEF LcdStates
    <2>4. QED
      BY <1>11, <2>3 DEF InitAt, m
  <1>12. CASE j = 11
    <2>1. InitNibbles[j - 1] = 1 /\ ~ l.wide /\ l.half = 0 /\ l.half # None /\ l.on
      BY <1>1, <1>12 DEF InitNibbles, InitAt, None
    <2>2. m = [k EXCEPT !.at = 0, !.slow = TRUE, !.line = Blanks]
      BY <1>1, <1>3, <1>4, <2>1, Clears
    <2>3. m \in LcdStates /\ ~ m.wide /\ m.half = None /\ m.on /\ m.line = Blanks /\ m.at = 0
      <3>1. Blanks \in [Columns -> Bytes] /\ 0 \in 0..Width
        BY LcdAssumption DEF Blanks, Blank, Bytes, Nibbles
      <3>2. QED
        BY <1>1, <2>1, <2>2, <3>1 DEF LcdStates
    <2>4. QED
      BY <1>12, <2>3 DEF InitAt, m
  <1>13. QED
    BY <1>5, <1>6, <1>7, <1>8, <1>9, <1>10, <1>11, <1>12

\* The ten nibbles of lcd_init() bring the controller in step, with the display on and
\* nothing on it, from a bus of either width and any waiting high nibble but 0, and
\* whatever is on the lines that are not wired.
THEOREM LcdInitResyncs ==
  ASSUME NEW s \in [0..10 -> LcdStates], NEW u \in [1..10 -> Nibbles],
         ~ s[0].slow, s[0].wide => s[0].half = None, s[0].half # 0,
         \A i \in 1..10 : s[i] = Latch(s[i - 1], 0, lcd_init[i + 2].value, u[i])
  PROVE  InStep(s[10]) /\ Shows(s[10], <<>>)
  <1> DEFINE At(i) == InitAt(i + 2, s[i], 0, Output)
  <1>1. At(0)
    BY DEF InitAt
  <1>2. ASSUME NEW i \in 1..10, At(i - 1) PROVE At(i)
    <2>1. (i - 1) + 2 \in 2..11 /\ ((i - 1) + 2) - 1 = i /\ ((i - 1) + 2) + 1 = i + 2
      OBVIOUS
    <2>2. InitAt(((i - 1) + 2) + 1, Latch(s[i - 1], 0, InitNibbles[((i - 1) + 2) - 1], u[i]), 0, Output)
      BY <1>2, <2>1, LatchedInInit
    <2>3. s[i] = Latch(s[i - 1], 0, InitNibbles[i], u[i])
      <3>1. lcd_init[i + 2] = Nibble(InitNibbles[i])
        BY InitLine
      <3>2. QED
        BY <3>1 DEF Nibble, Do
    <2>4. QED
      BY <2>1, <2>2, <2>3
  <1> HIDE DEF At
  <1>3. At(10)
    <2>1. /\ At(1 - 1) => At(1)
          /\ At(2 - 1) => At(2)
          /\ At(3 - 1) => At(3)
          /\ At(4 - 1) => At(4)
          /\ At(5 - 1) => At(5)
          /\ At(6 - 1) => At(6)
          /\ At(7 - 1) => At(7)
          /\ At(8 - 1) => At(8)
          /\ At(9 - 1) => At(9)
          /\ At(10 - 1) => At(10)
      BY <1>2
    <2>2. QED
      BY <1>1, <2>1
  <1>4. ~ s[10].wide /\ s[10].half = None /\ s[10].on /\ s[10].line = Blanks
    BY <1>3 DEF At, InitAt
  <1>5. Len(<<>>) = 0
    OBVIOUS
  <1>6. QED
    BY <1>4, <1>5 DEF InStep, Shows, Blanks, Columns

-----------------------------------------------------------------------------
(***************************************************************************)
(* The controller behind each call of lcd_print().                         *)
(***************************************************************************)
\* When j calls of PrintHead are done, ...
PrintAt(j, l, r, d) ==
  /\ l \in LcdStates /\ d = Output /\ l.on /\ ~ l.wide
  /\ l.half = IF j \in {3, 6} THEN 0 ELSE IF j = 9 THEN 8 ELSE None
  /\ j \in 1..11 => r = 0
  /\ j \in {2, 3, 5, 6} \cup 8..11 => ~ l.slow
  /\ j >= 4 => l.line = Blanks /\ l.at = 0

\* ... and when i bytes of the text t are sent, and h nibbles of the next one.
TextAt(i, h, l, r, d, t) ==
  /\ l \in LcdStates /\ d = Output /\ r = 1 /\ l.on /\ ~ l.wide /\ ~ l.slow
  /\ l.half = IF h = 1 THEN t[i + 1][1] ELSE None
  /\ l.at = IF i < Width THEN i ELSE Width
  /\ \A c \in Columns : l.line[c] = IF c < i THEN t[c + 1] ELSE Blank

\* A nibble of the clear, the home and the address.
LEMMA LatchedInPrint ==
  ASSUME NEW j \in {2, 3, 5, 6, 8, 9}, NEW l, NEW u \in Nibbles, PrintAt(j, l, 0, Output)
  PROVE  PrintAt(j + 1, Latch(l, 0, PrintHead[j + 1].value, u), 0, Output)
  <1> DEFINE k == [l EXCEPT !.half = None]
             n == PrintHead[j + 1].value
             m == Latch(l, 0, n, u)
  <1>1. /\ l \in LcdStates /\ k \in LcdStates /\ k.half = None
        /\ k.wide = l.wide /\ k.on = l.on /\ k.line = l.line /\ k.at = l.at /\ k.slow = l.slow
    BY Emptied DEF PrintAt
  <1>2. ~ l.slow /\ ~ l.wide /\ l.on
    BY DEF PrintAt
  <1>3. n = CASE j = 3 -> 1 [] j = 6 -> 2 [] j = 8 -> 8 [] OTHER -> 0
    BY DEF PrintHead, Nibble, Do
  <1> HIDE DEF n
  <1>4. /\ l.half = None => m = [l EXCEPT !.half = n]
        /\ l.half # None => m = Execute(k, 0, <<l.half, n>>)
    <2>1. /\ ~ l.wide /\ l.half = None => m = [l EXCEPT !.half = n]
          /\ ~ l.wide /\ l.half # None => m = Execute(k, 0, <<l.half, n>>)
      BY <1>2 DEF Latch, m, k
    <2>2. QED
      BY <1>2, <2>1
  <1> HIDE DEF k, m
  <1>5. CASE j \in {2, 5, 8}
    <2>1. l.half = None /\ n \in Nibbles
      BY <1>3, <1>5 DEF PrintAt, Nibbles
    <2>2. /\ m \in LcdStates /\ ~ m.wide /\ m.on /\ m.half = n /\ ~ m.slow
          /\ m.line = l.line /\ m.at = l.at
      BY <1>1, <1>2, <1>4, <2>1 DEF LcdStates
    <2>3. j >= 4 => m.line = Blanks /\ m.at = 0
      BY <2>2 DEF PrintAt
    <2>4. QED
      BY <1>3, <1>5, <2>2, <2>3 DEF PrintAt, m, n
  <1>6. /\ Blanks \in [Columns -> Bytes] /\ 0 \in 0..Width
    BY LcdAssumption DEF Blanks, Blank, Bytes, Nibbles
  <1>7. CASE j = 3
    <2>1. l.half = 0 /\ n = 1 /\ l.half # None
      BY <1>3, <1>7 DEF PrintAt, None
    <2>2. m = [k EXCEPT !.at = 0, !.slow = TRUE, !.line = Blanks]
      BY <1>1, <1>4, <2>1, Clears
    <2>3. /\ m \in LcdStates /\ ~ m.wide /\ m.on /\ m.half = None
          /\ m.line = Blanks /\ m.at = 0
      BY <1>1, <1>2, <1>6, <2>2 DEF LcdStates
    <2>4. QED
      BY <1>7, <2>3 DEF PrintAt, m, n
  <1>8. CASE j = 6
    <2>1. l.half = 0 /\ n = 2 /\ l.half # None /\ l.line = Blanks
      BY <1>3, <1>8 DEF PrintAt, None
    <2>2. m = [k EXCEPT !.at = 0, !.slow = TRUE]
      BY <1>1, <1>4, <2>1, Clears
    <2>3. /\ m \in LcdStates /\ ~ m.wide /\ m.on /\ m.half = None
          /\ m.line = Blanks /\ m.at = 0
      BY <1>1, <1>2, <1>6, <2>1, <2>2 DEF LcdStates
    <2>4. QED
      BY <1>8, <2>3 DEF PrintAt, m, n
  <1>9. CASE j = 9
    <2>1. l.half = 8 /\ n = 0 /\ l.half # None /\ l.line = Blanks
      BY <1>3, <1>9 DEF PrintAt, None
    <2>2. m = [k EXCEPT !.at = 0]
      BY <1>1, <1>4, <2>1, Clears
    <2>3. /\ m \in LcdStates /\ ~ m.wide /\ m.on /\ m.half = None /\ ~ m.slow
          /\ m.line = Blanks /\ m.at = 0
      BY <1>1, <1>2, <1>6, <2>1, <2>2 DEF LcdStates
    <2>4. QED
      BY <1>9, <2>3 DEF PrintAt, m, n
  <1>10. QED
    BY <1>5, <1>7, <1>8, <1>9

\* A nibble of the text: the second of two writes the character where the next is due.
LEMMA LatchedInText ==
  ASSUME NEW t \in Texts, NEW i \in 0..(Len(t) - 1), NEW l, NEW u \in Nibbles
  PROVE  /\ TextAt(i, 0, l, 1, Output, t) =>
              TextAt(i, 1, Latch(l, 1, t[i + 1][1], u), 1, Output, t)
         /\ TextAt(i, 1, l, 1, Output, t) =>
              TextAt(i + 1, 0, Latch(l, 1, t[i + 1][2], u), 1, Output, t)
  <1> DEFINE b == t[i + 1]
  <1>1. b \in Bytes /\ i \in Nat /\ Width \in Nat
    BY LcdAssumption, LenProperties, ElementOfSeq DEF Texts
  <1>2. b[1] \in Nibbles /\ b[2] \in Nibbles /\ b = <<b[1], b[2]>> /\ b[1] # None
    BY <1>1 DEF Bytes, Nibbles, None
  <1> HIDE DEF b
  <1>3. ASSUME TextAt(i, 0, l, 1, Output, t)
        PROVE  TextAt(i, 1, Latch(l, 1, b[1], u), 1, Output, t)
    <2>1. /\ l \in LcdStates /\ l.on /\ ~ l.wide /\ ~ l.slow /\ l.half = None
      BY <1>3 DEF TextAt
    <2>2. Latch(l, 1, b[1], u) = [l EXCEPT !.half = b[1]]
      <3>1. ~ l.wide /\ l.half = None => Latch(l, 1, b[1], u) = [l EXCEPT !.half = b[1]]
        BY <2>1 DEF Latch
      <3>2. QED
        BY <2>1, <3>1
    <2> DEFINE m == [l EXCEPT !.half = b[1]]
    <2>3. /\ m \in LcdStates /\ m.on /\ ~ m.wide /\ ~ m.slow /\ m.half = b[1]
          /\ m.at = l.at /\ m.line = l.line
      BY <1>2, <2>1 DEF LcdStates
    <2> HIDE DEF m
    <2>4. TextAt(i, 1, m, 1, Output, t)
      BY <1>3, <2>3 DEF TextAt, b
    <2>5. QED
      BY <2>2, <2>4 DEF m
  <1>4. ASSUME TextAt(i, 1, l, 1, Output, t)
        PROVE  TextAt(i + 1, 0, Latch(l, 1, b[2], u), 1, Output, t)
    <2> DEFINE k == [l EXCEPT !.half = None]
               m == Latch(l, 1, b[2], u)
    <2>1. /\ l \in LcdStates /\ l.on /\ ~ l.wide /\ ~ l.slow /\ l.half = b[1]
          /\ l.at = (IF i < Width THEN i ELSE Width)
          /\ \A c \in Columns : l.line[c] = IF c < i THEN t[c + 1] ELSE Blank
      BY <1>4 DEF TextAt, b
    <2>2. /\ k \in LcdStates /\ k.half = None
          /\ k.wide = l.wide /\ k.on = l.on /\ k.line = l.line /\ k.at = l.at /\ k.slow = l.slow
      BY <2>1, Emptied
    <2>3. m = Execute(k, 1, <<b[1], b[2]>>)
      <3>1. ~ l.wide /\ l.half # None => m = Execute(k, 1, <<l.half, b[2]>>)
        BY <2>1 DEF Latch
      <3>2. QED
        BY <1>2, <2>1, <3>1
    <2>4. m = Character(k, b)
      BY <1>2, <2>3 DEF Execute
    <2> HIDE DEF k, m
    <2>5. CASE i < Width
      <3>1. k.at = i /\ i \in Columns /\ i + 1 \in 0..Width /\ k.at < Width
        BY <1>1, <2>1, <2>2, <2>5 DEF Columns
      <3>2. m = [k EXCEPT !.line = [k.line EXCEPT ![i] = b], !.at = i + 1]
        BY <2>4, <3>1 DEF Character
      <3>3. /\ [k.line EXCEPT ![i] = b] \in [Columns -> Bytes]
            /\ \A c \in Columns : [k.line EXCEPT ![i] = b][c] = IF c = i THEN b ELSE k.line[c]
        BY <1>1, <2>2, <3>1 DEF LcdStates
      <3>4. /\ m \in LcdStates /\ m.on /\ ~ m.wide /\ ~ m.slow /\ m.half = None
            /\ m.at = i + 1 /\ m.line = [k.line EXCEPT ![i] = b]
        BY <2>1, <2>2, <3>1, <3>2, <3>3 DEF LcdStates
      <3>5. m.at = IF i + 1 < Width THEN i + 1 ELSE Width
        BY <1>1, <2>5, <3>4
      <3>6. ASSUME NEW c \in Columns
            PROVE  m.line[c] = IF c < i + 1 THEN t[c + 1] ELSE Blank
        <4>1. m.line[c] = IF c = i THEN t[i + 1] ELSE l.line[c]
          BY <2>2, <3>3, <3>4 DEF b
        <4>2. c \in Int /\ (c < i + 1 <=> c = i \/ c < i)
          BY <1>1 DEF Columns
        <4>3. QED
          BY <2>1, <4>1, <4>2
      <3>7. m.half = IF 0 = 1 THEN t[(i + 1) + 1][1] ELSE None
        BY <3>4
      <3>8. TextAt(i + 1, 0, m, 1, Output, t)
        BY <3>4, <3>5, <3>6, <3>7, Zenon DEF TextAt
      <3>9. QED
        BY <3>8 DEF m
    <2>6. CASE ~ (i < Width)
      <3>1. k.at = Width /\ m = k
        BY <1>1, <2>1, <2>2, <2>4, <2>6 DEF Character
      <3>2. m.at = IF i + 1 < Width THEN i + 1 ELSE Width
        BY <1>1, <2>6, <3>1
      <3>3. ASSUME NEW c \in Columns
            PROVE  m.line[c] = IF c < i + 1 THEN t[c + 1] ELSE Blank
        <4>1. c < i /\ c < i + 1
          BY <1>1, <2>6 DEF Columns
        <4>2. QED
          BY <2>1, <2>2, <3>1, <4>1
      <3>4. m.half = IF 0 = 1 THEN t[(i + 1) + 1][1] ELSE None
        BY <2>2, <3>1
      <3>5. m \in LcdStates /\ m.on /\ ~ m.wide /\ ~ m.slow
        BY <2>1, <2>2, <3>1
      <3>6. TextAt(i + 1, 0, m, 1, Output, t)
        BY <3>2, <3>3, <3>4, <3>5, Zenon DEF TextAt
      <3>7. QED
        BY <3>6 DEF m
    <2>7. QED
      BY <2>5, <2>6 DEF m
  <1>5. QED
    BY <1>3, <1>4 DEF b

-----------------------------------------------------------------------------
(***************************************************************************)
(* What is left of a line of calls.                                        *)
(***************************************************************************)
\* A call that may stand behind a line: gpio_write(), or a greeting of q_msg_lcd.c.
Loose(c) == c.call = "write" \/ (c.call = "print" /\ c.value \in 1..3)

\* s is the rest of the line X behind its first j calls, and then loose calls.
Ahead(s, X, j) ==
  /\ Len(X) - j <= Len(s)
  /\ \A i \in 1..(Len(X) - j) : s[i] = X[j + i]
  /\ \A i \in (Len(X) - j + 1)..Len(s) : Loose(s[i])

\* GPIOinit() and lcd_init() of the display.
SetUp == GPIOinit \o lcd_init

\* lcd_init() of the others; the only greeting of socket_lcd.c belongs to its line.
InitLines == {lcd_init, lcd_init \o <<Greet(4)>>}

LEMMA AheadNext ==
  ASSUME NEW s \in Seq(Proper), NEW X \in Seq(Proper), NEW j \in 0..(Len(X) - 1),
         Ahead(s, X, j)
  PROVE  s # <<>> /\ Head(s) = X[j + 1] /\ Ahead(Tail(s), X, j + 1)
  <1> DEFINE n == Len(X) - j
             t == Tail(s)
  <1>1. /\ Len(X) \in Nat /\ Len(s) \in Nat /\ n \in Nat /\ 1 \in 1..n
        /\ n <= Len(s) /\ Len(X) - (j + 1) = n - 1
    BY LenProperties DEF Ahead
  <1>2. s # <<>> /\ Head(s) = s[1] /\ Len(t) = Len(s) - 1
        /\ \A i \in 1..Len(t) : t[i] = s[i + 1]
    BY <1>1, EmptySeq, HeadTailProperties
  <1> HIDE DEF t
  <1>3. s[1] = X[j + 1]
    BY <1>1 DEF Ahead
  <1>4. ASSUME NEW i \in 1..(n - 1) PROVE t[i] = X[(j + 1) + i]
    <2>1. i \in 1..Len(t) /\ i + 1 \in 1..n /\ j + (i + 1) = (j + 1) + i
      BY <1>1, <1>2
    <2>2. s[i + 1] = X[j + (i + 1)]
      BY <2>1 DEF Ahead
    <2>3. QED
      BY <1>2, <2>1, <2>2
  <1>5. ASSUME NEW i \in (n - 1 + 1)..Len(t) PROVE Loose(t[i])
    <2>1. i \in 1..Len(t) /\ i + 1 \in (n + 1)..Len(s)
      BY <1>1, <1>2
    <2>2. Loose(s[i + 1])
      BY <2>1 DEF Ahead
    <2>3. QED
      BY <1>2, <2>1, <2>2
  <1>6. Len(X) - (j + 1) <= Len(t)
    BY <1>1, <1>2
  <1>7. QED
    BY <1>1, <1>2, <1>3, <1>4, <1>5, <1>6 DEF Ahead, t

LEMMA AheadLoose ==
  ASSUME NEW s \in Seq(Proper), NEW X \in Seq(Proper), Ahead(s, X, Len(X))
  PROVE  /\ \A i \in 1..Len(s) : Loose(s[i])
         /\ s # <<>> => Loose(Head(s)) /\ Ahead(Tail(s), X, Len(X))
  <1>1. Len(X) \in Nat /\ Len(s) \in Nat /\ Len(X) - Len(X) = 0
    BY LenProperties
  <1>2. \A i \in 1..Len(s) : Loose(s[i])
    BY <1>1 DEF Ahead
  <1>3. ASSUME s # <<>>
        PROVE  Loose(Head(s)) /\ Ahead(Tail(s), X, Len(X))
    <2>1. /\ 1 \in 1..Len(s) /\ Head(s) = s[1] /\ Len(Tail(s)) = Len(s) - 1
          /\ \A i \in 1..Len(Tail(s)) : Tail(s)[i] = s[i + 1]
      BY <1>1, <1>3, EmptySeq, HeadTailProperties
    <2>2. \A i \in 1..Len(Tail(s)) : Loose(Tail(s)[i])
      BY <1>1, <1>2, <2>1
    <2>3. QED
      BY <1>1, <1>2, <2>1, <2>2 DEF Ahead
  <1>4. QED
    BY <1>2, <1>3

\* Loose calls are ahead of any line that is done.
LEMMA AheadDone ==
  ASSUME NEW s \in Seq(Proper), NEW X \in Seq(Proper),
         \A i \in 1..Len(s) : Loose(s[i])
  PROVE  Ahead(s, X, Len(X))
  <1>1. Len(X) \in Nat /\ Len(s) \in Nat /\ Len(X) - Len(X) = 0
    BY LenProperties
  <1>2. QED
    BY <1>1 DEF Ahead

\* The calls of X behind the first m are those of Y...
Behind(X, m, Y) == Len(X) = m + Len(Y) /\ \A i \in 1..Len(Y) : X[m + i] = Y[i]

\* ... so what is left of X there is left of Y.
LEMMA AheadBehind ==
  ASSUME NEW s, NEW X \in Seq(Proper), NEW Y \in Seq(Proper), NEW m \in Nat, Behind(X, m, Y)
  PROVE  Ahead(s, X, m) <=> Ahead(s, Y, 0)
  <1>1. /\ Len(X) \in Nat /\ Len(Y) \in Nat /\ Len(X) - m = Len(Y) - 0
        /\ Len(Y) - 0 = Len(Y)
    BY LenProperties DEF Behind
  <1>2. \A i \in 1..(Len(Y) - 0) : X[m + i] = Y[0 + i]
    <2>1. ASSUME NEW i \in 1..(Len(Y) - 0)
          PROVE  i \in 1..Len(Y) /\ 0 + i = i
      BY <1>1
    <2>2. QED
      BY <2>1 DEF Behind
  <1>3. QED
    BY <1>1, <1>2 DEF Ahead

\* A line that is put before loose calls.
LEMMA AheadStart ==
  ASSUME NEW X \in Seq(Proper), NEW t \in Seq(Proper), \A i \in 1..Len(t) : Loose(t[i])
  PROVE  Ahead(X \o t, X, 0)
  <1> DEFINE s == X \o t
  <1>1. Len(X) \in Nat /\ Len(t) \in Nat
    BY LenProperties
  <1>2. /\ Len(s) = Len(X) + Len(t)
        /\ \A i \in 1..(Len(X) + Len(t)) : s[i] = IF i <= Len(X) THEN X[i] ELSE t[i - Len(X)]
    BY ConcatProperties
  <1> HIDE DEF s
  <1>3. \A i \in 1..Len(X) : s[i] = X[0 + i]
    BY <1>1, <1>2
  <1>4. ASSUME NEW i \in (Len(X) + 1)..Len(s) PROVE Loose(s[i])
    <2>1. i - Len(X) \in 1..Len(t) /\ i \in 1..(Len(X) + Len(t)) /\ ~ (i <= Len(X))
      BY <1>1, <1>2
    <2>2. QED
      BY <1>2, <2>1
  <1>5. Len(X) - 0 = Len(X) /\ Len(X) <= Len(s)
    BY <1>1, <1>2
  <1>6. QED
    BY <1>3, <1>4, <1>5 DEF Ahead, s

-----------------------------------------------------------------------------
(***************************************************************************)
(* The invariant.  As long as no pulse is missed, and if the program       *)
(* before was not killed behind a high nibble 0, program and controller    *)
(* are at the same place: of the display's set-up, of lcd_init(), of the   *)
(* calls that lcd_print() makes before the text, or of the text.           *)
(***************************************************************************)
SettingUp ==
  \E j \in 0..7 :
    /\ prog = "display" /\ text = <<>>
    /\ Ahead(todo, SetUp, j)
    /\ InitAt(0, lcd, rs, direction[D4])

Initialising ==
  \E X \in InitLines, j \in 0..13 :
    /\ text = <<>>
    /\ Ahead(todo, X, j)
    /\ InitAt(j, lcd, rs, direction[D4])

Printing ==
  \E j \in 0..11 :
    /\ Ahead(todo, lcd_print(text), j)
    /\ PrintAt(j, lcd, rs, direction[D4])

Showing ==
  \E i \in 0..Len(text), h \in {0, 1} :
    /\ h = 1 => i < Len(text)
    /\ Ahead(todo, lcd_text(text), 2 * i + h)
    /\ TextAt(i, h, lcd, rs, direction[D4], text)

Phase == SettingUp \/ Initialising \/ Printing \/ Showing

Together == prog \in LcdPrograms /\ ~ missed /\ ~ cut => Phase

\* Whatever happened, a bus of 8 bits knows no halves.
LcdInv == (lcd.wide => lcd.half = None) /\ Together

\* The first call is made.
Made ==
  /\ todo # <<>> /\ todo' = Tail(todo)
  /\ UNCHANGED <<prog, text>>
  /\ Head(todo).call \in {"export", "direction"} => UNCHANGED <<rs, lcd>>
  /\ Head(todo).call = "write" => UNCHANGED <<rs, lcd>> /\ direction'[D4] = direction[D4]
  /\ Head(todo).call = "output" => UNCHANGED <<rs, lcd>> /\ direction'[D4] = Output
  /\ Head(todo).call = "rs" =>
       rs' = Value /\ lcd' = lcd /\ direction'[D4] = direction[D4]
  /\ Head(todo).call = "delay" =>
       lcd' = [lcd EXCEPT !.slow = FALSE] /\ rs' = rs /\ direction'[D4] = direction[D4]
  /\ Head(todo).call = "nibble" =>
       /\ rs' = rs /\ direction'[D4] = direction[D4]
       /\ direction[D4] = Output => \E u \in Nibbles : lcd' = Latch(lcd, rs, Value, u)

-----------------------------------------------------------------------------
(***************************************************************************)
(* One call of a line brings program and controller to the next place.     *)
(***************************************************************************)
LEMMA KindsOfCalls ==
  /\ PinModes.call = "output" /\ Delay.call = "delay"
  /\ \A v : Select(v).call = "rs" /\ Select(v).value = v
  /\ \A n : Nibble(n).call = "nibble" /\ Nibble(n).value = n
  /\ \A i : Greet(i).call = "print" /\ Greet(i).value = i
  BY DEF PinModes, Delay, Select, Nibble, Greet, Do

LEMMA SetUpLine ==
  /\ SetUp \in Seq(Proper) /\ Len(SetUp) = 8 + 13
  /\ \A i \in 1..8 : SetUp[i].call \in {"export", "direction"}
  /\ \A i \in 1..13 : SetUp[8 + i] = lcd_init[i]
  <1> DEFINE a == GPIOinit
             b == lcd_init
             s == SetUp
  <1>1. /\ a \in Seq(Proper) /\ Len(a) = 8
        /\ \A i \in 1..4 : a[i] = Export(POUT[i]) /\ a[4 + i] = Direction(POUT[i], Output)
    BY InitCalls
  <1>2. b \in Seq(Proper) /\ Len(b) = 13
    BY InitLine
  <1>3. s = a \o b
    BY DEF SetUp
  <1> HIDE DEF a, b, s
  <1>4. /\ s \in Seq(Proper) /\ Len(s) = Len(a) + Len(b)
        /\ \A i \in 1..(Len(a) + Len(b)) : s[i] = IF i <= Len(a) THEN a[i] ELSE b[i - Len(a)]
    BY <1>1, <1>2, <1>3, ConcatProperties
  <1>5. Len(s) = 8 + 13 /\ \A i \in 1..(8 + 13) : s[i] = IF i <= 8 THEN a[i] ELSE b[i - 8]
    BY <1>1, <1>2, <1>4
  <1>6. ASSUME NEW i \in 1..8 PROVE s[i].call \in {"export", "direction"}
    <2>1. \A k \in 1..4 : a[k].call = "export" /\ a[4 + k].call = "direction"
      BY <1>1 DEF Export, Direction, Do
    <2>2. i \in 1..4 \/ \E k \in 1..4 : i = 4 + k
      OBVIOUS
    <2>3. s[i] = a[i]
      BY <1>5
    <2>4. QED
      BY <2>1, <2>2, <2>3
  <1>7. ASSUME NEW i \in 1..13 PROVE s[8 + i] = b[i]
    <2>1. 8 + i \in 1..(8 + 13) /\ ~ (8 + i <= 8) /\ (8 + i) - 8 = i
      OBVIOUS
    <2>2. QED
      BY <1>5, <2>1
  <1>8. QED
    BY <1>4, <1>5, <1>6, <1>7 DEF s, b

LEMMA InitLinesBegin ==
  ASSUME NEW X \in InitLines
  PROVE  /\ X \in Seq(Proper) /\ Len(X) \in {13, 14}
         /\ \A i \in 1..13 : X[i] = lcd_init[i]
         /\ Len(X) = 14 => X[14] = Greet(4)
  <1> DEFINE a == lcd_init
             b == <<Greet(4)>>
             s == a \o b
  <1>1. a \in Seq(Proper) /\ Len(a) = 13
    BY InitLine
  <1>2. b \in Seq(Proper) /\ Len(b) = 1 /\ b[1] = Greet(4)
    <2>1. Greet(4) \in Proper
      BY SingleCalls, OthersAreCalls
    <2>2. QED
      BY <2>1
  <1>3. X = a \/ X = s
    BY DEF InitLines
  <1> HIDE DEF a, b
  <1>4. /\ s \in Seq(Proper) /\ Len(s) = Len(a) + Len(b)
        /\ \A i \in 1..(Len(a) + Len(b)) : s[i] = IF i <= Len(a) THEN a[i] ELSE b[i - Len(a)]
    BY <1>1, <1>2, ConcatProperties
  <1> HIDE DEF s
  <1>5. Len(s) = 14 /\ \A i \in 1..14 : s[i] = IF i <= 13 THEN a[i] ELSE b[i - 13]
    BY <1>1, <1>2, <1>4
  <1>6. \A i \in 1..13 : s[i] = a[i]
    BY <1>5
  <1>7. s[14] = Greet(4)
    <2>1. s[14] = b[14 - 13]
      BY <1>5
    <2>2. QED
      BY <1>2, <2>1
  <1>8. CASE X = a
    <2>1. Len(X) = 13 /\ X \in Seq(Proper)
      BY <1>1, <1>8, Zenon
    <2>2. Len(X) # 14
      BY <2>1
    <2>3. QED
      BY <1>8, <2>1, <2>2 DEF a
  <1>9. CASE X = s
    <2>1. Len(X) = 14 /\ X \in Seq(Proper)
      BY <1>4, <1>5, <1>9
    <2>2. \A i \in 1..13 : X[i] = lcd_init[i]
      BY <1>6, <1>9 DEF a
    <2>3. QED
      BY <1>7, <1>9, <2>1, <2>2
  <1>10. QED
    BY <1>3, <1>8, <1>9

\* The display's pins are set up, which the controller does not see.
LEMMA SettingUpStep ==
  ASSUME TypeInv, SettingUp, Made
  PROVE  SettingUp' \/ Initialising'
  <1>1. PICK j \in 0..7 : /\ prog = "display" /\ text = <<>>
                          /\ Ahead(todo, SetUp, j)
                          /\ InitAt(0, lcd, rs, direction[D4])
    BY DEF SettingUp
  <1>2. /\ j \in 0..(Len(SetUp) - 1) /\ j + 1 \in 1..8 /\ j + 1 \in Nat
        /\ SetUp \in Seq(Proper) /\ todo \in Seq(Proper)
    BY SetUpLine DEF TypeInv
  <1>3. Head(todo) = SetUp[j + 1] /\ Ahead(Tail(todo), SetUp, j + 1)
    BY <1>1, <1>2, AheadNext
  <1>4. UNCHANGED <<rs, lcd, prog, text>> /\ todo' = Tail(todo)
    <2>1. Head(todo).call \in {"export", "direction"}
      BY <1>2, <1>3, SetUpLine
    <2>2. QED
      BY <2>1 DEF Made
  <1>5. InitAt(0, lcd', rs', direction'[D4])
    BY <1>1, <1>4 DEF InitAt
  <1>6. CASE j # 7
    <2>1. j + 1 \in 0..7
      BY <1>6
    <2>2. QED
      BY <1>1, <1>3, <1>4, <1>5, <2>1 DEF SettingUp
  <1>7. CASE j = 7
    <2>1. Ahead(Tail(todo), SetUp, 8)
      BY <1>3, <1>7
    <2>2. Ahead(Tail(todo), lcd_init, 0)
      <3> DEFINE X == SetUp
                 Y == lcd_init
      <3>1. /\ X \in Seq(Proper) /\ Y \in Seq(Proper) /\ 8 \in Nat
            /\ Behind(X, 8, Y)
        BY SetUpLine, InitLine DEF Behind
      <3> HIDE DEF X, Y
      <3>2. Ahead(Tail(todo), X, 8) <=> Ahead(Tail(todo), Y, 0)
        BY <3>1, AheadBehind
      <3>3. QED
        BY <2>1, <3>2 DEF X, Y
    <2>3. lcd_init \in InitLines /\ 0 \in 0..13
      BY DEF InitLines
    <2>4. QED
      BY <1>1, <1>4, <1>5, <2>2, <2>3 DEF Initialising
  <1>8. QED
    BY <1>6, <1>7

LEMMA InitialisingStep ==
  ASSUME TypeInv, Initialising, Made, Head(todo).call # "print"
  PROVE  Initialising'
  <1>1. PICK X \in InitLines, j \in 0..13 :
          text = <<>> /\ Ahead(todo, X, j) /\ InitAt(j, lcd, rs, direction[D4])
    BY DEF Initialising
  <1>2. /\ X \in Seq(Proper) /\ Len(X) \in {13, 14} /\ todo \in Seq(Proper)
        /\ todo # <<>> /\ todo' = Tail(todo) /\ text' = text
    BY InitLinesBegin DEF TypeInv, Made
  <1>3. CASE j = 13
    <2>1. Len(X) = 13
      <3>1. ASSUME Len(X) = 14 PROVE FALSE
        <4>1. 13 \in 0..(Len(X) - 1) /\ 13 + 1 = 14 /\ Ahead(todo, X, 13)
          BY <1>1, <1>3, <3>1
        <4>2. Head(todo) = X[13 + 1]
          BY <1>2, <4>1, AheadNext
        <4>3. Head(todo) = Greet(4)
          BY <3>1, <4>1, <4>2, InitLinesBegin
        <4>4. QED
          BY <4>3, KindsOfCalls
      <3>2. QED
        BY <1>2, <3>1
    <2>2. Loose(Head(todo)) /\ Ahead(Tail(todo), X, 13)
      BY <1>1, <1>2, <1>3, <2>1, AheadLoose
    <2>3. UNCHANGED <<rs, lcd>> /\ direction'[D4] = direction[D4]
      BY <2>2 DEF Loose, Made
    <2>4. QED
      BY <1>1, <1>2, <1>3, <2>2, <2>3 DEF Initialising
  <1>4. CASE j # 13
    <2>1. j \in 0..(Len(X) - 1) /\ j + 1 \in 1..13 /\ j + 1 \in 0..13
      <3>1. CASE Len(X) = 13
        BY <1>4, <3>1
      <3>2. CASE Len(X) = 14
        BY <1>4, <3>2
      <3>3. QED
        BY <1>2, <3>1, <3>2
    <2>2. Head(todo) = lcd_init[j + 1] /\ Ahead(Tail(todo), X, j + 1)
      BY <1>1, <1>2, <2>1, AheadNext, InitLinesBegin
    <2>3. InitAt(j + 1, lcd', rs', direction'[D4])
      <3>1. CASE j = 0
        <4>1. Head(todo).call = "output"
          BY <2>2, <3>1, InitLine, KindsOfCalls
        <4>2. UNCHANGED <<rs, lcd>> /\ direction'[D4] = Output
          BY <4>1 DEF Made
        <4>3. QED
          BY <1>1, <3>1, <4>2 DEF InitAt
      <3>2. CASE j = 1
        <4>1. Head(todo).call = "rs" /\ Value = 0
          BY <2>2, <3>2, InitLine, KindsOfCalls DEF Value
        <4>2. rs' = 0 /\ lcd' = lcd /\ direction'[D4] = direction[D4]
          BY <4>1 DEF Made
        <4>3. QED
          BY <1>1, <3>2, <4>2 DEF InitAt
      <3>3. CASE j \in 2..11
        <4>1. j - 1 \in 1..10 /\ (j - 1) + 2 = j + 1
          BY <3>3
        <4>2. Head(todo) = Nibble(InitNibbles[j - 1])
          BY <2>2, <4>1, InitLine
        <4>3. Head(todo).call = "nibble" /\ Value = InitNibbles[j - 1]
          BY <4>2, KindsOfCalls DEF Value
        <4>4. direction[D4] = Output /\ rs = 0
          BY <1>1, <3>3 DEF InitAt
        <4>5. PICK u \in Nibbles : lcd' = Latch(lcd, rs, Value, u)
          BY <4>3, <4>4 DEF Made
        <4>6. rs' = 0 /\ direction'[D4] = Output
          BY <4>3, <4>4 DEF Made
        <4>7. InitAt(j + 1, Latch(lcd, 0, InitNibbles[j - 1], u), 0, Output)
          BY <1>1, <3>3, <4>4, LatchedInInit
        <4>8. QED
          BY <4>3, <4>4, <4>5, <4>6, <4>7
      <3>4. CASE j = 12
        <4>1. Head(todo).call = "delay"
          BY <2>2, <3>4, InitLine, KindsOfCalls
        <4>2. lcd' = [lcd EXCEPT !.slow = FALSE] /\ rs' = rs /\ direction'[D4] = direction[D4]
          BY <4>1 DEF Made
        <4>3. /\ lcd \in LcdStates /\ direction[D4] = Output /\ rs = 0 /\ ~ lcd.wide
              /\ lcd.half = None /\ lcd.on /\ lcd.line = Blanks /\ lcd.at = 0
          BY <1>1, <3>4 DEF InitAt
        <4>4. /\ lcd' \in LcdStates /\ ~ lcd'.slow /\ ~ lcd'.wide
              /\ lcd'.half = None /\ lcd'.on /\ lcd'.line = Blanks /\ lcd'.at = 0
          BY <4>2, <4>3 DEF LcdStates
        <4>5. QED
          BY <3>4, <4>2, <4>3, <4>4 DEF InitAt
      <3>5. QED
        BY <1>4, <3>1, <3>2, <3>3, <3>4
    <2>4. QED
      BY <1>1, <1>2, <2>1, <2>2, <2>3 DEF Initialising
  <1>5. QED
    BY <1>3, <1>4

LEMMA PrintingStep ==
  ASSUME TypeInv, Printing, Made
  PROVE  Printing' \/ Showing'
  <1>1. PICK j \in 0..11 : Ahead(todo, lcd_print(text), j) /\ PrintAt(j, lcd, rs, direction[D4])
    BY DEF Printing
  <1> DEFINE X == lcd_print(text)
  <1>2. /\ text \in Texts /\ todo \in Seq(Proper) /\ todo' = Tail(todo) /\ text' = text
        /\ todo # <<>>
    BY DEF TypeInv, TypeOK, Made
  <1>3. /\ X \in Seq(Proper) /\ Len(X) = 12 + 2 * Len(text) /\ Len(text) \in Nat
        /\ \A i \in 1..12 : X[i] = PrintHead[i]
        /\ \A i \in 1..Len(lcd_text(text)) : X[12 + i] = lcd_text(text)[i]
        /\ lcd_text(text) \in Seq(Proper) /\ Len(lcd_text(text)) = 2 * Len(text)
    BY <1>2, PrintLine, TextLine, LenProperties DEF Texts, lcd_text
  <1>4. Ahead(todo, X, j)
    BY <1>1
  <1> HIDE DEF X
  <1>5. j \in 0..(Len(X) - 1) /\ j + 1 \in 1..12
    BY <1>3
  <1>6. Head(todo) = PrintHead[j + 1] /\ Ahead(Tail(todo), X, j + 1)
    BY <1>2, <1>3, <1>4, <1>5, AheadNext
  <1>7. direction[D4] = Output /\ lcd \in LcdStates
    BY <1>1 DEF PrintAt
  <1>8. CASE j # 11
    <2>1. PrintAt(j + 1, lcd', rs', direction'[D4])
      <3>1. CASE j = 0
        <4>1. Head(todo).call = "rs" /\ Value = 0
          BY <1>6, <3>1, KindsOfCalls DEF PrintHead, Value
        <4>2. rs' = 0 /\ lcd' = lcd /\ direction'[D4] = direction[D4]
          BY <4>1 DEF Made
        <4>3. QED
          BY <1>1, <3>1, <4>2 DEF PrintAt
      <3>2. CASE j \in {1, 4, 7, 10}
        <4>1. Head(todo).call = "delay"
          BY <1>6, <3>2, KindsOfCalls DEF PrintHead
        <4>2. lcd' = [lcd EXCEPT !.slow = FALSE] /\ rs' = rs /\ direction'[D4] = direction[D4]
          BY <4>1 DEF Made
        <4>3. /\ rs = 0 /\ lcd.on /\ ~ lcd.wide /\ lcd.half = None
              /\ j >= 4 => lcd.line = Blanks /\ lcd.at = 0
          BY <1>1, <3>2 DEF PrintAt
        <4>4. /\ lcd' \in LcdStates /\ ~ lcd'.slow /\ ~ lcd'.wide /\ lcd'.half = None /\ lcd'.on
              /\ lcd'.line = lcd.line /\ lcd'.at = lcd.at
          BY <1>7, <4>2, <4>3 DEF LcdStates
        <4>5. /\ j + 1 \notin {3, 6} /\ j + 1 # 9
              /\ j + 1 >= 4 => j >= 4
          BY <3>2
        <4>6. QED
          BY <1>7, <4>2, <4>3, <4>4, <4>5 DEF PrintAt
      <3>3. CASE j \in {2, 3, 5, 6, 8, 9}
        <4>1. Head(todo).call = "nibble"
          BY <1>6, <3>3, KindsOfCalls DEF PrintHead
        <4>2. rs = 0
          BY <1>1, <3>3 DEF PrintAt
        <4>3. Value = PrintHead[j + 1].value
          BY <1>6 DEF Value
        <4>4. PICK u \in Nibbles : lcd' = Latch(lcd, rs, Value, u)
          BY <1>7, <4>1 DEF Made
        <4>5. rs' = 0 /\ direction'[D4] = Output
          BY <1>7, <4>1, <4>2 DEF Made
        <4>6. PrintAt(j + 1, Latch(lcd, 0, PrintHead[j + 1].value, u), 0, Output)
          BY <1>1, <1>7, <3>3, <4>2, LatchedInPrint
        <4>7. QED
          BY <4>2, <4>3, <4>4, <4>5, <4>6
      <3>4. QED
        BY <1>8, <3>1, <3>2, <3>3
    <2>2. j + 1 \in 0..11
      BY <1>8
    <2>3. QED
      BY <1>2, <1>6, <2>1, <2>2 DEF Printing, X
  <1>9. CASE j = 11
    <2>1. Head(todo).call = "rs" /\ Value = 1
      BY <1>6, <1>9, KindsOfCalls DEF PrintHead, Value
    <2>2. rs' = 1 /\ lcd' = lcd /\ direction'[D4] = Output
      BY <1>7, <2>1 DEF Made
    <2>3. /\ lcd.on /\ ~ lcd.wide /\ ~ lcd.slow /\ lcd.half = None
          /\ lcd.line = Blanks /\ lcd.at = 0
      BY <1>1, <1>9 DEF PrintAt
    <2>4. TextAt(0, 0, lcd', rs', direction'[D4], text)
      <3>1. lcd.at = IF 0 < Width THEN 0 ELSE Width
        BY <2>3, LcdAssumption
      <3>2. \A c \in Columns : lcd.line[c] = IF c < 0 THEN text[c + 1] ELSE Blank
        BY <2>3, LcdAssumption DEF Blanks, Columns
      <3>3. lcd.half = IF 0 = 1 THEN text[0 + 1][1] ELSE None
        BY <2>3
      <3>4. QED
        BY <1>7, <2>2, <2>3, <3>1, <3>2, <3>3, Zenon DEF TextAt
    <2>5. Ahead(todo', lcd_text(text), 2 * 0 + 0)
      <3>1. Ahead(Tail(todo), X, 12)
        BY <1>6, <1>9
      <3> DEFINE Y == lcd_text(text)
      <3>2. /\ X \in Seq(Proper) /\ Y \in Seq(Proper) /\ 12 \in Nat
            /\ Behind(X, 12, Y)
        BY <1>3 DEF Behind
      <3> HIDE DEF Y
      <3>3. Ahead(Tail(todo), X, 12) <=> Ahead(Tail(todo), Y, 0)
        BY <3>2, AheadBehind
      <3>4. 2 * 0 + 0 = 0
        OBVIOUS
      <3>5. QED
        BY <1>2, <3>1, <3>3, <3>4 DEF Y
    <2>6. 0 \in 0..Len(text) /\ 0 \in {0, 1} /\ ~ (0 = 1)
      BY <1>3
    <2>7. Showing'
      BY <1>2, <2>4, <2>5, <2>6, Zenon DEF Showing
    <2>8. QED
      BY <2>7
  <1>10. QED
    BY <1>8, <1>9

LEMMA ShowingStep ==
  ASSUME TypeInv, Showing, Made, Head(todo).call # "print"
  PROVE  Showing'
  <1>1. PICK i \in 0..Len(text), h \in {0, 1} :
          /\ h = 1 => i < Len(text)
          /\ Ahead(todo, lcd_text(text), 2 * i + h)
          /\ TextAt(i, h, lcd, rs, direction[D4], text)
    BY DEF Showing
  <1> DEFINE X == lcd_text(text)
             n == Len(text)
  <1>2. /\ text \in Texts /\ todo \in Seq(Proper) /\ todo' = Tail(todo) /\ text' = text
        /\ todo # <<>>
    BY DEF TypeInv, TypeOK, Made
  <1>3. /\ X \in Seq(Proper) /\ Len(X) = 2 * n /\ n \in Nat
        /\ \A k \in 0..(n - 1) : /\ X[2 * k + 1] = Nibble(text[k + 1][1])
                                 /\ X[2 * k + 2] = Nibble(text[k + 1][2])
    BY <1>2, TextLine, LenProperties DEF Texts, lcd_text
  <1>4. Ahead(todo, X, 2 * i + h) /\ i \in 0..n
    BY <1>1
  <1>5. direction[D4] = Output /\ rs = 1
    BY <1>1 DEF TextAt
  <1> HIDE DEF X
  <1>6. CASE i < n
    <2>1. /\ i \in 0..(n - 1) /\ 2 * i + h \in 0..(Len(X) - 1)
      BY <1>3, <1>4, <1>6
    <2>2. Head(todo) = X[(2 * i + h) + 1] /\ Ahead(Tail(todo), X, (2 * i + h) + 1)
      BY <1>2, <1>3, <1>4, <2>1, AheadNext
    <2>3. Head(todo) = Nibble(IF h = 0 THEN text[i + 1][1] ELSE text[i + 1][2])
      <3>1. CASE h = 0
        <4>1. (2 * i + h) + 1 = 2 * i + 1
          BY <3>1
        <4>2. QED
          BY <1>3, <2>1, <2>2, <3>1, <4>1
      <3>2. CASE h = 1
        <4>1. (2 * i + h) + 1 = 2 * i + 2 /\ h # 0
          BY <3>2
        <4>2. QED
          BY <1>3, <2>1, <2>2, <4>1
      <3>3. QED
        BY <3>1, <3>2
    <2>4. /\ Head(todo).call = "nibble"
          /\ Value = IF h = 0 THEN text[i + 1][1] ELSE text[i + 1][2]
      BY <2>3, KindsOfCalls DEF Value
    <2>5. PICK u \in Nibbles : lcd' = Latch(lcd, 1, Value, u)
      BY <1>5, <2>4 DEF Made
    <2>6. rs' = 1 /\ direction'[D4] = Output
      BY <1>5, <2>4 DEF Made
    <2>7. CASE h = 0
      <3>1. TextAt(i, 0, lcd, 1, Output, text)
        BY <1>1, <1>5, <2>7
      <3>2. TextAt(i, 1, Latch(lcd, 1, text[i + 1][1], u), 1, Output, text)
        BY <1>2, <2>1, <3>1, LatchedInText
      <3>3. TextAt(i, 1, lcd', rs', direction'[D4], text')
        BY <1>2, <2>4, <2>5, <2>6, <2>7, <3>2
      <3>4. Ahead(todo', X, 2 * i + 1)
        <4>1. (2 * i + h) + 1 = 2 * i + 1
          BY <2>7
        <4>2. QED
          BY <1>2, <2>2, <4>1
      <3>5. 1 \in {0, 1} /\ i \in 0..Len(text') /\ i < Len(text')
        BY <1>2, <1>4, <1>6
      <3>6. QED
        BY <1>2, <3>3, <3>4, <3>5 DEF Showing, X
    <2>8. CASE h = 1
      <3>1. TextAt(i, 1, lcd, 1, Output, text)
        BY <1>1, <1>5, <2>8
      <3>2. TextAt(i + 1, 0, Latch(lcd, 1, text[i + 1][2], u), 1, Output, text)
        BY <1>2, <2>1, <3>1, LatchedInText
      <3>3. TextAt(i + 1, 0, lcd', rs', direction'[D4], text')
        <4>1. Value = text[i + 1][2]
          BY <2>4, <2>8
        <4>2. QED
          BY <1>2, <2>5, <2>6, <3>2, <4>1
      <3>4. Ahead(todo', X, 2 * (i + 1) + 0)
        <4>1. (2 * i + h) + 1 = 2 * (i + 1) + 0
          BY <2>1, <2>8
        <4>2. QED
          BY <1>2, <2>2, <4>1
      <3>5. 0 \in {0, 1} /\ i + 1 \in 0..Len(text') /\ ~ (0 = 1)
        BY <1>2, <1>3, <2>1
      <3>6. QED
        BY <1>2, <3>3, <3>4, <3>5 DEF Showing, X
    <2>9. QED
      BY <2>7, <2>8
  <1>7. CASE ~ (i < n)
    <2>1. h = 0 /\ 2 * i + h = Len(X) /\ i = n
      BY <1>1, <1>3, <1>4, <1>7
    <2>2. Loose(Head(todo)) /\ Ahead(Tail(todo), X, Len(X))
      BY <1>2, <1>3, <1>4, <2>1, AheadLoose
    <2>3. UNCHANGED <<rs, lcd>> /\ direction'[D4] = direction[D4]
      BY <2>2 DEF Loose, Made
    <2>4. /\ Ahead(todo', X, 2 * i + h) /\ TextAt(i, h, lcd', rs', direction'[D4], text')
      BY <1>1, <1>2, <2>1, <2>2, <2>3
    <2>5. QED
      BY <1>1, <1>2, <2>4 DEF Showing, X
  <1>8. QED
    BY <1>6, <1>7

LEMMA MadeStep ==
  TypeInv /\ Phase /\ Made /\ Head(todo).call # "print" => Phase'
  <1> SUFFICES ASSUME TypeInv, Phase, Made, Head(todo).call # "print" PROVE Phase'
    OBVIOUS
  <1>1. (SettingUp \/ Initialising \/ Printing \/ Showing)'
    BY SettingUpStep, InitialisingStep, PrintingStep, ShowingStep DEF Phase
  <1>2. QED
    BY <1>1 DEF Phase

\* The actions that make a call, and the export that fails alone.
LEMMA PinCallsMade ==
  TypeInv /\ (GPIOExport \/ GPIOUnexport \/ GPIODirection \/ GPIOWrite \/ GPIORead) =>
    Made /\ Head(todo).call # "print" /\ UNCHANGED <<missed, cut, lcd>>
  <1> SUFFICES ASSUME TypeInv,
                      GPIOExport \/ GPIOUnexport \/ GPIODirection \/ GPIOWrite \/ GPIORead
               PROVE  Made /\ Head(todo).call # "print" /\ UNCHANGED <<missed, cut, lcd>>
    OBVIOUS
  <1>1. /\ todo # <<>> /\ todo' = Tail(todo)
        /\ UNCHANGED <<prog, text, missed, cut, rs, lcd>>
    BY DEF GPIOExport, GPIOUnexport, GPIODirection, GPIOWrite, GPIORead, Calling, Done,
           runVars, lcdVars
  <1>2. Head(todo).call \in {"export", "unexport", "direction", "write", "read"}
    BY DEF GPIOExport, GPIOUnexport, GPIODirection, GPIOWrite, GPIORead, Calling
  <1>3. Head(todo).call = "write" => direction' = direction
    BY DEF GPIOExport, GPIOUnexport, GPIODirection, GPIOWrite, GPIORead, Calling
  <1>4. QED
    BY <1>1, <1>2, <1>3 DEF Made

LEMMA LcdCallsMade ==
  TypeInv /\ (pinMode \/ SelectRegister \/ SendNibble \/ Wait) =>
    Made /\ Head(todo).call # "print" /\ UNCHANGED <<missed, cut>>
  <1> SUFFICES ASSUME TypeInv, pinMode \/ SelectRegister \/ SendNibble \/ Wait
               PROVE  Made /\ Head(todo).call # "print" /\ UNCHANGED <<missed, cut>>
    OBVIOUS
  <1>1. /\ todo # <<>> /\ todo' = Tail(todo) /\ UNCHANGED <<prog, text, missed, cut>>
    BY DEF pinMode, SelectRegister, SendNibble, Wait, Calling, Done, runVars
  <1>2. CASE pinMode
    <2>1. Head(todo).call = "output" /\ UNCHANGED <<rs, lcd>>
      BY <1>2 DEF pinMode, Calling, lcdVars
    <2>2. direction'[D4] = Output
      BY <1>2 DEF pinMode, TypeInv, TypeOK, Pins, D4
    <2>3. QED
      BY <1>1, <2>1, <2>2 DEF Made
  <1>3. CASE SelectRegister
    BY <1>1, <1>3 DEF SelectRegister, Calling, pinVars, Made
  <1>4. CASE Wait
    BY <1>1, <1>4 DEF Wait, Calling, pinVars, Made
  <1>5. CASE SendNibble
    <2>1. Head(todo).call = "nibble" /\ rs' = rs /\ direction'[D4] = direction[D4]
      BY <1>5 DEF SendNibble, Calling, pinVars
    <2>2. PICK n \in OnWires(Value), u \in {0, 15} : lcd' = Latch(lcd, rs, n, u)
      BY <1>5 DEF SendNibble
    <2>3. direction[D4] = Output => n = Value
      BY DEF OnWires
    <2>4. u \in Nibbles
      BY DEF Nibbles
    <2>5. QED
      BY <1>1, <2>1, <2>2, <2>3, <2>4 DEF Made
  <1>6. QED
    BY <1>2, <1>3, <1>4, <1>5

\* A controller that is not on a bus of 8 bits with half a byte stays so.
LEMMA HalfKept ==
  ASSUME NEW l \in LcdStates, l.wide => l.half = None,
         NEW r \in {0, 1}, NEW n \in Nibbles, NEW u \in Nibbles
  PROVE  Latch(l, r, n, u).wide => Latch(l, r, n, u).half = None
  <1>1. ASSUME NEW k \in LcdStates, NEW b \in Bytes
        PROVE  Execute(k, r, b).half = k.half
    BY DEF Execute, Command, Character, LcdStates
  <1>2. <<n, u>> \in Bytes /\ (l.half # None => <<l.half, n>> \in Bytes)
    BY DEF Bytes, LcdStates
  <1> DEFINE m == Latch(l, r, n, u)
  <1>3. /\ ~ l.slow /\ l.wide => m = Execute(l, r, <<n, u>>)
        /\ ~ l.slow /\ ~ l.wide /\ l.half = None => m = [l EXCEPT !.half = n]
        /\ ~ l.slow /\ ~ l.wide /\ l.half # None =>
             m = Execute([l EXCEPT !.half = None], r, <<l.half, n>>)
        /\ l.slow => m = l
    BY DEF Latch
  <1> HIDE DEF m
  <1>4. CASE l.slow
    BY <1>4, <1>3 DEF m
  <1>5. CASE ~ l.slow /\ l.wide
    <2>1. m.half = l.half
      BY <1>1, <1>2, <1>5, <1>3
    <2>2. QED
      BY <1>5, <2>1 DEF m
  <1>6. CASE ~ l.slow /\ ~ l.wide /\ l.half = None
    <2>1. m = [l EXCEPT !.half = n]
      BY <1>6, <1>3
    <2>2. ~ [l EXCEPT !.half = n].wide
      BY <1>6 DEF LcdStates
    <2>3. QED
      BY <2>1, <2>2 DEF m
  <1>7. CASE ~ l.slow /\ ~ l.wide /\ l.half # None
    <2>1. m = Execute([l EXCEPT !.half = None], r, <<l.half, n>>)
      BY <1>7, <1>3
    <2>2. [l EXCEPT !.half = None] \in LcdStates /\ [l EXCEPT !.half = None].half = None
      BY DEF LcdStates
    <2>3. QED
      BY <1>1, <1>2, <1>7, <2>1, <2>2 DEF m
  <1>8. QED
    BY <1>4, <1>5, <1>6, <1>7

\* The controller is done with a clear: wherever that is, program and controller stay there.
LEMMA ReadyStep ==
  ASSUME TypeInv, Phase, lcd' = [lcd EXCEPT !.slow = FALSE],
         UNCHANGED <<todo, prog, text, rs, direction>>
  PROVE  Phase'
  <1> DEFINE l == lcd
             k == [lcd EXCEPT !.slow = FALSE]
  <1>1. /\ k \in LcdStates /\ ~ k.slow /\ k.wide = l.wide /\ k.half = l.half /\ k.on = l.on
        /\ k.line = l.line /\ k.at = l.at
    BY DEF TypeInv, TypeOK, LcdStates
  <1> HIDE DEF k
  <1>2. \A j \in 0..13 : InitAt(j, lcd, rs, direction[D4]) => InitAt(j, k, rs, direction[D4])
    BY <1>1 DEF InitAt
  <1>3. \A j \in 0..11 : PrintAt(j, lcd, rs, direction[D4]) => PrintAt(j, k, rs, direction[D4])
    BY <1>1 DEF PrintAt
  <1>4. \A i \in 0..Len(text), h \in {0, 1} :
          TextAt(i, h, lcd, rs, direction[D4], text) => TextAt(i, h, k, rs, direction[D4], text)
    BY <1>1 DEF TextAt
  <1>5. lcd' = k
    BY DEF k
  <1>6. SettingUp => SettingUp'
    <2>1. InitAt(0, lcd, rs, direction[D4]) => InitAt(0, k, rs, direction[D4])
      BY <1>2
    <2>2. QED
      BY <1>5, <2>1 DEF SettingUp
  <1>7. Initialising => Initialising'
    BY <1>2, <1>5 DEF Initialising
  <1>8. Printing => Printing'
    BY <1>3, <1>5 DEF Printing
  <1>9. Showing => Showing'
    BY <1>4, <1>5 DEF Showing
  <1>10. QED
    BY <1>6, <1>7, <1>8, <1>9 DEF Phase

-----------------------------------------------------------------------------
(***************************************************************************)
(* Where a line is done.                                                   *)
(***************************************************************************)
Initialised == text = <<>> /\ InitAt(13, lcd, rs, direction[D4])

Shown == TextAt(Len(text), 0, lcd, rs, direction[D4], text)

AllLoose(s) == \A i \in 1..Len(s) : Loose(s[i])

\* Only loose calls are left...
Settled == AllLoose(todo) /\ (Initialised \/ Shown)

\* ... or the greeting of socket_lcd.c.
GreetingDue ==
  /\ todo # <<>> /\ Head(todo) = Greet(4) /\ AllLoose(Tail(todo))
  /\ Initialised

LEMMA SettingUpHead ==
  TypeInv /\ SettingUp => todo # <<>> /\ Head(todo).call \in {"export", "direction"}
  <1> SUFFICES ASSUME TypeInv, SettingUp
               PROVE  todo # <<>> /\ Head(todo).call \in {"export", "direction"}
    OBVIOUS
  <1>1. PICK j \in 0..7 : Ahead(todo, SetUp, j)
    BY DEF SettingUp
  <1>2. /\ j \in 0..(Len(SetUp) - 1) /\ j + 1 \in 1..8
        /\ SetUp \in Seq(Proper) /\ todo \in Seq(Proper)
    BY SetUpLine DEF TypeInv
  <1>3. todo # <<>> /\ Head(todo) = SetUp[j + 1]
    BY <1>1, <1>2, AheadNext
  <1>4. QED
    BY <1>2, <1>3, SetUpLine

LEMMA InitialisingHead ==
  TypeInv /\ Initialising =>
    (todo # <<>> /\ Head(todo).call \in LcdCalls) \/ Settled \/ GreetingDue
  <1> SUFFICES ASSUME TypeInv, Initialising
               PROVE  (todo # <<>> /\ Head(todo).call \in LcdCalls) \/ Settled \/ GreetingDue
    OBVIOUS
  <1>1. PICK X \in InitLines, j \in 0..13 :
          text = <<>> /\ Ahead(todo, X, j) /\ InitAt(j, lcd, rs, direction[D4])
    BY DEF Initialising
  <1>2. X \in Seq(Proper) /\ Len(X) \in {13, 14} /\ todo \in Seq(Proper)
    BY InitLinesBegin DEF TypeInv
  <1>3. CASE j # 13
    <2>1. j \in 0..(Len(X) - 1) /\ j + 1 \in 1..13
      <3>1. CASE Len(X) = 13
        BY <1>3, <3>1
      <3>2. CASE Len(X) = 14
        BY <1>3, <3>2
      <3>3. QED
        BY <1>2, <3>1, <3>2
    <2>2. todo # <<>> /\ Head(todo) = lcd_init[j + 1]
      BY <1>1, <1>2, <2>1, AheadNext, InitLinesBegin
    <2>3. lcd_init[j + 1].call \in LcdCalls
      <3>1. CASE j \in 2..11
        <4>1. j - 1 \in 1..10 /\ (j - 1) + 2 = j + 1
          BY <3>1
        <4>2. lcd_init[j + 1] = Nibble(InitNibbles[j - 1])
          BY <4>1, InitLine
        <4>3. QED
          BY <4>2, KindsOfCalls DEF LcdCalls
      <3>2. CASE j \in {0, 1, 12}
        BY <3>2, InitLine, KindsOfCalls DEF LcdCalls
      <3>3. QED
        BY <1>3, <3>1, <3>2
    <2>4. QED
      BY <2>2, <2>3
  <1>4. CASE j = 13 /\ Len(X) = 13
    <2>1. Ahead(todo, X, Len(X))
      BY <1>1, <1>4
    <2>2. AllLoose(todo)
      BY <1>2, <2>1, AheadLoose DEF AllLoose
    <2>3. QED
      BY <1>1, <1>4, <2>2 DEF Settled, Initialised
  <1>5. CASE j = 13 /\ Len(X) = 14
    <2>1. 13 \in 0..(Len(X) - 1) /\ 13 + 1 = 14 /\ Ahead(todo, X, 13)
      BY <1>1, <1>5
    <2>2. todo # <<>> /\ Head(todo) = X[13 + 1] /\ Ahead(Tail(todo), X, 13 + 1)
      BY <1>2, <2>1, AheadNext
    <2>3. Head(todo) = Greet(4)
      BY <1>5, <2>1, <2>2, InitLinesBegin
    <2>4. Tail(todo) \in Seq(Proper) /\ Ahead(Tail(todo), X, Len(X))
      BY <1>2, <1>5, <2>1, <2>2, HeadTailProperties
    <2>5. AllLoose(Tail(todo))
      BY <1>2, <2>4, AheadLoose DEF AllLoose
    <2>6. QED
      BY <1>1, <1>5, <2>2, <2>3, <2>5 DEF GreetingDue, Initialised
  <1>6. QED
    BY <1>2, <1>3, <1>4, <1>5

LEMMA PrintingHead ==
  TypeInv /\ Printing => todo # <<>> /\ Head(todo).call \in LcdCalls
  <1> SUFFICES ASSUME TypeInv, Printing PROVE todo # <<>> /\ Head(todo).call \in LcdCalls
    OBVIOUS
  <1> DEFINE X == lcd_print(text)
  <1>1. PICK j \in 0..11 : Ahead(todo, X, j)
    BY DEF Printing
  <1>2. /\ X \in Seq(Proper) /\ Len(X) = 12 + 2 * Len(text) /\ Len(text) \in Nat
        /\ \A i \in 1..12 : X[i] = PrintHead[i]
        /\ todo \in Seq(Proper)
    BY PrintLine, LenProperties DEF Texts, TypeInv, TypeOK
  <1> HIDE DEF X
  <1>3. j \in 0..(Len(X) - 1) /\ j + 1 \in 1..12
    BY <1>2
  <1>4. todo # <<>> /\ Head(todo) = PrintHead[j + 1]
    BY <1>1, <1>2, <1>3, AheadNext
  <1>5. \A i \in 1..12 : PrintHead[i].call \in LcdCalls
    BY KindsOfCalls DEF PrintHead, LcdCalls
  <1>6. QED
    BY <1>3, <1>4, <1>5

LEMMA ShowingHead ==
  TypeInv /\ Showing => (todo # <<>> /\ Head(todo).call \in LcdCalls) \/ Settled
  <1> SUFFICES ASSUME TypeInv, Showing
               PROVE  (todo # <<>> /\ Head(todo).call \in LcdCalls) \/ Settled
    OBVIOUS
  <1> DEFINE X == lcd_text(text)
             n == Len(text)
  <1>1. PICK i \in 0..n, h \in {0, 1} :
          /\ h = 1 => i < n
          /\ Ahead(todo, X, 2 * i + h)
          /\ TextAt(i, h, lcd, rs, direction[D4], text)
    BY DEF Showing
  <1>2. /\ X \in Seq(Proper) /\ Len(X) = 2 * n /\ n \in Nat /\ todo \in Seq(Proper)
        /\ \A k \in 0..(n - 1) : /\ X[2 * k + 1] = Nibble(text[k + 1][1])
                                 /\ X[2 * k + 2] = Nibble(text[k + 1][2])
    BY TextLine, LenProperties DEF Texts, lcd_text, TypeInv, TypeOK
  <1> HIDE DEF X
  <1>3. CASE i < n
    <2>1. i \in 0..(n - 1) /\ 2 * i + h \in 0..(Len(X) - 1)
      BY <1>2, <1>3
    <2>2. todo # <<>> /\ Head(todo) = X[(2 * i + h) + 1]
      BY <1>1, <1>2, <2>1, AheadNext
    <2>3. (2 * i + h) + 1 = 2 * i + 1 \/ (2 * i + h) + 1 = 2 * i + 2
      BY <2>1
    <2>4. X[2 * i + 1].call = "nibble" /\ X[2 * i + 2].call = "nibble"
      BY <1>2, <2>1, KindsOfCalls
    <2>5. QED
      BY <2>2, <2>3, <2>4 DEF LcdCalls
  <1>4. CASE ~ (i < n)
    <2>1. i = n /\ h = 0 /\ 2 * i + h = Len(X)
      BY <1>1, <1>2, <1>4
    <2>2. Ahead(todo, X, Len(X)) /\ Shown
      BY <1>1, <2>1 DEF Shown
    <2>3. AllLoose(todo)
      BY <1>2, <2>2, AheadLoose DEF AllLoose
    <2>4. QED
      BY <2>2, <2>3 DEF Settled
  <1>5. QED
    BY <1>3, <1>4

\* A program that is not in the middle of its set-up or of a line for the LCD has just done
\* with one.
LEMMA Places ==
  ASSUME TypeInv, Phase
  PROVE  \/ SettingUp /\ todo # <<>> /\ Head(todo).call \in {"export", "direction"}
         \/ todo # <<>> /\ Head(todo).call \in LcdCalls
         \/ Settled
         \/ GreetingDue
  BY SettingUpHead, InitialisingHead, PrintingHead, ShowingHead DEF Phase

\* In those places the LCD shows what was printed last.
LEMMA DoneShows ==
  ASSUME TypeInv, Initialised \/ Shown
  PROVE  Shows(lcd, text)
  <1>1. CASE Initialised
    <2>1. text = <<>> /\ Len(<<>>) = 0 /\ lcd.on /\ lcd.line = Blanks
      BY <1>1 DEF Initialised, InitAt
    <2>2. QED
      BY <2>1 DEF Shows, Blanks, Columns
  <1>2. CASE Shown
    BY <1>2 DEF Shown, TextAt, Shows
  <1>3. QED
    BY <1>1, <1>2

LEMMA InvTruth == TypeInv /\ LcdInv => LcdTruth
  <1> SUFFICES ASSUME TypeInv, LcdInv, Printed, ~ missed, ~ cut PROVE Shows(lcd, text)
    BY DEF LcdTruth
  <1>1. Phase
    BY DEF LcdInv, Together, Printed
  <1>2. ~ (todo # <<>> /\ Head(todo).call \in LcdCalls \cup {"export", "direction"})
    BY DEF Printed, LcdCalls
  <1>3. Initialised \/ Shown
    BY <1>1, <1>2, Places DEF Settled, GreetingDue
  <1>4. QED
    BY <1>3, DoneShows

-----------------------------------------------------------------------------
(***************************************************************************)
(* The other steps: what is dropped, and what is begun.                    *)
(***************************************************************************)
\* The first calls of a line are dropped.
LEMMA AheadDropped ==
  ASSUME NEW s \in Seq(Proper), NEW X \in Seq(Proper), NEW j \in 0..Len(X),
         NEW n \in 0..(Len(X) - j), Ahead(s, X, j)
  PROVE  Ahead(SubSeq(s, n + 1, Len(s)), X, j + n)
  <1> DEFINE t == SubSeq(s, n + 1, Len(s))
  <1>1. /\ Len(X) \in Nat /\ Len(s) \in Nat /\ n \in Nat /\ n <= Len(s)
        /\ Len(X) - (j + n) = (Len(X) - j) - n
    BY LenProperties DEF Ahead
  <1>2. Len(t) = Len(s) - n /\ \A i \in 1..Len(t) : t[i] = s[n + i]
    <2>1. Len(t) = IF n + 1 <= Len(s) THEN Len(s) - (n + 1) + 1 ELSE 0
      BY <1>1
    <2>2. Len(t) = Len(s) - n
      BY <1>1, <2>1
    <2>3. \A i \in 1..(Len(s) - n) : t[i] = s[(n + 1) + i - 1] /\ (n + 1) + i - 1 = n + i
      BY <1>1
    <2>4. QED
      BY <2>2, <2>3
  <1> HIDE DEF t
  <1>3. ASSUME NEW i \in 1..(Len(X) - (j + n)) PROVE t[i] = X[(j + n) + i]
    <2>1. n + i \in 1..(Len(X) - j) /\ i \in 1..Len(t) /\ j + (n + i) = (j + n) + i
      BY <1>1, <1>2 DEF Ahead
    <2>2. s[n + i] = X[j + (n + i)]
      BY <2>1 DEF Ahead
    <2>3. QED
      BY <1>2, <2>1, <2>2
  <1>4. ASSUME NEW i \in (Len(X) - (j + n) + 1)..Len(t) PROVE Loose(t[i])
    <2>1. n + i \in (Len(X) - j + 1)..Len(s) /\ i \in 1..Len(t)
      BY <1>1, <1>2 DEF Ahead
    <2>2. Loose(s[n + i])
      BY <2>1 DEF Ahead
    <2>3. QED
      BY <1>2, <2>1, <2>2
  <1>5. Len(X) - (j + n) <= Len(t)
    BY <1>1, <1>2 DEF Ahead
  <1>6. QED
    BY <1>3, <1>4, <1>5 DEF Ahead, t

\* What the display drops when a call fails is the rest of GPIOinit(), or of gpio_write().
LEMMA DropStep ==
  ASSUME TypeInv, Phase, prog = "display", todo # <<>>,
         Head(todo).call \in {"export", "unexport", "direction", "write"},
         NEW code, Returns(code)
  PROVE  Phase'
  <1>1. PICK n \in 1..Len(todo) :
          /\ \A i \in 1..n : todo[i].call \notin LcdCalls
          /\ n < Len(todo) => todo[n + 1].call \in LcdCalls
          /\ todo' = SubSeq(todo, n + 1, Len(todo))
    BY DEF Returns, Ignoring
  <1>2. UNCHANGED <<rs, lcd, direction, prog, text>>
    BY DEF Returns, Ignoring, pinVars, lcdVars, runVars
  <1>3. todo \in Seq(Proper) /\ Len(todo) \in Nat /\ n \in Nat
    BY LenProperties DEF TypeInv
  <1>4. CASE SettingUp
    <2>1. PICK j \in 0..7 : /\ prog = "display" /\ text = <<>>
                            /\ Ahead(todo, SetUp, j)
                            /\ InitAt(0, lcd, rs, direction[D4])
      BY <1>4 DEF SettingUp
    <2> DEFINE X == SetUp
    <2>2. /\ X \in Seq(Proper) /\ Len(X) = 21
          /\ \A i \in 1..8 : X[i].call \notin LcdCalls
          /\ X[9].call \in LcdCalls
      <3>1. X[8 + 1] = lcd_init[1]
        BY SetUpLine
      <3>2. X[9].call \in LcdCalls
        BY <3>1, InitLine, KindsOfCalls DEF LcdCalls
      <3>3. \A i \in 1..8 : X[i].call \notin LcdCalls
        BY SetUpLine DEF LcdCalls
      <3>4. QED
        BY <3>2, <3>3, SetUpLine
    <2>3. Ahead(todo, X, j)
      BY <2>1
    <2> HIDE DEF X
    <2>4. 21 - j <= Len(todo) /\ \A i \in 1..(21 - j) : todo[i] = X[j + i]
      BY <2>2, <2>3 DEF Ahead
    <2>5. ~ (n > 8 - j)
      <3>1. ASSUME n > 8 - j PROVE FALSE
        <4>1. 9 - j \in 1..n /\ 9 - j \in 1..(21 - j) /\ j + (9 - j) = 9
          BY <1>3, <3>1
        <4>2. todo[9 - j] = X[9]
          BY <2>4, <4>1
        <4>3. QED
          BY <1>1, <2>2, <4>1, <4>2
      <3>2. QED
        BY <3>1
    <2>6. ~ (n < 8 - j)
      <3>1. ASSUME n < 8 - j PROVE FALSE
        <4>1. n + 1 \in 1..(21 - j) /\ n < Len(todo) /\ j + (n + 1) \in 1..8
          BY <1>3, <2>4, <3>1
        <4>2. todo[n + 1] = X[j + (n + 1)]
          BY <2>4, <4>1
        <4>3. QED
          BY <1>1, <2>2, <4>1, <4>2
      <3>2. QED
        BY <3>1
    <2>7. j + n = 8 /\ j \in 0..Len(X) /\ n \in 0..(Len(X) - j)
      BY <1>3, <2>2, <2>5, <2>6
    <2>8. Ahead(todo', X, 8)
      <3>1. Ahead(SubSeq(todo, n + 1, Len(todo)), X, j + n)
        BY <1>3, <2>2, <2>3, <2>7, AheadDropped
      <3>2. QED
        BY <1>1, <2>7, <3>1
    <2>9. Ahead(todo', lcd_init, 0)
      <3> DEFINE Y == lcd_init
      <3>1. Y \in Seq(Proper) /\ 8 \in Nat /\ Behind(X, 8, Y)
        BY SetUpLine, InitLine DEF Behind, X
      <3> HIDE DEF Y
      <3>2. Ahead(todo', X, 8) <=> Ahead(todo', Y, 0)
        BY <2>2, <3>1, AheadBehind
      <3>3. QED
        BY <2>8, <3>2 DEF Y
    <2>10. lcd_init \in InitLines /\ 0 \in 0..13
      BY DEF InitLines
    <2>11. Initialising'
      BY <1>2, <2>1, <2>9, <2>10 DEF Initialising
    <2>12. QED
      BY <2>11 DEF Phase
  <1>5. CASE ~ SettingUp
    <2>1. Head(todo).call \notin LcdCalls /\ ~ GreetingDue
      BY KindsOfCalls DEF LcdCalls, GreetingDue
    <2>2. Settled
      BY <1>5, <2>1, Places
    <2>3. todo' \in Seq(Proper) /\ AllLoose(todo')
      <3>1. todo' = SubSeq(todo, n + 1, Len(todo)) /\ AllLoose(todo)
        BY <1>1, <2>2 DEF Settled
      <3> DEFINE X == <<>>
      <3>2. X \in Seq(Proper) /\ Len(X) = 0 /\ Ahead(todo, X, 0)
        BY EmptySeq, <1>3, <3>1, AheadDone DEF AllLoose
      <3>3. \A i \in (n + 1)..Len(todo) : todo[i] \in Proper
        BY <1>3, ElementOfSeq
      <3>4. todo' \in Seq(Proper)
        BY <1>3, <3>1, <3>3, SubSeqProperties
      <3>5. \A i \in 1..Len(todo') : n + i \in 1..Len(todo) /\ todo'[i] = todo[n + i]
        <4>1. Len(todo') = Len(todo) - n
          BY <1>3, <3>1
        <4>2. \A i \in 1..(Len(todo) - n) :
                /\ todo'[i] = todo[(n + 1) + i - 1] /\ (n + 1) + i - 1 = n + i
                /\ n + i \in 1..Len(todo)
          BY <1>3, <3>1
        <4>3. QED
          BY <4>1, <4>2
      <3>6. QED
        BY <3>1, <3>4, <3>5 DEF AllLoose
    <2>4. CASE Initialised
      <3>1. Ahead(todo', lcd_init, 13)
        BY <2>3, AheadDone, InitLine DEF AllLoose
      <3>2. lcd_init \in InitLines /\ 13 \in 0..13
        BY DEF InitLines
      <3>3. Initialising'
        BY <1>2, <2>4, <3>1, <3>2 DEF Initialising, Initialised
      <3>4. QED
        BY <3>3 DEF Phase
    <2>5. CASE Shown
      <3> DEFINE k == Len(text)
                 Y == lcd_text(text)
      <3>1. Y \in Seq(Proper) /\ Len(Y) = 2 * k + 0 /\ k \in Nat
        BY TextLine, LenProperties DEF Texts, lcd_text, TypeInv, TypeOK
      <3> HIDE DEF Y
      <3>2. Ahead(todo', Y, 2 * k + 0)
        BY <2>3, <3>1, AheadDone DEF AllLoose
      <3>3. k \in 0..Len(text) /\ 0 \in {0, 1} /\ ~ (0 = 1)
        BY <3>1
      <3>4. TextAt(k, 0, lcd', rs', direction'[D4], text')
        BY <1>2, <2>5 DEF Shown
      <3>5. Showing'
        BY <1>2, <3>2, <3>3, <3>4 DEF Showing, Y
      <3>6. QED
        BY <3>5 DEF Phase
    <2>6. QED
      BY <2>2, <2>4, <2>5 DEF Settled
  <1>6. QED
    BY <1>4, <1>5

\* lcd_print() begins where a line is done.
LEMMA PrintBegins ==
  ASSUME TypeInv, Initialised \/ Shown, text' \in Texts, NEW t \in Seq(Proper), AllLoose(t),
         todo' = lcd_print(text') \o t, UNCHANGED <<rs, lcd, direction>>
  PROVE  Printing'
  <1> DEFINE X == lcd_print(text')
  <1>1. X \in Seq(Proper)
    BY PrintLine
  <1> HIDE DEF X
  <1>2. Ahead(X \o t, X, 0)
    BY <1>1, AheadStart DEF AllLoose
  <1>3. /\ lcd \in LcdStates /\ direction[D4] = Output /\ lcd.on /\ ~ lcd.wide /\ lcd.half = None
    <2>1. CASE Initialised
      BY <2>1 DEF Initialised, InitAt
    <2>2. CASE Shown
      BY <2>2 DEF Shown, TextAt
    <2>3. QED
      BY <2>1, <2>2
  <1>4. PrintAt(0, lcd', rs', direction'[D4])
    BY <1>3 DEF PrintAt
  <1>5. Ahead(todo', X, 0) /\ 0 \in 0..11
    BY <1>2 DEF X
  <1>6. QED
    BY <1>4, <1>5 DEF Printing, X

\* socket_lcd.c sends its text without the clear of lcd_print(): lcd_init() has just done one.
LEMMA GreetingBegins ==
  ASSUME TypeInv, Initialised, text' \in Texts, NEW t \in Seq(Proper), AllLoose(t),
         todo' = (SetChrMode \o lcd_text(text')) \o t, UNCHANGED <<rs, lcd, direction>>
  PROVE  Printing'
  <1> DEFINE X == lcd_print(text')
             Y == SetChrMode \o lcd_text(text')
             x == lcd_text(text')
  <1>1. /\ X \in Seq(Proper) /\ Len(X) = 12 + Len(x)
        /\ \A i \in 1..12 : X[i] = PrintHead[i]
        /\ \A i \in 1..Len(x) : X[12 + i] = x[i]
        /\ x \in Seq(Proper) /\ Len(x) \in Nat
    BY PrintLine, TextLine, LenProperties DEF Texts, lcd_text
  <1>2. /\ SetChrMode \in Seq(Proper) /\ Len(SetChrMode) = 1 /\ SetChrMode[1] = PrintHead[12]
    <2>1. Select(1) \in Proper
      BY SingleCalls, OthersAreCalls
    <2>2. QED
      BY <2>1 DEF SetChrMode, PrintHead
  <1> DEFINE c == SetChrMode
  <1> HIDE DEF X, c, x
  <1>3. /\ Y \in Seq(Proper) /\ Len(Y) = 1 + Len(x)
        /\ \A i \in 1..(1 + Len(x)) : Y[i] = IF i <= 1 THEN c[i] ELSE x[i - 1]
    <2>1. Y = c \o x
      BY DEF c, x
    <2>2. c \in Seq(Proper) /\ Len(c) = 1
      BY <1>2 DEF c
    <2>3. /\ c \o x \in Seq(Proper) /\ Len(c \o x) = Len(c) + Len(x)
          /\ \A i \in 1..(Len(c) + Len(x)) : (c \o x)[i] = IF i <= Len(c) THEN c[i] ELSE x[i - Len(c)]
      BY <1>1, <2>2, ConcatProperties
    <2>4. QED
      BY <2>1, <2>2, <2>3
  <1> HIDE DEF Y
  <1>4. Behind(X, 11, Y)
    <2>1. Len(X) = 11 + Len(Y)
      BY <1>1, <1>3
    <2>2. ASSUME NEW i \in 1..Len(Y) PROVE X[11 + i] = Y[i]
      <3>1. CASE i = 1
        <4>1. Y[1] = c[1] /\ X[12] = PrintHead[12] /\ 11 + i = 12
          BY <1>1, <1>3, <2>2, <3>1
        <4>2. QED
          BY <1>2, <3>1, <4>1 DEF c
      <3>2. CASE i # 1
        <4>1. i \in 1..(1 + Len(x)) /\ ~ (i <= 1) /\ i - 1 \in 1..Len(x) /\ 12 + (i - 1) = 11 + i
          BY <1>1, <1>3, <3>2
        <4>2. Y[i] = x[i - 1] /\ X[12 + (i - 1)] = x[i - 1]
          BY <1>1, <1>3, <4>1
        <4>3. QED
          BY <4>1, <4>2
      <3>3. QED
        BY <3>1, <3>2
    <2>3. QED
      BY <2>1, <2>2 DEF Behind
  <1>5. Ahead(todo', X, 11)
    <2>1. Ahead(Y \o t, Y, 0)
      BY <1>3, AheadStart DEF AllLoose
    <2>2. Ahead(todo', Y, 0)
      BY <2>1 DEF Y
    <2>3. 11 \in Nat
      OBVIOUS
    <2>4. Ahead(todo', X, 11) <=> Ahead(todo', Y, 0)
      BY <1>1, <1>3, <1>4, <2>3, AheadBehind
    <2>5. QED
      BY <2>2, <2>4
  <1>6. /\ lcd \in LcdStates /\ direction[D4] = Output /\ lcd.on /\ ~ lcd.wide /\ ~ lcd.slow
        /\ lcd.half = None /\ rs = 0 /\ lcd.line = Blanks /\ lcd.at = 0
    BY DEF Initialised, InitAt
  <1>7. PrintAt(11, lcd', rs', direction'[D4]) /\ 11 \in 0..11
    BY <1>6 DEF PrintAt
  <1>8. QED
    BY <1>5, <1>7 DEF Printing, X

-----------------------------------------------------------------------------
(***************************************************************************)
(* Every step of the board keeps program and controller together.          *)
(***************************************************************************)
LEMMA CallsTogether ==
  TypeInv /\ Together
  /\ (\/ GPIOExport \/ GPIOUnexport \/ GPIODirection \/ GPIOWrite \/ GPIORead
      \/ pinMode \/ SelectRegister \/ SendNibble \/ Wait) => Together'
  <1> SUFFICES ASSUME TypeInv, Together,
                      \/ GPIOExport \/ GPIOUnexport \/ GPIODirection \/ GPIOWrite \/ GPIORead
                      \/ pinMode \/ SelectRegister \/ SendNibble \/ Wait
               PROVE  Together'
    OBVIOUS
  <1>1. Made /\ Head(todo).call # "print" /\ UNCHANGED <<missed, cut>>
    BY PinCallsMade, LcdCallsMade
  <1>2. Phase => Phase'
    BY <1>1, MadeStep
  <1>3. prog' = prog
    BY <1>1 DEF Made
  <1>4. QED
    BY <1>1, <1>2, <1>3 DEF Together

LEMMA FailuresTogether ==
  TypeInv /\ Together /\ (ExportFails \/ UnexportFails \/ DirectionFails \/ WriteFails) => Together'
  <1> SUFFICES ASSUME TypeInv, Together,
                      ExportFails \/ UnexportFails \/ DirectionFails \/ WriteFails
               PROVE  Together'
    OBVIOUS
  <1>1. /\ todo # <<>>
        /\ Head(todo).call \in {"export", "unexport", "direction", "write"}
    BY DEF ExportFails, UnexportFails, DirectionFails, WriteFails, Calling
  <1>2. CASE \E code \in 1..4 : Returns(code)
    <2>1. PICK code \in 1..4 : Returns(code)
      BY <1>2
    <2>2. UNCHANGED <<missed, cut>> /\ (prog' = "none" \/ (prog' = prog /\ prog \in Ignoring))
      BY <2>1 DEF Returns, runVars
    <2>3. prog' \in LcdPrograms => prog' = prog /\ prog = "display"
      BY <2>2 DEF LcdPrograms, Ignoring
    <2>4. prog = "display" /\ Phase => Phase'
      BY <1>1, <2>1, DropStep
    <2>5. QED
      BY <2>2, <2>3, <2>4 DEF Together
  <1>3. CASE /\ Calling("export") /\ todo' = Tail(todo)
             /\ UNCHANGED <<pinVars, lcdVars, prog, runVars, status, missed>>
    <2>1. Made /\ Head(todo).call # "print"
      BY <1>1, <1>3 DEF Made, Calling, lcdVars, runVars
    <2>2. Phase => Phase'
      BY <2>1, MadeStep
    <2>3. UNCHANGED <<prog, missed, cut>>
      BY <1>3 DEF runVars
    <2>4. QED
      BY <2>2, <2>3 DEF Together
  <1>4. QED
    BY <1>2, <1>3 DEF ExportFails, UnexportFails, DirectionFails, WriteFails

LEMMA GreetingTogether == TypeInv /\ Together /\ PrintGreeting => Together'
  <1> SUFFICES ASSUME TypeInv, Together, PrintGreeting,
                      prog' \in LcdPrograms, ~ missed', ~ cut'
               PROVE  Phase'
    BY DEF Together
  <1>1. /\ todo # <<>> /\ Head(todo).call = "print"
        /\ text' = Greetings[Value]
        /\ todo' = (IF Value = 4 THEN SetChrMode \o lcd_text(text') ELSE lcd_print(text'))
                   \o Tail(todo)
        /\ UNCHANGED <<rs, lcd, direction, prog, missed, cut>>
    BY DEF PrintGreeting, Calling, pinVars, lcdVars
  <1>2. Phase
    BY <1>1 DEF Together
  <1>3. text' \in Texts /\ Tail(todo) \in Seq(Proper)
    BY <1>1, ProperCall, BoardAssumption
  <1>4. CASE Settled
    <2>1. Loose(Head(todo)) /\ AllLoose(Tail(todo))
      <3>1. todo \in Seq(Proper) /\ <<>> \in Seq(Proper) /\ Len(<<>>) = 0
        BY EmptySeq DEF TypeInv
      <3>2. Ahead(todo, <<>>, Len(<<>>))
        BY <1>4, <3>1, AheadDone DEF Settled, AllLoose
      <3>3. Loose(Head(todo)) /\ Ahead(Tail(todo), <<>>, Len(<<>>))
        BY <1>1, <3>1, <3>2, AheadLoose
      <3>4. QED
        BY <1>3, <3>1, <3>3, AheadLoose DEF AllLoose
    <2>2. Value # 4
      BY <1>1, <2>1 DEF Loose, Value
    <2>3. todo' = lcd_print(text') \o Tail(todo)
      BY <1>1, <2>2
    <2>4. Printing'
      BY <1>1, <1>3, <1>4, <2>1, <2>3, PrintBegins DEF Settled
    <2>5. QED
      BY <2>4 DEF Phase
  <1>5. CASE GreetingDue
    <2>1. Value = 4 /\ AllLoose(Tail(todo)) /\ Initialised
      BY <1>5, KindsOfCalls DEF GreetingDue, Value
    <2>2. todo' = (SetChrMode \o lcd_text(text')) \o Tail(todo)
      BY <1>1, <2>1
    <2>3. Printing'
      BY <1>1, <1>3, <2>1, <2>2, GreetingBegins
    <2>4. QED
      BY <2>3 DEF Phase
  <1>6. QED
    BY <1>1, <1>2, <1>4, <1>5, Places DEF LcdCalls

LEMMA MessageTogether == TypeInv /\ Together /\ ReceiveMessage => Together'
  <1> SUFFICES ASSUME TypeInv, Together, ReceiveMessage,
                      prog' \in LcdPrograms, ~ missed', ~ cut'
               PROVE  Phase'
    BY DEF Together
  <1>1. PICK m \in Messages :
          todo' = lcd_print(text') \o
                  IF m.led = 0 THEN <<>> ELSE <<Write(POUT[m.led], 1), Write(POUT[m.led], 0)>>
    BY DEF ReceiveMessage
  <1>2. todo = <<>> /\ UNCHANGED <<rs, lcd, direction, prog, missed, cut>>
    BY DEF ReceiveMessage, pinVars, lcdVars
  <1>3. text' \in Texts
    BY MessageTyped
  <1> DEFINE t == IF m.led = 0 THEN <<>> ELSE <<Write(POUT[m.led], 1), Write(POUT[m.led], 0)>>
  <1>4. t \in Seq(Proper) /\ AllLoose(t)
    <2>1. m.led # 0 => POUT[m.led] \in Pins
      BY BoardAssumption DEF Pins, LedPins
    <2>2. \A p \in Pins : Write(p, 1) \in Proper /\ Write(p, 0) \in Proper
      BY DEF Write, Do, Proper, Calls, Nibbles
    <2>3. \A p, v : Write(p, v).call = "write"
      BY DEF Write, Do
    <2>4. CASE m.led = 0
      BY <2>4, EmptySeq DEF AllLoose
    <2>5. CASE m.led # 0
      <3> DEFINE a == Write(POUT[m.led], 1)
                 b == Write(POUT[m.led], 0)
      <3>1. a \in Proper /\ b \in Proper /\ Loose(a) /\ Loose(b)
        BY <2>1, <2>2, <2>3, <2>5 DEF Loose
      <3> HIDE DEF a, b
      <3>2. <<a, b>> \in Seq(Proper) /\ AllLoose(<<a, b>>)
        BY <3>1 DEF AllLoose
      <3>3. t = <<a, b>>
        BY <2>5 DEF a, b
      <3>4. QED
        BY <3>2, <3>3
    <2>6. QED
      BY <2>4, <2>5
  <1>5. todo' = lcd_print(text') \o t
    BY <1>1
  <1> HIDE DEF t
  <1>6. Settled
    BY <1>2, Places DEF Together, GreetingDue
  <1>7. Printing'
    BY <1>2, <1>3, <1>4, <1>5, <1>6, PrintBegins DEF Settled
  <1>8. QED
    BY <1>7 DEF Phase

LEMMA StartTogether ==
  ASSUME TypeInv, lcd.wide => lcd.half = None, NEW p \in Programs, Start(p)
  PROVE  Together'
  <1> SUFFICES ASSUME prog' \in LcdPrograms, ~ missed', ~ cut' PROVE Phase'
    BY DEF Together
  <1>1. /\ prog' = p /\ todo' = Main(p) /\ text' = <<>> /\ cut' = (lcd.half = 0)
        /\ lcd' = [lcd EXCEPT !.slow = FALSE]
    BY DEF Start
  <1>2. InitAt(0, lcd', rs', direction'[D4])
    <2>1. /\ lcd' \in LcdStates /\ ~ lcd'.slow /\ lcd'.wide = lcd.wide /\ lcd'.half = lcd.half
      BY <1>1 DEF TypeInv, TypeOK, LcdStates
    <2>2. lcd.half # 0
      BY <1>1
    <2>3. QED
      BY <2>1, <2>2 DEF InitAt
  <1>3. \A X \in Seq(Proper) : Ahead(X, X, 0)
    BY LenProperties DEF Ahead
  <1>4. CASE p = "display"
    <2>1. todo' = SetUp
      BY <1>1, <1>4 DEF Main, SetUp
    <2>2. Ahead(todo', SetUp, 0) /\ 0 \in 0..7
      BY <1>3, <2>1, SetUpLine
    <2>3. SettingUp'
      BY <1>1, <1>2, <1>4, <2>2 DEF SettingUp
    <2>4. QED
      BY <2>3 DEF Phase
  <1>5. CASE p = "hello"
    <2> DEFINE g == <<Greet(1), Greet(2), Greet(3)>>
               X == lcd_init
    <2>1. todo' = X \o g
      BY <1>1, <1>5 DEF Main
    <2>2. g \in Seq(Proper) /\ AllLoose(g)
      <3>1. /\ Greet(1) \in Proper /\ Greet(2) \in Proper /\ Greet(3) \in Proper
        BY SingleCalls, OthersAreCalls
      <3>2. Loose(Greet(1)) /\ Loose(Greet(2)) /\ Loose(Greet(3))
        BY KindsOfCalls DEF Loose
      <3>3. QED
        BY <3>1, <3>2 DEF AllLoose
    <2>3. X \in Seq(Proper) /\ X \in InitLines /\ 0 \in 0..13
      BY InitLine DEF InitLines
    <2> HIDE DEF g, X
    <2>4. Ahead(todo', X, 0)
      BY <2>1, <2>2, <2>3, AheadStart DEF AllLoose
    <2>5. Initialising'
      BY <1>1, <1>2, <2>3, <2>4 DEF Initialising
    <2>6. QED
      BY <2>5 DEF Phase
  <1>6. CASE p = "greet"
    <2> DEFINE X == lcd_init \o <<Greet(4)>>
    <2>1. todo' = X
      BY <1>1, <1>6 DEF Main
    <2>2. X \in InitLines /\ 0 \in 0..13
      BY DEF InitLines
    <2> HIDE DEF X
    <2>3. X \in Seq(Proper)
      BY <2>2, InitLinesBegin
    <2>4. Ahead(todo', X, 0)
      BY <1>3, <2>1, <2>3
    <2>5. Initialising'
      BY <1>1, <1>2, <2>2, <2>4 DEF Initialising
    <2>6. QED
      BY <2>5 DEF Phase
  <1>7. QED
    BY <1>1, <1>4, <1>5, <1>6 DEF LcdPrograms

\* Only two things happen to the controller: a falling edge of E, and the end of a clear.
LEMMA HalfNext ==
  ASSUME TypeInv, lcd.wide => lcd.half = None, [Next]_vars
  PROVE  lcd'.wide => lcd'.half = None
  <1>1. lcd' = lcd \/ lcd' = [lcd EXCEPT !.slow = FALSE] \/ SendNibble
    BY DEF Next, vars, GPIOExport, ExportFails, GPIOUnexport, UnexportFails, GPIODirection,
           DirectionFails, GPIOWrite, WriteFails, GPIORead, pinMode, SelectRegister, PulseMissed,
           LcdReady, Wait, PrintGreeting, ReceiveMessage, MeasureAgain, Exit, Start, Kill,
           Returns, lcdVars
  <1>2. CASE lcd' = lcd
    BY <1>2
  <1>3. CASE lcd' = [lcd EXCEPT !.slow = FALSE]
    <2>1. lcd'.wide = lcd.wide /\ lcd'.half = lcd.half
      BY <1>3 DEF TypeInv, TypeOK, LcdStates
    <2>2. QED
      BY <2>1
  <1>4. CASE SendNibble
    <2>1. PICK n \in OnWires(Value), u \in {0, 15} : lcd' = Latch(lcd, rs, n, u)
      BY <1>4 DEF SendNibble
    <2>2. n \in Nibbles /\ u \in Nibbles
      <3>1. Value \in 0..15
        BY <1>4, ProperCall DEF SendNibble, Calling, Nibbles
      <3>2. \A v \in 0..15 : (v \div 2) * 2 \in 0..15 /\ (v \div 2) * 2 + 1 \in 0..15
        OBVIOUS
      <3>3. QED
        BY <3>1, <3>2 DEF OnWires, Nibbles
    <2>3. lcd \in LcdStates /\ rs \in {0, 1}
      BY DEF TypeInv, TypeOK
    <2>4. QED
      BY <2>1, <2>2, <2>3, HalfKept
  <1>5. QED
    BY <1>1, <1>2, <1>3, <1>4

LEMMA LcdInit == Init => LcdInv
  BY DEF Init, LcdInv, Together, PowerUp, LcdPrograms

LEMMA LcdNext == TypeInv /\ LcdInv /\ [Next]_vars => LcdInv'
  <1> SUFFICES ASSUME TypeInv, LcdInv, [Next]_vars PROVE LcdInv'
    OBVIOUS
  <1>1. (lcd.wide => lcd.half = None) /\ Together
    BY DEF LcdInv
  <1>2. lcd'.wide => lcd'.half = None
    BY <1>1, HalfNext
  <1>3. Together'
    <2>1. CASE \/ GPIOExport \/ GPIOUnexport \/ GPIODirection \/ GPIOWrite \/ GPIORead
               \/ pinMode \/ SelectRegister \/ SendNibble \/ Wait
      BY <1>1, <2>1, CallsTogether
    <2>2. CASE ExportFails \/ UnexportFails \/ DirectionFails \/ WriteFails
      BY <1>1, <2>2, FailuresTogether
    <2>3. CASE PulseMissed
      BY <2>3 DEF PulseMissed, Together
    <2>4. CASE LcdReady
      <3>1. /\ lcd' = [lcd EXCEPT !.slow = FALSE]
            /\ UNCHANGED <<todo, prog, text, rs, direction, missed, cut>>
        BY <2>4 DEF LcdReady, pinVars, runVars
      <3>2. QED
        BY <1>1, <3>1, ReadyStep DEF Together
    <2>5. CASE PrintGreeting \/ ReceiveMessage
      BY <1>1, <2>5, GreetingTogether, MessageTogether
    <2>6. CASE MeasureAgain \/ Exit \/ Kill
      <3>1. prog' \notin LcdPrograms
        BY <2>6 DEF MeasureAgain, Exit, Kill, LcdPrograms, TRIG
      <3>2. QED
        BY <3>1 DEF Together
    <2>7. CASE \E p \in Programs : Start(p)
      BY <1>1, <2>7, StartTogether
    <2>8. CASE UNCHANGED vars
      <3>1. UNCHANGED <<lcd, todo, prog, text, rs, direction, missed, cut>>
        BY <2>8 DEF vars, pinVars, lcdVars, runVars
      <3>2. Phase => Phase'
        BY <3>1 DEF Phase, SettingUp, Initialising, Printing, Showing
      <3>3. QED
        BY <1>1, <3>1, <3>2 DEF Together
    <2>9. QED
      BY <2>1, <2>2, <2>3, <2>4, <2>5, <2>6, <2>7, <2>8 DEF Next
  <1>4. QED
    BY <1>2, <1>3 DEF LcdInv

\* Whenever a program of the LCD is done with lcd_init() or a print, the LCD shows the text
\* that was printed and nothing of an earlier one: for every line, every text, every
\* sequence of programs, wherever each of them was killed and whatever calls on pins failed;
\* unless the controller missed a pulse, or the program before was killed between the two
\* nibbles of a byte whose high nibble is 0.
THEOREM LcdAlwaysTrue == Spec => []LcdTruth
  <1>1. Init => TypeInv /\ LcdInv
    BY TypeInit, LcdInit
  <1>2. (TypeInv /\ LcdInv) /\ [Next]_vars => (TypeInv /\ LcdInv)'
    BY TypeNext, LcdNext
  <1>3. TypeInv /\ LcdInv => LcdTruth
    BY InvTruth
  <1>4. QED
    BY <1>1, <1>2, <1>3, PTL DEF Spec

=============================================================================
