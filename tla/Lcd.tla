--------------------------------- MODULE Lcd ---------------------------------
(***************************************************************************)
(* The character LCD of the display, an HD44780 controller with six wires: *)
(* RS, E and the data lines D4 to D7.  A byte is sent in two nibbles, the  *)
(* high one first, and nothing on the wires tells which of the two is      *)
(* which: the controller counts.  It starts with an 8-bit bus, on which    *)
(* every nibble is a byte whose low half comes from lines nobody drives.   *)
(*                                                                         *)
(* The controller is external; the calls below are those that lcd_byte(),  *)
(* lcd_init() and lcd_print() make to drive it.                            *)
(***************************************************************************)
EXTENDS Integers, Sequences

CONSTANT Width          \* how many characters of the line are visible

ASSUME LcdAssumption == Width \in Nat

Nibbles == 0..15
Bytes == Nibbles \X Nibbles

None == -1              \* no high nibble is waiting for its low one
Columns == 0..(Width - 1)
Blank == <<2, 0>>       \* the character ' '

LcdStates ==
  [wide: BOOLEAN,                     \* is the bus 8 bits wide?
   half: Nibbles \cup {None},         \* the high nibble that waits
   on: BOOLEAN,                       \* is the display on?
   line: [Columns -> Bytes],          \* what the visible line holds
   at: 0..Width,                      \* where the next character goes; Width: not into view
   slow: BOOLEAN]                     \* is a clear or a home being executed?

Blanks == [c \in Columns |-> Blank]

PowerUp ==
  [wide |-> TRUE, half |-> None, on |-> FALSE, line |-> Blanks, at |-> 0, slow |-> FALSE]
-----------------------------------------------------------------------------
(***************************************************************************)
(* What the controller does with a byte: the highest bit that is set tells *)
(* the command.  Shifts, the entry mode and addresses of custom characters *)
(* are here one thing: the next character does not go where one would look *)
(* for it, until a clear, a home or an address.                            *)
(***************************************************************************)
Command(l, b) ==
  CASE b[1] = 8             -> [l EXCEPT !.at = IF b[2] < Width THEN b[2] ELSE Width]
    [] b[1] \in Nibbles \ {0, 2, 3, 8} -> [l EXCEPT !.at = Width]
    [] b[1] = 3             -> [l EXCEPT !.wide = TRUE]
    [] b[1] = 2             -> [l EXCEPT !.wide = FALSE]
    [] b[1] = 0 /\ b[2] > 7 -> [l EXCEPT !.on = b[2] > 11]
    [] b[1] = 0 /\ b[2] \in 4..7 -> [l EXCEPT !.at = Width]
    [] b[1] = 0 /\ b[2] \in 2..3 -> [l EXCEPT !.at = 0, !.slow = TRUE]
    [] b[1] = 0 /\ b[2] = 1 -> [l EXCEPT !.at = 0, !.slow = TRUE, !.line = Blanks]
    [] OTHER                -> l

Character(l, b) ==
  IF l.at < Width THEN [l EXCEPT !.line = [@ EXCEPT ![l.at] = b], !.at = @ + 1] ELSE l

Execute(l, rs, b) == IF rs = 1 THEN Character(l, b) ELSE Command(l, b)

\* The falling edge of E with nibble n on D4..D7, and u on the lines that are not
\* wired.  A controller that is still clearing the display takes no notice.
Latch(l, rs, n, u) ==
  CASE l.slow -> l
    [] ~ l.slow /\ l.wide -> Execute(l, rs, <<n, u>>)
    [] ~ l.slow /\ ~ l.wide /\ l.half = None -> [l EXCEPT !.half = n]
    [] OTHER -> Execute([l EXCEPT !.half = None], rs, <<l.half, n>>)

\* Program and controller agree on which nibble comes next.
InStep(l) == ~ l.wide /\ l.half = None

\* The visible line holds the beginning of the text, and nothing else.
Shows(l, text) ==
  /\ l.on
  /\ \A c \in Columns : l.line[c] = IF c < Len(text) THEN text[c + 1] ELSE Blank
-----------------------------------------------------------------------------
(***************************************************************************)
(* The calls of the programs: what is called, for which pin, with what.    *)
(***************************************************************************)
Do(call, pin, value) == [call |-> call, pin |-> pin, value |-> value]

D4 == 24                                \* the GPIO pin LCD_D4

Select(v) == Do("rs", 22, v)            \* digitalWrite(LCD_RS, v)
Nibble(n) == Do("nibble", D4, n)        \* four digitalWrites and pulseEnable()
Delay == Do("delay", 0, 0)              \* delay(ms), longer than a clear takes
PinModes == Do("output", D4, 0)         \* pinMode(..., OUTPUT) of the six pins

LcdCalls == {"rs", "nibble", "delay", "output"}

\* A mutated form of lcd_byte: the high nibble is not shifted down.
lcd_byte_unmasked(b) == <<Nibble(b[1] * 16 + b[2]), Nibble(b[2])>>

lcd_byte(b) == <<Nibble(b[1]), Nibble(b[2])>>

lcd_bytes(bytes) ==
  [i \in 1..(2 * Len(bytes)) |-> lcd_byte(bytes[(i + 1) \div 2])[IF i % 2 = 1 THEN 1 ELSE 2]]

SetCmdMode == <<Select(0)>>
SetChrMode == <<Select(1)>>

\* while(*s) lcd_byte(*s++);
lcd_text(text) == lcd_bytes(text)

\* 0x33, 0x32 (4-bit mode), 0x28 (2 lines), 0x0C (display on), 0x01 (clear screen).
InitBytes == << <<3, 3>>, <<3, 2>>, <<2, 8>>, <<0, 12>>, <<0, 1>> >>

\* A mutated form of lcd_init: the first byte is left out.
lcd_init_short == <<PinModes>> \o SetCmdMode \o lcd_bytes(Tail(InitBytes)) \o <<Delay>>

lcd_init == <<PinModes>> \o SetCmdMode \o lcd_bytes(InitBytes) \o <<Delay>>

\* 0x01 (clear screen), 0x02 (home), 0x80 (first column), and the text.
lcd_print(text) ==
  SetCmdMode \o <<Delay>>
  \o lcd_byte(<<0, 1>>) \o <<Delay>>
  \o lcd_byte(<<0, 2>>) \o <<Delay>>
  \o lcd_byte(<<8, 0>>) \o <<Delay>>
  \o SetChrMode \o lcd_text(text)
=============================================================================
