-------------------------------- MODULE Board --------------------------------
(***************************************************************************)
(* One Raspberry Pi: its GPIO pins, the LCD on six of them, and the        *)
(* programs of the repository that drive them, one at a time:              *)
(*                                                                         *)
(*   "display"   Client/socket_message_rcv_lcd.c                           *)
(*   "sensors"   Client/SocketServer_sensors.c, the distance sensor        *)
(*   "hello"     Client/q_msg_lcd.c                                        *)
(*   "greet"     Client/socket_lcd.c                                       *)
(*   "distance"  aesdgpio/gpio.c (and Client/socket_gpio.c)                *)
(*   "blink"     aesdgpio/gpio_led.c (and Client/socket_gpio_led.c)        *)
(*                                                                         *)
(* Most of them only end by being killed, anywhere, and the pins and the   *)
(* LCD stay as they were.  A program is the straight line of calls it is   *)
(* about to make; its loop, when it has one, is what follows the last.     *)
(***************************************************************************)
EXTENDS Lcd

CONSTANTS
  Messages,       \* bound: messages of the queue: the text from '!' to the first digit
                  \* behind it, the rest, and that digit
  Leftovers,      \* bound: what out_buffer may hold behind an alert
  Greetings,      \* the three texts of q_msg_lcd.c, and the one of socket_lcd.c
  MaxStarts,      \* bound: how many programs are started
  MaxFaults,      \* bound: how often
  BoardFaults     \* what may happen: "gpio", a call on a pin fails; "pulse", the
                  \* controller misses a pulse of E

Texts == Seq(Bytes)

ASSUME BoardAssumption ==
  /\ Messages \subseteq [alert: Texts, rest: Texts, led: 0..4]
  /\ Leftovers \subseteq Texts
  /\ Greetings \in [1..4 -> Texts]
  /\ MaxStarts \in Nat /\ MaxFaults \in Nat
  /\ BoardFaults \subseteq {"gpio", "pulse"}

Input == 0                              \* IN
Output == 1                             \* OUT
POUT == <<5, 6, 13, 19>>                \* the display's LEDs
BLINK == 4                              \* POUT of gpio_led.c; its PIN is 24, LCD_D4
TRIG == [distance |-> 3, sensors |-> 21]
ECHO == [distance |-> 2, sensors |-> 20]

LedPins == {POUT[i] : i \in 1..4}
Pins == LedPins \cup {BLINK, D4, 2, 3, 20, 21}

Programs == {"display", "sensors", "hello", "greet", "distance", "blink"}

VARIABLES
  exported,       \* the pins with a directory under /sys/class/gpio
  direction,      \* of each pin
  level,          \* what each pin is driven to
  rs,             \* the line RS of the LCD
  lcd,            \* the state of its controller
  prog,           \* the program that runs, "none" between two
  todo,           \* the calls it makes next
  text,           \* what it prints, or printed last
  status,         \* what its last sequence of pin calls returned, -1 when killed
  starts,         \* how many programs were started
  failed,         \* did a call on a pin fail by itself since the program's start?
  missed,         \* did the controller miss a pulse since then?
  cut,            \* did the program before leave a high nibble 0 waiting: killed
                  \* behind one, or out of step since a missed pulse?
  faults          \* how many such faults there were

pinVars == <<exported, direction, level>>
lcdVars == <<rs, lcd>>
runVars == <<text, starts, cut>>
vars == <<pinVars, lcdVars, prog, todo, runVars, status, failed, missed, faults>>

Calls == [call: LcdCalls \cup {"export", "unexport", "direction", "write", "read", "print"},
          pin: Pins \cup {0, 22}, value: Nibbles]

TypeOK ==
  /\ exported \subseteq Pins
  /\ direction \in [Pins -> {Input, Output}]
  /\ level \in [Pins -> {0, 1}]
  /\ rs \in {0, 1}
  /\ lcd \in LcdStates
  /\ prog \in Programs \cup {"none"}
  /\ todo \in Seq(Calls)
  /\ text \in Texts
  /\ status \in -1..4
  /\ starts \in 0..MaxStarts
  /\ failed \in BOOLEAN /\ missed \in BOOLEAN /\ cut \in BOOLEAN
  /\ faults \in 0..MaxFaults

Init ==
  /\ exported = {}
  /\ direction = [p \in Pins |-> Input]
  /\ level = [p \in Pins |-> 0]
  /\ rs = 0 /\ lcd = PowerUp
  /\ prog = "none" /\ todo = <<>> /\ text = <<>>
  /\ status = 0 /\ starts = 0
  /\ failed = FALSE /\ missed = FALSE /\ cut = FALSE
  /\ faults = 0
-----------------------------------------------------------------------------
(***************************************************************************)
(* The programs.                                                           *)
(***************************************************************************)
Export(p) == Do("export", p, 0)
Unexport(p) == Do("unexport", p, 0)
Direction(p, d) == Do("direction", p, d)
Write(p, v) == Do("write", p, v)
Read(p) == Do("read", p, 0)
Greet(i) == Do("print", 0, i)           \* of a greeting

\* A mutated form of GPIOinit: a pin gets its direction before it is exported.
GPIOinitSwapped ==
  <<Direction(POUT[1], Output), Export(POUT[1])>>
  \o [i \in 1..3 |-> Export(POUT[i + 1])] \o [i \in 1..3 |-> Direction(POUT[i + 1], Output)]

\* The display's four LEDs.
GPIOinit == [i \in 1..4 |-> Export(POUT[i])] \o [i \in 1..4 |-> Direction(POUT[i], Output)]

\* GPIO_init() of the distance sensor, and the same lines in main() of gpio.c.
GPIO_init(p) ==
  <<Export(TRIG[p]), Export(ECHO[p]), Direction(TRIG[p], Output), Direction(ECHO[p], Input)>>

\* read_sensor_data(): the trigger, and while(GPIORead(ECHO)==1);
Measure(p) == <<Write(TRIG[p], 1), Write(TRIG[p], 0), Read(ECHO[p])>>

\* do { GPIOWrite(POUT, repeat % 2), GPIORead(PIN) } while (repeat--), from 10 on.
Blink ==
  <<Export(BLINK), Export(D4), Direction(BLINK, Output), Direction(D4, Input)>>
  \o [i \in 1..22 |-> IF i % 2 = 1 THEN Write(BLINK, (10 - i \div 2) % 2) ELSE Read(D4)]
  \o <<Unexport(BLINK), Unexport(D4)>>

Main(p) ==
  CASE p = "display" -> GPIOinit \o lcd_init
    [] p = "hello"   -> lcd_init \o <<Greet(1), Greet(2), Greet(3)>>
    [] p = "greet"   -> lcd_init \o <<Greet(4)>>
    [] p = "blink"   -> Blink
    [] OTHER         -> GPIO_init(p)

\* What main() does with a return code: the display and the sensor server go on.
Ignoring == {"display", "sensors"}
-----------------------------------------------------------------------------
(***************************************************************************)
(* The pins.  Each program has its own copy of these functions.  A call    *)
(* that fails returns -1, its caller returns 1, 2, 3 or 4 at once.         *)
(***************************************************************************)
Calling(call) == todo # <<>> /\ Head(todo).call = call
Pin == Head(todo).pin
Value == Head(todo).value
Done == todo' = Tail(todo) /\ UNCHANGED <<prog, runVars, status, failed, missed, faults>>

\* The caller makes none of the calls on pins that follow; main() ends, or goes on behind
\* them.
Returns(code) ==
  /\ status' = code
  /\ IF prog \in Ignoring
     THEN \E n \in 1..Len(todo) :
            /\ \A i \in 1..n : todo[i].call \notin LcdCalls
            /\ n < Len(todo) => todo[n + 1].call \in LcdCalls
            /\ todo' = SubSeq(todo, n + 1, Len(todo))
            /\ prog' = prog
     ELSE todo' = <<>> /\ prog' = "none"
  /\ UNCHANGED <<pinVars, lcdVars, runVars, missed>>

Fault(f) == f \in BoardFaults /\ faults < MaxFaults /\ faults' = faults + 1
ByItself == Fault("gpio") /\ failed' = TRUE

\* A mutated form of GPIOExport: the result of write() is looked at, which fails for
\* a pin that is exported already.
GPIOExportChecked ==
  /\ Calling("export")
  /\ IF Pin \in exported THEN Returns(1) /\ UNCHANGED <<failed, faults>>
     ELSE exported' = exported \cup {Pin} /\ Done /\ UNCHANGED <<direction, level, lcdVars>>

\* Only open() is checked.  write() fails for a pin that is exported already, and may
\* fail for another.
GPIOExport ==
  /\ Calling("export")
  /\ exported' = exported \cup {Pin}
  /\ Done
  /\ UNCHANGED <<direction, level, lcdVars>>

ExportFails ==
  /\ Calling("export") /\ ByItself
  /\ \/ Returns(1)
     \/ todo' = Tail(todo) /\ UNCHANGED <<pinVars, lcdVars, prog, runVars, status, missed>>

GPIOUnexport ==
  /\ Calling("unexport")
  /\ exported' = exported \ {Pin}
  /\ Done
  /\ UNCHANGED <<direction, level, lcdVars>>

UnexportFails == Calling("unexport") /\ ByItself /\ Returns(4)

\* "in" or "out" is written; an output starts low.
GPIODirection ==
  /\ Calling("direction") /\ Pin \in exported
  /\ direction' = [direction EXCEPT ![Pin] = Value]
  /\ level' = [level EXCEPT ![Pin] = 0]
  /\ Done
  /\ UNCHANGED <<exported, lcdVars>>

DirectionFails ==
  /\ Calling("direction")
  /\ \/ Pin \notin exported /\ UNCHANGED <<failed, faults>>
     \/ ByItself
  /\ Returns(2)

GPIOWrite ==
  /\ Calling("write") /\ Pin \in exported /\ direction[Pin] = Output
  /\ level' = [level EXCEPT ![Pin] = Value]
  /\ Done
  /\ UNCHANGED <<exported, direction, lcdVars>>

WriteFails ==
  /\ Calling("write")
  /\ \/ (Pin \notin exported \/ direction[Pin] = Input) /\ UNCHANGED <<failed, faults>>
     \/ ByItself
  /\ Returns(3)

\* Its value is printed, or waited for: a pin that cannot be read is as good as low.
GPIORead == Calling("read") /\ Done /\ UNCHANGED <<pinVars, lcdVars>>
-----------------------------------------------------------------------------
(***************************************************************************)
(* The LCD, which wiringPi drives through the registers of the pins.       *)
(***************************************************************************)
pinMode ==
  /\ Calling("output")
  /\ direction' = [direction EXCEPT ![D4] = Output]
  /\ Done
  /\ UNCHANGED <<exported, level, lcdVars>>

SelectRegister ==
  /\ Calling("rs")
  /\ rs' = Value
  /\ Done
  /\ UNCHANGED <<pinVars, lcd>>

\* What is on D4..D7: as an input, D4 floats.
OnWires(n) == IF direction[D4] = Output THEN {n} ELSE {(n \div 2) * 2, (n \div 2) * 2 + 1}

\* The data lines, E high, E low: nothing counts before the falling edge.
SendNibble ==
  /\ Calling("nibble")
  /\ \E n \in OnWires(Value), u \in {0, 15} : lcd' = Latch(lcd, rs, n, u)
  /\ Done
  /\ UNCHANGED <<pinVars, rs>>

\* delay(0.5) passes an unsigned int, which is 0: the pulse may be too short.
PulseMissed ==
  /\ Calling("nibble") /\ Fault("pulse")
  /\ missed' = TRUE
  /\ todo' = Tail(todo)
  /\ UNCHANGED <<pinVars, lcdVars, prog, runVars, status, failed>>

\* The controller is done with a clear or a home.
LcdReady ==
  /\ lcd.slow
  /\ lcd' = [lcd EXCEPT !.slow = FALSE]
  /\ UNCHANGED <<pinVars, rs, prog, todo, runVars, status, failed, missed, faults>>

\* delay() with milliseconds: longer than a clear takes.
Wait ==
  /\ Calling("delay")
  /\ lcd' = [lcd EXCEPT !.slow = FALSE]
  /\ Done
  /\ UNCHANGED <<pinVars, rs>>

\* lcd_print() of a greeting; socket_lcd.c sends the text alone.
PrintGreeting ==
  /\ Calling("print")
  /\ text' = Greetings[Value]
  /\ todo' = (IF Value = 4 THEN SetChrMode \o lcd_text(text') ELSE lcd_print(text'))
             \o Tail(todo)
  /\ UNCHANGED <<pinVars, lcdVars, prog, starts, cut, status, failed, missed, faults>>
-----------------------------------------------------------------------------
(***************************************************************************)
(* What follows the last call, and the beginning and end of a program.     *)
(***************************************************************************)
\* The display takes a message.  It is printed from its '!' on, but sensor 4's only
\* to the digit, from a buffer whose old content follows; then gpio_write().
ReceiveMessage ==
  /\ prog = "display" /\ todo = <<>>
  /\ \E m \in Messages :
       /\ IF m.led = 4 THEN \E t \in Leftovers : text' = m.alert \o t
                       ELSE text' = m.alert \o m.rest
       /\ todo' = lcd_print(text') \o
                  IF m.led = 0 THEN <<>> ELSE <<Write(POUT[m.led], 1), Write(POUT[m.led], 0)>>
  /\ UNCHANGED <<pinVars, lcdVars, prog, starts, cut, status, failed, missed, faults>>

MeasureAgain ==
  /\ prog \in DOMAIN TRIG /\ todo = <<>>
  /\ todo' = Measure(prog)
  /\ status' = 0
  /\ UNCHANGED <<pinVars, lcdVars, prog, runVars, failed, missed, faults>>

Exit ==
  /\ prog \in {"hello", "greet", "blink"} /\ todo = <<>>
  /\ prog' = "none"
  /\ UNCHANGED <<pinVars, lcdVars, todo, runVars, status, failed, missed, faults>>

\* This takes longer than a clear of the LCD.
Start(p) ==
  /\ prog = "none" /\ starts < MaxStarts
  /\ prog' = p /\ todo' = Main(p)
  /\ lcd' = [lcd EXCEPT !.slow = FALSE]
  /\ text' = <<>> /\ cut' = (lcd.half = 0)
  /\ starts' = starts + 1
  /\ status' = 0 /\ failed' = FALSE /\ missed' = FALSE
  /\ UNCHANGED <<pinVars, rs, faults>>

Kill ==
  /\ prog # "none"
  /\ prog' = "none" /\ todo' = <<>> /\ status' = -1
  /\ UNCHANGED <<pinVars, lcdVars, runVars, failed, missed, faults>>

Next ==
  \/ GPIOExport \/ ExportFails \/ GPIOUnexport \/ UnexportFails
  \/ GPIODirection \/ DirectionFails \/ GPIOWrite \/ WriteFails \/ GPIORead
  \/ pinMode \/ SelectRegister \/ SendNibble \/ PulseMissed \/ LcdReady \/ Wait \/ PrintGreeting
  \/ ReceiveMessage \/ MeasureAgain \/ Exit
  \/ (\E p \in Programs : Start(p)) \/ Kill

Spec == Init /\ [][Next]_vars
-----------------------------------------------------------------------------
(***************************************************************************)
(* What makes the programs correct, whatever was killed before them, and   *)
(* wherever.                                                               *)
(***************************************************************************)
LcdPrograms == {"display", "hello", "greet"}

Printed == prog \in LcdPrograms /\ (todo = <<>> \/ Head(todo).call \in {"write", "print"})

\* Whenever the calls of lcd_init() or of a print are done, the LCD shows the text that
\* was printed (none after lcd_init()), and nothing of an earlier one: program and
\* controller agree on the halves of bytes though the program before was killed between
\* two nibbles, or a missed pulse put it out of step.  There is one exception, cut.
LcdTruth == Printed /\ ~ missed /\ ~ cut => Shows(lcd, text)

\* The comment in lcd_init(), "full init": the same without the exception, when no pulse
\* is missed.
FullInit == Printed => Shows(lcd, text)

\* Once the display has set its pins up, an LED is lit only while gpio_write() is about
\* to put it out: one that the program before left on, when it was killed in its
\* sleep(1), does not stay on.
LedsFollow ==
  prog = "display" /\ ~ failed /\ (\A i \in 1..Len(todo) : todo[i].call # "direction") =>
    \A p \in LedPins : level[p] = 1 => todo = <<Write(p, 0)>>

\* A program gets past its set-up, and its measurements are measurements, although the
\* pins are still exported by one that was killed: no error is returned (3 would be a
\* distance, and an alert) unless a call fails by itself.
SetupRepeats == status \in 1..4 => failed
=============================================================================
