---------------------------- MODULE AlertDisplay ----------------------------
(***************************************************************************)
(* Client/socket_message_rcv_lcd.c: takes one message after the other from *)
(* the queue, prints it on the LCD from its first '!' on, and lights the   *)
(* LED of the sensor whose digit comes first after the '!'.                *)
(***************************************************************************)
EXTENDS AlertQueue

CONSTANTS
  StampDigit,         \* the first of the digits 1, 2, 3, 4 that today's date holds
  DisplayFaults       \* what may happen: "gpio" fails, the process may "crash"

ASSUME DisplayAssumption ==
  /\ StampDigit \in 1..4
  /\ DisplayFaults \subseteq {"gpio", "crash"}

Leds == 1..4

VARIABLES
  dproc,              \* "down" or "up"
  dpc,                \* where main() is
  in_buffer,          \* the message at hand
  led,                \* the level of the pin of each LED
  received,           \* how many messages of each server were taken
  shown               \* the alerts that have been on the LCD

displayOwn == <<dproc, dpc, in_buffer, led, received, shown>>
displayVars == <<queueVars, displayOwn>>

DisplayInit ==
  /\ dproc = "down" /\ dpc = "receive"
  /\ in_buffer = <<>>
  /\ led = [s \in Leds |-> 0]
  /\ received = [c \in Servers |-> 0]
  /\ shown = {}
-----------------------------------------------------------------------------
(***************************************************************************)
(* Reading a message.  The first place of a text where P holds, past its   *)
(* end when there is none.                                                 *)
(***************************************************************************)
Places(text) == 1..Len(text)

\* i: the first '!'.
BangPlace(text) ==
  CHOOSE i \in 1..(Len(text) + 1) :
    /\ i <= Len(text) => Bang(text[i])
    /\ \A h \in 1..(i - 1) : ~ Bang(text[h])

\* A mutated form of DigitPlace: the search starts at the beginning of the text.
DigitPlaceFromStart(text) ==
  CHOOSE j \in 1..(Len(text) + 1) :
    /\ j <= Len(text) => text[j].part # "mark"
    /\ \A h \in 1..(j - 1) : text[h].part = "mark"

\* j: the first cell from i on that holds a digit from 1 to 4.  The mark holds
\* none; a date holds one, and the digit of the sensor comes first in its cell.
DigitPlace(text) ==
  LET i == BangPlace(text) IN
  CHOOSE j \in i..(Len(text) + 1) :
    /\ j <= Len(text) => text[j].part # "mark"
    /\ \A h \in i..(j - 1) : text[h].part = "mark"

\* The digit at j, 0 for the terminator.
LedOf(text) ==
  LET j == DigitPlace(text) IN
  IF j > Len(text) THEN 0
  ELSE IF text[j].part = "id" THEN text[j].of.sensor ELSE StampDigit
-----------------------------------------------------------------------------
\* main() up to its loop.  O_CREAT keeps a queue that exists, with its messages.
\* Exporting a pin again has no effect; setting its direction drives it low,
\* and the results of GPIOinit() are ignored.
DisplayStart ==
  /\ dproc = "down"
  /\ dproc' = "up" /\ dpc' = "receive"
  /\ queueOpen' = TRUE
  /\ \/ led' = [s \in Leds |-> 0]
     \/ "gpio" \in DisplayFaults /\ UNCHANGED led
  /\ in_buffer' = <<>>
  /\ UNCHANGED <<queue, received, shown>>

\* The process ends, at any point: a failing mq_receive() exits, a signal kills.
DisplayCrash ==
  /\ dproc = "up"
  /\ "crash" \in DisplayFaults
  /\ dproc' = "down"
  /\ UNCHANGED <<queueVars, dpc, in_buffer, led, received, shown>>

DAt(l) == dproc = "up" /\ dpc = l

Receive ==
  /\ DAt("receive")
  /\ MqReceive
  /\ in_buffer' = Head(queue).text
  /\ received' = [received EXCEPT ![Head(queue).from] = @ + 1]
  /\ dpc' = "print"
  /\ UNCHANGED <<dproc, led, shown>>

\* A mutated form of OnLcd: a message of sensor 4 is copied from its digit on.
OnLcdFromDigit(text) ==
  {h \in Places(text) : Bang(text[h]) /\ (LedOf(text) = 4 => h >= DigitPlace(text))}

\* lcd_print(): where the text that is printed holds a '!'.  A message of sensor 4
\* goes through out_buffer, cut after the digit that was found (and, as nothing
\* ends it there, followed by whatever the buffer holds); any other is printed
\* from its first '!' to its end.
OnLcd(text) ==
  {h \in Places(text) : Bang(text[h]) /\ (LedOf(text) = 4 => h <= DigitPlace(text))}

PrintOnLcd ==
  /\ DAt("print")
  /\ shown' = shown \cup {in_buffer[h].of : h \in OnLcd(in_buffer)}
  /\ dpc' = IF LedOf(in_buffer) = 0 THEN "receive" ELSE "on"
  /\ UNCHANGED <<queueVars, dproc, in_buffer, led, received>>

\* gpio_write(): GPIOWrite(pin, 1), sleep(1), GPIOWrite(pin, 0).  A write that
\* fails ends it.
LedOn ==
  /\ DAt("on")
  /\ \/ led' = [led EXCEPT ![LedOf(in_buffer)] = 1] /\ dpc' = "off"
     \/ "gpio" \in DisplayFaults /\ UNCHANGED led /\ dpc' = "receive"
  /\ UNCHANGED <<queueVars, dproc, in_buffer, received, shown>>

LedOff ==
  /\ DAt("off")
  /\ \/ led' = [led EXCEPT ![LedOf(in_buffer)] = 0]
     \/ "gpio" \in DisplayFaults /\ UNCHANGED led
  /\ dpc' = "receive"
  /\ UNCHANGED <<queueVars, dproc, in_buffer, received, shown>>

DisplayNext == DisplayStart \/ DisplayCrash \/ Receive \/ PrintOnLcd \/ LedOn \/ LedOff

\* The loop runs as long as the process does.  Nobody promises to start it.
DisplayFairness ==
  /\ WF_displayVars(Receive) /\ WF_displayVars(PrintOnLcd)
  /\ WF_displayVars(LedOn) /\ WF_displayVars(LedOff)
=============================================================================
