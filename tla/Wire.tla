-------------------------------- MODULE Wire --------------------------------
(***************************************************************************)
(* The text that a sensor server writes and that the client, the queue and *)
(* the display read.  A reading becomes one line of text,                  *)
(*                                                                         *)
(*      "<date>-<hour>  !Alert S<id>: <value>\n"     (an alert)            *)
(*      "<date>-<hour>  sensor <id>: <value>\n"      (an ordinary reading) *)
(*                                                                         *)
(* and the whole pipeline depends on three of its places: the date, whose  *)
(* digits a reader may take for a sensor, the mark, which holds a '!' in   *)
(* an alert only, and the digit of the sensor.  A line is therefore three  *)
(* cells, in this order.  TCP and recv() may cut a line between any two.   *)
(***************************************************************************)
EXTENDS Integers, Sequences

CONSTANTS Sensors,      \* the digits of the sensors of one server, or of all
          MaxSerial     \* bound: how often each sensor is sampled

ASSUME WireAssumption == Sensors \subseteq 1..4 /\ MaxSerial \in Nat
-----------------------------------------------------------------------------
(***************************************************************************)
(* A reading is named by its sensor and by its place in what that sensor   *)
(* has sampled (serial 0 is "nothing sampled yet").                        *)
(***************************************************************************)
Readings == [sensor: Sensors, alert: BOOLEAN, serial: 0..MaxSerial]

Cells == [part: {"stamp", "mark", "id"}, of: Readings]

\* sprintf(rdBuff, "%s !Alert S1: %d\n" or "%s sensor 1: %d\n", buf, k)
Format(r) ==
  << [part |-> "stamp", of |-> r], [part |-> "mark", of |-> r], [part |-> "id", of |-> r] >>

\* A cell that holds the character '!'.
Bang(c) == c.part = "mark" /\ c.of.alert

\* What a send, or a recv, of at most n cells takes from the text.
Prefix(text, n) == SubSeq(text, 1, n)

\* Reading r is later than every reading of its sensor in the text.
Fresh(r, text) ==
  \A i \in 1..Len(text) : text[i].of.sensor = r.sensor => text[i].of.serial < r.serial
=============================================================================
