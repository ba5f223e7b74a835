---------------------------- MODULE SensorStream ----------------------------
(***************************************************************************)
(* What a sensor server promises to whoever reads its socket.  The bytes   *)
(* that enter the connection grow by one reading at a time: never the      *)
(* interleaved text of two sensors, never a reading for the second time,   *)
(* and, for each sensor, in the order of sampling.  The promise stops      *)
(* short of whole lines: send() may take only the beginning of one, and    *)
(* nobody sends the rest.                                                  *)
(***************************************************************************)
EXTENDS Wire

VARIABLE sent           \* the cells that entered the connection so far

Init == sent = <<>>

Emit(r, n) ==
  /\ Fresh(r, sent)
  /\ sent' = sent \o Prefix(Format(r), n)

Next ==
  /\ Len(sent') > Len(sent)
  /\ \E r \in Readings, n \in 1..3 : Emit(r, n)

Spec == Init /\ [][Next]_sent
=============================================================================
