-------------------------- MODULE MCAlertPipeline --------------------------
(***************************************************************************)
(* Two instances of AlertPipeline: two servers with one sensor each, which *)
(* meet at the log file and at the queue, and one server with sensors 3    *)
(* and 4, whose alerts meet in one chunk or queue up behind one another.   *)
(***************************************************************************)
EXTENDS AlertPipeline

MCTwoServers == <<{1}, {4}>>
MCOneServer == <<{3, 4}>>
MCSensors1And4 == {1, 4}
MCSensors3And4 == {3, 4}

MCAlerts == {TRUE}
MCAnyKind == {FALSE, TRUE}
MCAnyCut == 1..3

MCWriteFaults == {"write"}
MCOneCell == {1}
MCNone == {}
MCConnectFaults == {"resolve", "connect"}
MCPinFault == {"gpio"}
MCDisplayFaults == {"gpio", "crash"}
=============================================================================
