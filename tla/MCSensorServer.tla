--------------------------- MODULE MCSensorServer ---------------------------
(***************************************************************************)
(* SensorServer on the instance of Client/SocketServer.c: sensors 1 and 2, *)
(* of which the second calls syslog() in its loop.                         *)
(***************************************************************************)
EXTENDS SensorServer

MCSensors == {1, 2}
MCLoggers == {2}
MCAlerts == {TRUE}
MCNoFaults == {}
MCAllFaults == {"setup", "bind", "accept", "spawn"}
=============================================================================
