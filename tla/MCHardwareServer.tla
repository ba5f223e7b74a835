-------------------------- MODULE MCHardwareServer --------------------------
(***************************************************************************)
(* HardwareServer on the instance of Client/SocketServer_sensors.c: the    *)
(* distance sensor 3, and the accelerometer 4, whose loop calls syslog().  *)
(***************************************************************************)
EXTENDS HardwareServer

MCSensors == {3, 4}
MCLoggers == {4}
MCAnyKind == {FALSE, TRUE}
MCNoFaults == {}
MCSpawnFaults == {"spawn"}
MCHwFaults == {"gpio", "i2c"}

\* -512, -1 and 0, and 511, as pairs of bytes
MCRawData ==
  { << <<0, 254>>, <<255, 255>>, <<0, 254>> >>, << <<0, 0>>, <<255, 255>>, <<255, 1>> >> }
=============================================================================
