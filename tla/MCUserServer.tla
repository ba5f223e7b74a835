---------------------------- MODULE MCUserServer ----------------------------
(***************************************************************************)
(* Instances of UserServer for TLC.                                        *)
(***************************************************************************)
EXTENDS UserServer

MCSensors == {1}
MCKinds == {TRUE}
MCFaults == {"setup", "bind", "accept", "spawn"}
=============================================================================
