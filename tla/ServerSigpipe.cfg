\* No call fails; the client may leave.
SPECIFICATION Spec
CONSTANTS
  Sensors <- MCSensors
  Loggers <- MCLoggers
  MaxSerial = 2
  ReentrantSyslog = TRUE
  Kinds <- MCAlerts
  SndBuf = 4
  MaxSignals = 1
  MaxClients = 1
  Faults <- MCNoFaults
INVARIANTS RunsUntilSignal
\* The process ends.
CHECK_DEADLOCK FALSE
