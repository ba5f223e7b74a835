\* One reading of each sensor and two signals, so that two handlers run at once;
\* every call may fail.
SPECIFICATION FairSpec
CONSTANTS
  Sensors <- MCSensors
  Loggers <- MCLoggers
  MaxSerial = 1
  ReentrantSyslog = TRUE
  Kinds <- MCAlerts
  SndBuf = 4
  MaxSignals = 2
  MaxClients = 2
  Faults <- MCAllFaults
INVARIANTS MainNeverReturns
PROPERTIES TurnComes SignalEndsServer
\* The process ends.
CHECK_DEADLOCK FALSE
