\* Two signals, and a syslog() that its own thread cannot re-enter.
SPECIFICATION FairSpec
CONSTANTS
  Sensors <- MCSensors
  Loggers <- MCLoggers
  MaxSerial = 1
  ReentrantSyslog = FALSE
  Kinds <- MCAlerts
  SndBuf = 4
  MaxSignals = 2
  MaxClients = 1
  Faults <- MCNoFaults
PROPERTIES SignalEndsServer
\* The process ends.
CHECK_DEADLOCK FALSE
