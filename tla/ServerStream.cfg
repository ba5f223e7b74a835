\* Two readings of each sensor, a send buffer that cuts the second line, one
\* signal, two clients.
SPECIFICATION Spec
CONSTANTS
  Sensors <- MCSensors
  Loggers <- MCLoggers
  MaxSerial = 2
  ReentrantSyslog = FALSE
  Kinds <- MCAlerts
  SndBuf = 4
  MaxSignals = 1
  MaxClients = 2
  Faults <- MCNoFaults
INVARIANTS TypeOK BufferIsMine
PROPERTIES StreamPromise NewfdIsFixed
\* The process ends.
CHECK_DEADLOCK FALSE
