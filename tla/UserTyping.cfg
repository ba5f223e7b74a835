\* A buffer of two characters and four to type; every call may fail, two signals.
SPECIFICATION UserFairSpec
CONSTANTS
  Sensors <- MCSensors
  User = 1
  Loggers = {}
  MaxSerial = 0
  ReentrantSyslog = TRUE
  Kinds <- MCKinds
  SndBuf = 1
  MaxSignals = 2
  MaxClients = 2
  Faults <- MCFaults
  BufSize = 2
  MaxTyped = 4
  MaxFailures = 2
INVARIANTS UserTypeOK PrintedIsTyped
PROPERTIES TypedIsPrinted SignalEndsServer
\* The process ends.
CHECK_DEADLOCK FALSE
