\* Every sensor call may fail, ECHO may be stuck, and one descriptor is left.
SPECIFICATION HwFairSpec
CONSTANTS
  Sensors <- MCSensors
  Loggers <- MCLoggers
  MaxSerial = 1
  ReentrantSyslog = FALSE
  Kinds <- MCAnyKind
  SndBuf = 2
  MaxSignals = 1
  MaxClients = 1
  Faults <- MCNoFaults
  Pinger = 3
  Accel = 4
  FdLimit = 1
  RawData <- MCRawData
  HwFaults <- MCHwFaults
INVARIANTS HardwareTypeOK AlertIsTilt
PROPERTIES StreamPromise AccelTurnComes SignalEndsServer
\* The process ends.
CHECK_DEADLOCK FALSE
