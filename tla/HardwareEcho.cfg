\* No sensor call fails, and descriptors enough for every sample.
SPECIFICATION HwSpec
CONSTANTS
  Sensors <- MCSensors
  Loggers <- MCLoggers
  MaxSerial = 1
  ReentrantSyslog = FALSE
  Kinds <- MCAnyKind
  SndBuf = 4
  MaxSignals = 0
  MaxClients = 1
  Faults <- MCNoFaults
  Pinger = 3
  Accel = 4
  FdLimit = 3
  RawData <- MCRawData
  HwFaults <- MCNoFaults
INVARIANTS EchoMeasured
\* The process ends.
CHECK_DEADLOCK FALSE
