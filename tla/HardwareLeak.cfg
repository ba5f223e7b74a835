\* No sensor call fails of itself; two descriptors are left for three samples.
SPECIFICATION HwSpec
CONSTANTS
  Sensors <- MCSensors
  Loggers <- MCLoggers
  MaxSerial = 3
  ReentrantSyslog = FALSE
  Kinds <- MCAnyKind
  SndBuf = 4
  MaxSignals = 0
  MaxClients = 1
  Faults <- MCNoFaults
  Pinger = 3
  Accel = 4
  FdLimit = 2
  RawData <- MCRawData
  HwFaults <- MCNoFaults
INVARIANTS DoesNotGiveUp
\* The process ends.
CHECK_DEADLOCK FALSE
