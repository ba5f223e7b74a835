\* One server with two sensors and a queue of two: its alerts meet in one chunk or queue
\* up behind one another.  Writes to the log and to pins may fail or be cut short, lines
\* are cut anywhere, and a display that was started once runs.
SPECIFICATION FairSpec
CONSTANTS
  Sensors <- MCSensors3And4
  ServerCount = 1
  SensorsOf <- MCOneServer
  MaxSerial = 1
  Kinds <- MCAnyKind
  Cuts <- MCAnyCut
  ChunkCells = 4
  MaxMessages = 2
  StampDigit = 2
  ClientFaults <- MCWriteFaults
  ShortWrites <- MCOneCell
  DisplayFaults <- MCPinFault
INVARIANTS LedTruth AlertsConserved LedsTellAlerts
PROPERTIES PathPromise AlertShown
\* The processes end, and with nothing left to send the pipeline waits.
CHECK_DEADLOCK FALSE
