\* Two servers that meet at the file and at a queue of one message; lines and chunks
\* cut anywhere, every fault but a failing write.  Nothing is assumed of the display.
SPECIFICATION FairClientSpec
CONSTANTS
  Sensors <- MCSensors1And4
  ServerCount = 2
  SensorsOf <- MCTwoServers
  MaxSerial = 1
  Kinds <- MCAlerts
  Cuts <- MCAnyCut
  ChunkCells = 2
  MaxMessages = 1
  StampDigit = 1
  ClientFaults <- MCConnectFaults
  ShortWrites <- MCNone
  DisplayFaults <- MCDisplayFaults
INVARIANTS TypeOK LogFollowsStream AlertsConserved LedsTellAlerts
PROPERTIES LogTurn
\* The processes end, and with nothing left to send the pipeline waits.
CHECK_DEADLOCK FALSE
