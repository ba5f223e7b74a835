\* Three programs after one another, each killed anywhere; pins fail, pulses are missed.
CONSTANTS
  Width = 2
  Messages <- MCMessages
  Leftovers <- MCLeftovers
  Greetings <- MCGreetings
  MaxStarts = 3
  MaxFaults = 1
  BoardFaults = {"gpio", "pulse"}
SPECIFICATION Spec
INVARIANTS
  TypeOK
  LcdTruth
  LedsFollow
  SetupRepeats
\* Nothing is started after the last program.
CHECK_DEADLOCK FALSE
