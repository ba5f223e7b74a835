\* Two programs after one another, the first killed anywhere; no call fails, no pulse is missed.
CONSTANTS
  Width = 2
  Messages <- MCMessages
  Leftovers <- MCLeftovers
  Greetings <- MCGreetings
  MaxStarts = 2
  MaxFaults = 1
  BoardFaults = {}
SPECIFICATION Spec
INVARIANTS FullInit
\* Nothing is started after the last program.
CHECK_DEADLOCK FALSE
