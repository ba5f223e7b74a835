------------------------------ MODULE AlertPath ------------------------------
(***************************************************************************)
(* What client, queue and display together promise to whoever reads the    *)
(* LCD: an alert that was logged comes to the display's hands whole, once  *)
(* and in the order of its source, and the log never runs further ahead of *)
(* the display than Backlog allows.  Threads, queue, mutex and faults are  *)
(* no part of it.                                                          *)
(***************************************************************************)
EXTENDS Integers, Sequences

CONSTANTS
  Sources,            \* who raises alerts
  Alerts,             \* what an alert may be
  Backlog             \* how many may wait when another one is raised

VARIABLES
  raised,             \* the alerts of each source so far
  taken,              \* how many of them were taken
  hand                \* the alert the display has

vars == <<raised, taken, hand>>

Init ==
  /\ raised = [s \in Sources |-> <<>>]
  /\ taken = [s \in Sources |-> 0]
  /\ hand = <<>>

Raise(s) ==
  /\ Len(raised[s]) - taken[s] <= Backlog
  /\ Len(raised'[s]) = Len(raised[s]) + 1
  /\ LET alert == raised'[s][Len(raised'[s])] IN
     /\ alert \in Alerts
     /\ raised' = [raised EXCEPT ![s] = Append(@, alert)]
  /\ UNCHANGED <<taken, hand>>

Take(s) ==
  /\ taken[s] < Len(raised[s])
  /\ hand' = raised[s][taken[s] + 1]
  /\ taken' = [taken EXCEPT ![s] = @ + 1]
  /\ UNCHANGED raised

\* The display is started again: what it had is gone.
Forget ==
  /\ hand' = <<>>
  /\ UNCHANGED <<raised, taken>>

Next == Forget \/ \E s \in Sources : Raise(s) \/ Take(s)

Spec == Init /\ [][Next]_vars
=============================================================================
