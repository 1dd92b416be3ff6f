--------------------------- MODULE MCHealthMonitor ---------------------------
(* Instances of HealthMonitor for TLC: one client of each kind, so that one  *)
(* can hold up the other.                                                    *)
EXTENDS HealthMonitor, TLC

CONSTANTS w1, r1

\* Two slices of one name.
SameName == [e \in 1..2 |-> 1]
=============================================================================
