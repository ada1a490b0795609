------------------------------ MODULE MCAlerts ------------------------------
(* Instances of Alerts for TLC: one farmer owns every alert.                 *)
EXTENDS Alerts

CONSTANTS f1

MCOwnerOf == [a \in Alerts |-> f1]
=============================================================================
