------------------------------ MODULE MCAlarms ------------------------------
(* Instances of Alarms for TLC. *)
EXTENDS Alarms

CONSTANTS p, q
=============================================================================
