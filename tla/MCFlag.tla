------------------------------- MODULE MCFlag -------------------------------
(* Instances of Flag for TLC. *)
EXTENDS Flag

CONSTANTS a, b, c

RankedPriority == [t \in Thread |-> IF t = a THEN 0 ELSE 1]
=============================================================================
