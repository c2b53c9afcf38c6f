------------------------------- MODULE MCMbox -------------------------------
(* Instances of Mbox for TLC. *)
EXTENDS Mbox

CONSTANTS a, b, c

RankedPriority == [t \in Thread |-> IF t = a THEN 0 ELSE 1]
=============================================================================
