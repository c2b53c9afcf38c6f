------------------------------ MODULE MCMutex -------------------------------
(* Instances of Mutex for TLC. *)
EXTENDS Mutex

CONSTANTS a, b, c, mtx, cv

RankedPriority == [t \in Thread |-> CASE t = a -> 0 [] t = b -> 1 [] OTHER -> 2]

SplitPriority == [t \in Thread |-> IF t = a THEN 0 ELSE 1]
=============================================================================
