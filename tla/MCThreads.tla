------------------------------ MODULE MCThreads -----------------------------
(* Instances of Threads for TLC. *)
EXTENDS Threads

CONSTANTS a, b, c

EqualPriority == [t \in Thread |-> 0]
SplitPriority == [t \in Thread |-> IF t = a THEN 0 ELSE 1]

=============================================================================
