---------------------------- MODULE MCSemaphore -----------------------------
(* Instances of Semaphore for TLC. *)
EXTENDS Semaphore

CONSTANTS a, b, c

RankedPriority == [t \in Thread |-> IF t = a THEN 0 ELSE 1]
=============================================================================
