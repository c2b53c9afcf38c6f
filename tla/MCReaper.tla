------------------------------ MODULE MCReaper ------------------------------
(* Instances of Reaper for TLC. *)
EXTENDS Reaper

CONSTANTS a, b, c

\* One worker above, one below and one at the cleanup thread's priority.
AroundReaper == [t \in Thread |-> CASE t = a -> 0 [] t = b -> 2 [] OTHER -> 1]
=============================================================================
