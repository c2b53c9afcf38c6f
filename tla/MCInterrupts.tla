---------------------------- MODULE MCInterrupts ----------------------------
(* Instances of Interrupts for TLC. *)
EXTENDS Interrupts

CONSTANTS a, b, clk, eth
=============================================================================
