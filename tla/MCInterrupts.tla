---------------------------- MODULE MCInterrupts ----------------------------
(* An instance of Interrupts for TLC: the timer, a device on each          *)
(* controller, an exception of each kind of stub, a counter of three       *)
(* values, and a wait whose product wraps.                                 *)
EXTENDS Interrupts
=============================================================================
