------------------------------ MODULE MCThrottle ------------------------------
(* Throttle is checked as it stands; every constant is a number of time units *)
(* or a switch.                                                              *)
EXTENDS Throttle
=============================================================================
