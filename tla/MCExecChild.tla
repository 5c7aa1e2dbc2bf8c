----------------------------- MODULE MCExecChild -----------------------------
(* ExecChild is checked as it stands; every constant is a number of ticks or *)
(* a count.                                                                  *)
EXTENDS ExecChild
=============================================================================
