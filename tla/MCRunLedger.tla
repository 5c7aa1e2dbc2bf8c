----------------------------- MODULE MCRunLedger -----------------------------
(* RunLedger with one or two instances, the first of which the predecessor    *)
(* solved.                                                                    *)
EXTENDS RunLedger

CONSTANTS i1, i2
MCTwo == {i1, i2}
MCOne == {i1}
=============================================================================
