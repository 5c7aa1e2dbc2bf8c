------------------------------ MODULE MCSweepLoop ------------------------------
(* SweepLoop with two boards: one of two instances that are packed wide and one *)
(* that is packed narrow, and one of an instance that runs solo.                *)
EXTENDS SweepLoop

CONSTANTS a, b, c, d

MCBoardOf == [i \in Work |-> IF i = d THEN 2 ELSE 1]
MCClass == [i \in Work |-> IF i = d THEN "solo" ELSE IF i = c THEN "narrow" ELSE "wide"]
=============================================================================
