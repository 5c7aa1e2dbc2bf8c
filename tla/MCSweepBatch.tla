---------------------------- MODULE MCSweepBatch ----------------------------
(* The batch on a small instance: two workers, three instances, one of which is *)
(* larger than the whole budget.                                               *)
EXTENDS SweepBatch

CONSTANTS big, mid, low

MCBytes == [i \in Items |-> IF i = big THEN 4 ELSE IF i = mid THEN 2 ELSE 1]
MCQueue == <<low, big, mid>>
=============================================================================
