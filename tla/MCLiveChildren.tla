---------------------------- MODULE MCLiveChildren ----------------------------
(* LiveChildren with two workers and two pids.                               *)
EXTENDS LiveChildren, TLC

CONSTANTS w1, w2, p1, p2
MCWorkers == {w1, w2}
MCPids == {p1, p2}
Alike == Permutations(MCWorkers) \cup Permutations(MCPids)
=============================================================================
