---------------------------- MODULE MCSweepControl ----------------------------
(* SweepControl with a few throttle moves and readings.  Workers share nothing *)
(* but what the watcher publishes to all of them: one worker is checked through *)
(* long sequences, and MCWorkers is for two.                                    *)
EXTENDS SweepControl

CONSTANTS w1, w2
MCWorkers == {w1, w2}
OneWorker == {w1}
=============================================================================
