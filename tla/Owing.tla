--------------------------------- MODULE Owing ---------------------------------
(* What a sweep promises its operator: work leaves the queue only by being    *)
(* banked, and never returns; it is declared complete only when nothing is    *)
(* owed; stopped, it leaves what is owed as it was.  SweepLoop implements it. *)

CONSTANT Work        \* the instances of the set

VARIABLES owed, ended

Bank == /\ ended = "no"
        /\ \E done \in SUBSET owed : owed' = owed \ done
        /\ UNCHANGED ended

Finish == ended = "no" /\ owed = {} /\ ended' = "finished" /\ UNCHANGED owed

Stop == ended = "no" /\ ended' = "stopped" /\ UNCHANGED owed

Init == owed \in SUBSET Work /\ ended = "no"
Next == Bank \/ Finish \/ Stop
Spec == Init /\ [][Next]_<<owed, ended>>
=============================================================================
