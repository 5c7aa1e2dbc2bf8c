------------------------------ MODULE MCReferee ------------------------------
(* Referee is checked as it stands; every constant is a number.  With the     *)
(* floor at 2, 3/4 and an overhead of 2 the derived floor is 8 of MaxWall 9.  *)
EXTENDS Referee
=============================================================================
