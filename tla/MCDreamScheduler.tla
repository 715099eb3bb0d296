---------------------------- MODULE MCDreamScheduler ----------------------------
(* A small instance of DreamScheduler.                                       *)
EXTENDS DreamScheduler

CONSTANTS p1, p2

\* One process is the scheduler, the other one is used by hand.
LoopAndHand == [p \in Process |-> IF p = p1 THEN {"loop"} ELSE {"manual", "once"}]
=============================================================================
