--------------------------- MODULE MCGreenPrograms ----------------------------
(* Instances of GreenPrograms for TLC.                                       *)
EXTENDS GreenPrograms

CONSTANTS m, t1, t2, t3

FourGreens == {m, t1, t2, t3}
MayNothing == [g \in Greens |-> {}]

(* cond.c with two of its threads, the others as they are; fewer rounds.   *)
AllPrograms == {"vanilla", "locks", "cond"}
TwoInTurn   == [p \in AllPrograms |-> IF p = "cond" THEN <<t1, t2>> ELSE <<t1, t2, t3>>]
SomeLoops   == [p \in AllPrograms |-> IF p = "cond" THEN 3 ELSE 2]

(* cond.c with all of its threads.                                         *)
OnlyCond    == {"cond"}
ThreeInTurn == [p \in OnlyCond |-> <<t1, t2, t3>>]
TwoLoops    == [p \in OnlyCond |-> 2]
=============================================================================
