------------------------------- MODULE MCGreen -------------------------------
(* Instances of Green for TLC.                                             *)
EXTENDS Green, TLC

CONSTANTS m, t1, t2, t3

FourGreens  == {m, t1, t2, t3}
ThreeGreens == {m, t1, t2}

NoFunction == {}
AllButJoin == Exposed \ {"join"}

(* Main makes the threads and waits for each to end; everybody yields and  *)
(* competes for the mutex.                                                 *)
MayCompete ==
  [g \in Greens |-> {"yield", "lock", "unlock"} \cup
                    IF g = Main THEN {"create", "join"} ELSE {"exit"}]

(* Everybody competes for the mutex and yields, Main and t2 signal; only   *)
(* t1 waits.                                                               *)
MayCall ==
  [g \in Greens |-> MayCompete[g] \cup (IF g = t1 THEN {"wait"} ELSE {"signal"})]

MayJoin ==
  [g \in Greens |-> IF g = Main THEN {"create", "join"} ELSE {"exit", "yield"}]

AnyOrder == Permutations(Threads)
=============================================================================
