----------------------------- MODULE SortedLists -----------------------------
(***************************************************************************)
(* The sorted lists of assignments/ass 3 locks: threads toggle values in   *)
(* one linked list, between the cells dummy and sentinel,                  *)
(*   list.c         under one lock,                                        *)
(*   clist.c        under a lock in every cell, taken hand over hand,      *)
(*   slist.c        the same, with spin locks in place of pthread's; to    *)
(*                  both a lock is a cell's holder here.                   *)
(*                                                                         *)
(* A step begins where a lock is taken or left.  In between a thread       *)
(* touches only cells that it has locked and memory nobody else knows of,  *)
(* which UsesOwnCells states.                                              *)
(***************************************************************************)
EXTENDS Integers, Sequences, FiniteSets

CONSTANTS Threads,
          MAX,      \* values are below MAX
          Cells,    \* the memory malloc has to give
          Rounds,   \* inc: calls of each thread
          Null,     \* the null pointer, no thread
          dummy, sentinel

Values  == 0 .. MAX - 1
AllCells == Cells \cup {dummy, sentinel}

ASSUME ListAssumption ==
  /\ MAX \in Nat /\ Rounds \in Nat
  /\ dummy # sentinel /\ Cells \cap {dummy, sentinel} = {} /\ Null \notin AllCells
  /\ Null \notin Threads \cup Values
  /\ IsFiniteSet(Cells) /\ Cardinality(Cells) >= MAX + Cardinality(Threads)

VARIABLES locking,  \* "list" or "cells"
          val, next, holder,   \* the fields of each cell
          mutex,    \* the holder of the one lock of list.c
          used,     \* cells that malloc has given and free not taken back
          pc, prev, this, r, removed, left   \* of each thread

cell  == <<val, next, used>>
locks == <<holder, mutex>>
local == <<prev, this, r, removed, left>>
vars  == <<locking, cell, locks, pc, local>>

Init ==
  /\ locking \in {"list", "cells"}
  /\ val = [c \in AllCells |-> IF c = sentinel THEN MAX ELSE -1]
  /\ next = [c \in AllCells |-> IF c = dummy THEN sentinel ELSE Null]
  /\ holder = [c \in AllCells |-> Null]
  /\ mutex = Null
  /\ used = {}
  /\ pc = [t \in Threads |-> "call"]
  /\ prev = [t \in Threads |-> Null]
  /\ this = [t \in Threads |-> Null]
  /\ r = [t \in Threads |-> 0]
  /\ removed = [t \in Threads |-> Null]
  /\ left = [t \in Threads |-> Rounds]
-----------------------------------------------------------------------------
At(t, s) == pc[t] = s
Goto(t, s) == pc' = [pc EXCEPT ![t] = s]

Acquire(t, c) == holder[c] = Null /\ holder' = [holder EXCEPT ![c] = t] /\ UNCHANGED mutex
Release(c)    == holder' = [holder EXCEPT ![c] = Null] /\ UNCHANGED mutex

(* bench: the next value is any.                                           *)
Call(t) ==
  /\ At(t, "call") /\ left[t] > 0
  /\ \E v \in Values : r' = [r EXCEPT ![t] = v]
  /\ removed' = [removed EXCEPT ![t] = Null]
  /\ Goto(t, IF locking = "list" THEN "mutex" ELSE "first")
  /\ UNCHANGED <<locking, cell, locks, prev, this, left>>

(* list.c: the lock, and this = list.                                      *)
LockList(t) ==
  /\ At(t, "mutex") /\ mutex = Null
  /\ mutex' = t
  /\ prev' = [prev EXCEPT ![t] = Null]
  /\ this' = [this EXCEPT ![t] = dummy]
  /\ Goto(t, "test")
  /\ UNCHANGED <<locking, cell, holder, r, removed, left>>

(* clist.c, slist.c: lock the dummy, and this = prev->next.                *)
LockFirst(t) ==
  /\ At(t, "first") /\ Acquire(t, dummy)
  /\ prev' = [prev EXCEPT ![t] = dummy]
  /\ this' = [this EXCEPT ![t] = next[dummy]]
  /\ Goto(t, "lock")
  /\ UNCHANGED <<locking, cell, r, removed, left>>

LockThis(t) ==
  /\ At(t, "lock") /\ Acquire(t, this[t])
  /\ Goto(t, "test")
  /\ UNCHANGED <<locking, cell, local>>

(* A plausible slip: both cells are left before the next is locked.        *)
AdvanceBare(t) ==
  /\ At(t, "test") /\ val[this[t]] < r[t]
  /\ prev' = [prev EXCEPT ![t] = this[t]]
  /\ this' = [this EXCEPT ![t] = next[this[t]]]
  /\ holder' = [c \in AllCells |-> IF holder[c] = t THEN Null ELSE holder[c]]
  /\ Goto(t, IF locking = "list" THEN "test" ELSE "lock")
  /\ UNCHANGED <<locking, cell, mutex, r, removed, left>>

(* A plausible slip: the cell that is left behind stays locked.            *)
AdvanceHolding(t) ==
  /\ At(t, "test") /\ val[this[t]] < r[t]
  /\ prev' = [prev EXCEPT ![t] = this[t]]
  /\ this' = [this EXCEPT ![t] = next[this[t]]]
  /\ Goto(t, IF locking = "list" THEN "test" ELSE "lock")
  /\ UNCHANGED <<locking, cell, locks, r, removed, left>>

(* The loop while this->val < r: in the cell lists prev is unlocked first  *)
(* and the new this locked last.                                           *)
Advance(t) ==
  /\ At(t, "test") /\ val[this[t]] < r[t]
  /\ prev' = [prev EXCEPT ![t] = this[t]]
  /\ this' = [this EXCEPT ![t] = next[this[t]]]
  /\ IF locking = "list"
     THEN Goto(t, "test") /\ UNCHANGED locks
     ELSE Goto(t, "lock") /\ Release(prev[t])
  /\ UNCHANGED <<locking, cell, r, removed, left>>

(* A plausible slip: the cell before is not linked past the removed one.   *)
RemoveUnlinked(t) ==
  /\ At(t, "test") /\ val[this[t]] = r[t]
  /\ removed' = [removed EXCEPT ![t] = this[t]]
  /\ Goto(t, "leave")
  /\ UNCHANGED <<locking, cell, locks, prev, this, r, left>>

(* this->val == r: unlink it, to be freed later.                           *)
Remove(t) ==
  /\ At(t, "test") /\ val[this[t]] = r[t]
  /\ next' = [next EXCEPT ![prev[t]] = next[this[t]]]
  /\ removed' = [removed EXCEPT ![t] = this[t]]
  /\ Goto(t, "leave")
  /\ UNCHANGED <<locking, val, used, locks, prev, this, r, left>>

(* A plausible slip: the new cell is linked in behind this.                *)
InsertBehind(t) ==
  /\ At(t, "test") /\ val[this[t]] > r[t]
  /\ \E new \in Cells \ used :
       /\ used' = used \cup {new}
       /\ val' = [val EXCEPT ![new] = r[t]]
       /\ next' = [next EXCEPT ![new] = next[this[t]], ![this[t]] = new]
  /\ Goto(t, "leave")
  /\ UNCHANGED <<locking, locks, local>>

(* Otherwise a new cell goes between prev and this.  Its lock is nobody's, *)
(* as it is in any cell that malloc has to give: one is freed unlocked.    *)
Insert(t) ==
  /\ At(t, "test") /\ val[this[t]] > r[t]
  /\ \E new \in Cells \ used :
       /\ used' = used \cup {new}
       /\ val' = [val EXCEPT ![new] = r[t]]
       /\ next' = [next EXCEPT ![new] = this[t], ![prev[t]] = new]
  /\ Goto(t, "leave")
  /\ UNCHANGED <<locking, locks, local>>

(* list.c: leave the lock.                                                 *)
UnlockList(t) ==
  /\ At(t, "leave") /\ locking = "list"
  /\ mutex' = Null
  /\ Goto(t, "free")
  /\ UNCHANGED <<locking, cell, holder, local>>

(* clist.c, slist.c: unlock prev, then this.                               *)
UnlockPrev(t) ==
  /\ At(t, "leave") /\ locking = "cells"
  /\ Release(prev[t])
  /\ Goto(t, "unlockThis")
  /\ UNCHANGED <<locking, cell, local>>

UnlockThis(t) ==
  /\ At(t, "unlockThis")
  /\ Release(this[t])
  /\ Goto(t, "free")
  /\ UNCHANGED <<locking, cell, local>>

(* free(removed), if a cell was; toggle returns to bench.                  *)
Free(t) ==
  /\ At(t, "free")
  /\ used' = used \ {removed[t]}
  /\ left' = [left EXCEPT ![t] = @ - 1]
  /\ Goto(t, "call")
  /\ UNCHANGED <<locking, val, next, locks, prev, this, r, removed>>

Step(t) ==
  \/ Call(t) \/ LockList(t) \/ LockFirst(t) \/ LockThis(t) \/ Advance(t)
  \/ Remove(t) \/ Insert(t)
  \/ UnlockList(t) \/ UnlockPrev(t) \/ UnlockThis(t) \/ Free(t)

(* main has joined all threads.                                            *)
Ended == \A t \in Threads : At(t, "call") /\ left[t] = 0

Next == (\E t \in Threads : Step(t)) \/ (Ended /\ UNCHANGED vars)

Spec == Init /\ [][Next]_vars

(* Every thread is scheduled.                                              *)
FairSpec == Spec /\ \A t \in Threads : WF_vars(Step(t))
-----------------------------------------------------------------------------
(* What a walk from dummy along the links visits: the least set closed     *)
(* under next that dummy is in (all cells, if the walk gets to memory that *)
(* is not in use).                                                         *)
Reached ==
  LET Closed == {S \in SUBSET (used \cup {dummy, sentinel}) :
                   dummy \in S /\ \A c \in S : next[c] = Null \/ next[c] \in S}
  IN  {c \in AllCells : \A S \in Closed : c \in S}

(* Cells that a thread has removed and is about to free.                   *)
Freeing == {removed[t] : t \in {u \in Threads : ~At(u, "call")}} \ {Null}

(* The list goes from dummy to sentinel through allocated cells with ever  *)
(* larger values, however the threads interleave, and memory in use is     *)
(* what is in the list and what a thread is about to free (toggle).        *)
ListIntact ==
  LET list == Reached
  IN  /\ sentinel \in list /\ next[sentinel] = Null
      /\ \A c \in list \ {sentinel} : next[c] # Null /\ val[c] < val[next[c]]
      /\ used = (list \ {dummy, sentinel}) \cup Freeing

(* A thread between taking and leaving its locks has those it relies on:   *)
(* the one lock of list.c, or those of prev and this, which are neighbours *)
(* in memory that is not free; nobody waits for the lock of a freed cell.  *)
UsesOwnCells ==
  \A t \in Threads :
    /\ At(t, "test") /\ locking = "list" => mutex = t
    /\ At(t, "test") /\ locking = "cells" =>
         holder[prev[t]] = t /\ holder[this[t]] = t /\ next[prev[t]] = this[t]
    /\ pc[t] \in {"lock", "test"} => this[t] \in used \cup {dummy, sentinel}

InList == {val[c] : c \in Reached \ {dummy, sentinel}}

(* toggle is atomic (all three programs): it takes effect where it links   *)
(* or unlinks a cell.                                                      *)
Atomic == INSTANCE AtomicToggle WITH
            set <- InList,
            pending <- [t \in Threads |->
                          IF pc[t] \in {"mutex", "first", "lock", "test"} THEN r[t] ELSE Null]

ImplementsAtomicToggle == Atomic!Spec

(* Every call returns: no two threads wait for each other's cells.         *)
CallsEnd == <>Ended
=============================================================================
