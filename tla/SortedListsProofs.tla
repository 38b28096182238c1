-------------------------- MODULE SortedListsProofs --------------------------
(***************************************************************************)
(* Proofs about SortedLists, for every number of threads, values, cells    *)
(* and calls, under the one lock of list.c and under the locks of clist.c  *)
(* and slist.c: the list stays sorted and no cell is lost (ListIntact), a  *)
(* thread relies only on what it has locked (UsesOwnCells), and toggle is  *)
(* atomic (ImplementsAtomicToggle).                                        *)
(***************************************************************************)
EXTENDS SortedLists, WellFoundedInduction, TLAPS

PCs == {"call", "mutex", "first", "lock", "test", "leave", "unlockThis", "free"}

Typed ==
  /\ locking \in {"list", "cells"}
  /\ val \in [AllCells -> Int] /\ next \in [AllCells -> AllCells \cup {Null}]
  /\ holder \in [AllCells -> Threads \cup {Null}] /\ used \subseteq Cells
  /\ pc \in [Threads -> PCs] /\ r \in [Threads -> Int]
  /\ prev \in [Threads -> AllCells \cup {Null}]
  /\ this \in [Threads -> AllCells \cup {Null}]
  /\ removed \in [Threads -> AllCells \cup {Null}]
  /\ \A t \in Threads : ~At(t, "call") => r[t] \in Values

(* The cells that should be in the list.                                   *)
Linked == (used \ Freeing) \cup {dummy, sentinel}

(* They are linked in the order of their values, which are different.      *)
Ordered ==
  /\ val[dummy] = -1 /\ val[sentinel] = MAX /\ next[sentinel] = Null
  /\ \A c \in Linked \ {dummy, sentinel} : val[c] \in Values
  /\ \A c \in Linked \ {sentinel} :
       /\ next[c] \in Linked \ {dummy} /\ val[c] < val[next[c]]
       /\ \A d \in Linked : val[d] <= val[c] \/ val[next[c]] <= val[d]
  /\ \A c, d \in Linked : val[c] = val[d] => c = d

(* A removed cell is in the hands of one thread, until it is freed.        *)
Removal ==
  \A t \in Threads : ~At(t, "call") /\ removed[t] # Null =>
    /\ removed[t] \in used /\ pc[t] \in {"leave", "unlockThis", "free"}
    /\ \A u \in Threads \ {t} : ~At(u, "call") => removed[u] # removed[t]

(* The cells whose locks a thread of clist.c or slist.c has.               *)
Owned(t) ==
  CASE pc[t] = "lock" -> {prev[t]}
    [] pc[t] \in {"test", "leave"} -> {prev[t], this[t]}
    [] pc[t] = "unlockThis" -> {this[t]}
    [] OTHER -> {}

Owns(t) ==
  /\ locking = "list" =>
       /\ pc[t] \in {"call", "mutex", "test", "leave", "free"}
       /\ pc[t] \in {"test", "leave"} => mutex = t
  /\ locking = "cells" =>
       /\ pc[t] # "mutex"
       /\ pc[t] = "leave" => prev[t] # this[t]
       /\ \A c \in Owned(t) : c \in AllCells /\ holder[c] = t

(* Where a thread is on its way through the list.                          *)
Between(t) == prev[t] \in Linked /\ next[prev[t]] = this[t] /\ val[prev[t]] < r[t]

Placed(t) ==
  pc[t] \in {"lock", "test"} =>
    Between(t) \/ (locking = "list" /\ prev[t] = Null /\ this[t] = dummy)

ListInv ==
  /\ Typed /\ Ordered /\ Removal
  /\ \A t \in Threads : Owns(t) /\ Placed(t)
-----------------------------------------------------------------------------
(* Two cells of the list have different cells behind them.                 *)
LEMMA NextInjective ==
  ASSUME Typed, Ordered, NEW c \in Linked \ {sentinel}, NEW d \in Linked \ {sentinel},
         next[c] = next[d]
  PROVE  c = d
  <1>1. Linked \subseteq AllCells
    BY DEF Linked, Typed, AllCells
  <1>2. /\ val[c] \in Int /\ val[d] \in Int /\ val[next[c]] \in Int
        /\ val[c] < val[next[c]] /\ val[d] < val[next[c]]
        /\ val[d] <= val[c] \/ val[next[c]] <= val[d]
        /\ val[c] <= val[d] \/ val[next[c]] <= val[c]
    BY <1>1 DEF Ordered, Typed
  <1>3. val[c] = val[d]
    BY <1>2
  <1> QED
    BY <1>3 DEF Ordered

(* A thread on its way has a cell of the list before it.                   *)
LEMMA WayFacts ==
  ASSUME ListInv, NEW t \in Threads, pc[t] \in {"lock", "test"}, Between(t)
  PROVE  /\ prev[t] \in Linked \ {sentinel} /\ this[t] \in Linked \ {dummy}
         /\ prev[t] \in AllCells /\ this[t] \in AllCells
         /\ prev[t] # this[t] /\ r[t] \in Values /\ r[t] \in Int
         /\ val[prev[t]] < val[this[t]]
  <1> USE ListAssumption
  <1>1. Linked \subseteq AllCells
    BY DEF ListInv, Linked, Typed, AllCells
  <1>2. r[t] \in Values /\ val[prev[t]] < r[t] /\ prev[t] \in Linked /\ next[prev[t]] = this[t]
    BY DEF ListInv, Typed, At, Between
  <1>3. prev[t] # sentinel /\ val[prev[t]] \in Int
    BY <1>1, <1>2 DEF ListInv, Ordered, Typed, Values
  <1>4. this[t] \in Linked \ {dummy} /\ val[prev[t]] < val[this[t]] /\ val[this[t]] \in Int
    BY <1>1, <1>2, <1>3 DEF ListInv, Ordered, Typed
  <1> QED
    BY <1>1, <1>2, <1>3, <1>4 DEF Values

(* While a thread is between two cells of the list that it has locked,     *)
(* others are elsewhere.                                                   *)
LEMMA OthersElsewhere ==
  ASSUME ListInv, NEW t \in Threads, NEW u \in Threads \ {t},
         pc[t] = "test", Between(t), pc[u] \in {"lock", "test"}
  PROVE  /\ locking = "cells" /\ Between(u)
         /\ prev[u] # prev[t] /\ prev[u] # this[t] /\ this[u] # this[t]
  <1>1. locking = "cells"
    BY DEF ListInv, Owns, Typed
  <1>2. Between(u)
    BY <1>1 DEF ListInv, Placed
  <1>3. prev[t] \in Owned(t) /\ this[t] \in Owned(t) /\ prev[u] \in Owned(u)
    BY DEF Owned
  <1>4. holder[prev[t]] = t /\ holder[this[t]] = t /\ holder[prev[u]] = u
    BY <1>1, <1>3 DEF ListInv, Owns
  <1>5. prev[u] # prev[t] /\ prev[u] # this[t]
    BY <1>4
  <1>6. prev[t] \in Linked \ {sentinel} /\ prev[u] \in Linked \ {sentinel}
    BY <1>2, WayFacts
  <1>7. this[u] # this[t]
    BY <1>2, <1>5, <1>6, NextInjective DEF Between, ListInv
  <1> QED
    BY <1>1, <1>2, <1>5, <1>7

LEMMA ListInitially == Init => ListInv
  <1> SUFFICES ASSUME Init PROVE ListInv
    OBVIOUS
  <1> USE ListAssumption DEF Init
  <1>1. Typed
    BY DEF Typed, PCs, At, AllCells
  <1>2. Freeing = {} /\ Linked = {dummy, sentinel}
    BY DEF Freeing, Linked, At
  <1>3. Ordered
    BY <1>2 DEF Ordered, AllCells
  <1>4. Removal /\ \A t \in Threads : Owns(t) /\ Placed(t)
    BY DEF Removal, Owns, Owned, Placed, At
  <1> QED
    BY <1>1, <1>3, <1>4 DEF ListInv
-----------------------------------------------------------------------------
(* What a step of another thread leaves alone.                             *)
Same(u) ==
  /\ pc'[u] = pc[u] /\ prev'[u] = prev[u] /\ this'[u] = this[u]
  /\ r'[u] = r[u] /\ removed'[u] = removed[u]

LEMMA OthersSame ==
  ASSUME ListInv, NEW t \in Threads, Step(t), NEW u \in Threads \ {t}
  PROVE  Same(u) /\ locking' = locking
  BY DEF ListInv, Typed, Step, Call, LockList, LockFirst, LockThis, Advance, Remove, Insert,
         UnlockList, UnlockPrev, UnlockThis, Free, Goto, local, Same

(* Another thread's locks are left alone.                                  *)
LEMMA OthersOwn ==
  ASSUME ListInv, NEW t \in Threads, NEW u \in Threads \ {t}, Same(u), locking' = locking,
         \A c \in AllCells : holder'[c] = holder[c] \/ holder[c] \in {Null, t},
         mutex' = mutex \/ mutex \in {Null, t}
  PROVE  Owns(u)'
  <1>1. Owned(u)' = Owned(u)
    BY DEF Owned, Same
  <1>2. u \notin {Null, t}
    BY ListAssumption
  <1>3. Owns(u)
    BY DEF ListInv
  <1> QED
    BY <1>1, <1>2, <1>3 DEF Owns, Same

LEMMA OrderedStays ==
  ASSUME ListInv, UNCHANGED <<val, next>>, Linked' = Linked
  PROVE  Ordered'
  BY DEF ListInv, Ordered

LEMMA PlacedStays ==
  ASSUME ListInv, NEW u \in Threads, Same(u), UNCHANGED <<locking, val, next>>, Linked' = Linked
  PROVE  Placed(u)'
  BY DEF ListInv, Placed, Between, Same

(* What a thread did does not matter to the removed cells of the others.   *)
LEMMA NothingRemoved ==
  ASSUME ListInv, NEW t \in Threads, ~At(t, "call"), pc'[t] # "call",
         removed'[t] = removed[t],
         removed[t] # Null => pc'[t] \in {"leave", "unlockThis", "free"},
         used \subseteq used',
         \A u \in Threads \ {t} : Same(u)
  PROVE  Removal' /\ Freeing' = Freeing
  <1>1. \A u \in Threads : (pc'[u] # "call") <=> (pc[u] # "call")
    BY DEF At, Same
  <1>2. \A u \in Threads : removed'[u] = removed[u]
    BY DEF Same
  <1>3. Freeing' = Freeing
    BY <1>1, <1>2 DEF Freeing, At
  <1>4. Removal'
    BY <1>1, <1>2 DEF ListInv, Removal, At, Same
  <1> QED
    BY <1>3, <1>4
-----------------------------------------------------------------------------
(* Steps that do not touch the list: the locks and the way are enough.     *)
LEMMA ListUntouched ==
  ASSUME ListInv, NEW t \in Threads, Step(t), UNCHANGED <<val, next>>,
         Typed', Removal', Linked' = Linked,
         \A c \in AllCells : holder'[c] = holder[c] \/ holder[c] \in {Null, t},
         mutex' = mutex \/ mutex \in {Null, t},
         Owns(t)', Placed(t)'
  PROVE  ListInv'
  <1>1. \A u \in Threads \ {t} : Same(u) /\ locking' = locking
    BY OthersSame
  <1>2. \A u \in Threads \ {t} : Owns(u)'
    BY <1>1, OthersOwn
  <1>3. \A u \in Threads \ {t} : Placed(u)'
    BY <1>1, PlacedStays
  <1>4. Ordered'
    BY OrderedStays
  <1> QED
    BY <1>2, <1>3, <1>4 DEF ListInv

LEMMA CallKeeps ==
  ASSUME ListInv, NEW t \in Threads, Call(t)
  PROVE  ListInv'
  <1> USE ListAssumption DEF Call, At, Goto, cell, locks
  <1>1. \A u \in Threads \ {t} : Same(u)
    BY OthersSame DEF Step
  <1>2. /\ pc'[t] = IF locking = "list" THEN "mutex" ELSE "first"
        /\ removed'[t] = Null /\ pc[t] = "call"
    BY DEF ListInv, Typed
  <1>3. Typed'
    BY DEF ListInv, Typed, PCs, Values
  <1>4. Freeing' = Freeing
    BY <1>1, <1>2 DEF Freeing, Same
  <1>5. Removal'
    BY <1>1, <1>2 DEF ListInv, Removal, Same
  <1>6. Owns(t)' /\ Placed(t)'
    BY <1>2 DEF ListInv, Typed, Owns, Owned, Placed
  <1>7. Linked' = Linked
    BY <1>4 DEF Linked
  <1> QED
    BY <1>3, <1>5, <1>6, <1>7, ListUntouched DEF Step

LEMMA LockListKeeps ==
  ASSUME ListInv, NEW t \in Threads, LockList(t)
  PROVE  ListInv'
  <1> USE ListAssumption DEF LockList, At, Goto, cell
  <1>1. \A u \in Threads \ {t} : Same(u)
    BY OthersSame DEF Step
  <1>2. /\ pc'[t] = "test" /\ pc[t] = "mutex" /\ removed'[t] = removed[t]
        /\ prev'[t] = Null /\ this'[t] = dummy
    BY DEF ListInv, Typed
  <1>3. Typed'
    BY DEF ListInv, Typed, PCs, AllCells
  <1>4. removed[t] = Null
    BY <1>2 DEF ListInv, Removal
  <1>5. Removal' /\ Freeing' = Freeing
    BY <1>1, <1>2, <1>4, NothingRemoved
  <1>6. locking = "list"
    BY <1>2 DEF ListInv, Owns, Typed
  <1>7. Owns(t)' /\ Placed(t)'
    BY <1>2, <1>6 DEF Owns, Owned, Placed
  <1>8. Linked' = Linked
    BY <1>5 DEF Linked
  <1> QED
    BY <1>3, <1>5, <1>7, <1>8, ListUntouched DEF Step

LEMMA LockFirstKeeps ==
  ASSUME ListInv, NEW t \in Threads, LockFirst(t)
  PROVE  ListInv'
  <1> USE ListAssumption DEF LockFirst, Acquire, At, Goto, cell
  <1>1. \A u \in Threads \ {t} : Same(u)
    BY OthersSame DEF Step
  <1>2. /\ pc'[t] = "lock" /\ pc[t] = "first" /\ removed'[t] = removed[t]
        /\ prev'[t] = dummy /\ this'[t] = next[dummy] /\ dummy \in AllCells /\ dummy \in Linked
        /\ holder'[dummy] = t
    BY DEF ListInv, Typed, AllCells, Linked
  <1>3. Typed'
    BY <1>2 DEF ListInv, Typed, PCs
  <1>4. removed[t] = Null
    BY <1>2 DEF ListInv, Removal
  <1>5. Removal' /\ Freeing' = Freeing
    BY <1>1, <1>2, <1>4, NothingRemoved
  <1>6. locking = "cells"
    BY <1>2 DEF ListInv, Owns, Typed
  <1>7. Linked' = Linked
    BY <1>5 DEF Linked
  <1>8. Owns(t)'
    BY <1>2, <1>6 DEF Owns, Owned
  <1>9. val[dummy] < r[t] /\ r'[t] = r[t]
    BY <1>2 DEF ListInv, Ordered, Typed, Values
  <1>10. Placed(t)'
    BY <1>2, <1>7, <1>9 DEF Placed, Between
  <1> QED
    BY <1>3, <1>5, <1>7, <1>8, <1>10, ListUntouched DEF Step, ListInv, Typed

LEMMA LockThisKeeps ==
  ASSUME ListInv, NEW t \in Threads, LockThis(t)
  PROVE  ListInv'
  <1> USE ListAssumption DEF LockThis, Acquire, At, Goto, cell, local
  <1>1. Same(t) \/ pc'[t] = "test"
    BY DEF ListInv, Typed
  <1>2. \A u \in Threads \ {t} : Same(u)
    BY OthersSame DEF Step
  <1>3. pc'[t] = "test" /\ pc[t] = "lock" /\ removed'[t] = removed[t]
    BY DEF ListInv, Typed
  <1>4. locking = "cells" /\ Between(t)
    BY <1>3 DEF ListInv, Owns, Placed, Typed
  <1>5. this[t] \in AllCells
    BY <1>3, <1>4, WayFacts
  <1>6. Typed'
    BY DEF ListInv, Typed, PCs
  <1>7. removed[t] = Null
    BY <1>3 DEF ListInv, Removal
  <1>8. Removal' /\ Freeing' = Freeing
    BY <1>2, <1>3, <1>7, NothingRemoved
  <1>9. Linked' = Linked
    BY <1>8 DEF Linked
  <1>10. Owns(t)'
    <2>1. Owned(t) = {prev[t]} /\ Owned(t)' = {prev[t], this[t]}
      BY <1>3 DEF Owned
    <2>2. prev[t] \in AllCells /\ holder[prev[t]] = t
      BY <1>4, <2>1 DEF ListInv, Owns
    <2>3. holder' = [holder EXCEPT ![this[t]] = t] /\ holder \in [AllCells -> Threads \cup {Null}]
      BY DEF ListInv, Typed
    <2> QED
      BY <1>3, <1>4, <1>5, <2>1, <2>2, <2>3 DEF Owns
  <1>11. Placed(t)'
    BY <1>4, <1>9 DEF Placed, Between
  <1> QED
    BY <1>6, <1>8, <1>9, <1>10, <1>11, ListUntouched DEF Step, ListInv, Typed

LEMMA AdvanceKeeps ==
  ASSUME ListInv, NEW t \in Threads, Advance(t)
  PROVE  ListInv'
  <1> USE ListAssumption DEF Advance, Release, At, Goto, cell
  <1>1. \A u \in Threads \ {t} : Same(u)
    BY OthersSame DEF Step
  <1>2. /\ pc'[t] = (IF locking = "list" THEN "test" ELSE "lock") /\ pc[t] = "test"
        /\ removed'[t] = removed[t] /\ r'[t] = r[t]
        /\ prev'[t] = this[t] /\ this'[t] = next[this[t]] /\ val[this[t]] < r[t]
    BY DEF ListInv, Typed
  <1>3. this[t] \in Linked /\ this[t] \in AllCells /\ r[t] \in Values
    <2>1. CASE Between(t)
      BY <1>2, <2>1, WayFacts
    <2>2. CASE this[t] = dummy
      BY <1>2, <2>2 DEF Linked, AllCells, ListInv, Typed
    <2> QED
      BY <1>2, <2>1, <2>2 DEF ListInv, Placed
  <1>4. Typed'
    <2>1. this' \in [Threads -> AllCells \cup {Null}] /\ prev' \in [Threads -> AllCells \cup {Null}]
      BY <1>3 DEF ListInv, Typed
    <2>2. pc' \in [Threads -> PCs] /\ holder' \in [AllCells -> Threads \cup {Null}]
      BY DEF ListInv, Typed, PCs, locks
    <2>3. \A u \in Threads : ~At(u, "call")' => r'[u] \in Values
      BY <1>1, <1>2, <1>3 DEF ListInv, Typed, Same
    <2> QED
      BY <2>1, <2>2, <2>3 DEF ListInv, Typed
  <1>5. removed[t] = Null
    BY <1>2 DEF ListInv, Removal
  <1>6. Removal' /\ Freeing' = Freeing
    BY <1>1, <1>2, <1>5, NothingRemoved
  <1>7. Linked' = Linked
    BY <1>6 DEF Linked
  <1>8. Placed(t)'
    BY <1>2, <1>3, <1>7 DEF Placed, Between
  <1>9. CASE locking = "list"
    <2>1. Owns(t)'
      BY <1>2, <1>9 DEF ListInv, Owns, locks
    <2> QED
      BY <1>4, <1>6, <1>7, <1>8, <1>9, <2>1, ListUntouched DEF Step, locks
  <1>10. CASE locking = "cells"
    <2>1. Between(t)
      BY <1>2, <1>10 DEF ListInv, Placed
    <2>2. prev[t] # this[t] /\ prev[t] \in AllCells /\ this[t] \in AllCells
      BY <1>2, <2>1, WayFacts
    <2>3. holder[prev[t]] = t /\ holder[this[t]] = t
      BY <1>2, <1>10 DEF ListInv, Owns, Owned
    <2>4. /\ holder' = [holder EXCEPT ![prev[t]] = Null] /\ mutex' = mutex
          /\ holder \in [AllCells -> Threads \cup {Null}]
      BY <1>10 DEF ListInv, Typed
    <2>5. Owned(t)' = {this[t]}
      BY <1>2, <1>10 DEF Owned
    <2>6. Owns(t)'
      BY <1>2, <1>10, <2>2, <2>3, <2>4, <2>5 DEF Owns
    <2>7. \A c \in AllCells : holder'[c] = holder[c] \/ holder[c] \in {Null, t}
      BY <2>2, <2>3, <2>4
    <2> QED
      BY <1>4, <1>6, <1>7, <1>8, <2>4, <2>6, <2>7, ListUntouched DEF Step
  <1> QED
    BY <1>9, <1>10 DEF ListInv, Typed

LEMMA UnlockListKeeps ==
  ASSUME ListInv, NEW t \in Threads, UnlockList(t)
  PROVE  ListInv'
  <1> USE ListAssumption DEF UnlockList, At, Goto, cell, local
  <1>1. \A u \in Threads \ {t} : Same(u)
    BY OthersSame DEF Step
  <1>2. pc'[t] = "free" /\ pc[t] = "leave" /\ removed'[t] = removed[t] /\ mutex = t
    BY DEF ListInv, Typed, Owns
  <1>3. Typed'
    BY DEF ListInv, Typed, PCs
  <1>4. Removal' /\ Freeing' = Freeing
    BY <1>1, <1>2, NothingRemoved
  <1>5. Linked' = Linked
    BY <1>4 DEF Linked
  <1>6. Owns(t)' /\ Placed(t)'
    BY <1>2 DEF Owns, Placed
  <1> QED
    BY <1>2, <1>3, <1>4, <1>5, <1>6, ListUntouched DEF Step

LEMMA UnlockPrevKeeps ==
  ASSUME ListInv, NEW t \in Threads, UnlockPrev(t)
  PROVE  ListInv'
  <1> USE ListAssumption DEF UnlockPrev, Release, At, Goto, cell, local
  <1>1. \A u \in Threads \ {t} : Same(u)
    BY OthersSame DEF Step
  <1>2. pc'[t] = "unlockThis" /\ pc[t] = "leave" /\ removed'[t] = removed[t]
    BY DEF ListInv, Typed
  <1>3. Typed'
    BY DEF ListInv, Typed, PCs
  <1>4. Removal' /\ Freeing' = Freeing
    BY <1>1, <1>2, NothingRemoved
  <1>5. Linked' = Linked
    BY <1>4 DEF Linked
  <1>6. Owned(t) = {prev[t], this[t]} /\ Owned(t)' = {this[t]}
    BY <1>2 DEF Owned
  <1>7. /\ prev[t] # this[t] /\ prev[t] \in AllCells /\ this[t] \in AllCells
        /\ holder[prev[t]] = t /\ holder[this[t]] = t
    BY <1>2, <1>6 DEF ListInv, Owns
  <1>8. /\ holder' = [holder EXCEPT ![prev[t]] = Null] /\ mutex' = mutex
        /\ holder \in [AllCells -> Threads \cup {Null}]
    BY DEF ListInv, Typed
  <1>9. Owns(t)' /\ Placed(t)'
    BY <1>2, <1>6, <1>7, <1>8 DEF Owns, Placed
  <1>10. \A c \in AllCells : holder'[c] = holder[c] \/ holder[c] \in {Null, t}
    BY <1>7, <1>8
  <1> QED
    BY <1>3, <1>4, <1>5, <1>8, <1>9, <1>10, ListUntouched DEF Step

LEMMA UnlockThisKeeps ==
  ASSUME ListInv, NEW t \in Threads, UnlockThis(t)
  PROVE  ListInv'
  <1> USE ListAssumption DEF UnlockThis, Release, At, Goto, cell, local
  <1>1. \A u \in Threads \ {t} : Same(u)
    BY OthersSame DEF Step
  <1>2. pc'[t] = "free" /\ pc[t] = "unlockThis" /\ removed'[t] = removed[t] /\ locking = "cells"
    BY DEF ListInv, Typed, Owns
  <1>3. Typed'
    BY DEF ListInv, Typed, PCs
  <1>4. Removal' /\ Freeing' = Freeing
    BY <1>1, <1>2, NothingRemoved
  <1>5. Linked' = Linked
    BY <1>4 DEF Linked
  <1>6. Owned(t) = {this[t]} /\ Owned(t)' = {}
    BY <1>2 DEF Owned
  <1>7. this[t] \in AllCells /\ holder[this[t]] = t
    BY <1>2, <1>6 DEF ListInv, Owns
  <1>8. /\ holder' = [holder EXCEPT ![this[t]] = Null] /\ mutex' = mutex
        /\ holder \in [AllCells -> Threads \cup {Null}]
    BY DEF ListInv, Typed
  <1>9. Owns(t)' /\ Placed(t)'
    BY <1>2, <1>6 DEF Owns, Placed
  <1>10. \A c \in AllCells : holder'[c] = holder[c] \/ holder[c] \in {Null, t}
    BY <1>7, <1>8
  <1> QED
    BY <1>3, <1>4, <1>5, <1>8, <1>9, <1>10, ListUntouched DEF Step

(* What is freed was not in the list.                                      *)
LEMMA FreeLinks ==
  ASSUME ListInv, NEW t \in Threads, Free(t)
  PROVE  Removal' /\ Linked' = Linked
  <1> USE ListAssumption DEF Free, At, Goto, locks
  <1>1. \A u \in Threads \ {t} : Same(u)
    BY OthersSame DEF Step
  <1>2. pc'[t] = "call" /\ pc[t] = "free" /\ removed' = removed /\ used' = used \ {removed[t]}
    BY DEF ListInv, Typed
  <1>3. \A u \in Threads \ {t} : pc[u] # "call" /\ removed[u] # Null =>
          removed[u] \in used /\ removed[u] # removed[t]
    BY <1>2 DEF ListInv, Removal
  <1>4. Removal'
    BY <1>1, <1>2, <1>3 DEF ListInv, Removal, Same
  <1>5. Freeing' = Freeing \ {removed[t]}
    BY <1>1, <1>2, <1>3 DEF Freeing, Same
  <1>6. removed[t] \in Freeing \cup {Null} /\ Null \notin used
    BY <1>2 DEF Freeing, ListInv, Typed, AllCells
  <1>7. Linked' = Linked
    BY <1>2, <1>5, <1>6 DEF Linked
  <1> QED
    BY <1>4, <1>7

LEMMA FreeKeeps ==
  ASSUME ListInv, NEW t \in Threads, Free(t)
  PROVE  ListInv'
  <1> USE ListAssumption DEF Free, At, Goto, locks
  <1>1. pc'[t] = "call" /\ pc[t] = "free"
    BY DEF ListInv, Typed
  <1>2. Typed'
    BY OthersSame DEF ListInv, Typed, PCs
  <1>3. Removal' /\ Linked' = Linked
    BY FreeLinks
  <1>4. Owns(t)' /\ Placed(t)'
    BY <1>1 DEF ListInv, Owns, Owned, Placed
  <1> QED
    BY <1>2, <1>3, <1>4, ListUntouched DEF Step
-----------------------------------------------------------------------------
(* The cell to remove is in the list, between prev and what is behind it.  *)
LEMMA RemoveFacts ==
  ASSUME ListInv, NEW t \in Threads, Remove(t)
  PROVE  /\ pc[t] = "test" /\ Between(t)
         /\ this[t] \in Cells /\ this[t] \in used \ Freeing
         /\ next' = [next EXCEPT ![prev[t]] = next[this[t]]]
         /\ pc'[t] = "leave" /\ removed'[t] = this[t]
         /\ removed[t] = Null
         /\ Freeing' = Freeing \cup {this[t]} /\ Linked' = Linked \ {this[t]}
  <1> USE ListAssumption DEF Remove, At, Goto
  <1>1. \A u \in Threads \ {t} : Same(u)
    BY OthersSame DEF Step
  <1>2. /\ pc[t] = "test" /\ pc'[t] = "leave" /\ removed'[t] = this[t] /\ used' = used
        /\ val[this[t]] = r[t] /\ r[t] \in Values
    BY DEF ListInv, Typed
  <1>3. this[t] \notin {dummy, sentinel}
    BY <1>2 DEF ListInv, Ordered, Values
  <1>4. Between(t)
    BY <1>2, <1>3 DEF ListInv, Placed
  <1>5. this[t] \in Linked
    BY <1>2, <1>4, WayFacts
  <1>6. this[t] \in used \ Freeing /\ this[t] \in Cells /\ this[t] # Null
    BY <1>3, <1>5 DEF Linked, ListInv, Typed, AllCells
  <1>7. removed[t] = Null
    BY <1>2 DEF ListInv, Removal
  <1>8. Freeing' = Freeing \cup {this[t]}
    BY <1>1, <1>2, <1>6, <1>7 DEF Freeing, Same
  <1>9. Linked' = Linked \ {this[t]}
    BY <1>2, <1>3, <1>6, <1>8 DEF Linked
  <1> QED
    BY <1>2, <1>4, <1>6, <1>7, <1>8, <1>9

LEMMA RemoveKeeps ==
  ASSUME ListInv, NEW t \in Threads, Remove(t)
  PROVE  ListInv'
  <1> USE ListAssumption
  <1> DEFINE x == this[t]
             p == prev[t]
             n == next[x]
  <1>1. /\ pc[t] = "test" /\ Between(t) /\ x \in used \ Freeing /\ x \in Cells
        /\ next' = [next EXCEPT ![p] = n] /\ val' = val
        /\ pc'[t] = "leave" /\ removed'[t] = x /\ removed[t] = Null
        /\ Freeing' = Freeing \cup {x} /\ Linked' = Linked \ {x}
    BY RemoveFacts DEF Remove
  <1>2. /\ UNCHANGED <<locking, used, holder, mutex, prev, this, r>>
        /\ \A u \in Threads \ {t} : Same(u)
    BY OthersSame DEF Remove, locks, Step
  <1>3. /\ p \in Linked \ {sentinel} /\ x \in Linked \ {dummy, sentinel} /\ p \in AllCells
        /\ p # x /\ next[p] = x /\ val[p] < val[x]
    <2>1. p \in Linked \ {sentinel} /\ x \in Linked \ {dummy} /\ p \in AllCells /\ p # x /\ val[p] < val[x]
      BY <1>1, WayFacts
    <2> QED
      BY <1>1, <2>1 DEF Between
  <1>4. /\ n \in Linked \ {dummy} /\ val[x] < val[n] /\ n # x
        /\ \A d \in Linked : val[d] <= val[x] \/ val[n] <= val[d]
    <2>1. /\ n \in Linked \ {dummy} /\ val[x] < val[n]
          /\ \A d \in Linked : val[d] <= val[x] \/ val[n] <= val[d]
      BY <1>3 DEF ListInv, Ordered
    <2>2. val[x] \in Int
      BY <1>3 DEF ListInv, Typed, Linked, AllCells
    <2> QED
      BY <2>1, <2>2
  <1>5. Linked \subseteq AllCells /\ \A d \in Linked : val[d] \in Int
    BY DEF ListInv, Typed, Linked, AllCells
  <1>6. next'[p] = n /\ \A c \in AllCells \ {p} : next'[c] = next[c]
    BY <1>1, <1>3 DEF ListInv, Typed
  <1>7. Typed'
    <2>1. removed' = [removed EXCEPT ![t] = x] /\ pc' = [pc EXCEPT ![t] = "leave"]
      BY DEF Remove, Goto
    <2>2. n \in AllCells /\ x \in AllCells
      BY <1>3, <1>4, <1>5
    <2>3. next' \in [AllCells -> AllCells \cup {Null}] /\ removed' \in [Threads -> AllCells \cup {Null}]
      BY <1>1, <2>1, <2>2 DEF ListInv, Typed
    <2>4. pc' \in [Threads -> PCs] /\ \A u \in Threads : ~At(u, "call")' => r'[u] \in Values
      BY <1>1, <1>2, <2>1 DEF ListInv, Typed, PCs, At
    <2> QED
      BY <1>1, <1>2, <2>3, <2>4 DEF ListInv, Typed
  <1> HIDE DEF x, p, n
  <1>8. Ordered'
    <2>1. ASSUME NEW c \in Linked' \ {sentinel}
          PROVE  /\ next'[c] \in Linked' \ {dummy} /\ val[c] < val[next'[c]]
                 /\ \A d \in Linked' : val[d] <= val[c] \/ val[next'[c]] <= val[d]
      <3>1. CASE c = p
        <4>1. \A d \in Linked' : val[d] <= val[p] \/ val[x] <= val[d]
          BY <1>1, <1>3 DEF ListInv, Ordered
        <4>2. \A d \in Linked' : val[d] # val[x]
          BY <1>1, <1>3 DEF ListInv, Ordered
        <4>3. \A d \in Linked' : val[d] <= val[p] \/ val[n] <= val[d]
          BY <1>1, <1>3, <1>4, <1>5, <4>1, <4>2
        <4>4. n \in Linked' \ {dummy} /\ val[p] < val[n]
          BY <1>1, <1>3, <1>4, <1>5
        <4> QED
          BY <1>6, <3>1, <4>3, <4>4
      <3>2. CASE c # p
        <4>1. c \in Linked \ {sentinel} /\ next'[c] = next[c]
          BY <1>1, <1>5, <1>6, <3>2
        <4>2. next[c] # x
          BY <1>3, <3>2, <4>1, NextInjective DEF ListInv
        <4> QED
          BY <1>1, <4>1, <4>2 DEF ListInv, Ordered
      <3> QED
        BY <3>1, <3>2
    <2>2. next'[sentinel] = Null /\ sentinel \in AllCells
      BY <1>3, <1>6 DEF ListInv, Ordered, AllCells
    <2> QED
      BY <1>1, <2>1, <2>2 DEF ListInv, Ordered
  <1>9. Removal'
    <2>1. \A u \in Threads \ {t} : pc[u] # "call" /\ removed[u] # Null => removed[u] # x
      BY <1>1 DEF Freeing, At
    <2>2. x # Null
      BY <1>1 DEF AllCells
    <2> QED
      BY <1>1, <1>2, <2>1, <2>2 DEF ListInv, Removal, At, Same
  <1>10. Owns(t)' /\ Placed(t)'
    BY <1>1, <1>2, <1>3 DEF ListInv, Owns, Owned, Placed, x, p
  <1>11. ASSUME NEW u \in Threads \ {t}
         PROVE  Owns(u)' /\ Placed(u)'
    <2>1. Owns(u)'
      BY <1>2, OthersOwn
    <2>2. CASE pc[u] \in {"lock", "test"}
      <3>1. Between(u) /\ prev[u] # p /\ prev[u] # x
        BY <1>1, <2>2, OthersElsewhere DEF x, p
      <3>2. Between(u)'
        BY <1>1, <1>2, <1>5, <1>6, <3>1 DEF Between, Same
      <3> QED
        BY <2>1, <3>2 DEF Placed
    <2>3. CASE pc[u] \notin {"lock", "test"}
      BY <1>2, <2>1, <2>3 DEF Placed, Same
    <2> QED
      BY <2>1, <2>2, <2>3
  <1> QED
    BY <1>7, <1>8, <1>9, <1>10, <1>11 DEF ListInv

(* The place for the new cell is between prev and this.                    *)
LEMMA InsertFacts ==
  ASSUME ListInv, NEW t \in Threads, Insert(t)
  PROVE  /\ pc[t] = "test" /\ Between(t) /\ r[t] \in Values /\ val[this[t]] > r[t]
         /\ pc'[t] = "leave" /\ removed' = removed /\ removed[t] = Null
         /\ Freeing' = Freeing /\ Freeing \subseteq used
         /\ \E new \in Cells \ used :
              /\ used' = used \cup {new}
              /\ val' = [val EXCEPT ![new] = r[t]]
              /\ next' = [next EXCEPT ![new] = this[t], ![prev[t]] = new]
              /\ new \notin Linked /\ Linked' = Linked \cup {new}
  <1> USE ListAssumption DEF Insert, At, Goto, local
  <1>1. \A u \in Threads \ {t} : Same(u)
    BY OthersSame DEF Step
  <1>2. /\ pc[t] = "test" /\ pc'[t] = "leave" /\ removed' = removed
        /\ val[this[t]] > r[t] /\ r[t] \in Values
    BY DEF ListInv, Typed
  <1>3. this[t] # dummy
    BY <1>2 DEF ListInv, Ordered, Values
  <1>4. Between(t)
    BY <1>2, <1>3 DEF ListInv, Placed
  <1>5. removed[t] = Null
    BY <1>2 DEF ListInv, Removal
  <1>6. Freeing \subseteq used
    BY DEF Freeing, ListInv, Removal
  <1>7. used \subseteq used'
    OBVIOUS
  <1>8. Freeing' = Freeing
    BY <1>1, <1>2, <1>5, <1>7, NothingRemoved
  <1>9. PICK new \in Cells \ used :
              /\ used' = used \cup {new}
              /\ val' = [val EXCEPT ![new] = r[t]]
              /\ next' = [next EXCEPT ![new] = this[t], ![prev[t]] = new]
    OBVIOUS
  <1>10. new \notin Linked /\ Linked' = Linked \cup {new}
    BY <1>6, <1>8, <1>9 DEF Linked
  <1> QED
    BY <1>2, <1>4, <1>5, <1>6, <1>8, <1>9, <1>10

LEMMA InsertKeeps ==
  ASSUME ListInv, NEW t \in Threads, Insert(t)
  PROVE  ListInv'
  <1> USE ListAssumption
  <1> DEFINE x == this[t]
             p == prev[t]
             v == r[t]
  <1>1. /\ pc[t] = "test" /\ Between(t) /\ v \in Values /\ val[x] > v
        /\ pc'[t] = "leave" /\ removed' = removed /\ removed[t] = Null
        /\ Freeing' = Freeing /\ Freeing \subseteq used
    BY InsertFacts
  <1>2. PICK new \in Cells \ used :
          /\ used' = used \cup {new}
          /\ val' = [val EXCEPT ![new] = v]
          /\ next' = [next EXCEPT ![new] = x, ![p] = new]
          /\ new \notin Linked /\ Linked' = Linked \cup {new}
    BY InsertFacts
  <1>3. /\ UNCHANGED <<locking, holder, mutex, prev, this, r, removed>>
        /\ pc' = [pc EXCEPT ![t] = "leave"]
        /\ \A u \in Threads \ {t} : Same(u)
    BY OthersSame DEF Insert, locks, local, Goto, Step
  <1>4. /\ p \in Linked \ {sentinel} /\ x \in Linked \ {dummy} /\ p \in AllCells /\ x \in AllCells
        /\ p # x /\ next[p] = x /\ val[p] < v
    BY <1>1, WayFacts DEF Between
  <1>5. Linked \subseteq AllCells /\ (\A d \in Linked : val[d] \in Int) /\ new \in AllCells /\ v \in Int
    BY <1>1 DEF ListInv, Typed, Linked, AllCells, Values
  <1>6. /\ next'[p] = new /\ next'[new] = x /\ \A c \in AllCells \ {p, new} : next'[c] = next[c]
        /\ val'[new] = v /\ \A c \in AllCells \ {new} : val'[c] = val[c]
    BY <1>2, <1>4, <1>5 DEF ListInv, Typed
  <1>7. Typed'
    <2>1. next' \in [AllCells -> AllCells \cup {Null}] /\ val' \in [AllCells -> Int]
      BY <1>2, <1>4, <1>5 DEF ListInv, Typed
    <2>2. pc' \in [Threads -> PCs] /\ \A u \in Threads : ~At(u, "call")' => r'[u] \in Values
      BY <1>1, <1>3 DEF ListInv, Typed, PCs, At
    <2> QED
      BY <1>2, <1>3, <2>1, <2>2 DEF ListInv, Typed
  <1> HIDE DEF x, p, v
  <1>8. \A d \in Linked : val[d] <= val[p] \/ val[x] <= val[d]
    BY <1>4 DEF ListInv, Ordered
  <1>9. \A d \in Linked : d # new /\ val'[d] = val[d] /\ val[d] # v
    BY <1>1, <1>2, <1>4, <1>5, <1>6, <1>8
  <1>10. Ordered'
    <2>1. ASSUME NEW c \in Linked' \ {sentinel}
          PROVE  /\ next'[c] \in Linked' \ {dummy} /\ val'[c] < val'[next'[c]]
                 /\ \A d \in Linked' : val'[d] <= val'[c] \/ val'[next'[c]] <= val'[d]
      <3>1. CASE c = p
        <4>1. new \in Linked' \ {dummy} /\ val'[p] < val'[new]
          BY <1>2, <1>4, <1>6, <1>9
        <4>2. \A d \in Linked' : val'[d] <= val'[p] \/ val'[new] <= val'[d]
          BY <1>1, <1>2, <1>4, <1>5, <1>6, <1>8, <1>9
        <4> QED
          BY <1>6, <3>1, <4>1, <4>2
      <3>2. CASE c = new
        <4>1. x \in Linked' \ {dummy} /\ val'[new] < val'[x]
          BY <1>1, <1>2, <1>4, <1>5, <1>6, <1>9
        <4>2. \A d \in Linked' : val'[d] <= val'[new] \/ val'[x] <= val'[d]
          BY <1>1, <1>2, <1>4, <1>5, <1>6, <1>8, <1>9
        <4> QED
          BY <1>6, <3>2, <4>1, <4>2
      <3>3. CASE c \notin {p, new}
        <4>1. c \in Linked \ {sentinel} /\ next'[c] = next[c]
          BY <1>2, <1>5, <1>6, <3>3
        <4>2. /\ next[c] \in Linked \ {dummy} /\ val[c] < val[next[c]]
              /\ \A d \in Linked : val[d] <= val[c] \/ val[next[c]] <= val[d]
          BY <4>1 DEF ListInv, Ordered
        <4>3. next[c] # x
          BY <1>4, <3>3, <4>1, NextInjective DEF ListInv
        <4>4. v <= val[c] \/ val[next[c]] <= v
          <5>1. val[next[c]] # val[x] /\ val[c] # val[p]
            BY <1>4, <3>3, <4>1, <4>2, <4>3 DEF ListInv, Ordered
          <5>2. /\ val[c] \in Int /\ val[next[c]] \in Int /\ val[p] \in Int /\ val[x] \in Int
                /\ val[c] <= val[p] \/ val[x] <= val[c]
                /\ val[next[c]] <= val[p] \/ val[x] <= val[next[c]]
                /\ val[p] <= val[c] \/ val[next[c]] <= val[p]
                /\ val[x] <= val[c] \/ val[next[c]] <= val[x]
            BY <1>4, <1>5, <1>8, <4>1, <4>2
          <5> QED
            BY <1>1, <1>4, <1>5, <4>2, <5>1, <5>2
        <4>5. val'[c] = val[c] /\ val'[next[c]] = val[next[c]]
          BY <1>9, <4>1, <4>2
        <4>6. \A d \in Linked' : val'[d] <= val[c] \/ val[next[c]] <= val'[d]
          BY <1>2, <1>6, <1>9, <4>2, <4>4
        <4>7. next'[c] = next[c] /\ val'[next'[c]] = val[next[c]] /\ next[c] \in Linked' \ {dummy}
          BY <1>2, <4>1, <4>2, <4>5
        <4> QED
          BY <4>2, <4>5, <4>6, <4>7
      <3> QED
        BY <3>1, <3>2, <3>3
    <2>2. next'[sentinel] = Null /\ val'[sentinel] = MAX /\ val'[dummy] = -1
      <3>1. sentinel \in AllCells \ {p, new} /\ dummy \in AllCells \ {new}
        BY <1>4 DEF AllCells
      <3> QED
        BY <1>6, <3>1 DEF ListInv, Ordered
    <2>3. \A c \in Linked' \ {dummy, sentinel} : val'[c] \in Values
      BY <1>1, <1>2, <1>6, <1>9 DEF ListInv, Ordered
    <2>4. \A c, d \in Linked' : val'[c] = val'[d] => c = d
      BY <1>2, <1>6, <1>9 DEF ListInv, Ordered
    <2> QED
      BY <2>1, <2>2, <2>3, <2>4 DEF Ordered
  <1>11. Removal'
    BY <1>1, <1>2, <1>3, NothingRemoved DEF At
  <1>12. Owns(t)' /\ Placed(t)'
    BY <1>1, <1>3, <1>4 DEF ListInv, Owns, Owned, Placed, x, p
  <1>13. ASSUME NEW u \in Threads \ {t}
         PROVE  Owns(u)' /\ Placed(u)'
    <2>1. Owns(u)'
      BY <1>3, OthersOwn
    <2>2. CASE pc[u] \in {"lock", "test"}
      <3>1. Between(u) /\ prev[u] # p
        BY <1>1, <2>2, OthersElsewhere DEF p
      <3>2. prev[u] \in Linked /\ prev[u] # new /\ prev[u] \in AllCells
        BY <1>5, <1>9, <3>1 DEF Between
      <3>3. prev'[u] = prev[u] /\ this'[u] = this[u] /\ r'[u] = r[u]
        BY <1>3
      <3>4. next'[prev[u]] = next[prev[u]] /\ val'[prev[u]] = val[prev[u]] /\ prev[u] \in Linked'
        BY <1>2, <1>6, <3>1, <3>2
      <3>5. Between(u)'
        BY <3>1, <3>3, <3>4 DEF Between
      <3> QED
        BY <2>1, <3>5 DEF Placed
    <2>3. CASE pc[u] \notin {"lock", "test"}
      BY <1>3, <2>1, <2>3 DEF Placed, Same
    <2> QED
      BY <2>2, <2>3
  <1> QED
    BY <1>7, <1>10, <1>11, <1>12, <1>13 DEF ListInv

LEMMA ListKeeps == ListInv /\ [Next]_vars => ListInv'
  <1> SUFFICES ASSUME ListInv, [Next]_vars PROVE ListInv'
    OBVIOUS
  <1>1. ASSUME NEW t \in Threads, Step(t)
        PROVE  ListInv'
    BY <1>1, CallKeeps, LockListKeeps, LockFirstKeeps, LockThisKeeps, AdvanceKeeps, RemoveKeeps,
       InsertKeeps, UnlockListKeeps, UnlockPrevKeeps, UnlockThisKeeps, FreeKeeps DEF Step
  <1>2. CASE UNCHANGED vars
    <2> USE <1>2 DEF vars, cell, locks, local
    <2>1. Linked' = Linked
      BY DEF Linked, Freeing, At
    <2>2. Ordered'
      BY <2>1, OrderedStays
    <2>3. \A u \in Threads : Placed(u)'
      BY <2>1, PlacedStays DEF Same
    <2>4. \A u \in Threads : Owns(u)'
      BY DEF ListInv, Owns, Owned
    <2> QED
      BY <2>2, <2>3, <2>4 DEF ListInv, Typed, Removal, At
  <1> QED
    BY <1>1, <1>2 DEF Next

LEMMA ListInvariance == Spec => []ListInv
  BY ListInitially, ListKeeps, PTL DEF Spec
-----------------------------------------------------------------------------
(* A set that dummy is in and that is closed under next holds the list:    *)
(* the cell behind the last one before a missing one is that one.          *)
LEMMA ClosedHoldsList ==
  ASSUME ListInv, NEW S, dummy \in S,
         \A c \in S : next[c] = Null \/ next[c] \in S
  PROVE  Linked \subseteq S
  <1> USE ListAssumption
  <1> SUFFICES ASSUME NEW c \in Linked, c \notin S PROVE FALSE
    OBVIOUS
  <1>1. Linked \subseteq AllCells /\ dummy \in Linked /\ MAX \in Nat
    BY DEF ListInv, Typed, Linked, AllCells
  <1>2. \A d \in Linked : val[d] \in Int /\ val[d] <= MAX
    BY <1>1 DEF ListInv, Ordered, Typed, Values
  <1>3. val[dummy] < val[c]
    BY <1>1 DEF ListInv, Ordered, Values
  <1> DEFINE Before == {d \in Linked \cap S : val[d] < val[c]}
             T == {MAX - val[d] : d \in Before}
  <1>4. T # {} /\ T \subseteq Nat
    BY <1>1, <1>2, <1>3
  <1>5. \E l \in T : \A k \in T : ~ (<<k, l>> \in OpToRel(<, Nat))
    BY <1>4, NatLessThanWellFounded, WFMin
  <1>6. \A k, l \in Nat : <<k, l>> \in OpToRel(<, Nat) <=> k < l
    BY DEF OpToRel
  <1>7. PICK l \in T : \A k \in T : ~ (k < l)
    BY <1>4, <1>5, <1>6
  <1>8. PICK d \in Before : l = MAX - val[d]
    OBVIOUS
  <1>9. \A e \in Before : MAX - val[e] \in T
    OBVIOUS
  <1> HIDE DEF T
  <1>10. \A e \in Before : val[e] <= val[d]
    BY <1>1, <1>2, <1>7, <1>8, <1>9
  <1>11. d \in Linked \ {sentinel} /\ val[d] < val[c]
    BY <1>1, <1>2 DEF ListInv, Ordered
  <1>12. next[d] \in Linked /\ val[d] < val[next[d]] /\ (val[c] <= val[d] \/ val[next[d]] <= val[c])
    BY <1>11 DEF ListInv, Ordered
  <1>13. next[d] # Null
    BY <1>1, <1>12
  <1>14. next[d] \in S
    BY <1>13
  <1>15. next[d] # c
    BY <1>14
  <1>16. val[next[d]] < val[c]
    <2>1. val[next[d]] # val[c]
      BY <1>12, <1>15 DEF ListInv, Ordered
    <2> QED
      BY <1>2, <1>11, <1>12, <2>1
  <1>17. next[d] \in Before
    BY <1>12, <1>14, <1>16
  <1> QED
    BY <1>2, <1>10, <1>11, <1>12, <1>17

(* The walk from dummy visits the linked cells and no others.              *)
LEMMA WalkVisits == ListInv => Reached = Linked
  <1> SUFFICES ASSUME ListInv PROVE Reached = Linked
    OBVIOUS
  <1> DEFINE Closed == {S \in SUBSET (used \cup {dummy, sentinel}) :
                         dummy \in S /\ \A c \in S : next[c] = Null \/ next[c] \in S}
  <1>1. Linked \subseteq AllCells
    BY DEF ListInv, Typed, Linked, AllCells
  <1>2. \A c \in Linked : next[c] = Null \/ next[c] \in Linked
    BY DEF ListInv, Ordered
  <1>3. Linked \in Closed
    BY <1>2 DEF Linked
  <1>4. \A S \in Closed : Linked \subseteq S
    BY ClosedHoldsList
  <1> QED
    BY <1>1, <1>3, <1>4 DEF Reached

LEMMA IntactFromInv == ListInv => ListIntact
  <1> SUFFICES ASSUME ListInv PROVE ListIntact
    OBVIOUS
  <1>1. Reached = Linked
    BY WalkVisits
  <1>2. sentinel \in Linked /\ next[sentinel] = Null
    BY DEF Linked, ListInv, Ordered
  <1>3. \A c \in Linked \ {sentinel} : next[c] # Null /\ val[c] < val[next[c]]
    BY ListAssumption DEF ListInv, Ordered, Linked, Typed, AllCells
  <1>4. Freeing \subseteq used /\ dummy \notin used /\ sentinel \notin used
    BY ListAssumption DEF Freeing, ListInv, Removal, Typed
  <1>5. used = (Linked \ {dummy, sentinel}) \cup Freeing
    BY <1>4 DEF Linked
  <1> QED
    BY <1>1, <1>2, <1>3, <1>5 DEF ListIntact

(* ListIntact, for every number of threads, values, cells and calls        *)
(* (toggle of list.c, clist.c and slist.c): the list is sorted and every   *)
(* cell is in the list, about to be freed, or free.                        *)
THEOREM ListStaysIntact == Spec => []ListIntact
  BY ListInvariance, IntactFromInv, PTL

LEMMA OwnFromInv == ListInv => UsesOwnCells
  <1> SUFFICES ASSUME ListInv, NEW t \in Threads
               PROVE  /\ At(t, "test") /\ locking = "list" => mutex = t
                      /\ At(t, "test") /\ locking = "cells" =>
                           holder[prev[t]] = t /\ holder[this[t]] = t /\ next[prev[t]] = this[t]
                      /\ pc[t] \in {"lock", "test"} => this[t] \in used \cup {dummy, sentinel}
    BY DEF UsesOwnCells
  <1>1. Owns(t) /\ Placed(t)
    BY DEF ListInv
  <1>2. ASSUME pc[t] \in {"lock", "test"}
        PROVE  this[t] \in used \cup {dummy, sentinel}
    BY <1>1, <1>2, WayFacts DEF Placed, Linked
  <1>3. ASSUME At(t, "test"), locking = "cells"
        PROVE  holder[prev[t]] = t /\ holder[this[t]] = t /\ next[prev[t]] = this[t]
    BY <1>1, <1>3 DEF At, Owns, Owned, Placed, Between
  <1> QED
    BY <1>1, <1>2, <1>3 DEF At, Owns

(* UsesOwnCells, for every number of threads, values, cells and calls: a   *)
(* thread that looks at prev and this has locked what it relies on, and    *)
(* nobody waits for the lock of a freed cell (toggle of list.c, clist.c    *)
(* and slist.c).                                                           *)
THEOREM OwnCellsOnly == Spec => []UsesOwnCells
  BY ListInvariance, OwnFromInv, PTL
-----------------------------------------------------------------------------
(* What the refinement shows of a state.                                   *)
Elements == {val[c] : c \in Linked \ {dummy, sentinel}}

Pending == [t \in Threads |->
              IF pc[t] \in {"mutex", "first", "lock", "test"} THEN r[t] ELSE Null]

LEMMA ShownByLinks == ListInv => InList = Elements
  BY WalkVisits DEF InList, Elements

(* Unlinking the cell takes its value out of the set.                      *)
LEMMA RemoveToggles ==
  ASSUME ListInv, NEW t \in Threads, Remove(t)
  PROVE  r[t] \in Elements /\ Elements' = Elements \ {r[t]}
  <1>1. /\ pc[t] = "test" /\ this[t] \in used \ Freeing /\ Linked' = Linked \ {this[t]}
        /\ val' = val /\ val[this[t]] = r[t]
    BY RemoveFacts DEF Remove
  <1>2. this[t] \in Linked \ {dummy, sentinel}
    BY <1>1, ListAssumption DEF Linked, ListInv, Typed
  <1>3. \A c \in Linked : val[c] = r[t] => c = this[t]
    BY <1>1, <1>2 DEF ListInv, Ordered
  <1> QED
    BY <1>1, <1>2, <1>3 DEF Elements

(* Linking a new cell in puts its value into the set, which was not there. *)
LEMMA InsertToggles ==
  ASSUME ListInv, NEW t \in Threads, Insert(t)
  PROVE  r[t] \notin Elements /\ Elements' = Elements \cup {r[t]}
  <1>1. pc[t] = "test" /\ Between(t) /\ r[t] \in Values /\ val[this[t]] > r[t]
    BY InsertFacts
  <1>2. PICK new \in Cells \ used :
          /\ val' = [val EXCEPT ![new] = r[t]]
          /\ new \notin Linked /\ Linked' = Linked \cup {new}
    BY InsertFacts
  <1>3. Linked \subseteq AllCells /\ new \in AllCells \ {dummy, sentinel} /\ val \in [AllCells -> Int]
    BY ListAssumption DEF ListInv, Typed, Linked, AllCells
  <1>4. val'[new] = r[t] /\ \A c \in Linked : val'[c] = val[c]
    BY <1>2, <1>3
  <1>5. /\ prev[t] \in Linked \ {sentinel} /\ next[prev[t]] = this[t] /\ val[prev[t]] < r[t]
        /\ \A d \in Linked : val[d] <= val[prev[t]] \/ val[this[t]] <= val[d]
    BY <1>1, WayFacts DEF Between, ListInv, Ordered
  <1>6. \A d \in Linked : val[d] # r[t]
    <2> SUFFICES ASSUME NEW d \in Linked, val[d] = r[t] PROVE FALSE
      OBVIOUS
    <2>1. val[d] \in Int /\ val[prev[t]] \in Int /\ val[this[t]] \in Int
      BY <1>1, <1>3, <1>5, WayFacts
    <2> QED
      BY <1>1, <1>5, <2>1
  <1> QED
    BY <1>2, <1>3, <1>4, <1>6 DEF Elements

(* Every step is a call, a toggle or nothing to the abstract program.      *)
LEMMA StepImplements ==
  ASSUME ListInv, [Next]_vars
  PROVE  [\E t \in Threads :
            \/ /\ Pending[t] # Null
               /\ Pending' = [Pending EXCEPT ![t] = Null]
               /\ Elements' = (Elements \ {Pending[t]}) \cup ({Pending[t]} \ Elements)
            \/ \E v \in Values :
                 /\ Pending[t] = Null
                 /\ Pending' = [Pending EXCEPT ![t] = v]
                 /\ UNCHANGED Elements]_<<Pending, Elements>>
  <1>1. ASSUME UNCHANGED vars
        PROVE  UNCHANGED <<Pending, Elements>>
    BY <1>1 DEF vars, cell, locks, local, Pending, Elements, Linked, Freeing, At
  <1> SUFFICES ASSUME NEW t \in Threads, Step(t)
               PROVE  \/ UNCHANGED <<Pending, Elements>>
                      \/ /\ Pending[t] # Null
                         /\ Pending' = [Pending EXCEPT ![t] = Null]
                         /\ Elements' = (Elements \ {Pending[t]}) \cup ({Pending[t]} \ Elements)
                      \/ \E v \in Values :
                           /\ Pending[t] = Null
                           /\ Pending' = [Pending EXCEPT ![t] = v]
                           /\ UNCHANGED Elements
    BY <1>1 DEF Next
  <1> DEFINE Way == {"mutex", "first", "lock", "test"}
  <1>2. \A u \in Threads \ {t} : pc'[u] = pc[u] /\ r'[u] = r[u]
    BY OthersSame DEF Same
  <1>3. pc[t] \in Way => r[t] # Null
    BY ListAssumption DEF ListInv, Typed, At
  <1>4. ASSUME pc'[t] \notin Way
        PROVE  Pending' = [Pending EXCEPT ![t] = Null]
    BY <1>2, <1>4 DEF Pending
  <1>5. ASSUME pc'[t] \in Way <=> pc[t] \in Way, pc[t] \in Way => r'[t] = r[t]
        PROVE  Pending' = Pending
    BY <1>2, <1>5 DEF Pending
  <1>6. CASE Remove(t)
    <2>1. pc[t] = "test" /\ pc'[t] = "leave"
      BY <1>6, RemoveFacts
    <2>2. r[t] \in Elements /\ Elements' = Elements \ {r[t]}
      BY <1>6, RemoveToggles
    <2>3. Pending[t] = r[t]
      BY <2>1 DEF Pending
    <2> QED
      BY <1>3, <1>4, <2>1, <2>2, <2>3
  <1>7. CASE Insert(t)
    <2>1. pc[t] = "test" /\ pc'[t] = "leave"
      BY <1>7, InsertFacts
    <2>2. r[t] \notin Elements /\ Elements' = Elements \cup {r[t]}
      BY <1>7, InsertToggles
    <2>3. Pending[t] = r[t]
      BY <2>1 DEF Pending
    <2> QED
      BY <1>3, <1>4, <2>1, <2>2, <2>3
  <1>8. CASE Call(t)
    <2>1. /\ pc[t] = "call" /\ pc'[t] \in Way /\ removed'[t] = Null
          /\ UNCHANGED <<val, used>>
      BY <1>8 DEF Call, ListInv, Typed, At, Goto, cell
    <2>2. PICK v \in Values : r' = [r EXCEPT ![t] = v]
      BY <1>8 DEF Call
    <2>3. r'[t] = v
      BY <2>2 DEF ListInv, Typed
    <2>4. Pending[t] = Null /\ Pending' = [Pending EXCEPT ![t] = v]
      BY <1>2, <2>1, <2>3 DEF Pending
    <2>5. Freeing' = Freeing
      BY <1>8, <2>1, OthersSame DEF Freeing, At, Same
    <2>6. Elements' = Elements
      BY <2>1, <2>5 DEF Elements, Linked
    <2> QED
      BY <2>4, <2>6
  <1>9. CASE LockList(t) \/ LockFirst(t) \/ LockThis(t) \/ Advance(t)
    <2>1. /\ pc[t] \in Way /\ pc'[t] \in Way /\ r'[t] = r[t] /\ removed'[t] = removed[t]
          /\ UNCHANGED <<val, used>>
      BY <1>9 DEF LockList, LockFirst, LockThis, Advance, ListInv, Typed, At, Goto, cell, local
    <2>2. Freeing' = Freeing
      BY <2>1, <1>9, OthersSame DEF Freeing, At, Same
    <2> QED
      BY <1>5, <2>1, <2>2 DEF Elements, Linked
  <1>10. CASE UnlockList(t) \/ UnlockPrev(t) \/ UnlockThis(t)
    <2>1. /\ pc[t] \notin Way \cup {"call"} /\ pc'[t] \notin Way \cup {"call"}
          /\ removed'[t] = removed[t] /\ UNCHANGED <<val, used>>
      BY <1>10 DEF UnlockList, UnlockPrev, UnlockThis, ListInv, Typed, At, Goto, cell, local
    <2>2. Freeing' = Freeing
      BY <2>1, <1>10, OthersSame DEF Freeing, At, Same
    <2> QED
      BY <1>5, <2>1, <2>2 DEF Elements, Linked
  <1>11. CASE Free(t)
    <2>1. pc[t] = "free" /\ pc'[t] = "call" /\ UNCHANGED val
      BY <1>11 DEF Free, ListInv, Typed, At, Goto
    <2>2. Linked' = Linked
      BY <1>11, FreeLinks
    <2> QED
      BY <1>5, <2>1, <2>2 DEF Elements
  <1> QED
    BY <1>6, <1>7, <1>8, <1>9, <1>10, <1>11 DEF Step

(* ImplementsAtomicToggle, for every number of threads, values, cells and  *)
(* calls (toggle of list.c, clist.c and slist.c): toggle takes effect at   *)
(* one moment between its call and its return.                             *)
THEOREM ToggleIsAtomic == Spec => ImplementsAtomicToggle
  <1>1. Init => Atomic!Init
    <2> SUFFICES ASSUME Init PROVE Atomic!Init
      OBVIOUS
    <2>1. InList = Elements
      BY ListInitially, ShownByLinks
    <2>2. Elements = {}
      BY DEF Init, Elements, Linked, Freeing, At
    <2>3. Pending = [t \in Threads |-> Null]
      BY DEF Init, Pending
    <2> QED
      BY <2>1, <2>2, <2>3 DEF Atomic!Init, Pending
  <1>2. (ListInv => InList = Elements)'
    BY ShownByLinks, PTL
  <1>3. ListInv /\ ListInv' /\ [Next]_vars => [Atomic!Next]_<<Pending, InList>>
    <2> SUFFICES ASSUME ListInv, ListInv', [Next]_vars
                 PROVE  [Atomic!Next]_<<Pending, InList>>
      OBVIOUS
    <2>1. InList = Elements /\ InList' = Elements'
      BY <1>2, ShownByLinks
    <2> QED
      BY <2>1, StepImplements DEF Atomic!Next, Atomic!Toggle, Atomic!Call, Pending
  <1> QED
    BY <1>1, <1>3, ListInvariance, PTL DEF Spec, ImplementsAtomicToggle, Atomic!Spec, Pending
=============================================================================
