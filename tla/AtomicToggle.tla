----------------------------- MODULE AtomicToggle -----------------------------
(***************************************************************************)
(* What toggle of the list programs promises: between its call and its     *)
(* return there is one moment at which the value enters the set, if it was *)
(* not in it, or leaves it.                                                *)
(***************************************************************************)
CONSTANTS Threads, Values, Null

VARIABLES set,      \* the values in the list
          pending   \* the value each thread has still to toggle

Init == set = {} /\ pending = [t \in Threads |-> Null]

Call(t, r) ==
  /\ pending[t] = Null
  /\ pending' = [pending EXCEPT ![t] = r]
  /\ UNCHANGED set

Toggle(t) ==
  /\ pending[t] # Null
  /\ pending' = [pending EXCEPT ![t] = Null]
  /\ set' = (set \ {pending[t]}) \cup ({pending[t]} \ set)

Next == \E t \in Threads : Toggle(t) \/ \E r \in Values : Call(t, r)

Spec == Init /\ [][Next]_<<pending, set>>
=============================================================================
