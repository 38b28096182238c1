----------------------------- MODULE GreenQueue -----------------------------
(***************************************************************************)
(* The thread queues of seminars/sem3/green.c.  A green_t carries one link *)
(* field, next, and every queue of the library (ready_queue, the susp list *)
(* of a mutex, the waiting list of a condition) is a head pointer into     *)
(* threads chained through that one field.  A heap is therefore a record   *)
(*      head : the head pointer of each queue                              *)
(*      next : the link field of each thread                               *)
(* and nothing in it prevents two queues from sharing a tail, or a chain   *)
(* from being circular: whether that happens is for the users of this      *)
(* module to show.                                                         *)
(***************************************************************************)
EXTENDS Naturals

CONSTANTS Greens,   \* the green_t's of the program
          Null      \* the null pointer

ASSUME NullAssumption == Null \notin Greens

Queues == {"ready", "susp", "waiting"}

Pointer == Greens \cup {Null}

Heap == [head : [Queues -> Pointer], next : [Greens -> Pointer]]

EmptyHeap == [head |-> [q \in Queues |-> Null],
              next |-> [g \in Greens |-> Null]]
-----------------------------------------------------------------------------
(* S holds t (if it is a thread) and the successor of each of its members. *)
ClosedFrom(h, t, S) ==
  /\ t \in S \cup {Null}
  /\ \A g \in S : h.next[g] \in S \cup {Null}

(* What a walk along the links from the pointer t visits: the least set    *)
(* closed under next that t is in.                                         *)
Chain(h, t) == {g \in Greens : \A S \in SUBSET Greens : ClosedFrom(h, t, S) => g \in S}

Members(h, q) == Chain(h, h.head[q])

(* The walk of enqueue over q never meets a null link.                     *)
Endless(h, q) == /\ h.head[q] # Null
                 /\ \A g \in Members(h, q) : h.next[g] # Null

(* The thread at which the walk of enqueue over q stops.                   *)
Last(h, q) == CHOOSE g \in Members(h, q) : h.next[g] = Null
-----------------------------------------------------------------------------
(* A plausible slip: link the thread in front of the queue.                *)
EnqueueInFront(h, q, t) ==
  [head |-> [h.head EXCEPT ![q] = t],
   next |-> IF t = Null THEN h.next ELSE [h.next EXCEPT ![t] = h.head[q]]]

(* enqueue(&q, t), run to its end on a queue that is not Endless: t, which *)
(* may be null, becomes what the last link of q points to; t's own link is *)
(* left as it is.                                                          *)
Enqueue(h, q, t) ==
  IF h.head[q] = Null
  THEN [h EXCEPT !.head[q] = t]
  ELSE [h EXCEPT !.next[Last(h, q)] = t]

(* dequeue(&q) on a queue whose head is not null.                          *)
Dequeue(h, q) ==
  [head |-> [h.head EXCEPT ![q] = h.next[h.head[q]]],
   next |-> [h.next EXCEPT ![h.head[q]] = Null]]
=============================================================================
