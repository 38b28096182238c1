-------------------------------- MODULE Locks --------------------------------
(***************************************************************************)
(* The counting programs of assignments/ass 3 locks: two threads add to a  *)
(* shared counter under a lock, which is                                   *)
(*   peterson.c  Peterson's algorithm on volatile variables;               *)
(*   swap.c      a word set by compare-and-swap (its main is commented     *)
(*               out; it starts two threads like the others);              *)
(*   futex.c     the same word, on which a thread that is refused sleeps.  *)
(*                                                                         *)
(* None of them has a fence.  A store enters the store buffer of its       *)
(* processor and reaches the memory later, in order, while loads of the    *)
(* same thread go on; a locked instruction and a system call wait until    *)
(* the buffer is empty.  On one processor a thread that is switched away   *)
(* leaves no store behind, and that is buffered = FALSE.                   *)
(***************************************************************************)
EXTENDS Integers, Sequences

CONSTANT Inc        \* how many times each thread adds

ASSUME IncAssumption == Inc \in Nat

Ids == {0, 1}
Other(id) == 1 - id

Words == {"count", "turn", "mutex", "request0", "request1"}

Request(id) == IF id = 0 THEN "request0" ELSE "request1"

VARIABLES program,   \* which of the programs runs
          buffered,  \* whether each thread has a processor with a store buffer
          mem,       \* the shared words
          buffer,    \* stores of each thread that have not reached mem
          pc,        \* the next statement of each thread
          reg,       \* the value of count a thread has loaded
          left,      \* additions each thread has still to make
          overtaken  \* history: entries of the other since this one asked (Peterson)

machine == <<mem, buffer>>
vars == <<program, buffered, mem, buffer, pc, reg, left, overtaken>>

Init ==
  /\ program \in {"peterson", "swap", "futex"}
  /\ buffered \in BOOLEAN
  /\ mem = [w \in Words |-> 0]
  /\ buffer = [id \in Ids |-> <<>>]
  /\ pc = [id \in Ids |-> "lock"]
  /\ reg = [id \in Ids |-> 0]
  /\ left = [id \in Ids |-> Inc]
  /\ overtaken = [id \in Ids |-> 0]
-----------------------------------------------------------------------------
(* The processor.                                                          *)

Drained(id) == buffer[id] = <<>>

Store(id, w, v) ==
  IF buffered
  THEN buffer' = [buffer EXCEPT ![id] = Append(@, [word |-> w, value |-> v])] /\ UNCHANGED mem
  ELSE mem' = [mem EXCEPT ![w] = v] /\ UNCHANGED buffer

(* What a load of w finds: the last store of the thread itself if one is   *)
(* still in its buffer.                                                    *)
Loaded(id, w) ==
  LET own == {i \in DOMAIN buffer[id] : buffer[id][i].word = w}
  IN  IF own = {} THEN mem[w]
      ELSE buffer[id][CHOOSE i \in own : \A j \in own : j <= i].value

(* The oldest store of the buffer reaches the memory.                      *)
Flush(id) ==
  /\ ~Drained(id)
  /\ mem' = [mem EXCEPT ![Head(buffer[id]).word] = Head(buffer[id]).value]
  /\ buffer' = [buffer EXCEPT ![id] = Tail(@)]
  /\ UNCHANGED <<program, buffered, pc, reg, left, overtaken>>
-----------------------------------------------------------------------------
At(id, s) == pc[id] = s
Goto(id, s) == pc' = [pc EXCEPT ![id] = s]

Waits(id) == pc[id] \in {"askRequest", "askTurn"}

(* id gets the lock.                                                       *)
Enter(id) ==
  /\ Goto(id, "load")
  /\ overtaken' = [overtaken EXCEPT ![Other(id)] = IF Waits(Other(id)) THEN @ + 1 ELSE 0]

(* lock of peterson.c: request[id] = 1                                     *)
SetRequest(id) ==
  /\ At(id, "lock") /\ left[id] > 0 /\ program = "peterson"
  /\ Store(id, Request(id), 1)
  /\ Goto(id, "turn")
  /\ UNCHANGED <<program, buffered, reg, left, overtaken>>

(* A plausible slip: each gives the turn to itself.                        *)
KeepTurn(id) ==
  /\ At(id, "turn")
  /\ Store(id, "turn", id)
  /\ Goto(id, "askRequest")
  /\ overtaken' = [overtaken EXCEPT ![id] = 0]
  /\ UNCHANGED <<program, buffered, reg, left>>

(* lock of peterson.c: turn = other                                        *)
GiveTurn(id) ==
  /\ At(id, "turn")
  /\ Store(id, "turn", Other(id))
  /\ Goto(id, "askRequest")
  /\ overtaken' = [overtaken EXCEPT ![id] = 0]
  /\ UNCHANGED <<program, buffered, reg, left>>

(* lock of peterson.c: while (request[other] == 1 && ...                   *)
AskRequest(id) ==
  /\ At(id, "askRequest")
  /\ IF Loaded(id, Request(Other(id))) = 1
     THEN Goto(id, "askTurn") /\ UNCHANGED overtaken
     ELSE Enter(id)
  /\ UNCHANGED <<program, buffered, machine, reg, left>>

(* lock of peterson.c: ... turn == other)                                  *)
AskTurn(id) ==
  /\ At(id, "askTurn")
  /\ IF Loaded(id, "turn") = Other(id)
     THEN Goto(id, "askRequest") /\ UNCHANGED overtaken
     ELSE Enter(id)
  /\ UNCHANGED <<program, buffered, machine, reg, left>>

(* A plausible slip: the result of the swap is not looked at.              *)
TryBlindly(id) ==
  /\ At(id, "lock") /\ left[id] > 0 /\ program # "peterson" /\ Drained(id)
  /\ mem' = [mem EXCEPT !["mutex"] = 1] /\ Enter(id)
  /\ UNCHANGED <<program, buffered, buffer, reg, left>>

(* lock of swap.c and futex.c: try until it returns 0.  A refused thread   *)
(* of swap.c yields the processor and tries again.                         *)
Try(id) ==
  /\ At(id, "lock") /\ left[id] > 0 /\ program # "peterson" /\ Drained(id)
  /\ IF mem["mutex"] = 0
     THEN mem' = [mem EXCEPT !["mutex"] = 1] /\ Enter(id)
     ELSE /\ Goto(id, IF program = "futex" THEN "wait" ELSE "lock")
          /\ UNCHANGED <<mem, overtaken>>
  /\ UNCHANGED <<program, buffered, buffer, reg, left>>

(* FUTEX_WAIT: the kernel compares the word once more and puts the thread  *)
(* to sleep in one step.  It may return at any time, for a signal say: a   *)
(* sleep that is cut short is not told from one that has not begun.        *)
FutexWait(id) ==
  /\ At(id, "wait") /\ Drained(id)
  /\ Goto(id, "lock") \/ (mem["mutex"] = 1 /\ Goto(id, "asleep"))
  /\ UNCHANGED <<program, buffered, machine, reg, left, overtaken>>

(* A plausible slip: the count is kept in a register between rounds.       *)
ReadOnce(id) ==
  /\ At(id, "load")
  /\ reg' = [reg EXCEPT ![id] = IF left[id] = Inc THEN Loaded(id, "count") ELSE @ + 1]
  /\ Goto(id, "store")
  /\ UNCHANGED <<program, buffered, machine, left, overtaken>>

(* increment: count++ is a load ...                                        *)
Read(id) ==
  /\ At(id, "load")
  /\ reg' = [reg EXCEPT ![id] = Loaded(id, "count")]
  /\ Goto(id, "store")
  /\ UNCHANGED <<program, buffered, machine, left, overtaken>>

(* ... and a store.                                                        *)
Write(id) ==
  /\ At(id, "store")
  /\ Store(id, "count", reg[id] + 1)
  /\ Goto(id, "unlock")
  /\ UNCHANGED <<program, buffered, reg, left, overtaken>>

(* unlock: a plain store; futex.c has a wake-up to make.                   *)
Unlock(id) ==
  /\ At(id, "unlock")
  /\ Store(id, IF program = "peterson" THEN Request(id) ELSE "mutex", 0)
  /\ left' = [left EXCEPT ![id] = @ - 1]
  /\ Goto(id, IF program = "futex" THEN "wake" ELSE "lock")
  /\ UNCHANGED <<program, buffered, reg, overtaken>>

(* A plausible slip: the wake-up may overtake the store of unlock.         *)
FutexWakeEarly(id) ==
  /\ At(id, "wake")
  /\ pc' = [i \in Ids |-> IF i = id \/ At(i, "asleep") THEN "lock" ELSE pc[i]]
  /\ UNCHANGED <<program, buffered, machine, reg, left, overtaken>>

(* A plausible slip: unlock of swap.c used for futex.c.                    *)
FutexWakeNobody(id) ==
  /\ At(id, "wake") /\ Drained(id)
  /\ Goto(id, "lock")
  /\ UNCHANGED <<program, buffered, machine, reg, left, overtaken>>

(* FUTEX_WAKE: a sleeper, if there is one, returns and tries again.        *)
FutexWake(id) ==
  /\ At(id, "wake") /\ Drained(id)
  /\ pc' = [i \in Ids |-> IF i = id \/ At(i, "asleep") THEN "lock" ELSE pc[i]]
  /\ UNCHANGED <<program, buffered, machine, reg, left, overtaken>>

(* increment returns; main joins the thread.                               *)
Return(id) ==
  /\ At(id, "lock") /\ left[id] = 0 /\ Drained(id)
  /\ Goto(id, "done")
  /\ UNCHANGED <<program, buffered, machine, reg, left, overtaken>>

Step(id) ==
  \/ SetRequest(id) \/ GiveTurn(id) \/ AskRequest(id) \/ AskTurn(id)
  \/ Try(id) \/ FutexWait(id) \/ FutexWake(id)
  \/ Read(id) \/ Write(id) \/ Unlock(id) \/ Return(id)

(* main has joined both and prints the count.                              *)
Ended == \A id \in Ids : At(id, "done")

Next == (\E id \in Ids : Step(id) \/ Flush(id)) \/ (Ended /\ UNCHANGED vars)

Spec == Init /\ [][Next]_vars

(* Every thread is scheduled and every store reaches the memory.           *)
FairSpec == Spec /\ \A id \in Ids : WF_vars(Step(id)) /\ WF_vars(Flush(id))
-----------------------------------------------------------------------------
(* What Peterson's algorithm needs and volatile does not give: that no     *)
(* store waits while a later load is made.                                 *)
Ordered == program = "peterson" => ~buffered

InSection(id) == pc[id] \in {"load", "store", "unlock"}

(* At most one thread has the lock: compare-and-swap with store buffers,   *)
(* although unlock is a plain store; Peterson's without (lock, unlock).    *)
Exclusion == Ordered => ~(InSection(0) /\ InSection(1))

(* The result that main prints: no addition is lost, although the last     *)
(* holder's store to count may be in its buffer when the next gets the     *)
(* lock (increment).                                                       *)
CountExact == Ended /\ Ordered => mem["count"] = 2 * Inc

(* Who has asked for Peterson's lock sees the other enter once at most     *)
(* (the turn in lock of peterson.c).                                       *)
BoundedOvertaking == program = "peterson" /\ ~buffered => \A id \in Ids : overtaken[id] <= 1

(* Nobody sleeps on a free word, unless the wake-up is on its way (the     *)
(* order of the store and futex_wake in unlock of futex.c).                *)
NoSleepOnFree ==
  \A id \in Ids : At(id, "asleep") /\ mem["mutex"] = 0 => At(Other(id), "wake")

(* Both threads get the lock as often as they need it and end, in all      *)
(* three programs and with store buffers too.                              *)
ProgramEnds == <>Ended
=============================================================================
