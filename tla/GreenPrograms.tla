---------------------------- MODULE GreenPrograms ----------------------------
(***************************************************************************)
(* The client programs of seminars/sem3.  Their main functions do the same *)
(* thing: create the threads, join them in the same order, return.  The    *)
(* threads                                                                 *)
(*   vanilla.c  compute;                                                   *)
(*   locks.c    add to one shared counter under the mutex (and so does the *)
(*              green half of bench.c); the addition is a load and a       *)
(*              store, between which the timer may strike;                 *)
(*   cond.c     take turns: flag names the thread whose turn it is, the    *)
(*              others wait on the condition.                              *)
(***************************************************************************)
EXTENDS Green, Sequences

CONSTANTS Programs, \* the programs of this instance
          Order,    \* the threads of each, as main creates and joins them
          Loops     \* the rounds each thread of a program does

ASSUME ProgramsAssumption ==
  /\ Programs \subseteq {"vanilla", "locks", "cond"}
  /\ \A p \in Programs :
       /\ Order[p] \in Seq(Threads) /\ Len(Order[p]) > 0
       /\ \A i, j \in DOMAIN Order[p] : Order[p][i] = Order[p][j] => i = j
       /\ Loops[p] \in Nat

VARIABLES program,  \* the program that was started
          done,     \* how many of its calls main has made
          pc,       \* the next statement of each thread
          left,     \* rounds each thread has still to do
          counter,  \* locks.c: shared_counter
          reg,      \* locks.c: the value a thread has loaded
          flag      \* cond.c: position in order of the thread whose turn it is

shared == <<counter, reg, flag>>
client == <<program, done, pc, left, shared>>
all    == <<vars, client>>

order == Order[program]

ProgramsInit ==
  /\ Init
  /\ program \in Programs
  /\ done = 0
  /\ pc = [g \in Threads |-> "round"]
  /\ left = [g \in Threads |-> Loops[program]]
  /\ counter = 0 /\ reg = [g \in Threads |-> 0]
  /\ flag = 1
-----------------------------------------------------------------------------
AtUser == Alive /\ frame[cur].op = "user"

MainEnd == 2 * Len(order)

(* The calls of main: green_create for each thread, green_join for each.   *)
MainStep ==
  /\ AtUser /\ cur = Main /\ done < MainEnd
  /\ done' = done + 1
  /\ IF done < Len(order)
     THEN CallCreate(order[done + 1])
     ELSE LET u == order[done + 1 - Len(order)]
          IN  IF zombie[u] THEN UNCHANGED vars ELSE CallJoin(u)
  /\ UNCHANGED <<program, pc, left, shared>>

(* Main has returned: exit ends the process.                               *)
Returned == AtUser /\ cur = Main /\ done = MainEnd
-----------------------------------------------------------------------------
(* A thread of p is at statement s of its function.                        *)
At(p, s) == AtUser /\ cur # Main /\ program = p /\ pc[cur] = s
To(s)    == pc' = [pc EXCEPT ![cur] = s] /\ UNCHANGED <<program, done>>

RoundDone == left' = [left EXCEPT ![cur] = @ - 1]

(* vanilla.c: waste time and print.                                        *)
Compute ==
  /\ At("vanilla", "round") /\ left[cur] > 0
  /\ RoundDone /\ To("round")
  /\ UNCHANGED <<vars, shared>>

EnterCounter ==
  /\ At("locks", "round") /\ left[cur] > 0 /\ CallLock
  /\ To("load")
  /\ UNCHANGED <<left, shared>>

Read ==
  /\ At("locks", "load")
  /\ reg' = [reg EXCEPT ![cur] = counter]
  /\ To("store")
  /\ UNCHANGED <<vars, left, counter, flag>>

Write ==
  /\ At("locks", "store")
  /\ counter' = reg[cur] + 1
  /\ To("unlock")
  /\ UNCHANGED <<vars, left, reg, flag>>

EnterRing ==
  /\ At("cond", "round") /\ left[cur] > 0 /\ CallLock
  /\ To("test")
  /\ UNCHANGED <<left, shared>>

(* A plausible slip: the flag is not looked at.                            *)
PassUnasked ==
  /\ At("cond", "test")
  /\ flag' = (flag % Len(order)) + 1
  /\ To("signal")
  /\ UNCHANGED <<vars, left, counter, reg>>

(* flag == id: pass the turn on.                                           *)
Pass ==
  /\ At("cond", "test") /\ order[flag] = cur
  /\ flag' = (flag % Len(order)) + 1
  /\ To("signal")
  /\ UNCHANGED <<vars, left, counter, reg>>

(* flag != id: wait, and test again.                                       *)
Await ==
  /\ At("cond", "test") /\ order[flag] # cur /\ CallWait(TRUE)
  /\ UNCHANGED client

Signal ==
  /\ At("cond", "signal")
  /\ IF numSusp = 0 THEN UNCHANGED vars ELSE CallSignal
  /\ To("unlock")
  /\ UNCHANGED <<left, shared>>

(* green_mutex_unlock at the end of a round.                               *)
Leave ==
  /\ \E p \in Programs : At(p, "unlock")
  /\ Unlock
  /\ RoundDone /\ To("round")
  /\ UNCHANGED shared

(* The function of the thread returns to green_thread.                     *)
Finish ==
  /\ \E p \in Programs : At(p, "round")
  /\ left[cur] = 0 /\ CallExit
  /\ UNCHANGED client

ThreadStep ==
  \/ Compute
  \/ EnterCounter \/ Read \/ Write
  \/ EnterRing \/ Pass \/ Await \/ Signal
  \/ Leave \/ Finish

Struck == Tick /\ UNCHANGED client

Work == (LibStep /\ UNCHANGED client) \/ MainStep \/ ThreadStep

ProgramsNext == Struck \/ Work \/ (Returned /\ UNCHANGED all)

(* The CPU gets on with the work however often the timer strikes; that it  *)
(* does strike is not assumed.                                             *)
ProgramsSpec == ProgramsInit /\ [][ProgramsNext]_all /\ WF_all(Work)
-----------------------------------------------------------------------------
(* What g has added to the counter of locks.c, the addition not yet        *)
(* counted off included, and all additions as pairs of thread and number.  *)
Added(g) == (Loops["locks"] - left[g]) + (IF pc[g] = "unlock" THEN 1 ELSE 0)

Additions == {a \in Threads \X (1 .. Loops["locks"]) : a[2] <= Added(a[1])}

(* locks.c loses no addition: the counter is the number of additions the   *)
(* threads have made.                                                      *)
CounterExact == program = "locks" => counter = Cardinality(Additions)

(* cond.c takes turns in order: no thread is more than one turn ahead of   *)
(* another, and never behind one that comes after it.                      *)
InTurn ==
  program = "cond" =>
    \A i, j \in 1 .. Len(order) : i < j =>
      LET turns(k) == Loops["cond"] - left[order[k]] IN turns(i) - turns(j) \in {0, 1}

(* The programs end: every thread gets the mutex as often as it needs it,  *)
(* no turn is passed to a thread that sleeps through it, and main comes    *)
(* back from every join (locks.c, cond.c, vanilla.c).                      *)
ProgramEnds == <>Returned
=============================================================================
