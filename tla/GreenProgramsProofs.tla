------------------------- MODULE GreenProgramsProofs --------------------------
(***************************************************************************)
(* The client programs of seminars/sem3 on the green thread library, for   *)
(* any number of threads and rounds and wherever the timer strikes: what   *)
(* they compute under the mutex comes out right.                           *)
(*                                                                         *)
(* The link between the library and its client is Inside: a thread that    *)
(* has passed green_mutex_lock, and is neither suspended in it nor in      *)
(* green_cond_wait, is the one that has the mutex.                         *)
(***************************************************************************)
EXTENDS GreenPrograms, GreenProofs, FiniteSetTheorems

Statements == {"round", "load", "store", "test", "signal", "unlock"}

(* Suspended in, or about to try again, a function that takes the mutex.   *)
Suspended(f) == f.op \in {"lock", "wait"}
Asleep(g)    == Suspended(frame[g])

ClientTyped ==
  /\ program \in Programs
  /\ done \in Nat
  /\ pc \in [Threads -> Statements]
  /\ left \in [Threads -> Nat] /\ \A g \in Threads : left[g] <= Loops[program]
  /\ counter \in Nat /\ reg \in [Threads -> Nat]
  /\ flag \in 1 .. Len(order)

Inside ==
  /\ \A g \in Threads : pc[g] # "round" => left[g] > 0 /\ frame[g].op # "none"
  /\ \A g \in Threads : pc[g] \in {"load", "store"} => program = "locks"
  /\ \A g \in Threads : pc[g] \in {"test", "signal"} => program = "cond"
  /\ \A g \in Threads : Asleep(g) => pc[g] \in {"load", "test"} /\ frame[g].at # "return"
  /\ Alive => \A g \in Threads : pc[g] # "round" /\ ~Asleep(g) => g \in holding

ClientInv == IInv /\ MutualExclusion /\ ClientTyped /\ Inside

(* locks.c: what a thread has loaded is up to date until it is stored.     *)
CountInv ==
  /\ CounterExact
  /\ \A g \in Threads : pc[g] = "store" => reg[g] = counter

(* cond.c: how often g has passed the turn on.                             *)
Passed(g) == (Loops["cond"] - left[g]) + (IF pc[g] \in {"signal", "unlock"} THEN 1 ELSE 0)

(* The threads before flag have passed the turn on once more than the      *)
(* others, and who has not counted its turn off has just passed it on.     *)
TurnInv ==
  program = "cond" =>
    /\ \A i, j \in 1 .. Len(order) : i < j =>
         Passed(order[i]) - Passed(order[j]) = IF i < flag /\ flag <= j THEN 1 ELSE 0
    /\ \A i \in 1 .. Len(order) : pc[order[i]] \in {"signal", "unlock"} =>
         flag = (i % Len(order)) + 1
-----------------------------------------------------------------------------
(* The parameters of the program that runs.                                *)
LEMMA ProgramData ==
  ASSUME program \in Programs
  PROVE  /\ order \in Seq(Threads) /\ Len(order) \in Nat /\ Len(order) > 0
         /\ \A i \in 1 .. Len(order) : order[i] \in Threads
         /\ \A i, j \in 1 .. Len(order) : order[i] = order[j] => i = j
         /\ Loops[program] \in Nat
BY ProgramsAssumption DEF order

LEMMA ClientInit == ProgramsInit => ClientInv
<1> SUFFICES ASSUME ProgramsInit PROVE ClientInv
  OBVIOUS
<1>1. IInv /\ MutualExclusion
  BY InitIInv, MutexInit DEF ProgramsInit
<1>2. /\ Len(order) \in Nat /\ Len(order) > 0 /\ Loops[program] \in Nat
      /\ \A g \in Threads : pc[g] = "round" /\ frame[g].op = "none"
  BY ProgramData DEF ProgramsInit, Init, Threads, NoFrame, Frame
<1>3. ClientTyped
  BY <1>2 DEF ProgramsInit, ClientTyped, Statements
<1>4. Inside
  BY <1>2 DEF Inside, Asleep, Suspended
<1> QED
  BY <1>1, <1>3, <1>4 DEF ClientInv
-----------------------------------------------------------------------------
(* What a statement of the library does to the frames, and to who has the  *)
(* mutex: only the return from a suspension gets it.                       *)
LEMMA LibFrames ==
  ASSUME IInv, LibStep
  PROVE  /\ Alive /\ cur \in Greens
         /\ \A g \in Greens \ {cur} : frame'[g] = frame[g]
         /\ \/ frame' = frame /\ holding' = holding
            \/ /\ holding' = holding /\ frame'[cur].op \notin {"none", "lock", "wait"}
               /\ Asleep(cur) => frame[cur].at = "return"
            \/ holding' = holding \cup {cur} /\ frame'[cur].op = "user"
<1>1. Alive /\ cur \in Greens /\ frame \in [Greens -> Frames] /\ frame[cur] \in Frames
  BY DEF IInv, TypeOK, LibStep, EnqueueTest, EnqueueSet, EnqueueWalk, EnqueueLink, DequeueTake,
         DequeueAdvance, DequeueClear, Dispatch, SwitchContext, JoinRegister, Return,
         ExitFree, ExitMark, SignalOld, SignalUnhook, SignalCount, Retry, Here
<1>2. UserFrame.op = "user" /\ GoneFrame.op = "gone"
  BY DEF UserFrame, GoneFrame, Frame
<1>3. CASE Retry
  <2>1. \/ frame' = [frame EXCEPT ![cur] = frame[cur]] /\ holding' = holding
        \/ frame' = frame /\ holding' = holding
        \/ frame' = [frame EXCEPT ![cur] = UserFrame] /\ holding' = holding \cup {cur}
    BY <1>3 DEF Retry, TakeOrSuspend, SuspendOn, SwitchOut, SetFrame, sync
  <2> QED
    BY <1>1, <1>2, <2>1
<1>4. CASE LibStep /\ ~Retry
  <2> DEFINE Moves == \E f : frame' = [frame EXCEPT ![cur] = f] /\ f.op \in {frame[cur].op, "user", "gone"}
  <2>1. holding' = holding /\ frame[cur].at \notin {"run", "retry"} /\ (frame' = frame \/ Moves)
    <3>1. /\ \A s : Goto(s) => Moves
          /\ \A s, n : GotoWith(s, n) => Moves
          /\ \A s, i : SetFrame([frame[cur] EXCEPT !.at = s, !.item = i]) => Moves
          /\ SetFrame(UserFrame) => Moves
          /\ SetFrame(GoneFrame) => Moves
      <4>1. \A f : SetFrame(f) /\ f.op \in {frame[cur].op, "user", "gone"} => Moves
        BY DEF SetFrame
      <4>2. \A s, i, n : /\ [frame[cur] EXCEPT !.at = s].op = frame[cur].op
                         /\ [frame[cur] EXCEPT !.at = s, !.node = n].op = frame[cur].op
                         /\ [frame[cur] EXCEPT !.at = s, !.item = i].op = frame[cur].op
        BY <1>1 DEF Frames
      <4> HIDE DEF Moves
      <4>3. /\ \A s : Goto(s) => Moves
            /\ \A s, n : GotoWith(s, n) => Moves
        BY <4>1, <4>2 DEF Goto, GotoWith
      <4>4. \A s, i : SetFrame([frame[cur] EXCEPT !.at = s, !.item = i]) => Moves
        BY <4>1, <4>2
      <4>5. /\ SetFrame(UserFrame) => Moves
            /\ SetFrame(GoneFrame) => Moves
        BY <1>2, <4>1
      <4> QED
        BY <4>3, <4>4, <4>5
    <3> HIDE DEF Moves
    <3>2. CASE EnqueueTest \/ EnqueueWalk \/ DequeueTake
      BY <3>1, <3>2 DEF EnqueueTest, EnqueueWalk, DequeueTake, Here, sync
    <3>3. CASE EnqueueSet \/ EnqueueLink
      BY <3>1, <3>3 DEF EnqueueSet, EnqueueLink, AfterEnqueue, Here, sync
    <3>4. CASE SwitchContext \/ Return \/ SignalCount
      BY <3>1, <3>4 DEF SwitchContext, Return, SignalCount, Here, sync
    <3>5. CASE DequeueAdvance \/ DequeueClear \/ SignalUnhook
      BY <3>1, <3>5 DEF DequeueAdvance, DequeueClear, SignalUnhook, Here, Crash, sync
    <3>6. CASE Dispatch \/ ExitFree \/ ExitMark
      BY <3>1, <3>6 DEF Dispatch, ExitFree, ExitMark, Here, sync
    <3>7. CASE JoinRegister \/ SignalOld
      BY <3>1, <3>7 DEF JoinRegister, SignalOld, Here, sync
    <3> QED
      BY <1>4, <3>2, <3>3, <3>4, <3>5, <3>6, <3>7 DEF LibStep
  <2>2. /\ frame[cur].op \notin {"none", "lock"}
        /\ frame[cur].op = "wait" => frame[cur].at = "return"
    BY <1>1, <2>1 DEF Frames, Stands, EnqueueStages, DequeueStages, Stages
  <2>3. CASE frame[cur].op # "wait"
    BY <1>1, <2>1, <2>2, <2>3 DEF Asleep, Suspended
  <2>4. CASE frame[cur].op = "wait"
    <3>1. Return
      BY <1>4, <2>2, <2>4 DEF LibStep, EnqueueTest, EnqueueSet, EnqueueWalk, EnqueueLink, DequeueTake,
         DequeueAdvance, DequeueClear, Dispatch, SwitchContext, JoinRegister,
         ExitFree, ExitMark, SignalOld, SignalUnhook, SignalCount, Here
    <3>2. /\ frame' = [frame EXCEPT ![cur] = UserFrame] /\ frame[cur].at = "return"
          /\ holding' = holding
      BY <3>1 DEF Return, SetFrame, Here, sync
    <3> QED
      BY <1>1, <1>2, <3>2
  <2> QED
    BY <2>3, <2>4
<1> QED
  BY <1>3, <1>4
-----------------------------------------------------------------------------
(* A step of the library, or of main: the threads are at the statements    *)
(* they were at.                                                           *)
LEMMA InsideKept ==
  ASSUME ClientInv, UNCHANGED <<program, pc, left>>, Alive' => Alive,
         \A g \in Threads :
           \/ frame'[g] = frame[g] /\ (g \in holding => g \in holding')
           \/ /\ ~Asleep(g) /\ frame'[g].op \notin {"none", "lock", "wait"}
              /\ g \in holding => g \in holding'
           \/ frame'[g].op = "user" /\ g \in holding'
  PROVE  Inside'
<1>1. \A g \in Threads : Asleep(g)' => Asleep(g) /\ frame'[g] = frame[g]
  BY DEF Asleep, Suspended
<1>2. \A g \in Threads : pc[g] # "round" => frame'[g].op # "none"
  BY DEF ClientInv, Inside
<1>3. Alive' => \A g \in Threads : pc[g] # "round" /\ ~Asleep(g)' => g \in holding'
  BY DEF ClientInv, Inside, Asleep, Suspended
<1> QED
  BY <1>1, <1>2, <1>3 DEF ClientInv, Inside

(* A step of the thread cur to its statement p.                            *)
LEMMA InsideStep ==
  ASSUME ClientInv, Alive, cur \in Threads, NEW p \in Statements, UNCHANGED program,
         pc' = [pc EXCEPT ![cur] = p],
         \A g \in Threads \ {cur} : /\ left'[g] = left[g] /\ frame'[g] = frame[g]
                                    /\ g \in holding => g \in holding',
         p # "round" => left'[cur] > 0 /\ frame'[cur].op # "none",
         p \in {"load", "store"} => program = "locks",
         p \in {"test", "signal"} => program = "cond",
         Suspended(frame'[cur]) => p \in {"load", "test"} /\ frame'[cur].at # "return",
         Alive' => p = "round" \/ Suspended(frame'[cur]) \/ cur \in holding'
  PROVE  Inside'
<1>1. pc'[cur] = p /\ \A g \in Threads \ {cur} : pc'[g] = pc[g] /\ (Asleep(g)' <=> Asleep(g))
  BY DEF ClientInv, ClientTyped, Asleep, Suspended
<1>2. \A g \in Threads \ {cur} :
        /\ pc'[g] # "round" => left'[g] > 0 /\ frame'[g].op # "none"
        /\ pc'[g] \in {"load", "store"} => program = "locks"
        /\ pc'[g] \in {"test", "signal"} => program = "cond"
        /\ Asleep(g)' => pc'[g] \in {"load", "test"} /\ frame'[g].at # "return"
        /\ pc'[g] # "round" /\ ~Asleep(g)' => g \in holding'
  BY <1>1 DEF ClientInv, Inside
<1>3. /\ pc'[cur] # "round" => left'[cur] > 0 /\ frame'[cur].op # "none"
      /\ pc'[cur] \in {"load", "store"} => program = "locks"
      /\ pc'[cur] \in {"test", "signal"} => program = "cond"
      /\ Suspended(frame'[cur]) => pc'[cur] \in {"load", "test"} /\ frame'[cur].at # "return"
      /\ Alive' => (pc'[cur] # "round" /\ ~Suspended(frame'[cur]) => cur \in holding')
  BY <1>1
<1>4. \A g \in Threads : g = cur \/ g \in Threads \ {cur}
  OBVIOUS
<1>5. \A g \in Threads : Asleep(g)' <=> Suspended(frame'[g])
  BY DEF Asleep, Suspended
<1> QED
  BY <1>2, <1>3, <1>4, <1>5 DEF Inside, Asleep, Suspended

(* What a thread knows at a statement of its own.                          *)
LEMMA ThreadAt ==
  ASSUME ClientInv, AtUser, cur # Main
  PROVE  /\ cur \in Threads /\ Alive /\ ~Asleep(cur) /\ frame[cur].op = "user"
         /\ pc[cur] # "round" => cur \in holding /\ left[cur] > 0
<1>1. cur \in Greens
  BY DEF ClientInv, IInv, TypeOK
<1> QED
  BY <1>1 DEF AtUser, Threads, Asleep, Suspended, ClientInv, Inside

(* Whoever is at a statement behind the mutex while cur is there too sleeps*)
(* and so has the statement where it is to get the mutex before it.        *)
LEMMA AloneInside ==
  ASSUME ClientInv, AtUser, cur # Main, pc[cur] # "round",
         NEW g \in Threads, g # cur, pc[g] # "round"
  PROVE  pc[g] \in {"load", "test"}
<1>1. cur \in holding /\ Alive
  BY ThreadAt
<1>2. g \notin holding
  BY <1>1 DEF ClientInv, MutualExclusion
<1> QED
  BY <1>1, <1>2 DEF ClientInv, Inside

(* The call of green_mutex_lock, and of green_cond_wait by the holder.     *)
LEMMA LockFrames ==
  ASSUME IInv, Alive, frame[cur].op = "user", CallLock \/ CallWait(TRUE)
  PROVE  /\ \A g \in Greens \ {cur} : /\ frame'[g] = frame[g]
                                      /\ g \in holding => g \in holding'
         /\ frame'[cur].op # "none"
         /\ Suspended(frame'[cur]) => frame'[cur].at = "retry"
         /\ Alive' => Suspended(frame'[cur]) \/ cur \in holding'
<1>1. cur \in Greens /\ frame \in [Greens -> Frames]
  BY DEF IInv, TypeOK
<1> DEFINE l == Frame("lock", "retry", Null, Null, Null)
           w == Frame("wait", "retry", Null, Null, Null)
<1>2. /\ UserFrame.op = "user"
      /\ l.op = "lock" /\ l.at = "retry" /\ w.op = "wait" /\ w.at = "retry"
  BY DEF UserFrame, Frame
<1> HIDE DEF l, w
<1>3. CASE CallLock
  <2>1. \/ frame' = frame /\ holding' = holding /\ ~Alive'
        \/ frame' = [frame EXCEPT ![cur] = l] /\ holding' = holding
        \/ frame' = [frame EXCEPT ![cur] = UserFrame] /\ holding' = holding \cup {cur}
    BY <1>3 DEF CallLock, TakeOrSuspend, SuspendOn, SwitchOut, SetFrame, sync, Alive, l
  <2> QED
    BY <1>1, <1>2, <2>1 DEF Asleep, Suspended
<1>4. CASE CallWait(TRUE)
  <2>1. \/ frame' = frame /\ holding' = holding /\ ~Alive'
        \/ frame' = frame /\ holding' = holding \ {cur} /\ ~Alive'
        \/ frame' = [frame EXCEPT ![cur] = w] /\ holding' = holding \ {cur}
    BY <1>4 DEF CallWait, Crash, SwitchOut, SetFrame, sync, Alive, w
  <2> QED
    BY <1>1, <1>2, <2>1 DEF Asleep, Suspended
<1> QED
  BY <1>3, <1>4

(* A tick leaves every frame as it is, and who has the mutex.              *)
LEMMA TickFrames ==
  ASSUME IInv, Tick
  PROVE  Alive /\ holding' = holding /\ frame' = frame
<1>1. frame' = frame \/ frame' = [frame EXCEPT ![cur] = frame[cur]]
  BY DEF Tick, SuspendOn, SwitchOut, SetFrame
<1> QED
  BY <1>1 DEF Tick, sync, IInv, TypeOK
-----------------------------------------------------------------------------
(* The library keeps its own invariants whoever calls it.                  *)
LEMMA GreenKeeps ==
  ASSUME ClientInv, Tick \/ LibStep \/ AnyCall \/ UNCHANGED vars
  PROVE  IInv' /\ MutualExclusion'
BY TickStep, LibStepStep, CallStep, IdleStep, MutexStep DEF ClientInv

(* The timer, the library and main.                                        *)
LEMMA LibraryKeeps ==
  ASSUME ClientInv, Struck \/ (LibStep /\ UNCHANGED client) \/ MainStep
  PROVE  ClientInv' /\ UNCHANGED <<program, pc, left, shared>>
<1>1. ClientTyped /\ frame \in [Greens -> Frames] /\ program \in Programs
  BY DEF ClientInv, IInv, TypeOK, ClientTyped
<1>2. CASE Struck
  <2>1. UNCHANGED client /\ Alive /\ holding' = holding /\ frame' = frame
    BY <1>2, TickFrames DEF Struck, ClientInv
  <2>2. Inside'
    BY <2>1, InsideKept DEF client
  <2>3. ClientTyped'
    BY <1>1, <2>1 DEF client, shared, ClientTyped, order
  <2> QED
    BY <1>2, <2>1, <2>2, <2>3, GreenKeeps DEF Struck, ClientInv, client
<1>3. CASE LibStep /\ UNCHANGED client
  <2>1. Inside'
    <3>1. Asleep(cur) /\ cur \in Threads => frame[cur].at # "return"
      BY DEF ClientInv, Inside
    <3> QED
      BY <1>3, <3>1, LibFrames, InsideKept DEF ClientInv, client, Threads, Asleep, Suspended
  <2>2. ClientTyped'
    BY <1>1, <1>3 DEF client, shared, ClientTyped, order
  <2> QED
    BY <1>3, <2>1, <2>2, GreenKeeps DEF ClientInv, client
<1>4. CASE MainStep
  <2> DEFINE n == order[done + 1]
             u == order[done + 1 - Len(order)]
  <2>1. /\ cur = Main /\ Alive /\ frame[cur].op = "user" /\ done' = done + 1
        /\ UNCHANGED <<program, pc, left, shared>>
        /\ \/ done < Len(order) /\ CallCreate(n)
           \/ ~(done < Len(order)) /\ done < 2 * Len(order) /\ CallJoin(u)
           \/ UNCHANGED vars
    BY <1>4 DEF MainStep, AtUser, MainEnd
  <2>2. /\ done \in Nat /\ Len(order) \in Nat
        /\ done < Len(order) => n \in Threads
        /\ ~(done < Len(order)) /\ done < 2 * Len(order) => u \in Threads
    <3>1. /\ done \in Nat /\ Len(order) \in Nat
          /\ \A i \in 1 .. Len(order) : order[i] \in Threads
      BY <1>1, ProgramData DEF ClientTyped
    <3> QED
      BY <3>1
  <2> HIDE DEF n, u
  <2>3. AnyCall \/ UNCHANGED vars
    BY <2>1, <2>2 DEF AnyCall
  <2>4. Inside'
    <3>1. holding' = holding /\ fault' = fault
      BY <2>1 DEF CallCreate, CallJoin, sync, vars
    <3>2. \A g \in Threads : frame'[g] = frame[g] \/ (frame[g].op = "none" /\ frame'[g] = UserFrame)
      BY <1>1, <2>1, <2>2 DEF CallCreate, CallJoin, SetFrame, Threads, vars
    <3>3. UserFrame.op = "user"
      BY DEF UserFrame, Frame
    <3> QED
      BY <2>1, <3>1, <3>2, <3>3, InsideKept DEF Asleep, Suspended, Alive
  <2>5. ClientTyped'
    BY <1>1, <2>1, <2>2 DEF shared, ClientTyped, order
  <2> QED
    BY <2>1, <2>3, <2>4, <2>5, GreenKeeps DEF ClientInv
<1> QED
  BY <1>2, <1>3, <1>4
-----------------------------------------------------------------------------
(* A round that is done is counted off.                                    *)
LEMMA RoundCounted ==
  ASSUME ClientTyped, cur \in Threads, left[cur] > 0, UNCHANGED program,
         left' = [left EXCEPT ![cur] = left[cur] - 1]
  PROVE  /\ left' \in [Threads -> Nat] /\ \A g \in Threads : left'[g] <= Loops[program']
         /\ left'[cur] = left[cur] - 1 /\ \A g \in Threads \ {cur} : left'[g] = left[g]
<1>1. left \in [Threads -> Nat] /\ left[cur] - 1 \in Nat /\ Loops[program] \in Nat
  BY ProgramData DEF ClientTyped
<1>2. \A g \in Threads : left'[g] = IF g = cur THEN left[cur] - 1 ELSE left[g]
  BY <1>1
<1>3. left' \in [Threads -> Nat]
  BY <1>1
<1> QED
  BY <1>1, <1>2, <1>3 DEF ClientTyped

(* What a thread does without the library.                                 *)
LEMMA OwnSteps ==
  ASSUME ClientInv, Compute \/ Read \/ Write \/ Pass
  PROVE  ClientInv'
<1>1. /\ AtUser /\ cur # Main /\ UNCHANGED vars /\ UNCHANGED <<program, done>>
      /\ frame' = frame /\ holding' = holding /\ fault' = fault
  BY DEF Compute, Read, Write, Pass, At, To, vars
<1>2. /\ cur \in Threads /\ Alive /\ ~Asleep(cur) /\ frame[cur].op = "user"
      /\ pc[cur] # "round" => cur \in holding /\ left[cur] > 0
  BY <1>1, ThreadAt
<1>3. ClientTyped
  BY DEF ClientInv
<1>4. ASSUME NEW p \in {"store", "unlock", "signal"}, To(p), UNCHANGED left, pc[cur] # "round",
             p = "store" => program = "locks", p = "signal" => program = "cond"
      PROVE  Inside'
  BY <1>1, <1>2, <1>4, InsideStep DEF To, Statements, Asleep, Suspended
<1>5. CASE Compute
  <2>1. left' = [left EXCEPT ![cur] = left[cur] - 1] /\ left[cur] > 0 /\ To("round")
        /\ UNCHANGED shared
    BY <1>5 DEF Compute, RoundDone
  <2>2. ClientTyped'
    BY <1>1, <1>2, <1>3, <2>1, RoundCounted DEF ClientTyped, shared, To, Statements, order
  <2>3. Inside'
    BY <1>1, <1>2, <1>3, <2>1, InsideStep DEF To, Statements, Asleep, Suspended, ClientTyped
  <2> QED
    BY <1>1, <2>2, <2>3, GreenKeeps DEF ClientInv
<1>6. CASE Read
  <2>1. /\ reg' = [reg EXCEPT ![cur] = counter] /\ To("store") /\ program = "locks"
        /\ UNCHANGED <<left, counter, flag>> /\ pc[cur] # "round"
    BY <1>6 DEF Read, At
  <2>2. ClientTyped'
    BY <1>1, <1>2, <1>3, <2>1 DEF ClientTyped, To, Statements, order
  <2> QED
    BY <1>1, <1>4, <2>1, <2>2, GreenKeeps DEF ClientInv
<1>7. CASE Write
  <2>1. /\ counter' = reg[cur] + 1 /\ To("unlock") /\ program = "locks"
        /\ UNCHANGED <<left, reg, flag>> /\ pc[cur] # "round"
    BY <1>7 DEF Write, At
  <2>2. ClientTyped'
    BY <1>1, <1>2, <1>3, <2>1 DEF ClientTyped, To, Statements, order
  <2> QED
    BY <1>1, <1>4, <2>1, <2>2, GreenKeeps DEF ClientInv
<1>8. CASE Pass
  <2>1. /\ flag' = (flag % Len(order)) + 1 /\ To("signal") /\ program = "cond"
        /\ UNCHANGED <<left, reg, counter>> /\ pc[cur] # "round"
    BY <1>8 DEF Pass, At
  <2>2. flag' \in 1 .. Len(order)
    BY <1>3, <2>1, ProgramData DEF ClientTyped
  <2>3. ClientTyped'
    BY <1>1, <1>2, <1>3, <2>1, <2>2 DEF ClientTyped, To, Statements, order
  <2> QED
    BY <1>1, <1>4, <2>1, <2>3, GreenKeeps DEF ClientInv
<1> QED
  BY <1>5, <1>6, <1>7, <1>8

(* What a thread has the library do for it.                                *)
LEMMA CallingSteps ==
  ASSUME ClientInv, EnterCounter \/ EnterRing \/ Await \/ Signal \/ Leave \/ Finish
  PROVE  ClientInv'
<1>1. /\ AtUser /\ cur # Main /\ UNCHANGED <<program, done, shared>>
  BY DEF EnterCounter, EnterRing, Await, Signal, Leave, Finish, At, To, client
<1>2. /\ cur \in Threads /\ Alive /\ ~Asleep(cur) /\ frame[cur].op = "user"
      /\ pc[cur] # "round" => cur \in holding /\ left[cur] > 0
  BY <1>1, ThreadAt
<1>3. ClientTyped /\ IInv /\ frame \in [Greens -> Frames] /\ cur \in Greens
  BY DEF ClientInv, IInv, TypeOK
<1>4. CASE EnterCounter \/ EnterRing
  <2>1. PICK p \in {"load", "test"} :
          /\ CallLock /\ left[cur] > 0 /\ To(p) /\ UNCHANGED left
          /\ p = "load" => program = "locks"
          /\ p = "test" => program = "cond"
    BY <1>4 DEF EnterCounter, EnterRing, At
  <2>2. ClientTyped'
    BY <1>1, <1>2, <1>3, <2>1 DEF ClientTyped, shared, To, Statements, order
  <2>3. Inside'
    BY <1>2, <1>3, <2>1, LockFrames, InsideStep DEF To, Statements, Threads
  <2> QED
    BY <1>2, <2>1, <2>2, <2>3, GreenKeeps DEF ClientInv, AnyCall
<1>5. CASE Await
  <2>1. CallWait(TRUE) /\ pc[cur] = "test" /\ program = "cond" /\ UNCHANGED client
    BY <1>5 DEF Await, At
  <2>2. ClientTyped'
    BY <1>3, <2>1 DEF ClientTyped, client, shared, order
  <2>3. Inside'
    <3>1. pc' = [pc EXCEPT ![cur] = "test"]
      BY <1>2, <1>3, <2>1 DEF client, ClientTyped
    <3> QED
      BY <1>2, <1>3, <2>1, <3>1, LockFrames, InsideStep DEF Statements, Threads, client
  <2> QED
    BY <1>2, <2>1, <2>2, <2>3, GreenKeeps DEF ClientInv, AnyCall
<1>6. CASE Signal
  <2>1. /\ UNCHANGED vars \/ CallSignal
        /\ To("unlock") /\ UNCHANGED left /\ pc[cur] = "signal"
    BY <1>6 DEF Signal, At
  <2>2. ClientTyped'
    BY <1>1, <1>2, <1>3, <2>1 DEF ClientTyped, shared, To, Statements, order
  <2>3. /\ holding' = holding
        /\ frame' = frame \/ frame' = [frame EXCEPT ![cur] = Frame("signal", "old", Null, Null, Null)]
    BY <2>1 DEF CallSignal, SetFrame, sync, vars
  <2>4. /\ \A g \in Greens \ {cur} : frame'[g] = frame[g]
        /\ frame'[cur].op \in {"user", "signal"}
    <3>1. Frame("signal", "old", Null, Null, Null).op = "signal"
      BY DEF Frame
    <3> QED
      BY <1>2, <1>3, <2>3, <3>1
  <2>5. Inside'
    BY <1>1, <1>2, <2>1, <2>3, <2>4, InsideStep DEF To, Statements, Threads, Suspended
  <2> QED
    BY <1>2, <2>1, <2>2, <2>5, GreenKeeps DEF ClientInv, AnyCall
<1>7. CASE Leave
  <2>1. /\ Unlock /\ left' = [left EXCEPT ![cur] = left[cur] - 1] /\ left[cur] > 0 /\ To("round")
    BY <1>2, <1>7 DEF Leave, RoundDone, At
  <2>2. ClientTyped'
    BY <1>1, <1>2, <1>3, <2>1, RoundCounted DEF ClientTyped, shared, To, Statements, order
  <2>3. frame' = frame /\ \A g \in Greens \ {cur} : g \in holding => g \in holding'
    BY <2>1 DEF Unlock, Crash, sync
  <2>4. Inside'
    BY <1>1, <1>2, <1>3, <2>1, <2>3, InsideStep DEF To, Statements, Threads, Asleep, Suspended, ClientTyped
  <2> QED
    BY <1>2, <2>1, <2>2, <2>4, GreenKeeps DEF ClientInv, AnyCall
<1>8. CASE Finish
  <2>1. CallExit /\ pc[cur] = "round" /\ UNCHANGED client
    BY <1>8 DEF Finish, At
  <2>2. ClientTyped'
    BY <1>3, <2>1 DEF ClientTyped, client, shared, order
  <2>3. holding' = holding /\ \E f : frame' = [frame EXCEPT ![cur] = f] /\ f.op = "exit"
    <3>1. \A i, t : /\ Frame("exit", "test", i, Null, t).op = "exit"
                    /\ Frame("exit", "free", i, Null, t).op = "exit"
      BY DEF Frame
    <3>2. \A f : SetFrame(f) => frame' = [frame EXCEPT ![cur] = f]
      BY DEF SetFrame
    <3>3. holding' = holding
      BY <2>1 DEF CallExit, sync
    <3>4. \/ SetFrame(Frame("exit", "test", join[cur], Null, Null))
          \/ SetFrame(Frame("exit", "free", Null, Null, Null))
      BY <2>1 DEF CallExit
    <3> QED
      BY <3>1, <3>2, <3>3, <3>4
  <2>4. Inside'
    <3>1. pc' = [pc EXCEPT ![cur] = "round"]
      BY <1>2, <1>3, <2>1 DEF client, ClientTyped
    <3>2. /\ \A g \in Greens \ {cur} : frame'[g] = frame[g]
          /\ frame'[cur].op = "exit"
      BY <1>3, <2>3
    <3> QED
      BY <1>2, <1>3, <2>1, <2>3, <3>1, <3>2, InsideStep DEF Statements, Threads, client, Suspended
  <2> QED
    BY <1>2, <2>1, <2>2, <2>4, GreenKeeps DEF ClientInv, AnyCall
<1> QED
  BY <1>4, <1>5, <1>6, <1>7, <1>8

LEMMA ClientNext == ClientInv /\ [ProgramsNext]_all => ClientInv'
<1>1. ClientInv /\ UNCHANGED all => ClientInv'
  <2> SUFFICES ASSUME ClientInv, UNCHANGED all PROVE ClientInv'
    OBVIOUS
  <2>1. ClientTyped'
    BY DEF ClientInv, all, client, shared, ClientTyped, order
  <2>2. Inside'
    BY InsideKept DEF all, vars, client, Alive
  <2> QED
    BY <2>1, <2>2, GreenKeeps DEF all, ClientInv
<1> QED
  BY <1>1, LibraryKeeps, OwnSteps, CallingSteps DEF ProgramsNext, Work, ThreadStep
-----------------------------------------------------------------------------
(* The counter of locks.c.                                                 *)

LEMMA CountSame ==
  ASSUME CountInv, UNCHANGED <<program, counter>>,
         \A g \in Threads : Added(g)' = Added(g),
         \A g \in Threads : pc'[g] = "store" => pc[g] = "store" /\ reg'[g] = reg[g]
  PROVE  CountInv'
<1>1. Additions' = Additions
  BY DEF Additions
<1> QED
  BY <1>1 DEF CountInv, CounterExact

(* One more addition of g.                                                 *)
LEMMA OneMore ==
  ASSUME ClientTyped, program = "locks", NEW g \in Threads,
         Added(g)' = Added(g) + 1, Added(g) + 1 \in 1 .. Loops["locks"],
         \A h \in Threads \ {g} : Added(h)' = Added(h),
         \A h \in Threads : Added(h) \in Int
  PROVE  Cardinality(Additions)' = Cardinality(Additions) + 1 /\ Cardinality(Additions) \in Nat
<1> DEFINE a == <<g, Added(g) + 1>>
           L == Loops["locks"]
<1>1. L \in Nat
  BY ProgramData DEF ClientTyped
<1>2. IsFiniteSet(Additions)
  <2>1. IsFiniteSet(Threads)
    <3>1. IsFiniteSet(Greens) /\ Threads \in SUBSET Greens
      BY GreenAssumption DEF Threads
    <3> QED
      BY <3>1, FS_Subset
  <2>3. IsFiniteSet(1 .. L)
    <3>1. 1 \in Int /\ L \in Int
      BY <1>1
    <3> HIDE DEF L
    <3> QED
      BY <3>1, FS_Interval
  <2>2. IsFiniteSet(Threads \X (1 .. L))
    BY <2>1, <2>3, FS_Product
  <2> QED
    BY <2>2, FS_Subset DEF Additions
<1>3. a \notin Additions
  BY DEF Additions
<1>4. Additions' = Additions \cup {a}
  <2>1. ASSUME NEW b \in Threads \X (1 .. L) PROVE b[2] <= Added(b[1])' <=> b[2] <= Added(b[1]) \/ b = a
    <3>1. b[1] \in Threads /\ b[2] \in Int /\ b = <<b[1], b[2]>>
      BY <1>1
    <3>2. CASE b[1] = g
      <4>1. Added(b[1])' = Added(g) + 1 /\ Added(g) \in Int
        BY <3>2
      <4>2. b = a <=> b[2] = Added(g) + 1
        BY <3>1, <3>2
      <4> HIDE DEF a
      <4> QED
        BY <3>1, <3>2, <4>1, <4>2
    <3>3. CASE b[1] # g
      <4>1. Added(b[1])' = Added(b[1])
        BY <3>1, <3>3
      <4> QED
        BY <3>3, <4>1
    <3> QED
      BY <3>2, <3>3
  <2>2. a \in Threads \X (1 .. L)
    OBVIOUS
  <2> HIDE DEF a
  <2> QED
    BY <2>1, <2>2 DEF Additions
<1> QED
  BY <1>2, <1>3, <1>4, FS_AddElement, FS_CardinalityType

(* What a thread's statement and its rounds say of its additions.          *)
LEMMA AddedType ==
  ASSUME ClientTyped, program = "locks", NEW g \in Threads
  PROVE  Added(g) \in Int /\ left[g] \in Nat /\ Loops["locks"] \in Nat /\ left[g] <= Loops["locks"]
BY ProgramData DEF ClientTyped, Added

LEMMA CountInit == ProgramsInit => CountInv
<1> SUFFICES ASSUME ProgramsInit PROVE CountInv
  OBVIOUS
<1>1. ClientTyped /\ \A g \in Threads : pc[g] = "round"
  BY ClientInit DEF ClientInv, ProgramsInit
<1>2. program = "locks" => Additions = {}
  <2> SUFFICES ASSUME program = "locks" PROVE Additions = {}
    OBVIOUS
  <2>1. \A g \in Threads : Added(g) = 0
    BY <1>1, AddedType DEF ProgramsInit, Added
  <2> QED
    BY <2>1, AddedType, <1>1 DEF Additions
<1> QED
  BY <1>1, <1>2, FS_EmptySet DEF CountInv, CounterExact, ProgramsInit

LEMMA CountNext == ClientInv /\ CountInv /\ [ProgramsNext]_all => CountInv'
<1> SUFFICES ASSUME ClientInv, CountInv, [ProgramsNext]_all PROVE CountInv'
  OBVIOUS
<1>1. ClientTyped
  BY DEF ClientInv
<1>2. CASE UNCHANGED <<program, pc, left, shared>>
  BY <1>2, CountSame DEF shared, Added
<1>3. CASE ThreadStep
  <2>1. AtUser /\ cur # Main
    BY <1>3 DEF ThreadStep, Compute, EnterCounter, Read, Write, EnterRing, Pass, Await, Signal,
                Leave, Finish, At
  <2>2. cur \in Threads
    BY <2>1, ThreadAt
  <2>3. CASE program # "locks"
    <3>1. program' = program /\ \A g \in Threads : pc[g] # "store" /\ pc'[g] # "store"
      <4>1. program' = program /\ (pc' = pc \/ \E p : p # "store" /\ pc' = [pc EXCEPT ![cur] = p])
        BY <1>3, <2>3 DEF ThreadStep, Compute, EnterCounter, Read, Write, EnterRing, Pass, Await, Signal,
                    Leave, Finish, At, To, client
      <4>2. \A g \in Threads : pc[g] # "store"
        BY <2>3 DEF ClientInv, Inside
      <4> QED
        BY <1>1, <2>2, <4>1, <4>2 DEF ClientTyped
    <3> QED
      BY <2>3, <3>1 DEF CountInv, CounterExact
  <2>4. CASE program = "locks" /\ (EnterCounter \/ Finish)
    <3>1. /\ UNCHANGED <<program, left, counter, reg>>
          /\ pc' = pc \/ (pc' = [pc EXCEPT ![cur] = "load"] /\ pc[cur] = "round")
      BY <2>4 DEF EnterCounter, Finish, At, To, shared, client
    <3>2. \A g \in Threads : /\ pc'[g] = "unlock" <=> pc[g] = "unlock"
                             /\ pc'[g] = "store" => pc[g] = "store"
      BY <1>1, <2>2, <3>1 DEF ClientTyped
    <3> QED
      BY <3>1, <3>2, CountSame DEF Added
  <2>5. CASE program = "locks" /\ Read
    <3>1. /\ UNCHANGED <<program, left, counter>> /\ pc[cur] = "load"
          /\ pc' = [pc EXCEPT ![cur] = "store"] /\ reg' = [reg EXCEPT ![cur] = counter]
      BY <2>5 DEF Read, At, To
    <3>2. \A g \in Threads : /\ pc'[g] = "unlock" <=> pc[g] = "unlock"
                             /\ pc'[g] = "store" => reg'[g] = counter
      BY <1>1, <2>2, <3>1 DEF ClientTyped, CountInv
    <3>3. Additions' = Additions
      BY <3>1, <3>2 DEF Additions, Added
    <3> QED
      BY <3>1, <3>2, <3>3 DEF CountInv, CounterExact
  <2>6. CASE program = "locks" /\ Write
    <3>1. /\ UNCHANGED <<program, left, reg>> /\ pc[cur] = "store"
          /\ pc' = [pc EXCEPT ![cur] = "unlock"] /\ counter' = reg[cur] + 1
      BY <2>6 DEF Write, At, To
    <3>2. /\ pc'[cur] = "unlock" /\ \A g \in Threads \ {cur} : pc'[g] = pc[g]
          /\ \A g \in Threads \ {cur} : pc[g] # "store"
      BY <1>1, <2>1, <2>2, <3>1, AloneInside DEF ClientTyped
    <3>3. left[cur] > 0
      BY <2>1, <3>1, ThreadAt
    <3>4. \A g \in Threads : /\ Added(g) \in Int /\ left[g] \in Nat /\ left[g] <= Loops["locks"]
                             /\ Loops["locks"] \in Nat
      BY <1>1, <2>6, AddedType
    <3>5. Added(cur)' = Added(cur) + 1 /\ Added(cur) + 1 \in 1 .. Loops["locks"]
      <4>1. Added(cur) = Loops["locks"] - left[cur]
        BY <2>2, <3>1, <3>4 DEF Added
      <4>2. Added(cur)' = Loops["locks"] - left[cur] + 1
        BY <2>1, <2>6, <3>1, <3>2 DEF Added, Write, vars
      <4> QED
        BY <2>2, <3>3, <3>4, <4>1, <4>2
    <3>6. \A g \in Threads \ {cur} : Added(g)' = Added(g)
      BY <3>1, <3>2 DEF Added
    <3>7. Cardinality(Additions)' = Cardinality(Additions) + 1
      <4>1. PICK g \in Threads : g = cur
        BY <2>2
      <4>2. cur' = cur
        BY <2>1, <2>6 DEF Write, vars
      <4>3. Added(g)' = Added(g) + 1 /\ Added(g) + 1 \in 1 .. Loops["locks"]
        BY <3>5, <4>1, <4>2 DEF Added
      <4>4. \A h \in Threads \ {g} : Added(h)' = Added(h)
        BY <3>6, <4>1
      <4>5. \A h \in Threads : Added(h) \in Int
        BY <3>4
      <4> QED
        BY <1>1, <2>6, <4>3, <4>4, <4>5, OneMore
    <3>8. reg[cur] = counter /\ counter = Cardinality(Additions)
      BY <2>2, <2>6, <3>1 DEF CountInv, CounterExact
    <3>9. \A g \in Threads : pc'[g] # "store"
      BY <3>2
    <3> QED
      BY <3>1, <3>7, <3>8, <3>9 DEF CountInv, CounterExact
  <2>7. CASE program = "locks" /\ Leave
    <3>1. /\ UNCHANGED <<program, counter, reg>> /\ pc[cur] = "unlock"
          /\ pc' = [pc EXCEPT ![cur] = "round"] /\ left' = [left EXCEPT ![cur] = left[cur] - 1]
      BY <2>7 DEF Leave, At, To, RoundDone, shared
    <3>2. pc'[cur] = "round" /\ \A g \in Threads \ {cur} : pc'[g] = pc[g] /\ left'[g] = left[g]
      BY <1>1, <2>2, <3>1 DEF ClientTyped
    <3>3. left'[cur] = left[cur] - 1
      BY <1>1, <2>2, <3>1 DEF ClientTyped
    <3>4. \A g \in Threads : Added(g)' = Added(g)
      <4> SUFFICES ASSUME NEW g \in Threads PROVE Added(g)' = Added(g)
        OBVIOUS
      <4>1. left[g] \in Int /\ Loops["locks"] \in Int
        BY <1>1, <2>7, AddedType
      <4>2. CASE g = cur
        <5>1. Added(g) = Loops["locks"] - left[g] + 1
          BY <3>1, <4>2 DEF Added
        <5>2. Added(g)' = Loops["locks"] - (left[g] - 1) + 0
          BY <3>2, <3>3, <4>2 DEF Added
        <5> QED
          BY <4>1, <5>1, <5>2
      <4>3. CASE g # cur
        BY <3>2, <4>3 DEF Added
      <4> QED
        BY <4>2, <4>3
    <3>5. \A g \in Threads : pc'[g] = "store" => pc[g] = "store" /\ reg'[g] = reg[g]
      BY <3>1, <3>2
    <3> QED
      BY <3>1, <3>4, <3>5, CountSame
  <2> QED
    BY <1>3, <2>3, <2>4, <2>5, <2>6, <2>7
       DEF ThreadStep, Compute, EnterRing, Pass, Await, Signal, At
<1> QED
  BY <1>2, <1>3, LibraryKeeps DEF ProgramsNext, Work, all, client

(* locks.c loses no addition, for any number of threads and rounds,        *)
(* wherever the timer strikes between the load of the counter and its store*)
(* (add in locks.c, under the mutex of green.c).                           *)
THEOREM CounterIsExact == ProgramsSpec => []CounterExact
<1>1. ProgramsInit => ClientInv /\ CountInv
  BY ClientInit, CountInit
<1>2. ClientInv /\ CountInv /\ [ProgramsNext]_all => (ClientInv /\ CountInv)'
  BY ClientNext, CountNext
<1>3. CountInv => CounterExact
  BY DEF CountInv
<1> QED
  BY <1>1, <1>2, <1>3, PTL DEF ProgramsSpec
-----------------------------------------------------------------------------
(* The ring of cond.c.                                                     *)

Passing(g) == pc[g] \in {"signal", "unlock"}

LEMMA Wraps ==
  ASSUME NEW n \in Nat \ {0}, NEW k \in 1 .. n
  PROVE  k % n = IF k = n THEN 0 ELSE k
OBVIOUS

LEMMA TurnSame ==
  ASSUME TurnInv, UNCHANGED <<program, flag>>, ClientTyped,
         \A g \in Threads : Passed(g)' = Passed(g) /\ (Passing(g)' => Passing(g))
  PROVE  TurnInv'
<1> SUFFICES ASSUME program = "cond" PROVE TurnInv'
  BY DEF TurnInv
<1>1. order' = order /\ \A i \in 1 .. Len(order) : order[i] \in Threads
  BY ProgramData DEF order, ClientTyped
<1>2. \A i \in 1 .. Len(order) :
        Passed(order[i])' = Passed(order[i]) /\ (Passing(order[i])' => Passing(order[i]))
  <2> SUFFICES ASSUME NEW i \in 1 .. Len(order)
               PROVE  Passed(order[i])' = Passed(order[i]) /\ (Passing(order[i])' => Passing(order[i]))
    OBVIOUS
  <2>1. PICK g \in Threads : g = order[i]
    BY <1>1
  <2> QED
    BY <1>1, <2>1 DEF Passed, Passing
<1>3. \A i \in 1 .. Len(order) : pc'[order[i]] \in {"signal", "unlock"} => pc[order[i]] \in {"signal", "unlock"}
  BY <1>1, <1>2 DEF Passing
<1> QED
  BY <1>1, <1>2, <1>3 DEF TurnInv

LEMMA TurnInit == ProgramsInit => TurnInv
<1> SUFFICES ASSUME ProgramsInit, program = "cond" PROVE TurnInv
  BY DEF TurnInv
<1>1. ClientTyped /\ flag = 1 /\ \A g \in Threads : pc[g] = "round" /\ left[g] = Loops["cond"]
  BY ClientInit DEF ClientInv, ProgramsInit
<1>2. Loops["cond"] \in Nat /\ Len(order) \in Nat /\ \A i \in 1 .. Len(order) : order[i] \in Threads
  BY <1>1, ProgramData DEF ClientTyped
<1>3. \A i \in 1 .. Len(order) : Passed(order[i]) = 0 /\ pc[order[i]] = "round"
  BY <1>1, <1>2 DEF Passed
<1>4. \A i \in 1 .. Len(order) : ~(i < 1)
  BY <1>2
<1> QED
  BY <1>1, <1>3, <1>4 DEF TurnInv

(* The turn is passed on: its thread is one ahead of all the others if it  *)
(* is the first, and level with them if it is the last.                    *)
LEMMA TurnPass ==
  ASSUME ClientInv, TurnInv, Pass
  PROVE  TurnInv'
<1> DEFINE n == Len(order)
<1>1. /\ AtUser /\ cur # Main /\ program = "cond" /\ pc[cur] = "test" /\ order[flag] = cur
      /\ flag' = (flag % n) + 1 /\ pc' = [pc EXCEPT ![cur] = "signal"]
      /\ UNCHANGED <<program, left, cur>> /\ order' = order
  BY DEF Pass, At, To, vars, order
<1>2. /\ ClientTyped /\ n \in Nat /\ n > 0 /\ flag \in 1 .. n /\ cur \in Threads
      /\ \A i \in 1 .. n : order[i] \in Threads
      /\ \A i, j \in 1 .. n : order[i] = order[j] => i = j
      /\ Loops["cond"] \in Nat /\ \A g \in Threads : left[g] \in Nat
  BY <1>1, ProgramData, ThreadAt DEF ClientInv, ClientTyped
<1>3. flag' = IF flag = n THEN 1 ELSE flag + 1
  <2>1. n \in Nat \ {0} /\ flag \in 1 .. n /\ flag' = (flag % n) + 1
    BY <1>1, <1>2
  <2> HIDE DEF n
  <2>2. flag % n = IF flag = n THEN 0 ELSE flag
    BY <2>1, Wraps
  <2> QED
    BY <2>1, <2>2
<1>4. /\ pc'[cur] = "signal" /\ \A g \in Threads \ {cur} : pc'[g] = pc[g]
      /\ \A g \in Threads \ {cur} : pc[g] \notin {"signal", "unlock"}
  BY <1>1, <1>2, AloneInside DEF ClientTyped
<1> DEFINE P(i) == (Loops["cond"] - left[order[i]]) + (IF pc[order[i]] \in {"signal", "unlock"} THEN 1 ELSE 0)
           Q(i) == (Loops["cond"] - left[order[i]]) + (IF pc'[order[i]] \in {"signal", "unlock"} THEN 1 ELSE 0)
<1>5. \A i \in 1 .. n : P(i) \in Int /\ Q(i) = IF i = flag THEN P(i) + 1 ELSE P(i)
  <2> SUFFICES ASSUME NEW i \in 1 .. n PROVE P(i) \in Int /\ Q(i) = IF i = flag THEN P(i) + 1 ELSE P(i)
    OBVIOUS
  <2>1. order[i] \in Threads /\ Loops["cond"] - left[order[i]] \in Int
    BY <1>2
  <2>2. CASE i = flag
    BY <1>1, <1>4, <2>1, <2>2
  <2>3. CASE i # flag
    <3>1. order[i] # cur
      BY <1>1, <1>2, <2>3
    <3> QED
      BY <1>4, <2>1, <2>3, <3>1
  <2> QED
    BY <2>2, <2>3
<1>6. \A i \in 1 .. n : Passed(order[i]) = P(i) /\ Passed(order[i])' = Q(i)
  BY <1>1 DEF Passed
<1>7. \A i, j \in 1 .. n : i < j => P(i) - P(j) = IF i < flag /\ flag <= j THEN 1 ELSE 0
  BY <1>1, <1>6 DEF TurnInv
<1> HIDE DEF P, Q
<1>8. \A i, j \in 1 .. n : i < j => Q(i) - Q(j) = IF i < flag' /\ flag' <= j THEN 1 ELSE 0
  <2> SUFFICES ASSUME NEW i \in 1 .. n, NEW j \in 1 .. n, i < j
               PROVE  Q(i) - Q(j) = IF i < flag' /\ flag' <= j THEN 1 ELSE 0
    OBVIOUS
  <2>1. /\ P(i) \in Int /\ Q(i) = IF i = flag THEN P(i) + 1 ELSE P(i)
        /\ P(j) \in Int /\ Q(j) = IF j = flag THEN P(j) + 1 ELSE P(j)
        /\ P(i) - P(j) = IF i < flag /\ flag <= j THEN 1 ELSE 0
    BY <1>5, <1>7
  <2>2. i \in Int /\ j \in Int /\ flag \in Int /\ 1 <= i /\ j <= n /\ flag <= n /\ n \in Int
    BY <1>2
  <2> HIDE DEF n
  <2>3. CASE i = flag
    BY <1>3, <2>1, <2>2, <2>3
  <2>4. CASE j = flag
    BY <1>3, <2>1, <2>2, <2>4
  <2>5. CASE i # flag /\ j # flag
    BY <1>3, <2>1, <2>2, <2>5
  <2> QED
    BY <2>3, <2>4, <2>5
<1>9. \A i \in 1 .. n : pc'[order[i]] \in {"signal", "unlock"} => flag' = (i % n) + 1
  <2> SUFFICES ASSUME NEW i \in 1 .. n, pc'[order[i]] \in {"signal", "unlock"} PROVE flag' = (i % n) + 1
    OBVIOUS
  <2>1. order[i] = cur
    BY <1>2, <1>4
  <2> QED
    BY <1>1, <1>2, <2>1
<1> QED
  BY <1>1, <1>6, <1>8, <1>9 DEF TurnInv

LEMMA TurnNext == ClientInv /\ TurnInv /\ [ProgramsNext]_all => TurnInv'
<1> SUFFICES ASSUME ClientInv, TurnInv, [ProgramsNext]_all PROVE TurnInv'
  OBVIOUS
<1>1. ClientTyped
  BY DEF ClientInv
<1>2. CASE UNCHANGED <<program, pc, left, shared>>
  BY <1>1, <1>2, TurnSame DEF shared, Passed, Passing
<1>3. CASE ThreadStep /\ ~Pass
  <2>1. AtUser /\ cur # Main /\ program' = program
    BY <1>3 DEF ThreadStep, Compute, EnterCounter, Read, Write, EnterRing, Await, Signal,
                Leave, Finish, At, To, client
  <2> SUFFICES ASSUME program = "cond" PROVE TurnInv'
    BY <2>1 DEF TurnInv
  <2>2. cur \in Threads /\ left \in [Threads -> Nat] /\ pc \in [Threads -> Statements]
    BY <1>1, <2>1, ThreadAt DEF ClientTyped
  <2>3. CASE EnterRing \/ Await \/ Signal \/ Finish
    <3>1. /\ UNCHANGED <<left, flag>>
          /\ \/ pc' = pc
             \/ pc' = [pc EXCEPT ![cur] = "test"] /\ pc[cur] = "round"
             \/ pc' = [pc EXCEPT ![cur] = "unlock"] /\ pc[cur] = "signal"
      BY <2>3 DEF EnterRing, Await, Signal, Finish, At, To, shared, client
    <3>2. \A g \in Threads : pc'[g] \in {"signal", "unlock"} <=> pc[g] \in {"signal", "unlock"}
      BY <2>2, <3>1
    <3> QED
      BY <1>1, <2>1, <3>1, <3>2, TurnSame DEF Passed, Passing
  <2>4. CASE Leave
    <3>1. /\ UNCHANGED flag /\ pc[cur] = "unlock"
          /\ pc' = [pc EXCEPT ![cur] = "round"] /\ left' = [left EXCEPT ![cur] = left[cur] - 1]
      BY <2>4 DEF Leave, At, To, RoundDone, shared
    <3>2. /\ pc'[cur] = "round" /\ left'[cur] = left[cur] - 1
          /\ \A g \in Threads \ {cur} : pc'[g] = pc[g] /\ left'[g] = left[g]
      BY <2>2, <3>1
    <3>3. Loops["cond"] \in Int
      BY <1>1, ProgramData DEF ClientTyped
    <3>4. \A g \in Threads : Passed(g)' = Passed(g) /\ (Passing(g)' => Passing(g))
      <4> SUFFICES ASSUME NEW g \in Threads PROVE Passed(g)' = Passed(g) /\ (Passing(g)' => Passing(g))
        OBVIOUS
      <4>1. CASE g = cur
        <5>1. Passed(g) = Loops["cond"] - left[g] + 1
          BY <3>1, <4>1 DEF Passed
        <5>2. Passed(g)' = Loops["cond"] - (left[g] - 1) + 0
          BY <3>2, <4>1 DEF Passed
        <5>3. left[g] \in Int
          BY <2>2
        <5> QED
          BY <3>1, <3>3, <4>1, <5>1, <5>2, <5>3 DEF Passing
      <4>2. CASE g # cur
        BY <3>2, <4>2 DEF Passed, Passing
      <4> QED
        BY <4>1, <4>2
    <3> QED
      BY <1>1, <2>1, <3>1, <3>4, TurnSame
  <2> QED
    BY <1>3, <2>3, <2>4 DEF ThreadStep, Compute, EnterCounter, Read, Write, At
<1> QED
  BY <1>2, <1>3, LibraryKeeps, TurnPass DEF ProgramsNext, Work, ThreadStep, all, client

(* cond.c takes turns in order, for any number of threads and rounds: the  *)
(* thread whose turn it is passes it on before another can test the flag   *)
(* (test in cond.c; the flag is tested again after green_cond_wait).       *)
THEOREM TurnsInOrder == ProgramsSpec => []InTurn
<1>1. ClientInv /\ TurnInv => InTurn
  <2> SUFFICES ASSUME ClientInv, TurnInv, program = "cond",
                      NEW i \in 1 .. Len(order), NEW j \in 1 .. Len(order), i < j
               PROVE  (Loops["cond"] - left[order[i]]) - (Loops["cond"] - left[order[j]]) \in {0, 1}
    BY DEF InTurn
  <2> DEFINE n == Len(order)
             L == Loops["cond"]
  <2>1. /\ n \in Nat /\ flag \in 1 .. n /\ L \in Nat
        /\ order[i] \in Threads /\ order[j] \in Threads
        /\ left[order[i]] \in Nat /\ left[order[j]] \in Nat
    BY ProgramData DEF ClientInv, ClientTyped
  <2>2. Passed(order[i]) - Passed(order[j]) = IF i < flag /\ flag <= j THEN 1 ELSE 0
    BY DEF TurnInv
  <2> DEFINE a == L - left[order[i]]
             b == L - left[order[j]]
             p == pc[order[i]] \in {"signal", "unlock"}
             q == pc[order[j]] \in {"signal", "unlock"}
  <2>3. /\ p => flag = i + 1
        /\ q => flag = IF j = n THEN 1 ELSE j + 1
    <3>1. i % n = i /\ j % n = IF j = n THEN 0 ELSE j
      BY <2>1, Wraps
    <3> QED
      BY <3>1 DEF TurnInv
  <2>4. Passed(order[i]) = a + (IF p THEN 1 ELSE 0) /\ Passed(order[j]) = b + (IF q THEN 1 ELSE 0)
    BY DEF Passed
  <2>5. /\ i \in Int /\ j \in Int /\ 1 <= i /\ j <= n /\ a \in Int /\ b \in Int /\ n \in Int
        /\ flag \in Int
    BY <2>1
  <2>6. (a + (IF p THEN 1 ELSE 0)) - (b + (IF q THEN 1 ELSE 0)) = IF i < flag /\ flag <= j THEN 1 ELSE 0
    BY <2>2, <2>4
  <2> HIDE DEF n, a, b, p, q
  <2>7. a - b \in {0, 1}
    <3>1. CASE p
      BY <2>3, <2>5, <2>6, <3>1
    <3>2. CASE q
      BY <2>3, <2>5, <2>6, <3>2
    <3>3. CASE ~p /\ ~q
      BY <2>5, <2>6, <3>3
    <3> QED
      BY <3>1, <3>2, <3>3
  <2> QED
    BY <2>7 DEF a, b
<1>2. ProgramsInit => ClientInv /\ TurnInv
  BY ClientInit, TurnInit
<1>3. ClientInv /\ TurnInv /\ [ProgramsNext]_all => (ClientInv /\ TurnInv)'
  BY ClientNext, TurnNext
<1> QED
  BY <1>1, <1>2, <1>3, PTL DEF ProgramsSpec

-----------------------------------------------------------------------------
(* vanilla.c and locks.c as clients of the library, by the calls they      *)
(* make.  ProgramsSpec makes these calls itself and does not look at May.  *)
Counting ==
  /\ Quiet = Exposed /\ "cond" \notin Programs
  /\ May = [g \in Greens |-> IF g = Main THEN {"create", "join"} ELSE {"lock", "unlock", "exit"}]

LEMMA CountingCalls == ASSUME Counting PROVE Orderly /\ LockOrJoin
BY DEF Counting, Orderly, LockOrJoin

LEMMA CountingStep ==
  ASSUME Counting, ClientInv, [ProgramsNext]_all
  PROVE  [Next]_vars
<1>1. /\ cur \in Greens /\ program \in Programs /\ done \in Nat /\ Main \in Greens
      /\ "create" \in May[Main] /\ "join" \in May[Main]
      /\ \A g \in Greens : g # Main => {"lock", "unlock", "exit"} \subseteq May[g]
  BY GreenAssumption DEF ClientInv, ClientTyped, IInv, TypeOK, Counting
<1>2. CASE UNCHANGED all \/ Struck \/ (LibStep /\ UNCHANGED client)
  BY <1>2 DEF all, Struck, Next
<1>3. CASE MainStep
  <2>1. AtUser /\ cur = Main /\ done < 2 * Len(order)
    BY <1>3 DEF MainStep, MainEnd
  <2>2. Len(order) \in Nat /\ \A i \in 1 .. Len(order) : order[i] \in Threads
    BY <1>1, ProgramData
  <2>3. CASE done < Len(order)
    <3>1. CallCreate(order[done + 1]) /\ order[done + 1] \in Threads
      BY <1>1, <1>3, <2>2, <2>3 DEF MainStep
    <3> QED BY <1>1, <2>1, <3>1 DEF AtUser, Calling, UserCall, Next
  <2>4. CASE ~(done < Len(order))
    <3> PICK u : u = order[done + 1 - Len(order)]
      OBVIOUS
    <3>1. UNCHANGED vars \/ CallJoin(u)
      BY <1>3, <2>4 DEF MainStep
    <3>2. done + 1 - Len(order) \in 1 .. Len(order)
      BY <1>1, <2>1, <2>2, <2>4
    <3>3. u \in Threads
      BY <2>2, <3>2
    <3> QED BY <1>1, <2>1, <3>1, <3>3 DEF AtUser, Calling, UserCall, Next
  <2> QED BY <2>3, <2>4
<1>4. CASE ThreadStep
  <2>1. \A s : ~At("cond", s)
    BY <1>1 DEF At, Counting
  <2>2. CASE Compute \/ Read \/ Write
    BY <2>2 DEF Compute, Read, Write
  <2>3. CASE EnterCounter
    BY <1>1, <2>3 DEF EnterCounter, At, AtUser, Calling, UserCall, Next
  <2>4. CASE Leave
    BY <1>1, <2>4 DEF Leave, At, AtUser, Calling, UserCall, Next
  <2>5. CASE Finish
    BY <1>1, <2>5 DEF Finish, At, AtUser, Calling, UserCall, Next
  <2> QED
    BY <1>4, <2>1, <2>2, <2>3, <2>4, <2>5 DEF ThreadStep, EnterRing, Pass, Await, Signal
<1>5. CASE Returned /\ UNCHANGED all
  BY <1>5 DEF all
<1> QED BY <1>2, <1>3, <1>4, <1>5 DEF ProgramsNext, Work

(* vanilla.c and locks.c are clients of the library as Green has them: all *)
(* that is proved of it holds in them.                                     *)
LEMMA CountingUsesLibrary == ASSUME Counting PROVE ProgramsSpec => Spec
<1>1. ClientInv /\ [ProgramsNext]_all => [Next]_vars
  BY CountingStep
<1>2. ProgramsInit => Init
  BY DEF ProgramsInit
<1> QED
  BY <1>1, <1>2, ClientInit, ClientNext, PTL DEF ProgramsSpec, Spec

(* The main functions and threads of vanilla.c and locks.c never lose the  *)
(* process, with any number of threads and rounds and wherever in their    *)
(* own code the timer strikes: somebody is always ready.                   *)
THEOREM CountingNeverLost == ASSUME Counting PROVE ProgramsSpec => []Alive
<1>1. Orderly /\ LockOrJoin
  BY CountingCalls
<1>2. Spec => []Alive
  BY <1>1, NeverLost
<1> QED
  BY <1>2, CountingUsesLibrary, PTL

(* In vanilla.c and locks.c the library schedules as Scheduler does.       *)
THEOREM CountingScheduled == ASSUME Counting PROVE ProgramsSpec => ImplementsScheduler
<1>1. Orderly
  BY CountingCalls
<1>2. Spec => ImplementsScheduler
  BY <1>1, SchedulerImplemented
<1> QED
  BY <1>2, CountingUsesLibrary, PTL
=============================================================================
