----------------------------- MODULE GreenProofs -----------------------------
(***************************************************************************)
(* What Green guarantees, proved: for every set of threads, every client   *)
(* and every placement of the timer, that contexts and the mutex are kept  *)
(* right (IInv, MutualExclusion); and for every Orderly client that no     *)
(* thread is lost and no wake-up forgotten (GInv).                         *)
(***************************************************************************)
EXTENDS Green, FiniteSetTheorems, TLAPS

(* enqueue's walk ends at a thread: if the queue is not empty and not      *)
(* endless, Last is one of its members and has no successor.               *)
LEMMA LastIsLast ==
  ASSUME NEW h, NEW q, h.head[q] # Null, ~Endless(h, q)
  PROVE  /\ Last(h, q) \in Members(h, q)
         /\ h.next[Last(h, q)] = Null
         /\ Last(h, q) \in Greens
BY DEF Endless, Last, Members, Chain

(* enqueue and dequeue take heaps to heaps.                                *)
LEMMA EnqueueType ==
  ASSUME NEW h \in Heap, NEW q \in Queues, NEW t \in Pointer
  PROVE  Enqueue(h, q, t) \in Heap
BY DEF Enqueue, Heap

LEMMA DequeueType ==
  ASSUME NEW h \in Heap, NEW q \in Queues, h.head[q] # Null
  PROVE  /\ Dequeue(h, q) \in Heap
         /\ h.head[q] \in Greens
<1>1. h.head[q] \in Greens
  BY DEF Heap, Pointer
<1>2. h.next[h.head[q]] \in Pointer /\ Null \in Pointer
  BY <1>1 DEF Heap, Pointer
<1> QED
  BY <1>1, <1>2 DEF Dequeue, Heap
-----------------------------------------------------------------------------
(* The inductive invariant.  A thread in yield or join switches away from  *)
(* itself, which is why SwitchContext saves the position of a stack in the *)
(* context that is that stack's own.                                       *)
ItemIsSelf ==
  \A g \in Greens :
    frame[g].op \in {"yield", "join"} /\ frame[g].at # "register" => frame[g].item = g

IInv == TypeOK /\ RunningIsCurrent /\ ContextsMatch /\ ItemIsSelf

(* The part of TypeOK that is not about who executes what.                 *)
DataOK ==
  /\ heap \in Heap
  /\ join \in [Greens -> Pointer]
  /\ zombie \in [Greens -> BOOLEAN]
  /\ freed \subseteq Greens
  /\ taken \in BOOLEAN
  /\ numSusp \in Int /\ numSusp <= MaxSusp
  /\ holding \subseteq Greens

LEMMA InitIInv == Init => IInv
<1> SUFFICES ASSUME Init PROVE IInv
  OBVIOUS
<1> USE NullAssumption, GreenAssumption DEF Init
<1>1. UserFrame \in Frames /\ NoFrame \in Frames
  BY DEF UserFrame, NoFrame, Frame, Frames, Stands, EnqueueStages, DequeueStages, Ops, Calls, Stages, Pointer
<1>2. heap \in Heap
  BY DEF EmptyHeap, Heap, Pointer
<1>3. TypeOK
  <2>1. frame \in [Greens -> Frames]
    BY <1>1
  <2>2. /\ join \in [Greens -> Pointer] /\ ctx \in [Greens -> Pointer]
        /\ zombie \in [Greens -> BOOLEAN]
    BY DEF Pointer
  <2>3. cur \in Greens /\ running \in Greens
    OBVIOUS
  <2>4. numSusp \in Int /\ numSusp <= MaxSusp
    OBVIOUS
  <2>5. /\ freed \subseteq Greens /\ holding \subseteq Greens
        /\ taken \in BOOLEAN
        /\ fault \in {"none", "null", "context", "endless"}
    OBVIOUS
  <2> QED
    BY <1>2, <2>1, <2>2, <2>3, <2>4, <2>5 DEF TypeOK
<1>4. RunningIsCurrent /\ ContextsMatch /\ ItemIsSelf
  BY DEF RunningIsCurrent, ContextsMatch, ItemIsSelf, Owner, UserFrame, NoFrame, Frame
<1> QED
  BY <1>3, <1>4 DEF IInv

(* A step that moves the executing stack from a statement that is not the  *)
(* context switch to another that is not, and leaves the CPU alone.        *)
LEMMA FrameStep ==
  ASSUME IInv, Alive, DataOK', NEW f \in Frames, SetFrame(f),
         f.at # "switch", frame[cur].at # "switch",
         f.op \in {"yield", "join"} /\ f.at # "register" => f.item = cur,
         UNCHANGED <<cpu, fault>>
  PROVE  IInv'
<1> USE DEF IInv
<1>1. TypeOK'
  BY DEF TypeOK, DataOK, SetFrame, cpu
<1>2. cur \in Greens /\ frame \in [Greens -> Frames]
  BY DEF TypeOK
<1>3. ItemIsSelf'
  BY <1>2 DEF ItemIsSelf, SetFrame
<1>4. RunningIsCurrent'
  BY <1>2 DEF RunningIsCurrent, Owner, SetFrame, cpu, Alive
<1>5. ContextsMatch'
  BY <1>2 DEF ContextsMatch, Owner, SetFrame, cpu, Alive, TypeOK, Pointer
<1> QED
  BY <1>1, <1>3, <1>4, <1>5

(* A step that only loses the process.                                     *)
LEMMA CrashStep ==
  ASSUME IInv, NEW f \in {"null", "endless"}, Crash(f)
  PROVE  IInv'
BY DEF IInv, Crash, thread, cpu, sync, TypeOK, RunningIsCurrent, ContextsMatch,
       ItemIsSelf, Alive

(* The frame at another statement of the same function.                    *)
LEMMA GotoFrame ==
  ASSUME TypeOK, NEW s \in Stages, Stands(frame[cur].op, s),
         s \in {"walk", "link", "dispatch", "switch"} => frame[cur].node # Null
  PROVE  [frame[cur] EXCEPT !.at = s] \in Frames
BY DEF TypeOK, Frames
-----------------------------------------------------------------------------
(* Execution goes on from a context of n when every up-to-date context     *)
(* holds what belongs there, by the frames as the step leaves them, and    *)
(* running names n.                                                        *)
LEMMA LoadStep ==
  ASSUME TypeOK, Alive, NEW c \in [Greens -> Pointer], NEW n \in Greens,
         Load(c, n), running' = n,
         \A g \in Greens : c[g] # Null =>
           g = IF frame'[c[g]].at = "switch" THEN frame'[c[g]].node ELSE c[g]
  PROVE  /\ ctx' \in [Greens -> Pointer]
         /\ cur' \in Greens
         /\ fault' \in {"none", "null", "context", "endless"}
         /\ RunningIsCurrent'
         /\ ContextsMatch'
<1> USE NullAssumption
<1>1. CASE n \in freed \/ c[n] = Null
  BY <1>1 DEF Load, TypeOK, RunningIsCurrent, ContextsMatch, Alive
<1>2. CASE ~(n \in freed \/ c[n] = Null)
  <2>1. c[n] \in Greens /\ cur' = c[n] /\ fault' = fault
    BY <1>2 DEF Load, Pointer
  <2>2. /\ ctx' \in [Greens -> Pointer]
        /\ \A g \in Greens : ctx'[g] # Null => ctx'[g] = c[g] /\ c[g] # c[n]
    BY <1>2 DEF Load, Pointer
  <2>3. RunningIsCurrent'
    BY <1>2, <2>1 DEF RunningIsCurrent, Owner
  <2>4. ContextsMatch'
    BY <2>1, <2>2 DEF ContextsMatch, Owner
  <2> QED
    BY <2>1, <2>2, <2>3, <2>4 DEF TypeOK
<1> QED
  BY <1>1, <1>2

(* The contexts after the position of cur is saved in that of s match the  *)
(* frames when s is where the new frame f of cur belongs.                  *)
LEMMA SaveStep ==
  ASSUME TypeOK, Alive, ContextsMatch, NEW s \in Greens, NEW f \in Frames, SetFrame(f),
         s = IF f.at = "switch" THEN f.node ELSE cur,
         NEW g \in Greens, [ctx EXCEPT ![s] = cur][g] # Null
  PROVE  g = IF frame'[[ctx EXCEPT ![s] = cur][g]].at = "switch"
             THEN frame'[[ctx EXCEPT ![s] = cur][g]].node
             ELSE [ctx EXCEPT ![s] = cur][g]
<1> USE NullAssumption DEF TypeOK
<1>1. CASE g = s
  BY <1>1 DEF SetFrame
<1>2. CASE g # s
  <2>1. ctx[g] \in Greens /\ ctx[g] # cur /\ g = Owner(ctx[g])
    BY <1>2 DEF ContextsMatch, Pointer
  <2> QED
    BY <1>2, <2>1 DEF Owner, SetFrame
<1> QED
  BY <1>1, <1>2

(* Every way of switching out with the timer blocked.                      *)
LEMMA SwitchOutStep ==
  ASSUME IInv, Alive, NEW h \in Heap, NEW f \in Frames, SwitchOut(h, f),
         f.op \in {"yield", "join"} /\ f.at # "register" => f.item = cur,
         running = IF f.at = "switch" THEN f.node ELSE cur,
         UNCHANGED thread,
         taken' \in BOOLEAN, numSusp' \in Int, numSusp' <= MaxSusp, holding' \subseteq Greens
  PROVE  IInv'
<1> DEFINE n == h.head["ready"]
<1> USE DEF IInv
<1>1. CASE n = Null
  BY <1>1 DEF SwitchOut, thread, cpu, TypeOK, RunningIsCurrent, ContextsMatch,
              ItemIsSelf, Alive
<1>2. CASE n # Null
  <2>1. n \in Greens /\ Dequeue(h, "ready") \in Heap
    BY <1>2, DequeueType DEF Queues
  <2>2. /\ heap' = Dequeue(h, "ready")
        /\ running' = n
        /\ SetFrame(f)
        /\ SwapContext(running, n)
    BY <1>2 DEF SwitchOut
  <2>3. ItemIsSelf' /\ frame' \in [Greens -> Frames]
    BY <2>2 DEF ItemIsSelf, SetFrame, TypeOK
  <2>4. /\ ctx' \in [Greens -> Pointer]
        /\ cur' \in Greens
        /\ fault' \in {"none", "null", "context", "endless"}
        /\ RunningIsCurrent'
        /\ ContextsMatch'
    <3>1. CASE running \in freed
      BY <2>2, <3>1 DEF SwapContext, TypeOK, RunningIsCurrent, ContextsMatch, Alive
    <3>2. CASE running \notin freed
      <4>1. Load([ctx EXCEPT ![running] = cur], n)
        BY <2>2, <3>2 DEF SwapContext
      <4>2. running \in Greens /\ [ctx EXCEPT ![running] = cur] \in [Greens -> Pointer]
        BY DEF TypeOK, Pointer
      <4>3. \A g \in Greens : [ctx EXCEPT ![running] = cur][g] # Null =>
              g = IF frame'[[ctx EXCEPT ![running] = cur][g]].at = "switch"
                  THEN frame'[[ctx EXCEPT ![running] = cur][g]].node
                  ELSE [ctx EXCEPT ![running] = cur][g]
        BY <2>2, <4>2, SaveStep
      <4> QED
        BY <2>1, <2>2, <4>1, <4>2, <4>3, LoadStep
    <3> QED
      BY <3>1, <3>2
  <2> QED
    BY <2>1, <2>2, <2>3, <2>4 DEF TypeOK, thread
<1> QED
  BY <1>1, <1>2
-----------------------------------------------------------------------------
(* Each action keeps the invariant.                                        *)

LEMMA SuspendOnStep ==
  ASSUME IInv, Alive, NEW q \in Queues, NEW f \in Frames, SuspendOn(q, f),
         f.op \in {"yield", "join"} /\ f.at # "register" => f.item = cur,
         running = IF f.at = "switch" THEN f.node ELSE cur,
         UNCHANGED <<thread, sync>>
  PROVE  IInv'
<1>1. CASE Endless(heap, q)
  BY <1>1 DEF SuspendOn, IInv, thread, cpu, sync, TypeOK, RunningIsCurrent,
              ContextsMatch, ItemIsSelf, Alive
<1>2. CASE ~Endless(heap, q)
  <2>1. Enqueue(heap, q, running) \in Heap
    BY EnqueueType DEF IInv, TypeOK, Pointer
  <2> QED
    BY <1>2, <2>1, SwitchOutStep DEF SuspendOn, sync, IInv, TypeOK
<1> QED
  BY <1>1, <1>2

LEMMA TickStep == ASSUME IInv, Tick PROVE IInv'
<1>1. frame[cur] \in Frames /\ Alive /\ running = Owner(cur)
  BY DEF Tick, IInv, TypeOK, RunningIsCurrent
<1>2. frame[cur].op \in {"yield", "join"} /\ frame[cur].at # "register" => frame[cur].item = cur
  BY DEF IInv, TypeOK, ItemIsSelf
<1> QED
  BY <1>1, <1>2, SuspendOnStep DEF Tick, Queues, Owner

(* The frames that the calls begin with, and the one they end with.        *)
LEMMA UserFrameType ==
  UserFrame \in Frames /\ UserFrame.op = "user" /\ UserFrame.at = "run"
BY DEF UserFrame, Frame, Frames, Stands, EnqueueStages, DequeueStages, Ops, Calls,
       Stages, Pointer

LEMMA CallFrameType ==
  ASSUME NEW o \in Calls, NEW s \in Stages, NEW i \in Pointer, NEW t \in Pointer,
         Stands(o, s), s \notin {"walk", "link", "dispatch", "switch"}
  PROVE  /\ Frame(o, s, i, Null, t) \in Frames
         /\ Frame(o, s, i, Null, t).op = o
         /\ Frame(o, s, i, Null, t).at = s
         /\ Frame(o, s, i, Null, t).item = i
BY DEF Frame, Frames, Ops, Pointer

(* A statement of a function that leaves the frame at another one.         *)
LEMMA GotoWithStep ==
  ASSUME IInv, Alive, DataOK', NEW s \in Stages, Stands(frame[cur].op, s), s # "switch",
         NEW n \in Pointer, s \in {"walk", "link", "dispatch"} => n # Null,
         frame[cur].at \notin {"switch", "register"},
         GotoWith(s, n), UNCHANGED <<cpu, fault>>
  PROVE  IInv'
<1> DEFINE f == [frame[cur] EXCEPT !.at = s, !.node = n]
<1>1. frame[cur] \in Frames /\ cur \in Greens
  BY DEF IInv, TypeOK
<1>2. f.at = s /\ f.op = frame[cur].op /\ f.item = frame[cur].item /\ f.node = n
  BY <1>1 DEF Frames
<1>3. f \in Frames
  BY <1>1 DEF Frames
<1>4. f.op \in {"yield", "join"} /\ f.at # "register" => f.item = cur
  BY <1>1, <1>2 DEF IInv, ItemIsSelf
<1>5. SetFrame(f)
  BY DEF GotoWith
<1> HIDE DEF f
<1> QED
  BY <1>2, <1>3, <1>4, <1>5, FrameStep

LEMMA GotoStep ==
  ASSUME IInv, Alive, DataOK', NEW s \in Stages, Stands(frame[cur].op, s), s # "switch",
         s \in {"walk", "link", "dispatch"} => frame[cur].node # Null,
         frame[cur].at \notin {"switch", "register"},
         Goto(s), UNCHANGED <<cpu, fault>>
  PROVE  IInv'
<1>1. frame[cur] \in Frames
  BY DEF IInv, TypeOK
<1>2. [frame[cur] EXCEPT !.at = s] = [frame[cur] EXCEPT !.at = s, !.node = frame[cur].node]
  BY <1>1 DEF Frames
<1>3. GotoWith(s, frame[cur].node) /\ frame[cur].node \in Pointer
  BY <1>1, <1>2 DEF Goto, GotoWith, Frames
<1> QED
  BY <1>3, GotoWithStep

(* A function that returns to its caller.                                  *)
LEMMA ReturnStep ==
  ASSUME IInv, Alive, DataOK', frame[cur].at # "switch", SetFrame(UserFrame),
         UNCHANGED <<cpu, fault>>
  PROVE  IInv'
BY UserFrameType, FrameStep

LEMMA AfterEnqueueStep ==
  ASSUME IInv, Alive, DataOK', frame[cur].at \in EnqueueStages, AfterEnqueue,
         UNCHANGED <<cpu, fault>>
  PROVE  IInv'
<1> USE DEF EnqueueStages, DequeueStages, Stages
<1>1. frame[cur].op \in {"create", "yield", "exit", "signal"}
  BY DEF IInv, TypeOK, Frames, Stands
<1>2. CASE frame[cur].op = "create"
  BY <1>2, ReturnStep DEF AfterEnqueue
<1>3. CASE frame[cur].op = "yield"
  <2>1. Goto("take")
    BY <1>3 DEF AfterEnqueue
  <2> QED
    BY <1>3, <2>1, GotoStep DEF Stands
<1>4. CASE frame[cur].op = "exit"
  <2>1. Goto("free")
    BY <1>4 DEF AfterEnqueue
  <2> QED
    BY <1>4, <2>1, GotoStep DEF Stands
<1>5. CASE frame[cur].op = "signal"
  <2>1. Goto("count")
    BY <1>5 DEF AfterEnqueue
  <2> QED
    BY <1>5, <2>1, GotoStep DEF Stands
<1> QED
  BY <1>1, <1>2, <1>3, <1>4, <1>5

(* DataOK survives when all it is about is unchanged but the heap.         *)
LEMMA HeapStep ==
  ASSUME IInv, heap' \in Heap, UNCHANGED <<thread, sync>>
  PROVE  DataOK'
BY DEF IInv, TypeOK, DataOK, thread, sync

(* What is known of the executing stack at statement s.                    *)
LEMMA AtStage ==
  ASSUME IInv, NEW s, Here(s)
  PROVE  /\ Alive /\ cur \in Greens
         /\ frame[cur] \in Frames /\ frame[cur].at = s
         /\ Stands(frame[cur].op, s)
         /\ s \in {"walk", "link", "dispatch", "switch"} => frame[cur].node \in Greens
BY DEF Here, IInv, TypeOK, Frames, Pointer

LEMMA EnqueueTestStep == ASSUME IInv, EnqueueTest PROVE IInv'
<1> USE DEF EnqueueStages, DequeueStages, Stages
<1>1. Here("test") /\ DataOK' /\ UNCHANGED <<cpu, fault>>
  BY HeapStep DEF EnqueueTest, IInv, TypeOK
<1>2. heap.head["ready"] \in Pointer
  BY DEF IInv, TypeOK, Heap, Queues
<1>3. CASE heap.head["ready"] = Null
  BY <1>1, <1>3, AtStage, GotoStep DEF EnqueueTest, Stands
<1>4. CASE heap.head["ready"] # Null
  BY <1>1, <1>2, <1>4, AtStage, GotoWithStep DEF EnqueueTest, Stands
<1> QED
  BY <1>3, <1>4

LEMMA EnqueueSetStep == ASSUME IInv, EnqueueSet PROVE IInv'
<1> USE DEF EnqueueStages
<1>1. Here("set") /\ AfterEnqueue /\ UNCHANGED <<thread, cpu, sync, fault>>
  BY DEF EnqueueSet
<1>2. heap' \in Heap
  BY <1>1, AtStage DEF EnqueueSet, IInv, TypeOK, Heap, Frames
<1> QED
  BY <1>1, <1>2, HeapStep, AtStage, AfterEnqueueStep

LEMMA EnqueueWalkStep == ASSUME IInv, EnqueueWalk PROVE IInv'
<1> USE DEF EnqueueStages, DequeueStages, Stages
<1>1. Here("walk") /\ DataOK' /\ UNCHANGED <<cpu, fault>>
  BY HeapStep DEF EnqueueWalk, IInv, TypeOK
<1>2. frame[cur].node \in Greens
  BY <1>1, AtStage
<1>3. heap.next[frame[cur].node] \in Pointer
  BY <1>2 DEF IInv, TypeOK, Heap
<1>4. CASE heap.next[frame[cur].node] = Null
  BY <1>1, <1>2, <1>4, AtStage, GotoStep, NullAssumption DEF EnqueueWalk, Stands
<1>5. CASE heap.next[frame[cur].node] # Null
  BY <1>1, <1>3, <1>5, AtStage, GotoWithStep DEF EnqueueWalk, Stands
<1> QED
  BY <1>4, <1>5

LEMMA EnqueueLinkStep == ASSUME IInv, EnqueueLink PROVE IInv'
<1> USE DEF EnqueueStages
<1>1. Here("link") /\ AfterEnqueue /\ UNCHANGED <<thread, cpu, sync, fault>>
  BY DEF EnqueueLink
<1>2. heap' \in Heap
  BY <1>1, AtStage DEF EnqueueLink, IInv, TypeOK, Heap, Frames
<1> QED
  BY <1>1, <1>2, HeapStep, AtStage, AfterEnqueueStep

LEMMA DequeueTakeStep == ASSUME IInv, DequeueTake PROVE IInv'
<1> USE DEF EnqueueStages, DequeueStages, Stages
<1>1. Here("take") /\ DataOK' /\ UNCHANGED <<cpu, fault>>
  BY HeapStep DEF DequeueTake, IInv, TypeOK
<1>2. heap.head["ready"] \in Pointer
  BY DEF IInv, TypeOK, Heap, Queues
<1> QED
  BY <1>1, <1>2, AtStage, GotoWithStep DEF DequeueTake, Stands

LEMMA DequeueAdvanceStep == ASSUME IInv, DequeueAdvance PROVE IInv'
<1> USE DEF EnqueueStages, DequeueStages, Stages
<1>1. Here("advance")
  BY DEF DequeueAdvance
<1>2. CASE heap.head["ready"] = Null
  BY <1>2, CrashStep DEF DequeueAdvance
<1>3. CASE heap.head["ready"] # Null
  <2>1. heap' = [heap EXCEPT !.head["ready"] = heap.next[heap.head["ready"]]]
    BY <1>3 DEF DequeueAdvance, IInv, TypeOK, Heap, Queues
  <2>2. heap.next[heap.head["ready"]] \in Pointer
    BY <1>3 DEF IInv, TypeOK, Heap, Queues, Pointer
  <2>3. heap' \in Heap
    BY <2>1, <2>2 DEF IInv, TypeOK, Heap
  <2>4. DataOK'
    BY <1>3, <2>3, HeapStep DEF DequeueAdvance
  <2> QED
    BY <1>1, <1>3, <2>4, AtStage, GotoStep DEF DequeueAdvance, Stands
<1> QED
  BY <1>2, <1>3

LEMMA DequeueClearStep == ASSUME IInv, DequeueClear PROVE IInv'
<1> USE DEF EnqueueStages, DequeueStages, Stages
<1>1. Here("clear")
  BY DEF DequeueClear
<1>2. CASE frame[cur].node = Null
  BY <1>2, CrashStep DEF DequeueClear
<1>3. CASE frame[cur].node # Null
  <2>1. heap' \in Heap
    BY <1>3 DEF DequeueClear, IInv, TypeOK, Heap, Pointer
  <2>2. DataOK'
    BY <1>3, <2>1, HeapStep DEF DequeueClear
  <2> QED
    BY <1>1, <1>3, <2>2, AtStage, GotoStep DEF DequeueClear, Stands
<1> QED
  BY <1>2, <1>3

LEMMA DispatchStep == ASSUME IInv, Dispatch PROVE IInv'
<1> DEFINE f == [frame[cur] EXCEPT !.at = "switch"]
<1>1. /\ Alive /\ cur \in Greens /\ frame[cur] \in Frames /\ frame[cur].at = "dispatch"
      /\ Stands(frame[cur].op, "dispatch") /\ frame[cur].node \in Greens
  BY AtStage DEF Dispatch
<1>2. /\ SetFrame(f) /\ running' = frame[cur].node
      /\ UNCHANGED <<heap, thread, cur, ctx, sync, fault>>
  BY DEF Dispatch, Goto
<1>3. /\ f.at = "switch" /\ f.op = frame[cur].op /\ f.item = frame[cur].item
      /\ f.node = frame[cur].node
  BY <1>1 DEF Frames
<1>4. f \in Frames
  BY <1>1, NullAssumption DEF Frames, Stands, EnqueueStages, DequeueStages, Stages
<1> HIDE DEF f
<1>5. TypeOK'
  BY <1>1, <1>2, <1>4 DEF IInv, TypeOK, SetFrame, thread, sync
<1>6. ItemIsSelf'
  BY <1>1, <1>2, <1>3 DEF IInv, TypeOK, ItemIsSelf, SetFrame
<1>7. RunningIsCurrent'
  BY <1>1, <1>2, <1>3 DEF RunningIsCurrent, Owner, SetFrame, IInv, TypeOK
<1>8. ContextsMatch'
  BY <1>1, <1>2 DEF ContextsMatch, Owner, SetFrame, IInv, TypeOK, Pointer, Alive
<1> QED
  BY <1>5, <1>6, <1>7, <1>8 DEF IInv

LEMMA SwitchContextStep == ASSUME IInv, SwitchContext PROVE IInv'
<1> DEFINE n == frame[cur].node
           Switched == /\ ctx' \in [Greens -> Pointer]
                       /\ cur' \in Greens
                       /\ fault' \in {"none", "null", "context", "endless"}
                       /\ RunningIsCurrent'
                       /\ ContextsMatch'
<1>1. /\ Alive /\ cur \in Greens /\ frame[cur] \in Frames /\ frame[cur].at = "switch"
      /\ n \in Greens /\ Stands(frame[cur].op, "switch")
  BY AtStage DEF SwitchContext
<1>2. running' = n /\ running = n
  BY <1>1 DEF SwitchContext, IInv, RunningIsCurrent, Owner
<1>3. UNCHANGED <<heap, thread, sync>>
  BY DEF SwitchContext
<1>4. SUFFICES ASSUME NEW f \in Frames, SetFrame(f),
                      f.op \in {"yield", "join"} /\ f.at # "register" => f.item = cur,
                      Switched
               PROVE  IInv'
  <2>1. CASE frame[cur].op = "exit"
    <3>1. SetFrame(GoneFrame) /\ Load(ctx, n)
      BY <2>1 DEF SwitchContext
    <3>2. GoneFrame \in Frames /\ GoneFrame.op = "gone"
      BY DEF GoneFrame, Frame, Frames, Stands, EnqueueStages, DequeueStages, Ops, Stages,
             Pointer
    <3>3. \A g \in Greens : ctx[g] # Null =>
            g = IF frame'[ctx[g]].at = "switch" THEN frame'[ctx[g]].node ELSE ctx[g]
      BY <1>1, <3>1 DEF IInv, TypeOK, ContextsMatch, Owner, SetFrame, Pointer
    <3>4. Switched
      BY <1>1, <1>2, <3>1, <3>3, LoadStep DEF IInv, TypeOK
    <3> QED
      BY <1>4, <3>1, <3>2, <3>4
  <2>2. ASSUME frame[cur].op \in {"yield", "join"},
               NEW f \in Frames, SetFrame(f), f.at # "switch",
               SwapContext(frame[cur].item, n)
        PROVE  Switched
    <3>1. frame[cur].item = cur
      BY <1>1, <2>2 DEF IInv, ItemIsSelf
    <3>2. CASE cur \in freed
      BY <1>1, <2>2, <3>1, <3>2 DEF SwapContext, IInv, TypeOK, RunningIsCurrent,
                                    ContextsMatch, Alive
    <3>3. CASE cur \notin freed
      <4>1. Load([ctx EXCEPT ![cur] = cur], n)
        BY <2>2, <3>1, <3>3 DEF SwapContext
      <4>2. [ctx EXCEPT ![cur] = cur] \in [Greens -> Pointer]
        BY <1>1 DEF IInv, TypeOK, Pointer
      <4>3. \A g \in Greens : [ctx EXCEPT ![cur] = cur][g] # Null =>
              g = IF frame'[[ctx EXCEPT ![cur] = cur][g]].at = "switch"
                  THEN frame'[[ctx EXCEPT ![cur] = cur][g]].node
                  ELSE [ctx EXCEPT ![cur] = cur][g]
        BY <1>1, <2>2, SaveStep DEF IInv
      <4> QED
        BY <1>1, <1>2, <4>1, <4>2, <4>3, LoadStep DEF IInv
    <3> QED
      BY <3>2, <3>3
  <2>3. CASE frame[cur].op = "yield"
    <3>1. SetFrame(UserFrame) /\ SwapContext(frame[cur].item, n)
      BY <2>3 DEF SwitchContext
    <3> QED
      BY <1>4, <2>2, <2>3, <3>1, UserFrameType
  <2>4. CASE frame[cur].op = "join"
    <3> DEFINE f == [frame[cur] EXCEPT !.at = "return"]
    <3>1. SetFrame(f) /\ SwapContext(frame[cur].item, n)
      BY <2>4 DEF SwitchContext, Goto
    <3>2. f \in Frames /\ f.op = "join" /\ f.at = "return" /\ f.item = cur
      BY <1>1, <2>4 DEF Frames, Stands, EnqueueStages, DequeueStages, Stages, IInv, ItemIsSelf
    <3> HIDE DEF f
    <3> QED
      BY <1>4, <2>2, <2>4, <3>1, <3>2
  <2> QED
    BY <1>1, <2>1, <2>3, <2>4 DEF Stands, DequeueStages
<1>5. TypeOK'
  BY <1>1, <1>2, <1>3, <1>4 DEF IInv, TypeOK, SetFrame, thread, sync
<1>6. ItemIsSelf'
  BY <1>1, <1>4 DEF IInv, TypeOK, ItemIsSelf, SetFrame
<1> QED
  BY <1>4, <1>5, <1>6 DEF IInv

LEMMA JoinRegisterStep == ASSUME IInv, JoinRegister PROVE IInv'
<1> DEFINE f == [frame[cur] EXCEPT !.at = "take", !.item = running]
<1>1. /\ Alive /\ cur \in Greens /\ frame[cur] \in Frames /\ frame[cur].at = "register"
      /\ Stands(frame[cur].op, "register")
  BY AtStage DEF JoinRegister
<1>2. running = cur
  BY <1>1 DEF IInv, RunningIsCurrent, Owner
<1>3. f \in Frames /\ f.at = "take" /\ f.item = cur
  BY <1>1, <1>2 DEF Frames, Stands, EnqueueStages, DequeueStages, Stages, Pointer
<1>4. SetFrame(f) /\ UNCHANGED <<cpu, fault>>
  BY DEF JoinRegister
<1>5. DataOK'
  BY <1>1, <1>2 DEF JoinRegister, IInv, TypeOK, DataOK, sync, Pointer
<1> HIDE DEF f
<1> QED
  BY <1>1, <1>3, <1>4, <1>5, FrameStep

LEMMA ReturnActionStep == ASSUME IInv, Return PROVE IInv'
<1>1. Here("return") /\ DataOK' /\ SetFrame(UserFrame) /\ UNCHANGED <<cpu, fault>>
  BY HeapStep DEF Return, IInv, TypeOK
<1> QED
  BY <1>1, AtStage, ReturnStep

LEMMA ExitFreeStep == ASSUME IInv, ExitFree PROVE IInv'
<1>1. DataOK'
  BY AtStage DEF ExitFree, IInv, TypeOK, DataOK, sync
<1> QED
  BY <1>1, AtStage, GotoStep
     DEF ExitFree, Stands, EnqueueStages, DequeueStages, Stages

LEMMA ExitMarkStep == ASSUME IInv, ExitMark PROVE IInv'
<1>1. DataOK'
  BY AtStage DEF ExitMark, IInv, TypeOK, DataOK, sync
<1> QED
  BY <1>1, AtStage, GotoStep
     DEF ExitMark, Stands, EnqueueStages, DequeueStages, Stages

LEMMA SignalOldStep == ASSUME IInv, SignalOld PROVE IInv'
<1> DEFINE f == [frame[cur] EXCEPT !.at = "unhook", !.item = heap.head["waiting"]]
<1>1. /\ Alive /\ cur \in Greens /\ frame[cur] \in Frames /\ frame[cur].at = "old"
      /\ Stands(frame[cur].op, "old")
  BY AtStage DEF SignalOld
<1>2. heap.head["waiting"] \in Pointer
  BY DEF IInv, TypeOK, Heap, Queues
<1>3. f \in Frames /\ f.at = "unhook" /\ f.op = "signal"
  BY <1>1, <1>2 DEF Frames, Stands, EnqueueStages, DequeueStages, Stages
<1>4. SetFrame(f) /\ UNCHANGED <<cpu, fault>>
  BY DEF SignalOld
<1>5. DataOK'
  BY HeapStep DEF SignalOld, IInv, TypeOK
<1> HIDE DEF f
<1> QED
  BY <1>1, <1>3, <1>4, <1>5, FrameStep

LEMMA SignalUnhookStep == ASSUME IInv, SignalUnhook PROVE IInv'
<1>1. Here("unhook") /\ frame[cur].item \in Pointer
  BY AtStage DEF SignalUnhook, Frames
<1>2. CASE frame[cur].item = Null
  BY <1>2, CrashStep DEF SignalUnhook
<1>3. CASE frame[cur].item # Null
  <2>1. heap.next[frame[cur].item] \in Pointer
    BY <1>1, <1>3 DEF IInv, TypeOK, Heap, Pointer
  <2>2. heap' \in Heap
    BY <1>3, <2>1 DEF SignalUnhook, IInv, TypeOK, Heap
  <2>3. DataOK'
    BY <1>3, <2>2, HeapStep DEF SignalUnhook
  <2> QED
    BY <1>1, <1>3, <2>3, AtStage, GotoStep
       DEF SignalUnhook, Stands, EnqueueStages, DequeueStages, Stages
<1> QED
  BY <1>2, <1>3

LEMMA SignalCountStep == ASSUME IInv, SignalCount PROVE IInv'
<1>1. DataOK'
  BY GreenAssumption DEF SignalCount, IInv, TypeOK, DataOK, thread
<1> QED
  BY <1>1, AtStage, ReturnStep DEF SignalCount

LEMMA TakeOrSuspendStep ==
  ASSUME IInv, Alive, frame[cur].at # "switch", NEW f \in Frames, TakeOrSuspend(f),
         f.op \notin {"yield", "join"}, f.at # "switch", UNCHANGED thread
  PROVE  IInv'
<1>1. running = cur
  BY DEF IInv, RunningIsCurrent, Owner
<1>2. CASE taken
  BY <1>1, <1>2, SuspendOnStep DEF TakeOrSuspend, Queues
<1>3. CASE ~taken
  <2>1. DataOK' /\ SetFrame(UserFrame) /\ UNCHANGED <<cpu, fault>>
    BY <1>3 DEF TakeOrSuspend, IInv, TypeOK, DataOK, thread
  <2> QED
    BY <2>1, ReturnStep
<1> QED
  BY <1>2, <1>3

LEMMA RetryStep == ASSUME IInv, Retry PROVE IInv'
BY AtStage, TakeOrSuspendStep
   DEF Retry, Stands, EnqueueStages, DequeueStages

(* A call of the library, by a client that makes whichever calls it likes. *)
AnyCall ==
  /\ Alive /\ frame[cur].op = "user"
  /\ \/ \E n \in Threads : CallCreate(n)
     \/ CallYield
     \/ \E u \in Threads : CallJoin(u)
     \/ CallExit \/ CallSignal \/ CallLock \/ Unlock
     \/ \E m \in BOOLEAN : CallWait(m)

LEMMA UserCallIsCall == UserCall => AnyCall
BY DEF UserCall, Calling, AnyCall

LEMMA CreateStep ==
  ASSUME IInv, Alive, frame[cur].op = "user", NEW n \in Threads, CallCreate(n)
  PROVE  IInv'
<1> DEFINE f == Frame("create", "test", n, Null, Null)
<1>1. /\ Alive /\ cur \in Greens /\ n \in Greens /\ n # cur
      /\ frame[cur].op = "user" /\ frame[cur].at = "run"
      /\ frame[n].op = "none" /\ frame[n].at = "run"
  BY DEF CallCreate, Threads, IInv, TypeOK, Frames, Stands
<1>2. f \in Frames /\ f.op = "create" /\ f.at = "test"
  BY <1>1, CallFrameType DEF Calls, Stages, Pointer, Stands, EnqueueStages, DequeueStages
<1>3. /\ frame' = [frame EXCEPT ![n] = UserFrame, ![cur] = f]
      /\ heap' = [heap EXCEPT !.next[n] = Null]
      /\ ctx' = [ctx EXCEPT ![n] = n]
      /\ join' = [join EXCEPT ![n] = Null]
      /\ zombie' = [zombie EXCEPT ![n] = FALSE]
      /\ UNCHANGED <<freed, cur, running, sync, fault>>
  BY DEF CallCreate
<1> HIDE DEF f
<1>4. TypeOK'
  <2>1. frame' \in [Greens -> Frames]
    BY <1>1, <1>2, <1>3, UserFrameType DEF IInv, TypeOK
  <2>2. heap' \in Heap
    BY <1>1, <1>3 DEF IInv, TypeOK, Heap, Pointer
  <2>3. ctx' \in [Greens -> Pointer] /\ join' \in [Greens -> Pointer]
    BY <1>1, <1>3 DEF IInv, TypeOK, Pointer
  <2> QED
    BY <1>3, <2>1, <2>2, <2>3 DEF IInv, TypeOK, sync
<1>5. ItemIsSelf'
  BY <1>1, <1>2, <1>3, UserFrameType DEF IInv, TypeOK, ItemIsSelf
<1>6. RunningIsCurrent'
  BY <1>1, <1>2, <1>3 DEF IInv, TypeOK, RunningIsCurrent, Owner, Alive
<1>7. ContextsMatch'
  <2> SUFFICES ASSUME NEW g \in Greens, ctx'[g] # Null
               PROVE  g = Owner(ctx[g])' /\ ctx'[g] # cur'
    BY DEF ContextsMatch
  <2>1. CASE g = n
    BY <1>1, <1>3, <2>1, UserFrameType DEF IInv, TypeOK, Owner
  <2>2. CASE g # n
    <3>1. ctx'[g] = ctx[g] /\ ctx[g] \in Greens /\ ctx[g] # cur /\ g = Owner(ctx[g])
      BY <1>1, <1>3, <2>2 DEF IInv, TypeOK, ContextsMatch, Pointer
    <3>2. (frame'[ctx[g]] = frame[ctx[g]]) \/ (ctx[g] = n)
      BY <1>3, <3>1 DEF IInv, TypeOK
    <3> QED
      BY <1>1, <1>3, <2>2, <3>1, <3>2 DEF Owner
  <2> QED
    BY <2>1, <2>2
<1> QED
  BY <1>4, <1>5, <1>6, <1>7 DEF IInv

(* A call that only enters the function, at a statement s of it.           *)
LEMMA EnterStep ==
  ASSUME IInv, Alive, frame[cur].op = "user",
         NEW o \in Calls, NEW s \in Stages, NEW i \in Pointer, NEW t \in Pointer,
         Stands(o, s), s \notin {"walk", "link", "dispatch", "switch"},
         o \in {"yield", "join"} /\ s # "register" => i = cur,
         SetFrame(Frame(o, s, i, Null, t)),
         UNCHANGED <<heap, thread, cpu, sync, fault>>
  PROVE  IInv'
<1>1. frame[cur].at = "run"
  BY DEF IInv, TypeOK, Frames, Stands
<1>2. DataOK'
  BY HeapStep DEF IInv, TypeOK
<1> QED
  BY <1>1, <1>2, CallFrameType, FrameStep

LEMMA CallStep ==
  ASSUME IInv, AnyCall PROVE IInv'
<1> USE DEF Calls, Stages, Stands, EnqueueStages, DequeueStages
<1>1. /\ Alive /\ cur \in Greens /\ frame[cur].op = "user" /\ frame[cur].at = "run"
      /\ running = cur /\ Null \in Pointer /\ cur \in Pointer
  BY DEF AnyCall, IInv, TypeOK, Frames, Stands, RunningIsCurrent, Owner, Pointer
<1>2. CASE \E n \in Threads : CallCreate(n)
  BY <1>1, <1>2, CreateStep
<1>3. CASE CallYield
  BY <1>1, <1>3, EnterStep DEF CallYield
<1>4. ASSUME NEW u \in Threads, CallJoin(u) PROVE IInv'
  BY <1>1, <1>4, EnterStep DEF CallJoin, Threads, Pointer
<1>5. CASE CallExit
  <2>1. join[cur] \in Pointer
    BY <1>1 DEF IInv, TypeOK
  <2>2. CASE join[cur] = Null
    BY <1>1, <1>5, <2>2, EnterStep DEF CallExit
  <2>3. CASE join[cur] # Null
    BY <1>1, <1>5, <2>1, <2>3, EnterStep DEF CallExit
  <2> QED
    BY <2>2, <2>3
<1>6. CASE CallSignal
  BY <1>1, <1>6, EnterStep DEF CallSignal
<1>7. CASE CallLock
  <2>1. /\ Frame("lock", "retry", Null, Null, Null) \in Frames
        /\ Frame("lock", "retry", Null, Null, Null).op = "lock"
        /\ Frame("lock", "retry", Null, Null, Null).at = "retry"
    BY <1>1, CallFrameType
  <2> QED
    BY <1>1, <1>7, <2>1, TakeOrSuspendStep DEF CallLock
<1>8. CASE Unlock
  <2> DEFINE next == heap.head["susp"]
             h == IF next = Null THEN heap ELSE Dequeue(heap, "susp")
             Blocks == next # Null /\ Endless(h, "ready")
  <2>1. CASE Blocks
    BY <1>8, <2>1, CrashStep DEF Unlock
  <2>2. CASE ~Blocks
    <3>1. /\ heap' = IF next = Null THEN h ELSE Enqueue(h, "ready", next)
          /\ taken' = FALSE
          /\ holding' = holding \ {cur}
          /\ UNCHANGED <<thread, cpu, frame, numSusp, fault>>
      BY <1>8, <2>2 DEF Unlock
    <3>2. heap' \in Heap
      BY <3>1, DequeueType, EnqueueType DEF IInv, TypeOK, Queues, Pointer
    <3>3. TypeOK'
      BY <3>1, <3>2 DEF IInv, TypeOK, thread, cpu
    <3> QED
      BY <3>1, <3>3 DEF IInv, RunningIsCurrent, ContextsMatch, ItemIsSelf, Owner, Alive, cpu
  <2> QED
    BY <2>1, <2>2
<1>9. ASSUME NEW m \in BOOLEAN, CallWait(m) PROVE IInv'
  <2> DEFINE h == IF m THEN WaitReleased ELSE WaitQueued
             f == Frame("wait", IF m THEN "retry" ELSE "return", Null, Null, Null)
  <2>1. CASE Endless(heap, "waiting") \/ (m /\ Endless(WaitQueued, "ready"))
    BY <1>9, <2>1, CrashStep DEF CallWait
  <2>2. CASE ~(Endless(heap, "waiting") \/ (m /\ Endless(WaitQueued, "ready")))
    <3>1. CASE h.head["ready"] = Null
      BY <1>9, <2>2, <3>1, CrashStep DEF CallWait
    <3>2. CASE h.head["ready"] # Null
      <4>1. /\ SwitchOut(h, f)
            /\ numSusp' = numSusp + 1 /\ numSusp < MaxSusp
            /\ taken' = IF m THEN FALSE ELSE taken
            /\ holding' = holding \ {cur}
            /\ UNCHANGED thread
        BY <1>9, <2>2, <3>2 DEF CallWait
      <4>2. WaitQueued \in Heap
        BY <1>1, EnqueueType DEF WaitQueued, IInv, TypeOK, Queues
      <4>3. heap.head["susp"] \in Pointer
        BY DEF IInv, TypeOK, Heap, Queues
      <4>4. Enqueue(WaitQueued, "ready", heap.head["susp"]) \in Heap
        BY <4>2, <4>3, EnqueueType DEF Queues
      <4>5. h \in Heap
        BY <1>1, <4>2, <4>4 DEF WaitReleased, Heap
      <4>6. f \in Frames /\ f.op = "wait" /\ f.at \in {"retry", "return"}
        BY <1>1, CallFrameType
      <4>7. /\ taken' \in BOOLEAN /\ holding' \subseteq Greens
            /\ numSusp' \in Int /\ numSusp' <= MaxSusp
        <5>1. taken' \in BOOLEAN
          <6>1. CASE m
            BY <4>1, <6>1
          <6>2. CASE ~m
            BY <4>1, <6>2 DEF IInv, TypeOK
          <6> QED
            BY <6>1, <6>2
        <5>2. holding' \subseteq Greens
          BY <4>1 DEF IInv, TypeOK
        <5>3. numSusp' \in Int /\ numSusp' <= MaxSusp
          BY <4>1, GreenAssumption DEF IInv, TypeOK
        <5> QED
          BY <5>1, <5>2, <5>3
      <4> HIDE DEF h, f
      <4> QED
        BY <1>1, <4>1, <4>5, <4>6, <4>7, SwitchOutStep
    <3> QED
      BY <3>1, <3>2
  <2> QED
    BY <2>1, <2>2
<1> QED
  BY <1>2, <1>3, <1>4, <1>5, <1>6, <1>7, <1>8, <1>9 DEF AnyCall
-----------------------------------------------------------------------------
LEMMA LibStepStep == ASSUME IInv, LibStep PROVE IInv'
BY EnqueueTestStep, EnqueueSetStep, EnqueueWalkStep, EnqueueLinkStep,
   DequeueTakeStep, DequeueAdvanceStep, DequeueClearStep, DispatchStep,
   SwitchContextStep, JoinRegisterStep, ReturnActionStep, ExitFreeStep, ExitMarkStep,
   SignalOldStep, SignalUnhookStep, SignalCountStep, RetryStep
   DEF LibStep

LEMMA IdleStep == ASSUME IInv, UNCHANGED vars PROVE IInv'
BY DEF vars, IInv, TypeOK, RunningIsCurrent, ContextsMatch, ItemIsSelf, Owner, Alive

LEMMA NextIInv == IInv /\ [Next]_vars => IInv'
BY TickStep, LibStepStep, UserCallIsCall, CallStep, IdleStep DEF Next

(* The inductive invariant holds of every state of the library.            *)
THEOREM Invariance == Spec => []IInv
BY InitIInv, NextIInv, PTL DEF Spec

(* Type correctness: no pointer variable, frame or link ever holds anything*)
(* but a thread or null, and running is never null.                        *)
THEOREM TypeCorrect == Spec => []TypeOK
<1>1. IInv => TypeOK
  BY DEF IInv
<1> QED
  BY <1>1, Invariance, PTL

(* However the timer interrupts create, yield, join, signal and the end of *)
(* a thread, running is the thread in execution or the one being switched  *)
(* to, and each valid context is where the position it holds belongs.      *)
THEOREM ContextsCorrect == Spec => [](RunningIsCurrent /\ ContextsMatch)
<1>1. IInv => RunningIsCurrent /\ ContextsMatch
  BY DEF IInv
<1> QED
  BY <1>1, Invariance, PTL
-----------------------------------------------------------------------------
(* The mutex.  Its holder leaves it only by unlock or wait, which it calls *)
(* itself, and it is taken only by a thread that has just seen it free.    *)

LEMMA SyncStep ==
  ASSUME MutualExclusion, UNCHANGED sync PROVE MutualExclusion'
BY DEF MutualExclusion, sync

LEMMA TakeStep ==
  ASSUME MutualExclusion, NEW f, TakeOrSuspend(f) PROVE MutualExclusion'
BY DEF MutualExclusion, TakeOrSuspend, sync

(* No step of the library, whoever calls it, gives the mutex away twice.   *)
LEMMA MutexStep ==
  ASSUME MutualExclusion, Tick \/ LibStep \/ AnyCall \/ UNCHANGED vars
  PROVE  MutualExclusion'
<1>1. CASE Tick
  BY <1>1, SyncStep DEF Tick
<1>2. CASE SignalCount
  BY <1>2 DEF SignalCount, MutualExclusion
<1>3. CASE Retry
  BY <1>3, TakeStep DEF Retry
<1>4. CASE LibStep /\ ~SignalCount /\ ~Retry
  BY <1>4, SyncStep
     DEF LibStep, EnqueueTest, EnqueueSet, EnqueueWalk, EnqueueLink, DequeueTake,
         DequeueAdvance, DequeueClear, Dispatch, SwitchContext, JoinRegister, Return,
         ExitFree, ExitMark, SignalOld, SignalUnhook, Crash
<1>5. CASE CallLock
  BY <1>5, TakeStep DEF CallLock
<1>6. CASE Unlock
  BY <1>6 DEF Unlock, Crash, sync, MutualExclusion
<1>7. ASSUME NEW m \in BOOLEAN, CallWait(m) PROVE MutualExclusion'
  BY <1>7 DEF CallWait, Crash, sync, MutualExclusion
<1>8. ASSUME AnyCall, ~CallLock, ~Unlock, ~\E m \in BOOLEAN : CallWait(m)
      PROVE  MutualExclusion'
  BY <1>8, SyncStep DEF AnyCall, CallCreate, CallYield, CallJoin, CallExit, CallSignal
<1>9. CASE UNCHANGED vars
  BY <1>9, SyncStep DEF vars, sync
<1> QED
  BY <1>1, <1>2, <1>3, <1>4, <1>5, <1>6, <1>7, <1>8, <1>9

LEMMA MutexInit == Init => MutualExclusion
BY DEF Init, MutualExclusion

(* At most one thread has the mutex, and then it is marked taken: for every*)
(* number of threads and however often a woken one loses it to another.    *)
THEOREM MutexExcludes == Spec => []MutualExclusion
<1>1. MutualExclusion /\ [Next]_vars => MutualExclusion'
  BY MutexStep, UserCallIsCall DEF Next
<1> QED
  BY <1>1, MutexInit, PTL DEF Spec
-----------------------------------------------------------------------------
(* Clients that the queues survive: the exposed functions are not          *)
(* interrupted, and no two threads join or wait (join holds one thread,    *)
(* and green_cond_signal leaves the link of the waiter it wakes).          *)
Orderly ==
  /\ Quiet = Exposed
  /\ \A a, b \in Greens : "join" \in May[a] /\ "join" \in May[b] => a = b
  /\ \A a, b \in Greens : "wait" \in May[a] /\ "wait" \in May[b] => a = b

(* The queues of h are chains: each ends, no two share a thread, every     *)
(* thread is the successor of at most one or the first of one, and a       *)
(* thread in no queue has no successor.                                    *)
Ends(h) == \A q \in Queues : ~Endless(h, q)
Apart(h) == \A g \in Greens, q, r \in Queues : g \in Members(h, q) /\ g \in Members(h, r) => q = r
FirstIsFirst(h) == \A g \in Greens, q \in Queues : h.head[q] # Null => h.next[g] # h.head[q]
NextOfOne(h) == \A a, b \in Greens : h.next[a] # Null /\ h.next[a] = h.next[b] => a = b
Loose(h) == \A g \in Greens : h.next[g] # Null => \E q \in Queues : g \in Members(h, q)

Sound(h) == Ends(h) /\ Apart(h) /\ FirstIsFirst(h) /\ NextOfOne(h) /\ Loose(h)

(* The queues as they are when dequeue has cleared the link it is about to *)
(* clear.                                                                  *)
Settled ==
  IF frame[cur].at = "clear" THEN [heap EXCEPT !.next[frame[cur].node] = Null] ELSE heap

In(g, q) == g \in Members(Settled, q)

(* The join of g on u is pending; the executing thread has put itself where *)
(* it can come back from.                                                  *)
Awaits(g, u) == Live(u) /\ frame[u].op # "exit" /\ join[u] = g
Parted == frame[cur].op \in {"yield", "join"} /\ frame[cur].at \in DequeueStages

Placed(g) == (\E q \in Queues : In(g, q)) \/ (\E u \in Greens : Awaits(g, u))

(* Who is where. *)
Placement ==
  \A g \in Greens : Placed(g) <=> Live(g) /\ g \notin Hand /\ (g = cur => Parted)

OnePlace ==
  \A g, u \in Greens : Awaits(g, u) =>
    /\ \A q \in Queues : ~In(g, q)
    /\ frame[g].op = "join" /\ frame[g].at # "register" /\ frame[g].target = u

InHand == \A g \in Hand : g \in Greens /\ Live(g) /\ (g = cur => frame[cur].op = "yield")

SleepersRetry ==
  \A g \in Greens : /\ In(g, "susp") => frame[g].at = "retry"
                    /\ In(g, "waiting") => frame[g].op = "wait"

JoinKept ==
  \A g \in Greens : frame[g].op = "join" =>
    LET u == frame[g].target
    IN  /\ u \in Greens /\ frame[u].op # "none" /\ u # g
        /\ frame[g].at = "register" => Live(u) /\ frame[u].op # "exit"
        /\ frame[g].at # "register" =>
             \/ Awaits(g, u)
             \/ frame[g].at = "return" /\ (zombie[u] \/ (u = cur /\ frame[u].op = "exit"))

(* Only the executing thread is inside a function that is not blocked. *)
OthersRest ==
  /\ Live(cur)
  /\ \A g \in Greens \ {cur} : \/ frame[g].op \in {"none", "user", "gone"}
                               \/ frame[g].at \in {"retry", "return"}

Endings ==
  /\ \A g \in Greens : frame[g].op = "gone" => zombie[g]
  /\ frame[cur].op = "exit" /\ frame[cur].at \in DequeueStages => zombie[cur]
  /\ \A g \in freed : frame[g].op = "gone" \/ (g = cur /\ frame[cur].op = "exit" /\ frame[cur].at # "free" /\ frame[cur].at \notin EnqueueStages)

Resumable == \A g \in Greens \ {cur} : Live(g) => ctx[g] = g

AsCalled == \A g \in Greens : frame[g].op \in {"join", "wait"} => frame[g].op \in May[g]

Standing ==
  LET f == frame[cur]
  IN  /\ f.at = "set" => heap.head["ready"] = Null
      /\ f.at = "walk" => In(f.node, "ready")
      /\ f.at = "link" => In(f.node, "ready") /\ heap.next[f.node] = Null
      /\ f.at = "advance" => f.node = heap.head["ready"]
      /\ f.at \in {"old", "unhook"} => heap.head["waiting"] # Null
      /\ f.at = "unhook" => f.item = heap.head["waiting"]

(* A signal has unhooked a waiter and not yet counted it.                  *)
Owed == IF frame[cur].op = "signal" /\ frame[cur].at \in EnqueueStages \cup {"count"}
        THEN 1 ELSE 0

Counted == numSusp = Cardinality(Members(Settled, "waiting")) + Owed

SomebodyLooks ==
  ~taken /\ heap.head["susp"] # Null =>
    \E g \in Greens : (In(g, "ready") \/ g \in Hand \/ g = cur) /\ frame[g].at = "retry"

Sched ==
  /\ Sound(Settled) /\ Placement /\ OnePlace /\ InHand /\ SleepersRetry /\ JoinKept
  /\ OthersRest /\ Endings /\ Resumable /\ AsCalled /\ Standing /\ Counted /\ SomebodyLooks

SInv == Alive => Sched
-----------------------------------------------------------------------------
(* Chains and queues.                                                      *)

(* A chain is closed: it holds the thread it starts at, and the successor  *)
(* of each of its threads.                                                 *)
LEMMA ChainClosed ==
  ASSUME NEW h \in Heap, NEW t \in Pointer
  PROVE  /\ Chain(h, t) \subseteq Greens
         /\ t # Null => t \in Chain(h, t)
         /\ \A g \in Chain(h, t) : h.next[g] # Null => h.next[g] \in Chain(h, t)
<1>1. \A g \in Greens : h.next[g] \in Pointer
  BY DEF Heap
<1>2. ASSUME t # Null PROVE t \in Chain(h, t)
  <2>1. t \in Greens
    BY <1>2 DEF Pointer
  <2> QED BY <1>2, <2>1 DEF Chain, ClosedFrom
<1>3. ASSUME NEW g \in Chain(h, t), h.next[g] # Null PROVE h.next[g] \in Chain(h, t)
  <2>1. g \in Greens /\ h.next[g] \in Greens
    BY <1>1, <1>3 DEF Chain, Pointer
  <2>2. ASSUME NEW S \in SUBSET Greens, ClosedFrom(h, t, S) PROVE h.next[g] \in S
    <3>1. g \in S
      BY <2>2 DEF Chain
    <3> QED BY <1>3, <2>2, <3>1 DEF ClosedFrom
  <2> QED BY <2>1, <2>2 DEF Chain
<1> QED BY <1>2, <1>3 DEF Chain

(* It is the least such set.                                               *)
LEMMA ChainLeast ==
  ASSUME NEW h, NEW t, NEW S \in SUBSET Greens,
         t # Null => t \in S,
         \A g \in S : h.next[g] # Null => h.next[g] \in S
  PROVE  Chain(h, t) \subseteq S
<1>1. ClosedFrom(h, t, S)
  BY DEF ClosedFrom
<1> QED BY <1>1 DEF Chain

LEMMA ChainOfNull == ASSUME NEW h PROVE Chain(h, Null) = {}
<1>1. ClosedFrom(h, Null, {})
  BY DEF ClosedFrom
<1> QED BY <1>1 DEF Chain

(* It depends on the links of its own threads only.                        *)
LEMMA ChainFrame ==
  ASSUME NEW h \in Heap, NEW n \in Heap, NEW t \in Pointer,
         \A g \in Chain(h, t) : n.next[g] = h.next[g]
  PROVE  Chain(n, t) = Chain(h, t)
<1> DEFINE C == Chain(h, t)
           D == Chain(n, t)
<1>1. /\ C \subseteq Greens /\ (t # Null => t \in C)
      /\ \A g \in C : h.next[g] # Null => h.next[g] \in C
  BY ChainClosed
<1>2. /\ D \subseteq Greens /\ (t # Null => t \in D)
      /\ \A g \in D : n.next[g] # Null => n.next[g] \in D
  BY ChainClosed
<1>3. \A g \in C : n.next[g] = h.next[g]
  OBVIOUS
<1> HIDE DEF C, D
<1>4. Chain(n, t) \subseteq C
  BY <1>1, <1>3, ChainLeast
<1>5. Chain(h, t) \subseteq C \cap D
  <2>1. \A g \in C \cap D : h.next[g] # Null => h.next[g] \in C \cap D
    BY <1>1, <1>2, <1>3
  <2>2. C \cap D \in SUBSET Greens /\ (t # Null => t \in C \cap D)
    BY <1>1, <1>2
  <2> QED BY <2>1, <2>2, ChainLeast
<1> QED BY <1>4, <1>5 DEF C, D

(* A queue is empty when its head is null; its head is one of its members. *)
LEMMA HeadIsMember ==
  ASSUME NEW h \in Heap, NEW q \in Queues
  PROVE  /\ h.head[q] \in Pointer
         /\ Members(h, q) \subseteq Greens
         /\ h.head[q] = Null <=> Members(h, q) = {}
         /\ h.head[q] # Null => h.head[q] \in Members(h, q)
<1>1. h.head[q] \in Pointer
  BY DEF Heap
<1>2. Members(h, q) = Chain(h, h.head[q])
  BY DEF Members
<1>3. CASE h.head[q] = Null
  <2>1. Members(h, q) = {}
    BY <1>2, <1>3, ChainOfNull
  <2> QED BY <1>1, <1>3, <2>1
<1>4. CASE h.head[q] # Null
  <2>1. h.head[q] \in Members(h, q) /\ Members(h, q) \subseteq Greens
    BY <1>1, <1>2, <1>4, ChainClosed
  <2> QED BY <1>1, <1>4, <2>1
<1> QED BY <1>3, <1>4

(* What is linked behind the last thread of a queue belongs to the queue.  *)
LEMMA AppendChain ==
  ASSUME NEW h \in Heap, NEW n \in Heap, NEW q \in Queues, NEW t \in Pointer,
         NEW last \in Members(h, q), h.next[last] = Null,
         last \notin Chain(h, t),
         n.head[q] = h.head[q], n.next = [h.next EXCEPT ![last] = t]
  PROVE  /\ Members(n, q) = Members(h, q) \cup Chain(h, t)
         /\ Chain(n, t) = Chain(h, t)
<1> DEFINE C == Members(h, q)
           T == Chain(h, t)
           N == Members(n, q)
           x == h.head[q]
<1>1. /\ x \in Pointer /\ C = Chain(h, x) /\ N = Chain(n, x)
      /\ h.next \in [Greens -> Pointer] /\ n.next \in [Greens -> Pointer]
  BY DEF Members, Heap
<1>2. /\ C \subseteq Greens /\ (x # Null => x \in C)
      /\ \A g \in C : h.next[g] # Null => h.next[g] \in C
  BY <1>1, ChainClosed
<1>3. /\ T \subseteq Greens /\ (t # Null => t \in T)
      /\ \A g \in T : h.next[g] # Null => h.next[g] \in T
  BY ChainClosed
<1>4. /\ N \subseteq Greens /\ (x # Null => x \in N)
      /\ \A g \in N : n.next[g] # Null => n.next[g] \in N
  BY <1>1, ChainClosed
<1>5. /\ last \in C /\ last \notin T /\ n.next[last] = t /\ h.next[last] = Null
      /\ \A g \in Greens \ {last} : n.next[g] = h.next[g]
  BY <1>1, <1>2
<1>6. Chain(n, t) = T
  <2>1. \A g \in T : n.next[g] = h.next[g]
    BY <1>3, <1>5
  <2> QED BY <2>1, ChainFrame
<1> HIDE DEF C, T, N, x
<1>7. Chain(n, x) \subseteq C \cup T
  <2>1. \A g \in C \cup T : n.next[g] # Null => n.next[g] \in C \cup T
    BY <1>2, <1>3, <1>5
  <2> QED BY <1>2, <1>3, <2>1, ChainLeast
<1>8. Chain(h, x) \subseteq C \cap N
  <2>1. \A g \in C \cap N : h.next[g] # Null => h.next[g] \in C \cap N
    BY <1>2, <1>4, <1>5
  <2> QED BY <1>2, <1>4, <2>1, ChainLeast
<1>9. t # Null => t \in N
  BY <1>1, <1>4, <1>5, <1>8
<1>10. Chain(n, t) \subseteq N
  BY <1>4, <1>9, ChainLeast
<1> QED BY <1>1, <1>6, <1>7, <1>8, <1>10 DEF C, T, N

(* A queue that is not touched keeps its threads.                          *)
LEMMA QueueFrame ==
  ASSUME NEW h \in Heap, NEW n \in Heap, NEW q \in Queues,
         n.head[q] = h.head[q], \A g \in Members(h, q) : n.next[g] = h.next[g]
  PROVE  Members(n, q) = Members(h, q)
BY ChainFrame DEF Heap, Members

(* enqueue: a thread that is in no queue is put behind the last of one, or *)
(* at the head of an empty one.                                            *)
Queueing(h, n, q, t) ==
  \/ /\ h.head[q] = Null
     /\ n = [h EXCEPT !.head[q] = t]
  \/ /\ h.head[q] # Null
     /\ \E last \in Members(h, q) : /\ h.next[last] = Null
                                    /\ n = [h EXCEPT !.next[last] = t]

LEMMA QueueSound ==
  ASSUME NEW h \in Heap, NEW n, NEW q \in Queues, NEW t \in Greens,
         Sound(h), \A r \in Queues : t \notin Members(h, r), Queueing(h, n, q, t)
  PROVE  /\ n \in Heap /\ Sound(n)
         /\ \A g \in Greens, r \in Queues :
              g \in Members(n, r) <=> g \in Members(h, r) \/ (r = q /\ g = t)
         /\ \A r \in Queues \ {q} : n.head[r] = h.head[r]
<1> USE NullAssumption
<1>1. /\ t \in Pointer /\ t # Null /\ h.next[t] = Null
      /\ h.head \in [Queues -> Pointer] /\ h.next \in [Greens -> Pointer]
  BY DEF Sound, Loose, Heap, Pointer
<1>2. Chain(h, t) = {t}
  <2>1. t \in Chain(h, t)
    BY <1>1, ChainClosed
  <2>2. {t} \in SUBSET Greens /\ t \in {t} /\ \A g \in {t} : h.next[g] # Null => h.next[g] \in {t}
    BY <1>1
  <2>3. Chain(h, t) \subseteq {t}
    BY <2>2, ChainLeast
  <2> QED BY <2>1, <2>3
<1>3. \A r \in Queues : Members(h, r) \subseteq Greens /\ (h.head[r] # Null => h.head[r] \in Members(h, r))
  BY HeadIsMember
<1>4. \A g \in Greens : h.next[g] # t
  <2> SUFFICES ASSUME NEW g \in Greens, h.next[g] = t PROVE FALSE
    OBVIOUS
  <2>1. PICK r \in Queues : g \in Members(h, r)
    BY <1>1 DEF Sound, Loose
  <2>2. t \in Members(h, r)
    BY <1>1, <2>1, ChainClosed DEF Members
  <2> QED BY <2>2
<1>5. CASE h.head[q] = Null /\ n = [h EXCEPT !.head[q] = t]
  <2>1. /\ n \in Heap /\ n.next = h.next /\ n.head = [h.head EXCEPT ![q] = t]
        /\ n.head[q] = t /\ \A r \in Queues \ {q} : n.head[r] = h.head[r]
    BY <1>1, <1>5 DEF Heap
  <2>2. \A r \in Queues \ {q} : Members(n, r) = Members(h, r)
    BY <2>1, QueueFrame
  <2>3. Members(n, q) = {t} /\ Members(h, q) = {}
    <3>1. Chain(n, t) = Chain(h, t)
      BY <1>1, <2>1, ChainFrame
    <3> QED BY <1>2, <1>5, <2>1, <3>1, HeadIsMember DEF Members
  <2>4. \A g \in Greens, r \in Queues :
          g \in Members(n, r) <=> g \in Members(h, r) \/ (r = q /\ g = t)
    BY <2>2, <2>3
  <2>5. Ends(n)
    <3>1. ~Endless(n, q)
      BY <1>1, <2>1, <2>3 DEF Endless
    <3>2. \A r \in Queues \ {q} : ~Endless(n, r)
      BY <2>1, <2>2 DEF Sound, Ends, Endless
    <3> QED BY <3>1, <3>2 DEF Ends
  <2>6. Apart(n)
    BY <2>4 DEF Sound, Apart
  <2>7. FirstIsFirst(n)
    BY <1>4, <2>1 DEF Sound, FirstIsFirst
  <2>8. NextOfOne(n) /\ Loose(n)
    BY <2>1, <2>4 DEF Sound, NextOfOne, Loose
  <2> QED BY <2>1, <2>4, <2>5, <2>6, <2>7, <2>8 DEF Sound
<1>6. ASSUME h.head[q] # Null, NEW last \in Members(h, q), h.next[last] = Null,
             n = [h EXCEPT !.next[last] = t]
      PROVE  /\ n \in Heap /\ Sound(n)
             /\ \A g \in Greens, r \in Queues :
                  g \in Members(n, r) <=> g \in Members(h, r) \/ (r = q /\ g = t)
             /\ \A r \in Queues \ {q} : n.head[r] = h.head[r]
  <2>1. last \in Greens /\ last # t
    BY <1>3
  <2>2. /\ n \in Heap /\ n.head = h.head /\ n.next = [h.next EXCEPT ![last] = t]
        /\ n.next[last] = t /\ \A g \in Greens \ {last} : n.next[g] = h.next[g]
    BY <1>1, <1>6, <2>1 DEF Heap
  <2>3. Members(n, q) = Members(h, q) \cup {t}
    <3>1. n \in Heap /\ last \in Members(h, q) /\ h.next[last] = Null /\ last \notin Chain(h, t)
          /\ n.head[q] = h.head[q] /\ n.next = [h.next EXCEPT ![last] = t] /\ t \in Pointer
      BY <1>1, <1>2, <1>6, <2>1, <2>2
    <3>2. Members(n, q) = Members(h, q) \cup Chain(h, t)
      BY ONLY <3>1, AppendChain, h \in Heap, q \in Queues
    <3> QED BY <1>2, <3>2
  <2>4. \A r \in Queues \ {q} : Members(n, r) = Members(h, r)
    <3> SUFFICES ASSUME NEW r \in Queues \ {q} PROVE Members(n, r) = Members(h, r)
      OBVIOUS
    <3>1. last \notin Members(h, r)
      BY <1>6, <2>1 DEF Sound, Apart
    <3>2. \A g \in Members(h, r) : n.next[g] = h.next[g]
      BY <1>3, <2>2, <3>1
    <3> QED BY <2>2, <3>2, QueueFrame
  <2>5. \A g \in Greens, r \in Queues :
          g \in Members(n, r) <=> g \in Members(h, r) \/ (r = q /\ g = t)
    BY <2>3, <2>4
  <2>6. Ends(n)
    <3>1. ~Endless(n, q)
      BY <1>1, <2>1, <2>2, <2>3 DEF Endless
    <3>2. \A r \in Queues \ {q} : ~Endless(n, r)
      <4> SUFFICES ASSUME NEW r \in Queues \ {q}, n.head[r] # Null
                   PROVE  \E g \in Members(n, r) : n.next[g] = Null
        BY DEF Endless
      <4>1. PICK g \in Members(h, r) : h.next[g] = Null
        BY <2>2 DEF Sound, Ends, Endless
      <4>2. g # last /\ g \in Greens
        BY <1>3, <1>6, <2>1 DEF Sound, Apart
      <4> QED BY <2>2, <2>4, <4>1, <4>2
    <3> QED BY <3>1, <3>2 DEF Ends
  <2>7. Apart(n)
    BY <2>5 DEF Sound, Apart
  <2>8. FirstIsFirst(n)
    <3> SUFFICES ASSUME NEW g \in Greens, NEW r \in Queues, n.head[r] # Null
                 PROVE  n.next[g] # n.head[r]
      BY DEF FirstIsFirst
    <3>1. t # h.head[r]
      BY <1>3, <2>2
    <3> QED BY <2>2, <3>1 DEF Sound, FirstIsFirst
  <2>9. NextOfOne(n)
    BY <1>4, <2>2 DEF Sound, NextOfOne
  <2>10. Loose(n)
    <3> SUFFICES ASSUME NEW g \in Greens, n.next[g] # Null
                 PROVE  \E r \in Queues : g \in Members(n, r)
      BY DEF Loose
    <3>1. CASE g = last
      BY <1>6, <2>3, <3>1
    <3>2. CASE g # last
      BY <2>1, <2>2, <2>5, <3>2 DEF Sound, Loose
    <3> QED BY <3>1, <3>2
  <2> QED BY <2>2, <2>5, <2>6, <2>7, <2>8, <2>9, <2>10 DEF Sound
<1> QED BY <1>5, <1>6 DEF Queueing

LEMMA EnqueueSound ==
  ASSUME NEW h \in Heap, NEW q \in Queues, NEW t \in Greens,
         Sound(h), \A r \in Queues : t \notin Members(h, r)
  PROVE  /\ ~Endless(h, q)
         /\ Enqueue(h, q, t) \in Heap /\ Sound(Enqueue(h, q, t))
         /\ \A g \in Greens, r \in Queues :
              g \in Members(Enqueue(h, q, t), r) <=> g \in Members(h, r) \/ (r = q /\ g = t)
         /\ \A r \in Queues \ {q} : Enqueue(h, q, t).head[r] = h.head[r]
         /\ Enqueue(h, q, t).head[q] # Null
<1>1. ~Endless(h, q)
  BY DEF Sound, Ends
<1>2. Queueing(h, Enqueue(h, q, t), q, t)
  <2>1. CASE h.head[q] = Null
    BY <2>1 DEF Enqueue, Queueing
  <2>2. CASE h.head[q] # Null
    <3>1. Last(h, q) \in Members(h, q) /\ h.next[Last(h, q)] = Null
      BY <1>1, <2>2, LastIsLast
    <3> QED BY <2>2, <3>1 DEF Enqueue, Queueing
  <2> QED BY <2>1, <2>2
<1> DEFINE n == Enqueue(h, q, t)
<1> HIDE DEF n
<1>3. /\ n \in Heap /\ Sound(n)
      /\ \A g \in Greens, r \in Queues :
           g \in Members(n, r) <=> g \in Members(h, r) \/ (r = q /\ g = t)
      /\ \A r \in Queues \ {q} : n.head[r] = h.head[r]
  BY <1>2, QueueSound DEF n
<1>4. n.head[q] # Null
  BY <1>3, HeadIsMember
<1> QED BY <1>1, <1>3, <1>4 DEF n

(* dequeue takes the first thread off its queue.                           *)
LEMMA DequeueSound ==
  ASSUME NEW h \in Heap, NEW q \in Queues, Sound(h), h.head[q] # Null
  PROVE  /\ h.head[q] \in Greens /\ h.head[q] \in Members(h, q)
         /\ Dequeue(h, q) \in Heap /\ Sound(Dequeue(h, q))
         /\ \A g \in Greens, r \in Queues :
              g \in Members(Dequeue(h, q), r) <=> g \in Members(h, r) /\ g # h.head[q]
         /\ \A r \in Queues \ {q} : Dequeue(h, q).head[r] = h.head[r]
<1> USE NullAssumption
<1> DEFINE a == h.head[q]
           b == h.next[a]
           n == Dequeue(h, q)
           C == Members(h, q)
           N == Members(n, q)
<1>1. /\ n \in Heap /\ a \in Greens /\ a \in C /\ C \subseteq Greens /\ b \in Pointer
      /\ h.head \in [Queues -> Pointer] /\ h.next \in [Greens -> Pointer]
  BY DequeueType, HeadIsMember DEF Heap
<1>2. /\ n.head = [h.head EXCEPT ![q] = b] /\ n.next = [h.next EXCEPT ![a] = Null]
  BY DEF Dequeue
<1> HIDE DEF n
<1>3. /\ n.head[q] = b /\ \A r \in Queues \ {q} : n.head[r] = h.head[r]
      /\ n.next[a] = Null /\ \A g \in Greens \ {a} : n.next[g] = h.next[g]
  BY <1>1, <1>2
<1>4. /\ C = Chain(h, a) /\ N = Chain(n, b)
      /\ \A g \in Greens : h.next[g] # a
      /\ b # Null => b \in C
      /\ \A g \in C : h.next[g] # Null => h.next[g] \in C
  <2>1. C = Chain(h, a) /\ N = Chain(n, b)
    BY <1>3 DEF Members
  <2>2. \A g \in C : h.next[g] # Null => h.next[g] \in C
    BY <1>1, <2>1, ChainClosed DEF Pointer
  <2> QED BY <1>1, <2>1, <2>2 DEF Sound, FirstIsFirst
<1>5. /\ N \subseteq Greens /\ (b # Null => b \in N)
      /\ \A g \in N : n.next[g] # Null => n.next[g] \in N
  BY <1>1, <1>4, ChainClosed
<1>6. b # a
  BY <1>1, <1>4
<1>7. a \in Pointer /\ a # Null
  BY <1>1 DEF Pointer
<1> HIDE DEF C, N, a, b
<1>8. Chain(n, b) \subseteq C \ {a}
  <2>1. \A g \in C \ {a} : n.next[g] # Null => n.next[g] \in C \ {a}
    BY <1>1, <1>3, <1>4
  <2>2. C \ {a} \in SUBSET Greens /\ (b # Null => b \in C \ {a})
    BY <1>1, <1>4, <1>6
  <2> QED BY <2>1, <2>2, ChainLeast
<1>9. Chain(h, a) \subseteq N \cup {a}
  <2>1. ASSUME NEW g \in N \cup {a}, h.next[g] # Null PROVE h.next[g] \in N \cup {a}
    <3>1. CASE g = a
      BY <1>5, <2>1, <3>1 DEF b
    <3>2. CASE g # a
      BY <1>3, <1>5, <2>1, <3>2
    <3> QED BY <3>1, <3>2
  <2> DEFINE S == N \cup {a}
  <2>2. S \in SUBSET Greens /\ (a # Null => a \in S)
    BY <1>1, <1>5
  <2>3. \A g \in S : h.next[g] # Null => h.next[g] \in S
    BY <2>1
  <2> HIDE DEF S
  <2>4. Chain(h, a) \subseteq S
    BY <2>2, <2>3, ChainLeast
  <2> QED BY <2>4 DEF S
<1>10. N = C \ {a}
  BY <1>4, <1>8, <1>9
<1>11. \A r \in Queues \ {q} : Members(n, r) = Members(h, r) /\ a \notin Members(h, r)
  <2> SUFFICES ASSUME NEW r \in Queues \ {q}
               PROVE  Members(n, r) = Members(h, r) /\ a \notin Members(h, r)
    OBVIOUS
  <2>1. a \notin Members(h, r)
    BY <1>1 DEF Sound, Apart, C
  <2>2. Members(h, r) \subseteq Greens
    BY HeadIsMember
  <2>3. \A g \in Members(h, r) : n.next[g] = h.next[g]
    BY <1>3, <2>1, <2>2
  <2> QED BY <1>1, <1>3, <2>1, <2>3, QueueFrame
<1>12. \A g \in Greens, r \in Queues : g \in Members(n, r) <=> g \in Members(h, r) /\ g # a
  BY <1>10, <1>11 DEF C, N
<1>13. Ends(n)
  <2> SUFFICES ASSUME NEW r \in Queues, n.head[r] # Null
               PROVE  \E g \in Members(n, r) : n.next[g] = Null
    BY DEF Ends, Endless
  <2>1. h.head[r] # Null
    BY <1>3, <1>7 DEF a
  <2>2. PICK g \in Members(h, r) : h.next[g] = Null
    BY <2>1 DEF Sound, Ends, Endless
  <2>3. g \in Greens
    BY HeadIsMember
  <2>4. g # a
    <3>1. CASE r = q
      <4>1. b # Null /\ b = h.next[a]
        BY <1>3, <3>1 DEF b
      <4> QED BY <2>2, <4>1
    <3>2. CASE r # q
      BY <1>11, <2>2, <3>2
    <3> QED BY <3>1, <3>2
  <2> QED BY <1>3, <1>12, <2>2, <2>3, <2>4
<1>14. Apart(n)
  BY <1>12 DEF Sound, Apart
<1>15. NextOfOne(n)
  BY <1>3 DEF Sound, NextOfOne
<1>16. FirstIsFirst(n)
  <2> SUFFICES ASSUME NEW g \in Greens, NEW r \in Queues, n.head[r] # Null, n.next[g] = n.head[r]
               PROVE  FALSE
    BY DEF FirstIsFirst
  <2>1. g # a /\ h.next[g] = n.head[r]
    BY <1>3
  <2>2. r = q
    BY <1>3, <2>1 DEF Sound, FirstIsFirst
  <2> QED BY <1>1, <1>3, <2>1, <2>2 DEF Sound, NextOfOne, b
<1>17. Loose(n)
  BY <1>3, <1>12 DEF Sound, Loose
<1> QED BY <1>1, <1>3, <1>12, <1>13, <1>14, <1>15, <1>16, <1>17 DEF Sound, a, n, C

(* The whole of the queue from is put behind the queue q.                  *)
LEMMA MoveSound ==
  ASSUME NEW h \in Heap, NEW q \in Queues, NEW from \in Queues, from # q, Sound(h)
  PROVE  LET n == [Enqueue(h, q, h.head[from]) EXCEPT !.head[from] = Null] IN
         /\ n \in Heap /\ Sound(n)
         /\ \A g \in Greens, r \in Queues :
              g \in Members(n, r) <=> \/ r \notin {q, from} /\ g \in Members(h, r)
                                      \/ r = q /\ (g \in Members(h, q) \/ g \in Members(h, from))
         /\ \A r \in Queues \ {q, from} : n.head[r] = h.head[r]
         /\ n.head[from] = Null
<1> USE NullAssumption
<1> DEFINE t == h.head[from]
           k == Enqueue(h, q, t)
           n == [k EXCEPT !.head[from] = Null]
           last == Last(h, q)
<1>1. /\ t \in Pointer /\ h.head \in [Queues -> Pointer] /\ h.next \in [Greens -> Pointer]
      /\ \A r \in Queues : /\ Members(h, r) \subseteq Greens
                           /\ h.head[r] = Null <=> Members(h, r) = {}
                           /\ h.head[r] # Null => h.head[r] \in Members(h, r)
      /\ Members(h, from) = Chain(h, t)
  <2>1. \A r \in Queues : /\ Members(h, r) \subseteq Greens
                          /\ h.head[r] = Null <=> Members(h, r) = {}
                          /\ h.head[r] # Null => h.head[r] \in Members(h, r)
    BY HeadIsMember
  <2> QED BY <2>1 DEF Heap, Members
<1>2. k \in Heap /\ Null \in Pointer
  BY <1>1, EnqueueType DEF Pointer
<1>3. /\ n \in Heap /\ n.next = k.next /\ n.head[from] = Null
      /\ \A r \in Queues \ {from} : n.head[r] = k.head[r]
  BY <1>2 DEF Heap
<1>4. CASE h.head[q] = Null
  <2>1. k = [h EXCEPT !.head[q] = t]
    BY <1>4 DEF Enqueue
  <2>2. /\ k.head = [h.head EXCEPT ![q] = t] /\ k.next = h.next
        /\ k.head[q] = t /\ \A r \in Queues \ {q} : k.head[r] = h.head[r]
    BY <1>1, <2>1 DEF Heap
  <2> HIDE DEF n, k, t
  <2>3. /\ n.next = h.next /\ n.head[q] = t /\ n.head[from] = Null
        /\ \A r \in Queues \ {q, from} : n.head[r] = h.head[r]
    BY <1>3, <2>2
  <2>4. \A r \in Queues \ {q, from} : Members(n, r) = Members(h, r)
    BY <1>3, <2>3, QueueFrame
  <2>5. Members(n, from) = {} /\ Members(h, q) = {}
    BY <1>1, <1>3, <1>4, <2>3, HeadIsMember
  <2>6. Members(n, q) = Members(h, from)
    <3>1. Chain(n, t) = Chain(h, t)
      BY <1>1, <1>3, <2>3, ChainFrame
    <3> QED BY <1>1, <2>3, <3>1 DEF Members
  <2>7. \A g \in Greens, r \in Queues :
          g \in Members(n, r) <=> \/ r \notin {q, from} /\ g \in Members(h, r)
                                  \/ r = q /\ (g \in Members(h, q) \/ g \in Members(h, from))
    BY <2>4, <2>5, <2>6
  <2>8. Ends(n)
    <3>1. \A r \in Queues \ {q, from} : ~Endless(n, r)
      BY <2>3, <2>4 DEF Sound, Ends, Endless
    <3>2. ~Endless(n, from)
      BY <2>3 DEF Endless
    <3>3. ~Endless(n, q)
      BY <2>3, <2>6 DEF Sound, Ends, Endless, t
    <3> QED BY <3>1, <3>2, <3>3 DEF Ends
  <2>9. Apart(n)
    BY <2>4, <2>5, <2>6 DEF Sound, Apart
  <2>10. FirstIsFirst(n)
    <3>1. \A r \in Queues : n.head[r] # Null => \E p \in Queues : n.head[r] = h.head[p]
      BY <2>3 DEF t
    <3> QED BY <2>3, <3>1 DEF Sound, FirstIsFirst
  <2>11. NextOfOne(n)
    BY <2>3 DEF Sound, NextOfOne
  <2>12. Loose(n)
    <3> SUFFICES ASSUME NEW g \in Greens, n.next[g] # Null
                 PROVE  \E r \in Queues : g \in Members(n, r)
      BY DEF Loose
    <3>1. PICK r \in Queues : g \in Members(h, r)
      BY <2>3 DEF Sound, Loose
    <3> QED BY <2>7, <3>1
  <2> QED BY <1>3, <2>3, <2>7, <2>8, <2>9, <2>10, <2>11, <2>12 DEF Sound, n, k, t
<1>5. CASE h.head[q] # Null
  <2>1. last \in Members(h, q) /\ h.next[last] = Null /\ last \in Greens
    BY <1>5, LastIsLast DEF Sound, Ends
  <2>2. k = [h EXCEPT !.next[last] = t]
    BY <1>5 DEF Enqueue
  <2>3. k.next = [h.next EXCEPT ![last] = t] /\ k.head = h.head
    BY <1>1, <2>1, <2>2 DEF Heap
  <2> HIDE DEF n, k, t, last
  <2>4. /\ n.next[last] = t /\ \A g \in Greens \ {last} : n.next[g] = h.next[g]
        /\ n.head[from] = Null /\ \A r \in Queues \ {from} : n.head[r] = h.head[r]
    BY <1>1, <1>3, <2>1, <2>3
  <2>5. \A r \in Queues \ {q} : last \notin Members(h, r)
    BY <2>1 DEF Sound, Apart
  <2>6. \A r \in Queues \ {q, from} : Members(n, r) = Members(h, r)
    <3> SUFFICES ASSUME NEW r \in Queues \ {q, from} PROVE Members(n, r) = Members(h, r)
      OBVIOUS
    <3>1. \A g \in Members(h, r) : n.next[g] = h.next[g]
      BY <1>1, <2>4, <2>5
    <3> QED BY <1>3, <2>4, <3>1, QueueFrame
  <2>7. Members(n, from) = {}
    BY <1>3, <2>4, HeadIsMember
  <2>8. Members(n, q) = Members(h, q) \cup Members(h, from)
    <3>1. /\ last \notin Chain(h, t) /\ n.next = [h.next EXCEPT ![last] = t]
          /\ n.head[q] = h.head[q]
      BY <1>1, <1>3, <2>3, <2>4, <2>5
    <3>2. Members(n, q) = Members(h, q) \cup Chain(h, t)
      BY ONLY <1>1, <1>3, <2>1, <3>1, AppendChain, h \in Heap, q \in Queues
    <3> QED BY <1>1, <3>2
  <2>9. \A g \in Greens, r \in Queues :
          g \in Members(n, r) <=> \/ r \notin {q, from} /\ g \in Members(h, r)
                                  \/ r = q /\ (g \in Members(h, q) \/ g \in Members(h, from))
    BY <2>6, <2>7, <2>8
  <2>10. Ends(n)
    <3>1. ASSUME NEW r \in Queues \ {q, from} PROVE ~Endless(n, r)
      <4> SUFFICES ASSUME n.head[r] # Null PROVE \E g \in Members(n, r) : n.next[g] = Null
        BY DEF Endless
      <4>1. PICK g \in Members(h, r) : h.next[g] = Null
        BY <2>4 DEF Sound, Ends, Endless
      <4> QED BY <1>1, <2>4, <2>5, <2>6, <4>1
    <3>2. ~Endless(n, from)
      BY <2>4 DEF Endless
    <3>3. ~Endless(n, q)
      <4>1. CASE t = Null
        BY <2>1, <2>4, <2>8, <4>1 DEF Endless
      <4>2. CASE t # Null
        <5>1. PICK g \in Members(h, from) : h.next[g] = Null
          BY <4>2 DEF Sound, Ends, Endless, t
        <5>2. g \in Greens /\ g # last
          BY <1>1, <2>5, <5>1
        <5> QED BY <2>4, <2>8, <5>1, <5>2 DEF Endless
      <4> QED BY <4>1, <4>2
    <3> QED BY <3>1, <3>2, <3>3 DEF Ends
  <2>11. Apart(n)
    BY <2>6, <2>7, <2>8 DEF Sound, Apart
  <2>12. FirstIsFirst(n)
    <3> SUFFICES ASSUME NEW g \in Greens, NEW r \in Queues, n.head[r] # Null
                 PROVE  n.next[g] # n.head[r]
      BY DEF FirstIsFirst
    <3>1. r # from /\ n.head[r] = h.head[r]
      BY <2>4
    <3>2. h.head[r] # t
      BY <1>1, <3>1 DEF Sound, Apart, t
    <3> QED BY <2>4, <3>1, <3>2 DEF Sound, FirstIsFirst
  <2>13. NextOfOne(n)
    <3>1. t # Null => \A g \in Greens : h.next[g] # t
      BY DEF Sound, FirstIsFirst, t
    <3> QED BY <2>1, <2>4, <3>1 DEF Sound, NextOfOne
  <2>14. Loose(n)
    <3> SUFFICES ASSUME NEW g \in Greens, n.next[g] # Null
                 PROVE  \E r \in Queues : g \in Members(n, r)
      BY DEF Loose
    <3>1. PICK r \in Queues : g \in Members(h, r)
      <4>1. CASE g = last
        BY <2>1, <4>1
      <4>2. CASE g # last
        BY <2>4, <4>2 DEF Sound, Loose
      <4> QED BY <4>1, <4>2
    <3> QED BY <2>9, <3>1
  <2>15. Sound(n)
    BY <2>10, <2>11, <2>12, <2>13, <2>14 DEF Sound
  <2> QED BY <1>3, <2>4, <2>9, <2>15 DEF n, k, t
<1> QED BY <1>4, <1>5
-----------------------------------------------------------------------------
(* What is known of the executing thread.                                  *)
LEMMA Executing ==
  ASSUME IInv, Alive, Sched
  PROVE  /\ cur \in Greens /\ frame[cur] \in Frames /\ Live(cur)
         /\ frame \in [Greens -> Frames] /\ heap \in Heap
         /\ Stands(frame[cur].op, frame[cur].at)
         /\ Settled \in Heap
         /\ Hand \subseteq Greens
         /\ \A g \in Greens, q \in Queues : In(g, q) => Placed(g)
         /\ \A g, u \in Greens : Awaits(g, u) => Placed(g)
<1>1. cur \in Greens /\ frame[cur] \in Frames /\ heap \in Heap /\ frame \in [Greens -> Frames]
  BY DEF IInv, TypeOK
<1>2. Stands(frame[cur].op, frame[cur].at) /\ Live(cur) /\ Hand \subseteq Greens
  BY <1>1 DEF Frames, Sched, OthersRest, InHand
<1>3. Settled \in Heap
  <2>1. CASE frame[cur].at = "clear"
    <3>1. frame[cur].node \in Greens
      BY <1>2, <2>1 DEF Hand, EnqueueStages
    <3> QED BY <1>1, <2>1, <3>1 DEF Settled, Heap, Pointer
  <2>2. CASE frame[cur].at # "clear"
    BY <1>1, <2>2 DEF Settled
  <2> QED BY <2>1, <2>2
<1> QED BY <1>1, <1>2, <1>3 DEF Placed

(* The executing thread enters a join, of a thread that has not ended.     *)
Joins(f) ==
  /\ f.op = "join" /\ f.at = "register" /\ "join" \in May[cur]
  /\ f.target \in Greens \ {cur} /\ Live(f.target) /\ frame[f.target].op # "exit"

(* A step of the executing thread that leaves the CPU, the contexts and    *)
(* the joins alone, puts what was in hand on the ready queue or keeps it,  *)
(* and takes in hand nothing but a queued thread or itself.                *)
LEMMA LocalStep ==
  ASSUME IInv, Alive, Sched, NEW f \in Frames, SetFrame(f),
         UNCHANGED <<cur, ctx, join>>,
         taken => taken', heap'.head["susp"] = heap.head["susp"],
         zombie' = zombie \/ zombie' = [zombie EXCEPT ![cur] = TRUE],
         \A g \in Greens, q \in Queues :
           In(g, q)' <=> (In(g, q) \/ (q = "ready" /\ g \in Hand)) /\ g \notin Hand',
         \A g \in Hand' : \/ g \in Hand
                          \/ g \in Greens /\ \E q \in Queues : In(g, q)
                          \/ g = cur /\ ~Parted,
         cur \in Hand' => f.op = "yield",
         f.op \notin {"none", "gone", "wait"},
         f.op = "exit" <=> frame[cur].op = "exit",
         f.op = "join" => \/ /\ frame[cur].op = "join" /\ f.target = frame[cur].target
                             /\ frame[cur].at \in DequeueStages /\ f.at \in DequeueStages
                          \/ Joins(f),
         frame[cur].op = "join" /\ f.op # "join" => ~Parted,
         Parted => Parted',
         cur \in Hand /\ cur \notin Hand' => Parted',
         Parted' /\ ~Parted => cur \in Hand,
         frame[cur].at = "retry" => taken',
         Sound(Settled)', Endings', Standing', Counted'
  PROVE  Sched'
<1>1. /\ cur \in Greens /\ frame \in [Greens -> Frames] /\ Live(cur)
      /\ frame'[cur] = f /\ \A g \in Greens \ {cur} : frame'[g] = frame[g]
      /\ Hand \subseteq Greens
      /\ \A g \in Greens, q \in Queues : In(g, q) => Placed(g)
      /\ \A g, u \in Greens : Awaits(g, u) => Placed(g)
  BY Executing DEF SetFrame
<1>2. \A g \in Greens : Live(g)' <=> Live(g)
  BY <1>1 DEF Live
<1>3. \A g, u \in Greens : Awaits(g, u)' <=> Awaits(g, u)
  BY <1>1, <1>2 DEF Awaits
<1>4. Hand' \subseteq Greens
  BY <1>1
<1>5. Placement'
  <2> SUFFICES ASSUME NEW g \in Greens
               PROVE  Placed(g)' <=> Live(g)' /\ g \notin Hand' /\ (g = cur' => Parted')
    BY DEF Placement
  <2>1. Placed(g) <=> Live(g) /\ g \notin Hand /\ (g = cur => Parted)
    BY DEF Sched, Placement
  <2>2. \A u \in Greens : Awaits(g, u) => \A q \in Queues : ~In(g, q)
    BY DEF Sched, OnePlace
  <2>3. ASSUME NEW u \in Greens, Awaits(g, u)' PROVE Live(g)' /\ g \notin Hand' /\ (g = cur' => Parted')
    BY <1>1, <1>2, <1>3, <2>1, <2>2, <2>3
  <2>4. ASSUME NEW q \in Queues, In(g, q)' PROVE Live(g)' /\ g \notin Hand' /\ (g = cur' => Parted')
    BY <1>1, <1>2, <2>1, <2>4 DEF Sched, InHand
  <2>5. ASSUME Live(g)', g \notin Hand', g = cur' => Parted' PROVE Placed(g)'
    <3>1. CASE g \in Hand
      BY <2>5, <3>1 DEF Placed, Queues
    <3>2. CASE g \notin Hand
      <4>1. Placed(g)
        BY <1>2, <2>1, <2>5, <3>2
      <4> QED BY <1>3, <2>5, <4>1 DEF Placed
    <3> QED BY <3>1, <3>2
  <2> QED BY <2>3, <2>4, <2>5 DEF Placed
<1>6. OnePlace'
  <2> SUFFICES ASSUME NEW g \in Greens, NEW u \in Greens, Awaits(g, u)'
               PROVE  /\ \A q \in Queues : ~In(g, q)'
                      /\ frame'[g].op = "join" /\ frame'[g].at # "register" /\ frame'[g].target = u
    BY DEF OnePlace
  <2>1. Awaits(g, u)
    BY <1>3
  <2>2. /\ \A q \in Queues : ~In(g, q)
        /\ frame[g].op = "join" /\ frame[g].at # "register" /\ frame[g].target = u
    BY <2>1 DEF Sched, OnePlace
  <2>3. g \notin Hand /\ (g = cur => Parted)
    BY <1>1, <2>1 DEF Sched, Placement
  <2>4. \A q \in Queues : ~In(g, q)'
    BY <2>2, <2>3
  <2>5. CASE g = cur
    BY <1>1, <2>2, <2>3, <2>4, <2>5 DEF Parted, DequeueStages, Joins
  <2>6. CASE g # cur
    BY <1>1, <2>2, <2>4, <2>6
  <2> QED BY <2>5, <2>6
<1>7. InHand'
  <2> SUFFICES ASSUME NEW g \in Hand'
               PROVE  g \in Greens /\ Live(g)' /\ (g = cur' => frame'[cur].op = "yield")
    BY DEF InHand
  <2>1. g \in Greens
    BY <1>1 DEF Sched, InHand
  <2>2. Live(g)
    BY <1>1, <2>1 DEF Sched, InHand, Placement
  <2> QED BY <1>1, <1>2, <2>1, <2>2
<1>8. SleepersRetry'
  <2>1. \A g \in Greens : /\ In(g, "susp")' => In(g, "susp") /\ (g = cur => Parted)
                          /\ In(g, "waiting")' => In(g, "waiting") /\ (g = cur => Parted)
    <3>1. \A g \in Greens : Placed(g) => (g = cur => Parted)
      BY DEF Sched, Placement
    <3> QED BY <1>1, <3>1 DEF Queues
  <2> SUFFICES ASSUME NEW g \in Greens
               PROVE  /\ In(g, "susp")' => frame'[g].at = "retry"
                      /\ In(g, "waiting")' => frame'[g].op = "wait"
    BY DEF SleepersRetry
  <2>2. /\ In(g, "susp")' => frame[g].at = "retry" /\ (g = cur => Parted)
        /\ In(g, "waiting")' => frame[g].op = "wait" /\ (g = cur => Parted)
    BY <2>1 DEF Sched, SleepersRetry
  <2>3. In(g, "susp")' \/ In(g, "waiting")' => frame'[g] = frame[g]
    BY <1>1, <2>2 DEF Parted, DequeueStages
  <2> QED BY <2>2, <2>3
<1>9. JoinKept'
  <2> SUFFICES ASSUME NEW g \in Greens, frame'[g].op = "join", NEW u, u = frame'[g].target
               PROVE  /\ u \in Greens /\ frame'[u].op # "none" /\ u # g
                      /\ frame'[g].at = "register" => Live(u)' /\ frame'[u].op # "exit"
                      /\ frame'[g].at # "register" =>
                           \/ Awaits(g, u)'
                           \/ frame'[g].at = "return"
                                /\ (zombie'[u] \/ (u = cur' /\ frame'[u].op = "exit"))
    BY DEF JoinKept
  <2>0. CASE g = cur /\ Joins(f)
    BY <1>1, <1>2, <2>0 DEF Joins, Live
  <2> SUFFICES ASSUME ~(g = cur /\ Joins(f))
               PROVE  /\ u \in Greens /\ frame'[u].op # "none" /\ u # g
                      /\ frame'[g].at = "register" => Live(u)' /\ frame'[u].op # "exit"
                      /\ frame'[g].at # "register" =>
                           \/ Awaits(g, u)'
                           \/ frame'[g].at = "return"
                                /\ (zombie'[u] \/ (u = cur' /\ frame'[u].op = "exit"))
    BY <2>0
  <2>1. /\ frame[g].op = "join" /\ u = frame[g].target
        /\ frame[g].at # "register" /\ frame'[g].at # "register"
        /\ frame'[g].at = "return" <=> frame[g].at = "return"
    <3>1. CASE g = cur
      BY <1>1, <3>1 DEF DequeueStages
    <3>2. CASE g # cur
      BY <1>1, <3>2 DEF Sched, OthersRest
    <3> QED BY <3>1, <3>2
  <2>2. /\ u \in Greens /\ frame[u].op # "none" /\ u # g
        /\ \/ Awaits(g, u)
           \/ frame[g].at = "return" /\ (zombie[u] \/ (u = cur /\ frame[u].op = "exit"))
    BY <2>1 DEF Sched, JoinKept
  <2>3. frame'[u].op # "none"
    BY <1>1, <2>2
  <2>4. zombie[u] => zombie'[u]
    BY <2>2 DEF IInv, TypeOK
  <2> QED BY <1>1, <1>3, <2>1, <2>2, <2>3, <2>4
<1>10. OthersRest'
  BY <1>1, <1>2 DEF Sched, OthersRest
<1>11. Resumable'
  BY <1>1, <1>2 DEF Sched, Resumable
<1>12. AsCalled'
  <2> SUFFICES ASSUME NEW g \in Greens, frame'[g].op \in {"join", "wait"}
               PROVE  frame'[g].op \in May[g]
    BY DEF AsCalled
  <2>1. frame'[g].op = frame[g].op \/ (g = cur /\ Joins(f))
    BY <1>1
  <2> QED BY <1>1, <2>1 DEF Sched, AsCalled, Joins
<1>13. SomebodyLooks'
  <2> SUFFICES ASSUME ~taken', heap'.head["susp"] # Null
               PROVE  \E g \in Greens : (In(g, "ready")' \/ g \in Hand' \/ g = cur')
                                        /\ frame'[g].at = "retry"
    BY DEF SomebodyLooks
  <2>1. PICK g \in Greens : (In(g, "ready") \/ g \in Hand \/ g = cur) /\ frame[g].at = "retry"
    BY DEF Sched, SomebodyLooks
  <2>2. g # cur
    BY <2>1
  <2> QED BY <1>1, <2>1, <2>2 DEF Queues
<1> QED BY <1>5, <1>6, <1>7, <1>8, <1>9, <1>10, <1>11, <1>12, <1>13 DEF Sched

(* The queues hold finitely many threads.                                  *)
LEMMA FiniteQueue ==
  ASSUME NEW h \in Heap, NEW q \in Queues
  PROVE  /\ IsFiniteSet(Members(h, q)) /\ Cardinality(Members(h, q)) \in Nat
         /\ Cardinality(Members(h, q)) = 0 <=> Members(h, q) = {}
<1>1. Members(h, q) \subseteq Greens
  BY HeadIsMember
<1>2. IsFiniteSet(Members(h, q))
  BY <1>1, GreenAssumption, FS_Subset
<1> QED BY <1>2, FS_CardinalityType, FS_EmptySet

(* Except between the second and the third statement of dequeue, the       *)
(* queues are as they stand.                                               *)
LEMMA SettledNow ==
  ASSUME frame[cur].at # "clear"
  PROVE  Settled = heap /\ \A g, q : In(g, q) <=> g \in Members(heap, q)
BY DEF Settled, In

LEMMA SettledThen ==
  ASSUME frame'[cur'].at # "clear"
  PROVE  Settled' = heap' /\ \A g, q : In(g, q)' <=> g \in Members(heap', q)
BY DEF Settled, In

(* The end of a thread goes on in its order.                               *)
Early == EnqueueStages \cup {"free"}

LEMMA EndingsStep ==
  ASSUME IInv, Alive, Sched, NEW f \in Frames, SetFrame(f), UNCHANGED <<cur, zombie, freed>>,
         f.op # "gone", f.op = "exit" <=> frame[cur].op = "exit",
         f.op = "exit" => /\ f.at \in Early => frame[cur].at \in Early
                          /\ f.at \in DequeueStages => frame[cur].at \in DequeueStages
  PROVE  Endings'
<1>1. /\ cur \in Greens /\ frame'[cur] = f /\ \A g \in Greens \ {cur} : frame'[g] = frame[g]
      /\ Live(cur) /\ freed \subseteq Greens
  BY Executing DEF SetFrame, IInv, TypeOK
<1>2. Endings
  BY DEF Sched
<1>3. \A g \in Greens : frame'[g].op = "gone" => zombie'[g]
  BY <1>1, <1>2 DEF Endings
<1>4. frame'[cur'].op = "exit" /\ frame'[cur'].at \in DequeueStages => zombie'[cur']
  BY <1>1, <1>2 DEF Endings
<1>5. \A g \in freed' :
        \/ frame'[g].op = "gone"
        \/ /\ g = cur' /\ frame'[cur'].op = "exit"
           /\ frame'[cur'].at # "free" /\ frame'[cur'].at \notin EnqueueStages
  BY <1>1, <1>2 DEF Endings, Early, Live
<1> QED BY <1>3, <1>4, <1>5 DEF Endings

(* A step from one statement to another that leaves the queues alone and   *)
(* at most takes the executing thread in hand.                             *)
LEMMA StillStep ==
  ASSUME IInv, Alive, Sched, NEW f \in Frames, SetFrame(f),
         UNCHANGED <<heap, cur, ctx, join>>,
         frame[cur].at # "clear", f.at # "clear", frame[cur].at # "retry" \/ taken',
         taken => taken', zombie' = zombie \/ zombie' = [zombie EXCEPT ![cur] = TRUE],
         Hand' = Hand \/ (Hand = {} /\ Hand' = {cur} /\ ~Parted /\ f.op = "yield"),
         f.op \notin {"none", "gone", "wait"},
         f.op = "exit" <=> frame[cur].op = "exit",
         f.op = "yield" \/ frame[cur].op # "yield",
         f.op = "join" => \/ /\ frame[cur].op = "join" /\ f.target = frame[cur].target
                             /\ frame[cur].at \in DequeueStages /\ f.at \in DequeueStages
                          \/ Joins(f),
         frame[cur].op = "join" /\ f.op # "join" => ~Parted,
         Parted <=> Parted',
         numSusp' \in Int, numSusp' - Owed' = numSusp - Owed,
         Endings', Standing'
  PROVE  Sched'
<1>1. /\ cur \in Greens /\ frame'[cur'] = f /\ heap \in Heap
      /\ \A g \in Greens, q \in Queues : In(g, q) => Placed(g)
  BY Executing DEF SetFrame
<1>2. Settled = heap /\ Settled' = heap'
  BY <1>1, SettledNow, SettledThen
<1>3. Sound(Settled)'
  BY <1>2 DEF Sched
<1>4. \A g, q : In(g, q)' <=> In(g, q)
  BY <1>1, SettledNow, SettledThen
<1>5. Counted'
  <2>1. Cardinality(Members(heap, "waiting")) \in Nat
    BY <1>1, FiniteQueue DEF Queues
  <2>2. Owed \in {0, 1} /\ Owed' \in {0, 1} /\ numSusp \in Int
    BY DEF Owed, IInv, TypeOK
  <2>3. numSusp = Cardinality(Members(heap, "waiting")) + Owed
    BY <1>2 DEF Sched, Counted
  <2>4. numSusp' = Cardinality(Members(heap', "waiting")) + Owed'
    BY <2>1, <2>2, <2>3
  <2> QED BY <1>2, <2>4 DEF Counted
<1>6. \A g \in Greens, q \in Queues : In(g, q) => g \notin Hand /\ (g = cur => Parted)
  BY <1>1 DEF Sched, Placement
<1>7. \A g \in Greens, q \in Queues :
        In(g, q)' <=> (In(g, q) \/ (q = "ready" /\ g \in Hand)) /\ g \notin Hand'
  BY <1>4, <1>6
<1>8. cur \in Hand' => f.op = "yield"
  BY DEF Sched, InHand
<1> QED BY <1>1, <1>3, <1>5, <1>7, <1>8, LocalStep
-----------------------------------------------------------------------------
(* Each statement of the library.                                          *)
GInv == SInv /\ CrashOnlyOnDeadlock

LEMMA GoesOn == ASSUME Alive, UNCHANGED fault, Sched' PROVE GInv'
BY DEF GInv, SInv, CrashOnlyOnDeadlock, Alive

(* What is known of the statement s that the executing thread stands at.   *)
LEMMA StandsAt ==
  ASSUME IInv, GInv, NEW s, Here(s)
  PROVE  /\ Alive /\ Sched /\ cur \in Greens /\ heap \in Heap
         /\ frame[cur] \in Frames /\ frame[cur].at = s
         /\ Stands(frame[cur].op, s)
BY AtStage DEF GInv, SInv, IInv, TypeOK

(* A statement that only moves on to s, with n in the local pointer.       *)
LEMMA MoveStep ==
  ASSUME IInv, GInv, NEW t, Here(t), NEW s \in Stages, NEW n \in Pointer, GotoWith(s, n),
         Stands(frame[cur].op, s), s \in {"walk", "link", "dispatch", "switch"} => n # Null,
         UNCHANGED <<heap, thread, sync, fault, cur, ctx>>,
         t \notin {"clear", "retry", "register", "return", "free", "mark", "run"},
         s \notin {"clear", "retry", "return", "free", "mark", "register"},
         t \in EnqueueStages <=> s \in EnqueueStages,
         t \in {"take", "advance"} <=> s \in {"take", "advance"},
         t \in {"dispatch", "switch"} <=> s \in {"dispatch", "switch"},
         t \in {"dispatch", "switch"} => n = frame[cur].node,
         t # "count" /\ s # "count",
         Standing'
  PROVE  GInv'
<1> USE DEF EnqueueStages, DequeueStages
<1> DEFINE f == [frame[cur] EXCEPT !.at = s, !.node = n]
<1>1. /\ Alive /\ Sched /\ cur \in Greens /\ frame[cur] \in Frames /\ frame[cur].at = t
      /\ Stands(frame[cur].op, t)
  BY StandsAt
<1>2. /\ f.at = s /\ f.op = frame[cur].op /\ f.item = frame[cur].item /\ f.node = n
      /\ f.target = frame[cur].target /\ f \in Frames /\ SetFrame(f)
  BY <1>1 DEF Frames, GotoWith
<1> HIDE DEF f
<1>3. frame'[cur'] = f /\ cur' = cur /\ UNCHANGED <<heap, join, zombie, freed, taken, numSusp, fault, ctx>>
  BY <1>1, <1>2 DEF SetFrame, IInv, TypeOK, thread, sync
<1>4. Hand' = Hand
  BY <1>1, <1>2, <1>3 DEF Hand
<1>5. Owed' = Owed /\ numSusp \in Int /\ Owed \in {0, 1}
  BY <1>1, <1>2, <1>3 DEF Owed, IInv, TypeOK
<1>6. Parted <=> Parted'
  BY <1>1, <1>2, <1>3 DEF Parted, Stands
<1>7. f.op = frame[cur].op /\ f.op \notin {"none", "gone", "wait", "user"}
      /\ (f.op = "join" => t \in DequeueStages /\ s \in DequeueStages)
  BY <1>1, <1>2 DEF Stands, Frames, Stages
<1>8. Endings'
  <2>1. /\ f.at \in Early => frame[cur].at \in Early
        /\ f.at \in DequeueStages => frame[cur].at \in DequeueStages
    BY <1>1, <1>2 DEF Early
  <2>2. UNCHANGED <<cur, zombie, freed>> /\ f.op # "gone"
    BY <1>3, <1>7
  <2> QED BY <1>1, <1>2, <2>1, <2>2, EndingsStep
<1>9. /\ frame[cur].at # "clear" /\ f.at # "clear" /\ (frame[cur].at # "retry" \/ taken')
      /\ taken => taken'
      /\ zombie' = zombie \/ zombie' = [zombie EXCEPT ![cur] = TRUE]
      /\ UNCHANGED <<heap, cur, ctx, join>>
  BY <1>1, <1>2, <1>3
<1>10. numSusp' \in Int /\ numSusp' - Owed' = numSusp - Owed
  BY <1>3, <1>5
<1>11. /\ f.op = "exit" <=> frame[cur].op = "exit"
       /\ f.op = "yield" \/ frame[cur].op # "yield"
       /\ f.op = "join" => /\ frame[cur].op = "join" /\ f.target = frame[cur].target
                           /\ frame[cur].at \in DequeueStages /\ f.at \in DequeueStages
       /\ frame[cur].op = "join" /\ f.op # "join" => ~Parted
       /\ f.op \notin {"none", "gone", "wait"}
  BY <1>1, <1>2, <1>7
<1> HIDE DEF EnqueueStages, DequeueStages
<1>12. Hand' = Hand \/ (Hand = {} /\ Hand' = {cur} /\ ~Parted /\ f.op = "yield")
  BY <1>4
<1>13. Sched'
  BY <1>1, <1>2, <1>6, <1>8, <1>9, <1>10, <1>11, <1>12, StillStep
<1> QED BY <1>1, <1>3, <1>13, GoesOn

LEMMA GotoFields ==
  ASSUME IInv, GInv, NEW t, Here(t), NEW s \in Stages, NEW n \in Pointer, GotoWith(s, n), cur' = cur
  PROVE  /\ frame'[cur'].at = s /\ frame'[cur'].node = n
         /\ frame'[cur'].op = frame[cur].op /\ frame'[cur'].item = frame[cur].item
<1>1. cur \in Greens /\ frame[cur] \in Frames
  BY StandsAt
<1> QED BY <1>1 DEF GotoWith, SetFrame, IInv, TypeOK, Frames

LEMMA GotoKeepsNode ==
  ASSUME IInv, NEW s, Goto(s)
  PROVE  GotoWith(s, frame[cur].node) /\ frame[cur].node \in Pointer
<1>1. cur \in Greens /\ frame[cur] \in Frames
  BY DEF IInv, TypeOK
<1>2. [frame[cur] EXCEPT !.at = s] = [frame[cur] EXCEPT !.at = s, !.node = frame[cur].node]
  BY <1>1 DEF Frames
<1> QED BY <1>1, <1>2 DEF Goto, GotoWith, Frames

LEMMA TestSched == ASSUME IInv, GInv, EnqueueTest PROVE GInv'
<1> USE DEF EnqueueStages, DequeueStages, Stages
<1>1. /\ Here("test") /\ frame[cur].at = "test" /\ heap \in Heap /\ Stands(frame[cur].op, "test")
      /\ UNCHANGED <<heap, thread, cpu, sync, fault>>
  BY StandsAt DEF EnqueueTest
<1>2. heap.head["ready"] \in Pointer
  BY <1>1 DEF Heap, Queues
<1>3. UNCHANGED <<heap, thread, sync, fault, cur, ctx>>
  BY <1>1 DEF cpu
<1>4. CASE heap.head["ready"] = Null
  <2>1. GotoWith("set", frame[cur].node) /\ frame[cur].node \in Pointer
    BY <1>4, GotoKeepsNode DEF EnqueueTest
  <2>2. Stands(frame[cur].op, "set")
    BY <1>1 DEF Stands
  <2>3. frame'[cur'].at = "set"
    BY <1>1, <1>3, <2>1, GotoFields
  <2>4. Standing'
    BY <1>3, <1>4, <2>3 DEF Standing
  <2> QED BY <1>1, <1>3, <2>1, <2>2, <2>4, MoveStep
<1>5. CASE heap.head["ready"] # Null
  <2>1. GotoWith("walk", heap.head["ready"])
    BY <1>5 DEF EnqueueTest
  <2>2. Stands(frame[cur].op, "walk")
    BY <1>1 DEF Stands
  <2>3. frame'[cur'].at = "walk" /\ frame'[cur'].node = heap.head["ready"]
    BY <1>1, <1>2, <1>3, <2>1, GotoFields
  <2>4. heap.head["ready"] \in Members(heap, "ready")
    BY <1>1, <1>5, HeadIsMember DEF Queues
  <2>5. In(frame[cur].node, "ready")'
    BY <1>3, <2>3, <2>4, SettledThen DEF In, Settled
  <2>6. Standing'
    BY <2>3, <2>5 DEF Standing
  <2> QED BY <1>1, <1>2, <1>3, <1>5, <2>1, <2>2, <2>6, MoveStep
<1> QED BY <1>4, <1>5

LEMMA WalkSched == ASSUME IInv, GInv, EnqueueWalk PROVE GInv'
<1> USE DEF EnqueueStages, DequeueStages, Stages
<1> DEFINE a == frame[cur].node
           n == heap.next[a]
<1>1. /\ Here("walk") /\ frame[cur].at = "walk" /\ heap \in Heap /\ Stands(frame[cur].op, "walk")
      /\ UNCHANGED <<heap, thread, cpu, sync, fault>> /\ a \in Greens
  BY StandsAt, AtStage DEF EnqueueWalk
<1>2. a \in Members(heap, "ready")
  BY <1>1, StandsAt, SettledNow DEF Sched, Standing
<1>3. UNCHANGED <<heap, thread, sync, fault, cur, ctx>>
  BY <1>1 DEF cpu
<1>4. n \in Pointer
  BY <1>1 DEF Heap
<1>5. CASE n = Null
  <2>1. GotoWith("link", a) /\ a \in Pointer
    BY <1>5, GotoKeepsNode DEF EnqueueWalk
  <2>2. Stands(frame[cur].op, "link") /\ a # Null
    BY <1>1, NullAssumption DEF Stands
  <2>3. frame'[cur'].at = "link" /\ frame'[cur'].node = a
    BY <1>1, <1>3, <2>1, GotoFields
  <2>4. In(frame[cur].node, "ready")'
    BY <1>2, <1>3, <2>3, SettledThen DEF In, Settled
  <2>5. Standing'
    BY <1>3, <1>5, <2>3, <2>4 DEF Standing
  <2> HIDE DEF a
  <2> QED BY <1>1, <1>3, <2>1, <2>2, <2>5, MoveStep
<1>6. CASE n # Null
  <2>1. GotoWith("walk", n)
    BY <1>6 DEF EnqueueWalk
  <2>2. frame'[cur'].at = "walk" /\ frame'[cur'].node = n
    BY <1>1, <1>3, <1>4, <2>1, GotoFields
  <2>3. n \in Members(heap, "ready")
    <3>1. heap.head["ready"] \in Pointer
      BY <1>1 DEF Heap, Queues
    <3> QED BY <1>1, <1>2, <1>6, <3>1, ChainClosed DEF Members
  <2>4. In(frame[cur].node, "ready")'
    BY <1>3, <2>2, <2>3, SettledThen DEF In, Settled
  <2>5. Standing'
    BY <2>2, <2>4 DEF Standing
  <2> HIDE DEF n
  <2> QED BY <1>1, <1>3, <1>4, <1>6, <2>1, <2>5, MoveStep
<1> QED BY <1>5, <1>6

LEMMA TakeSched == ASSUME IInv, GInv, DequeueTake PROVE GInv'
<1> USE DEF EnqueueStages, DequeueStages, Stages
<1>1. /\ Here("take") /\ frame[cur].at = "take" /\ heap \in Heap /\ Stands(frame[cur].op, "take")
      /\ UNCHANGED <<heap, thread, cpu, sync, fault>> /\ GotoWith("advance", heap.head["ready"])
  BY StandsAt DEF DequeueTake
<1>2. heap.head["ready"] \in Pointer /\ Stands(frame[cur].op, "advance")
  BY <1>1 DEF Heap, Queues, Stands
<1>3. UNCHANGED <<heap, thread, sync, fault, cur, ctx>>
  BY <1>1 DEF cpu
<1>4. frame'[cur'].at = "advance" /\ frame'[cur'].node = heap'.head["ready"]
  BY <1>1, <1>2, <1>3, GotoFields
<1>5. Standing'
  BY <1>4 DEF Standing
<1> QED BY <1>1, <1>2, <1>3, <1>5, MoveStep

LEMMA DispatchSched == ASSUME IInv, GInv, Dispatch PROVE GInv'
<1> USE DEF EnqueueStages, DequeueStages, Stages
<1> DEFINE a == frame[cur].node
<1>1. /\ Here("dispatch") /\ frame[cur].at = "dispatch" /\ Stands(frame[cur].op, "dispatch")
      /\ a \in Greens /\ Goto("switch") /\ UNCHANGED <<heap, thread, sync, fault, cur, ctx>>
  BY StandsAt, AtStage DEF Dispatch
<1>2. GotoWith("switch", a) /\ a \in Pointer /\ a # Null
  BY <1>1, GotoKeepsNode, NullAssumption
<1>3. frame'[cur'].at = "switch"
  BY <1>1, <1>2, GotoFields
<1>4. Standing' /\ Stands(frame[cur].op, "switch")
  BY <1>1, <1>3 DEF Standing, Stands
<1> QED BY <1>1, <1>2, <1>4, MoveStep

(* A step from one statement to another with no thread in hand at either.  *)
LEMMA PlainStep ==
  ASSUME IInv, GInv, Alive, NEW f \in Frames, SetFrame(f),
         UNCHANGED <<heap, cur, ctx, join, fault>>,
         frame[cur].at \notin EnqueueStages \cup DequeueStages,
         f.at \notin EnqueueStages, f.at \in DequeueStages => f.at = "take",
         frame[cur].at # "retry" \/ taken',
         taken => taken', zombie' = zombie \/ zombie' = [zombie EXCEPT ![cur] = TRUE],
         f.op \in {"exit", "signal", "user"},
         f.op = "exit" <=> frame[cur].op = "exit",
         frame[cur].op # "yield",
         numSusp' \in Int, numSusp' - Owed' = numSusp - Owed,
         Endings', Standing'
  PROVE  GInv'
<1>1. /\ cur \in Greens /\ frame'[cur'] = f /\ cur' = cur /\ Sched
  BY DEF GInv, SInv, SetFrame, IInv, TypeOK
<1>2. Hand = {} /\ Hand' = {}
  <2>1. frame'[cur'].at \notin {"clear", "dispatch", "switch"}
        /\ frame'[cur'].at \notin EnqueueStages
    BY <1>1 DEF DequeueStages
  <2>2. frame[cur].at \notin {"clear", "dispatch", "switch"}
        /\ frame[cur].at \notin EnqueueStages
    BY DEF DequeueStages
  <2> QED BY <2>1, <2>2 DEF Hand
<1>3. ~Parted /\ ~Parted'
  BY <1>1 DEF Parted
<1>4. /\ UNCHANGED <<heap, cur, ctx, join>>
      /\ frame[cur].at # "clear" /\ f.at # "clear"
      /\ f.op \notin {"none", "gone", "wait"} /\ f.op # "join"
  BY DEF DequeueStages
<1>5. Hand' = Hand \/ (Hand = {} /\ Hand' = {cur} /\ ~Parted /\ f.op = "yield")
  BY <1>2
<1>6. Sched'
  BY <1>1, <1>3, <1>4, <1>5, StillStep
<1> QED BY <1>6, GoesOn

LEMMA ReturnSched == ASSUME IInv, GInv, Return PROVE GInv'
<1> USE DEF EnqueueStages, DequeueStages, Stages
<1>1. /\ Alive /\ Sched /\ cur \in Greens /\ frame[cur].at = "return" /\ Stands(frame[cur].op, "return")
      /\ frame[cur].op \in {"join", "wait"}
  BY StandsAt DEF Return, Stands
<1>2. /\ SetFrame(UserFrame) /\ UserFrame \in Frames /\ UserFrame.op = "user" /\ UserFrame.at = "run"
      /\ UNCHANGED <<heap, cur, ctx, join, fault>> /\ UNCHANGED <<cur, zombie, freed>>
      /\ UNCHANGED <<taken, numSusp>>
  BY UserFrameType DEF Return, thread, cpu, sync
<1>3. frame'[cur'] = UserFrame
  BY <1>1, <1>2 DEF SetFrame, IInv, TypeOK
<1>4. Standing'
  BY <1>2, <1>3 DEF Standing
<1>5. Owed = 0 /\ Owed' = 0 /\ numSusp \in Int
  BY <1>1, <1>2, <1>3 DEF Owed, IInv, TypeOK
<1>6. Endings'
  BY <1>1, <1>2, EndingsStep
<1>7. numSusp' \in Int /\ numSusp' - Owed' = numSusp - Owed
  BY <1>2, <1>5
<1> QED BY <1>1, <1>2, <1>4, <1>6, <1>7, PlainStep

LEMMA FreeSched == ASSUME IInv, GInv, ExitFree PROVE GInv'
<1> USE DEF EnqueueStages, DequeueStages, Stages
<1> DEFINE f == [frame[cur] EXCEPT !.at = "mark"]
<1>1. /\ Alive /\ Sched /\ cur \in Greens /\ frame[cur] \in Frames /\ frame[cur].at = "free"
      /\ frame[cur].op = "exit"
  BY StandsAt DEF ExitFree, Stands
<1>2. f \in Frames /\ f.op = "exit" /\ f.at = "mark" /\ SetFrame(f)
  BY <1>1 DEF Frames, Stands, ExitFree, Goto
<1> HIDE DEF f
<1>3. UNCHANGED <<heap, cur, ctx, join, fault>> /\ UNCHANGED <<zombie, taken, numSusp>>
  BY DEF ExitFree, cpu, sync
<1>4. frame'[cur'] = f /\ cur' = cur /\ \A g \in Greens \ {cur} : frame'[g] = frame[g]
  BY <1>1, <1>2, <1>3 DEF SetFrame, IInv, TypeOK
<1>5. Standing'
  BY <1>2, <1>4 DEF Standing
<1>6. Owed = 0 /\ Owed' = 0 /\ numSusp \in Int
  BY <1>1, <1>2, <1>4 DEF Owed, IInv, TypeOK
<1>7. Endings'
  <2>1. Endings /\ freed' = freed \cup {cur} /\ freed \subseteq Greens
    BY <1>1 DEF Sched, ExitFree, IInv, TypeOK
  <2> QED BY <1>1, <1>2, <1>3, <1>4, <2>1 DEF Endings
<1>8. numSusp' \in Int /\ numSusp' - Owed' = numSusp - Owed
  BY <1>3, <1>6
<1> QED BY <1>1, <1>2, <1>3, <1>5, <1>7, <1>8, PlainStep

LEMMA MarkSched == ASSUME IInv, GInv, ExitMark PROVE GInv'
<1> USE DEF EnqueueStages, DequeueStages, Stages
<1> DEFINE f == [frame[cur] EXCEPT !.at = "take"]
<1>1. /\ Alive /\ Sched /\ cur \in Greens /\ frame[cur] \in Frames /\ frame[cur].at = "mark"
      /\ frame[cur].op = "exit"
  BY StandsAt DEF ExitMark, Stands
<1>2. f \in Frames /\ f.op = "exit" /\ f.at = "take" /\ SetFrame(f)
  BY <1>1 DEF Frames, Stands, ExitMark, Goto
<1> HIDE DEF f
<1>3. /\ UNCHANGED <<heap, cur, ctx, join, fault>> /\ UNCHANGED <<freed, taken, numSusp>>
      /\ zombie' = [zombie EXCEPT ![cur] = TRUE]
  BY DEF ExitMark, cpu, sync
<1>4. frame'[cur'] = f /\ cur' = cur /\ \A g \in Greens \ {cur} : frame'[g] = frame[g]
  BY <1>1, <1>2, <1>3 DEF SetFrame, IInv, TypeOK
<1>5. Standing'
  BY <1>2, <1>4 DEF Standing
<1>6. Owed = 0 /\ Owed' = 0 /\ numSusp \in Int
  BY <1>1, <1>2, <1>4 DEF Owed, IInv, TypeOK
<1>7. Endings'
  <2>1. Endings /\ freed \subseteq Greens /\ zombie \in [Greens -> BOOLEAN]
    BY <1>1 DEF Sched, IInv, TypeOK
  <2>2. zombie'[cur] /\ \A g \in Greens : zombie[g] => zombie'[g]
    BY <1>1, <1>3, <2>1
  <2> QED BY <1>1, <1>2, <1>3, <1>4, <2>1, <2>2 DEF Endings
<1>8. numSusp' \in Int /\ numSusp' - Owed' = numSusp - Owed
  BY <1>3, <1>6
<1> QED BY <1>1, <1>2, <1>3, <1>5, <1>7, <1>8, PlainStep

LEMMA OldSched == ASSUME IInv, GInv, SignalOld PROVE GInv'
<1> USE DEF EnqueueStages, DequeueStages, Stages
<1> DEFINE f == [frame[cur] EXCEPT !.at = "unhook", !.item = heap.head["waiting"]]
<1>1. /\ Alive /\ Sched /\ cur \in Greens /\ frame[cur] \in Frames /\ frame[cur].at = "old"
      /\ frame[cur].op = "signal" /\ heap \in Heap
  BY StandsAt DEF SignalOld, Stands
<1>2. /\ f \in Frames /\ f.op = "signal" /\ f.at = "unhook" /\ f.item = heap.head["waiting"]
      /\ SetFrame(f)
  BY <1>1 DEF Frames, Stands, SignalOld, Heap, Queues
<1> HIDE DEF f
<1>3. UNCHANGED <<heap, cur, ctx, join, fault>> /\ UNCHANGED <<cur, zombie, freed>>
      /\ UNCHANGED <<taken, numSusp>>
  BY DEF SignalOld, cpu, sync, thread
<1>4. frame'[cur'] = f
  BY <1>1, <1>2, <1>3 DEF SetFrame, IInv, TypeOK
<1>5. Standing'
  BY <1>1, <1>2, <1>3, <1>4 DEF Standing, Sched
<1>6. Owed = 0 /\ Owed' = 0 /\ numSusp \in Int
  BY <1>1, <1>2, <1>4 DEF Owed, IInv, TypeOK
<1>7. Endings'
  BY <1>1, <1>2, <1>3, EndingsStep
<1>8. numSusp' \in Int /\ numSusp' - Owed' = numSusp - Owed
  BY <1>3, <1>6
<1> QED BY <1>1, <1>2, <1>3, <1>5, <1>7, <1>8, PlainStep

LEMMA CountSched == ASSUME IInv, GInv, SignalCount PROVE GInv'
<1> USE DEF EnqueueStages, DequeueStages, Stages
<1>1. /\ Alive /\ Sched /\ cur \in Greens /\ frame[cur].at = "count" /\ frame[cur].op = "signal"
  BY StandsAt DEF SignalCount, Stands
<1>2. /\ SetFrame(UserFrame) /\ UserFrame \in Frames /\ UserFrame.op = "user" /\ UserFrame.at = "run"
      /\ UNCHANGED <<heap, cur, ctx, join, fault>> /\ UNCHANGED <<cur, zombie, freed>>
      /\ UNCHANGED taken /\ numSusp' = numSusp - 1
  BY UserFrameType DEF SignalCount, thread, cpu
<1>3. frame'[cur'] = UserFrame
  BY <1>1, <1>2 DEF SetFrame, IInv, TypeOK
<1>4. Standing'
  BY <1>2, <1>3 DEF Standing
<1>5. Owed = 1 /\ Owed' = 0 /\ numSusp \in Int
  BY <1>1, <1>2, <1>3 DEF Owed, IInv, TypeOK
<1>6. Endings'
  BY <1>1, <1>2, EndingsStep
<1>7. numSusp' \in Int /\ numSusp' - Owed' = numSusp - Owed
  BY <1>2, <1>5
<1> QED BY <1>1, <1>2, <1>4, <1>6, <1>7, PlainStep

(* What is known of a thread that is in its own code.                      *)
LEMMA InUser ==
  ASSUME IInv, GInv, Alive, frame[cur].op = "user"
  PROVE  /\ Sched /\ cur \in Greens /\ heap \in Heap /\ frame[cur] \in Frames
         /\ frame[cur].at = "run" /\ running = cur
         /\ Settled = heap /\ \A g, q : In(g, q) <=> g \in Members(heap, q)
         /\ Hand = {} /\ ~Parted /\ Owed = 0
<1> USE DEF EnqueueStages, DequeueStages
<1>1. /\ Sched /\ cur \in Greens /\ heap \in Heap /\ frame[cur] \in Frames
      /\ frame[cur].at = "run"
  BY DEF GInv, SInv, IInv, TypeOK, Frames, Stands
<1>2. running = cur
  BY <1>1 DEF IInv, RunningIsCurrent, Owner
<1>3. Hand = {} /\ ~Parted /\ Owed = 0
  BY <1>1 DEF Hand, Parted, Owed
<1> QED BY <1>1, <1>2, <1>3, SettledNow

LEMMA SignalSched ==
  ASSUME IInv, GInv, Alive, frame[cur].op = "user", CallSignal PROVE GInv'
<1> USE DEF EnqueueStages, DequeueStages, Stages, Calls
<1> DEFINE f == Frame("signal", "old", Null, Null, Null)
<1>1. /\ Sched /\ cur \in Greens /\ heap \in Heap /\ frame[cur].at = "run"
      /\ Settled = heap /\ Owed = 0
  BY InUser
<1>2. f \in Frames /\ f.op = "signal" /\ f.at = "old" /\ SetFrame(f)
  BY CallFrameType DEF Stands, CallSignal, Pointer
<1> HIDE DEF f
<1>3. UNCHANGED <<heap, cur, ctx, join, fault>> /\ UNCHANGED <<cur, zombie, freed>>
      /\ UNCHANGED <<taken, numSusp>> /\ numSusp # 0
  BY DEF CallSignal, cpu, sync, thread
<1>4. frame'[cur'] = f
  BY <1>1, <1>2, <1>3 DEF SetFrame, IInv, TypeOK
<1>5. heap.head["waiting"] # Null
  <2>1. numSusp = Cardinality(Members(heap, "waiting")) + 0
    BY <1>1 DEF Sched, Counted
  <2>2. Members(heap, "waiting") # {}
    BY <1>1, <1>3, <2>1, FiniteQueue DEF Queues
  <2> QED BY <1>1, <2>2, HeadIsMember DEF Queues
<1>6. Standing'
  BY <1>2, <1>3, <1>4, <1>5 DEF Standing
<1>7. Owed' = 0 /\ numSusp \in Int
  BY <1>1, <1>2, <1>4 DEF Owed, IInv, TypeOK
<1>8. Endings'
  BY <1>1, <1>2, <1>3, EndingsStep
<1>9. numSusp' \in Int /\ numSusp' - Owed' = numSusp - Owed
  BY <1>1, <1>3, <1>7
<1> QED BY <1>1, <1>2, <1>3, <1>6, <1>8, <1>9, PlainStep

LEMMA YieldSched ==
  ASSUME IInv, GInv, Alive, frame[cur].op = "user", CallYield PROVE GInv'
<1> USE DEF EnqueueStages, DequeueStages, Stages, Calls
<1> DEFINE f == Frame("yield", "test", running, Null, Null)
<1>1. /\ Sched /\ cur \in Greens /\ heap \in Heap /\ frame[cur].at = "run"
      /\ running = cur /\ Settled = heap /\ Owed = 0 /\ Hand = {} /\ ~Parted
  BY InUser
<1>2. f \in Frames /\ f.op = "yield" /\ f.at = "test" /\ f.item = cur /\ SetFrame(f)
  BY <1>1, CallFrameType DEF Stands, CallYield, Pointer
<1> HIDE DEF f
<1>3. UNCHANGED <<heap, cur, ctx, join, fault>> /\ UNCHANGED <<cur, zombie, freed>>
      /\ UNCHANGED <<taken, numSusp>>
  BY DEF CallYield, cpu, sync, thread
<1>4. frame'[cur'] = f
  BY <1>1, <1>2, <1>3 DEF SetFrame, IInv, TypeOK
<1>5. Hand' = {cur} /\ ~Parted'
  BY <1>2, <1>4 DEF Hand, Parted
<1>6. Standing'
  BY <1>2, <1>4 DEF Standing
<1>7. Owed' = 0 /\ numSusp \in Int
  BY <1>1, <1>2, <1>4 DEF Owed, IInv, TypeOK
<1>8. Endings'
  BY <1>1, <1>2, <1>3, EndingsStep
<1>9. numSusp' \in Int /\ numSusp' - Owed' = numSusp - Owed
  BY <1>1, <1>3, <1>7
<1>10. Sched'
  BY <1>1, <1>2, <1>3, <1>5, <1>6, <1>8, <1>9, StillStep
<1> QED BY <1>3, <1>10, GoesOn

(* The mutex is free: a thread that wants it takes it.                     *)
LEMMA TakenSched ==
  ASSUME IInv, GInv, Alive, NEW f, TakeOrSuspend(f), ~taken, UNCHANGED thread,
         frame[cur].op = "user" \/ frame[cur].at = "retry"
  PROVE  GInv'
<1> USE DEF EnqueueStages, DequeueStages, Stages
<1>1. Sched /\ cur \in Greens /\ frame[cur].at \in {"run", "retry"}
      /\ frame[cur].op \in {"user", "lock", "wait"}
  BY DEF GInv, SInv, IInv, TypeOK, Frames, Stands
<1>2. /\ SetFrame(UserFrame) /\ UserFrame \in Frames /\ UserFrame.op = "user" /\ UserFrame.at = "run"
      /\ UNCHANGED <<heap, cur, ctx, join, fault>> /\ UNCHANGED <<cur, zombie, freed>>
      /\ taken' /\ UNCHANGED numSusp
  BY UserFrameType DEF TakeOrSuspend, thread, cpu
<1>3. frame'[cur'] = UserFrame
  BY <1>1, <1>2 DEF SetFrame, IInv, TypeOK
<1>4. Standing'
  BY <1>2, <1>3 DEF Standing
<1>5. Owed = 0 /\ Owed' = 0 /\ numSusp \in Int
  BY <1>1, <1>2, <1>3 DEF Owed, IInv, TypeOK
<1>6. Endings'
  BY <1>1, <1>2, EndingsStep
<1>7. numSusp' \in Int /\ numSusp' - Owed' = numSusp - Owed
  BY <1>2, <1>5
<1> QED BY <1>1, <1>2, <1>4, <1>6, <1>7, PlainStep

(* enqueue links the thread in hand, and returns to its caller.            *)
LEMMA QueuedSched ==
  ASSUME IInv, GInv, Alive, frame[cur].at \in EnqueueStages,
         Queueing(heap, heap', "ready", frame[cur].item), AfterEnqueue,
         UNCHANGED <<thread, cpu, sync, fault>>
  PROVE  GInv'
<1> USE DEF EnqueueStages, DequeueStages, Stages
<1> DEFINE t == frame[cur].item
<1>1. /\ Sched /\ cur \in Greens /\ heap \in Heap /\ frame[cur] \in Frames
      /\ frame[cur].op \in {"create", "yield", "exit", "signal"}
      /\ Settled = heap /\ \A g, q : In(g, q) <=> g \in Members(heap, q)
  BY SettledNow DEF GInv, SInv, IInv, TypeOK, Frames, Stands
<1>2. Hand = {t} /\ t \in Greens /\ ~Parted
  BY <1>1 DEF Hand, Sched, InHand, Parted
<1>3. \A q \in Queues : t \notin Members(heap, q)
  <2>1. ~Placed(t)
    BY <1>1, <1>2 DEF Sched, Placement
  <2> QED BY <1>1, <2>1 DEF Placed
<1>4. /\ heap' \in Heap /\ Sound(heap')
      /\ \A g \in Greens, r \in Queues :
           g \in Members(heap', r) <=> g \in Members(heap, r) \/ (r = "ready" /\ g = t)
      /\ \A r \in Queues \ {"ready"} : heap'.head[r] = heap.head[r]
  <2>1. Sound(heap) /\ Queueing(heap, heap', "ready", t) /\ "ready" \in Queues
    BY <1>1 DEF Sched, Queues
  <2> HIDE DEF t
  <2> QED BY <1>1, <1>2, <1>3, <2>1, QueueSound
<1> DEFINE f == frame'[cur]
<1>5. /\ f \in Frames /\ SetFrame(f)
      /\ frame[cur].op = "create" => f.op = "user" /\ f.at = "run"
      /\ frame[cur].op = "yield" => f.op = "yield" /\ f.at = "take"
      /\ frame[cur].op = "exit" => f.op = "exit" /\ f.at = "free"
      /\ frame[cur].op = "signal" => f.op = "signal" /\ f.at = "count"
  <2>1. CASE frame[cur].op = "create"
    BY <1>1, <2>1, UserFrameType DEF AfterEnqueue, SetFrame, IInv, TypeOK
  <2>2. CASE frame[cur].op = "yield"
    BY <1>1, <2>2 DEF AfterEnqueue, SetFrame, Goto, IInv, TypeOK, Frames, Stands
  <2>3. CASE frame[cur].op = "exit"
    BY <1>1, <2>3 DEF AfterEnqueue, SetFrame, Goto, IInv, TypeOK, Frames, Stands
  <2>4. CASE frame[cur].op = "signal"
    BY <1>1, <2>4 DEF AfterEnqueue, SetFrame, Goto, IInv, TypeOK, Frames, Stands
  <2> QED BY <1>1, <2>1, <2>2, <2>3, <2>4
<1>6. /\ UNCHANGED <<cur, ctx, join>> /\ UNCHANGED <<cur, zombie, freed>>
      /\ UNCHANGED <<numSusp, taken, fault>> /\ frame'[cur'] = f
  BY DEF thread, cpu, sync
<1> HIDE DEF f, t
<1>7. f.at \in {"run", "take", "free", "count"} /\ f.op \in {"user", "yield", "exit", "signal"}
  BY <1>1, <1>5
<1>8. Settled' = heap' /\ \A g, q : In(g, q)' <=> g \in Members(heap', q)
  BY <1>6, <1>7, SettledThen
<1>9. Hand' = {}
  BY <1>6, <1>7 DEF Hand
<1>10. Sound(Settled)'
  BY <1>4, <1>8
<1>11. Standing'
  BY <1>6, <1>7 DEF Standing
<1>12. Endings'
  BY <1>1, <1>5, <1>6, EndingsStep DEF Early
<1>13. Counted'
  <2>1. Members(heap', "waiting") = Members(heap, "waiting")
    <3>1. Members(heap', "waiting") \subseteq Greens /\ Members(heap, "waiting") \subseteq Greens
      BY <1>1, <1>4, HeadIsMember DEF Queues
    <3> QED BY <1>4, <3>1 DEF Queues
  <2>2. Owed' = Owed
    BY <1>1, <1>5, <1>6 DEF Owed
  <2> QED BY <1>1, <1>6, <1>8, <2>1, <2>2 DEF Sched, Counted
<1>14. \A g \in Greens, q \in Queues :
         In(g, q)' <=> (In(g, q) \/ (q = "ready" /\ g \in Hand)) /\ g \notin Hand'
  BY <1>1, <1>2, <1>4, <1>8, <1>9
<1>15. /\ cur \in Hand /\ cur \notin Hand' => Parted'
       /\ Parted' /\ ~Parted => cur \in Hand
  <2>1. cur \in Hand => frame[cur].op = "yield"
    BY <1>1 DEF Sched, InHand
  <2>2. frame[cur].op = "yield" => cur \in Hand
    BY <1>1, <1>2 DEF IInv, ItemIsSelf, t
  <2>3. Parted' <=> frame[cur].op = "yield"
    BY <1>1, <1>5, <1>6 DEF Parted
  <2> QED BY <2>1, <2>2, <2>3
<1>16. /\ f.op \notin {"none", "gone", "wait"} /\ f.op # "join"
       /\ f.op = "exit" <=> frame[cur].op = "exit"
       /\ frame[cur].op # "join" /\ frame[cur].at # "retry"
  BY <1>1, <1>5
<1>17. heap'.head["susp"] = heap.head["susp"]
  BY <1>4 DEF Queues
<1>18. Sched'
  BY <1>1, <1>2, <1>5, <1>6, <1>9, <1>10, <1>11, <1>12, <1>13, <1>14, <1>15, <1>16, <1>17, LocalStep
<1> QED BY <1>6, <1>18, GoesOn

LEMMA SetSched == ASSUME IInv, GInv, EnqueueSet PROVE GInv'
<1>1. /\ Alive /\ Sched /\ heap \in Heap /\ frame[cur].at = "set" /\ AfterEnqueue
      /\ UNCHANGED <<thread, cpu, sync, fault>>
  BY StandsAt DEF EnqueueSet
<1>2. Queueing(heap, heap', "ready", frame[cur].item)
  BY <1>1 DEF EnqueueSet, Queueing, Sched, Standing
<1> QED BY <1>1, <1>2, QueuedSched DEF EnqueueStages

LEMMA LinkSched == ASSUME IInv, GInv, EnqueueLink PROVE GInv'
<1>1. /\ Alive /\ Sched /\ heap \in Heap /\ frame[cur].at = "link" /\ AfterEnqueue
      /\ UNCHANGED <<thread, cpu, sync, fault>>
  BY StandsAt DEF EnqueueLink
<1>2. frame[cur].node \in Members(heap, "ready") /\ heap.next[frame[cur].node] = Null
  BY <1>1, SettledNow DEF Sched, Standing
<1>3. heap.head["ready"] # Null
  BY <1>1, <1>2, HeadIsMember DEF Queues
<1>4. Queueing(heap, heap', "ready", frame[cur].item)
  BY <1>1, <1>2, <1>3 DEF EnqueueLink, Queueing
<1> QED BY <1>1, <1>4, QueuedSched DEF EnqueueStages

(* With the ready queue empty and nobody in hand, everybody else is        *)
(* blocked: that is when a null pointer ends the process.                  *)
LEMMA DeadlockStep ==
  ASSUME IInv, GInv, Alive, frame[cur].at # "clear", heap.head["ready"] = Null, Hand = {},
         frame[cur].at = "retry" => taken,
         fault' = "null", UNCHANGED <<heap, join, frame, cur, taken>>
  PROVE  GInv'
<1>1. /\ Sched /\ cur \in Greens /\ heap \in Heap
      /\ Settled = heap /\ \A g, q : In(g, q) <=> g \in Members(heap, q)
  BY SettledNow DEF GInv, SInv, IInv, TypeOK
<1>2. ~Alive' /\ fault' = "null" /\ cur' = cur
  BY DEF Alive
<1>3. \A g \in Greens : ~In(g, "ready")
  BY <1>1, HeadIsMember DEF Queues
<1>4. heap.head["susp"] # Null => taken
  <2> SUFFICES ASSUME heap.head["susp"] # Null, ~taken PROVE FALSE
    OBVIOUS
  <2>1. PICK g \in Greens : (In(g, "ready") \/ g \in Hand \/ g = cur) /\ frame[g].at = "retry"
    BY <1>1 DEF Sched, SomebodyLooks
  <2> QED BY <1>3, <2>1
<1>5. ASSUME NEW g \in Greens \ {cur}, Live(g) PROVE Blocked(g)
  <2>1. Placed(g)
    BY <1>1, <1>5 DEF Sched, Placement
  <2>2. CASE In(g, "susp")
    <3>1. heap.head["susp"] # Null
      BY <1>1, <2>2, HeadIsMember DEF Queues
    <3> QED BY <1>1, <1>4, <2>2, <3>1 DEF Blocked
  <2>3. CASE In(g, "waiting")
    BY <1>1, <2>3 DEF Blocked
  <2>4. CASE \E u \in Greens : Awaits(g, u)
    BY <2>4 DEF Awaits, Blocked, JoinedTo
  <2> QED BY <1>3, <2>1, <2>2, <2>3, <2>4 DEF Placed, Queues
<1>6. \A g \in Greens : (Live(g)' <=> Live(g)) /\ (Blocked(g)' <=> Blocked(g))
  BY DEF Live, Blocked, JoinedTo
<1>7. CrashOnlyOnDeadlock'
  BY <1>2, <1>5, <1>6 DEF CrashOnlyOnDeadlock
<1> QED BY <1>2, <1>7 DEF GInv, SInv

LEMMA AdvanceSched == ASSUME IInv, GInv, DequeueAdvance PROVE GInv'
<1> USE DEF EnqueueStages, DequeueStages, Stages
<1> DEFINE a == heap.head["ready"]
           f == [frame[cur] EXCEPT !.at = "clear"]
           d == Dequeue(heap, "ready")
<1>1. /\ Alive /\ Sched /\ cur \in Greens /\ frame[cur] \in Frames /\ frame[cur].at = "advance"
      /\ frame[cur].op \in {"yield", "join", "exit"} /\ heap \in Heap
  BY StandsAt DEF DequeueAdvance, Stands
<1>2. /\ Settled = heap /\ \A g, q : In(g, q) <=> g \in Members(heap, q)
      /\ Hand = {} /\ frame[cur].node = a
  BY <1>1, SettledNow DEF Hand, Sched, Standing
<1>3. CASE a = Null
  <2>1. Crash("null")
    BY <1>3 DEF DequeueAdvance
  <2> QED BY <1>1, <1>2, <1>3, <2>1, DeadlockStep DEF Crash, thread, cpu, sync
<1>4. CASE a # Null
  <2>1. /\ heap' = [heap EXCEPT !.head["ready"] = heap.next[a]]
        /\ SetFrame(f) /\ UNCHANGED <<thread, cpu, sync, fault>>
    BY <1>1, <1>4 DEF DequeueAdvance, Goto, Heap, Queues
  <2>2. f \in Frames /\ f.at = "clear" /\ f.op = frame[cur].op /\ f.node = a /\ f.target = frame[cur].target
    BY <1>1, <1>2 DEF Frames, Stands
  <2> HIDE DEF f
  <2>3. /\ UNCHANGED <<cur, ctx, join>> /\ UNCHANGED <<cur, zombie, freed>>
        /\ UNCHANGED <<numSusp, taken, fault>> /\ frame'[cur'] = f
    BY <1>1, <2>1 DEF thread, cpu, sync, SetFrame, IInv, TypeOK
  <2>4. /\ a \in Greens /\ a \in Members(heap, "ready") /\ d \in Heap /\ Sound(d)
        /\ \A g \in Greens, r \in Queues : g \in Members(d, r) <=> g \in Members(heap, r) /\ g # a
    <3>1. Sound(heap) /\ "ready" \in Queues
      BY <1>1, <1>2 DEF Sched, Queues
    <3> QED BY <1>1, <1>4, <3>1, DequeueSound
  <2>5. Settled' = d
    <3>1. Settled' = [heap' EXCEPT !.next[a] = Null]
      BY <2>2, <2>3 DEF Settled
    <3>2. heap.head \in [Queues -> Pointer] /\ heap.next \in [Greens -> Pointer]
          /\ heap = [head |-> heap.head, next |-> heap.next]
      BY <1>1 DEF Heap
    <3> QED BY <2>1, <3>1, <3>2 DEF Dequeue
  <2> HIDE DEF d
  <2>6. Sound(Settled)' /\ \A g, q : In(g, q)' <=> g \in Members(d, q)
    BY <2>4, <2>5 DEF In
  <2>7. Hand' = {a}
    BY <2>2, <2>3 DEF Hand
  <2>8. \A g \in Greens, q \in Queues :
          In(g, q)' <=> (In(g, q) \/ (q = "ready" /\ g \in Hand)) /\ g \notin Hand'
    BY <1>2, <2>4, <2>6, <2>7
  <2>9. cur \in Hand' => f.op = "yield"
    <3> SUFFICES ASSUME cur = a PROVE frame[cur].op = "yield"
      BY <2>2, <2>7
    <3>1. In(cur, "ready")
      BY <1>2, <2>4
    <3>2. Parted
      BY <1>1, <3>1 DEF Sched, Placement, Placed, Queues
    <3>3. frame[cur].op # "join"
      BY <1>1, <3>1 DEF Sched, JoinKept, OnePlace, Queues
    <3> QED BY <3>2, <3>3 DEF Parted
  <2>10. Parted <=> Parted'
    BY <1>1, <2>2, <2>3 DEF Parted
  <2>11. Counted'
    <3>1. Members(d, "waiting") = Members(heap, "waiting")
      <4>1. Members(d, "waiting") \subseteq Greens /\ Members(heap, "waiting") \subseteq Greens
        BY <1>1, <2>4, HeadIsMember DEF Queues
      <4>2. a \notin Members(heap, "waiting")
        BY <1>1, <1>2, <2>4 DEF Sched, Sound, Apart, Queues
      <4> QED BY <2>4, <4>1, <4>2 DEF Queues
    <3>2. Owed' = 0 /\ Owed = 0
      BY <1>1, <2>2, <2>3 DEF Owed
    <3> QED BY <1>1, <1>2, <2>3, <2>5, <3>1, <3>2 DEF Sched, Counted
  <2>12. Standing'
    BY <2>2, <2>3 DEF Standing
  <2>13. Endings'
    BY <1>1, <2>1, <2>2, <2>3, EndingsStep DEF Early
  <2>14. heap'.head["susp"] = heap.head["susp"]
    BY <1>1, <2>1 DEF Heap, Queues
  <2>15. \A g \in Hand' : g \in Greens /\ \E q \in Queues : In(g, q)
    BY <1>2, <2>4, <2>7 DEF Queues
  <2>16. /\ f.op \notin {"none", "gone", "wait"} /\ (f.op = "exit" <=> frame[cur].op = "exit")
         /\ f.op = "join" => /\ frame[cur].op = "join" /\ f.target = frame[cur].target
                             /\ frame[cur].at \in DequeueStages /\ f.at \in DequeueStages
         /\ ~(frame[cur].op = "join" /\ f.op # "join") /\ frame[cur].at # "retry"
         /\ cur \notin Hand
    BY <1>1, <1>2, <2>2
  <2>17. Sched'
    BY <1>1, <2>1, <2>2, <2>3, <2>6, <2>8, <2>9, <2>10, <2>11, <2>12, <2>13, <2>14, <2>15, <2>16, LocalStep
  <2> QED BY <1>1, <2>3, <2>17, GoesOn
<1> QED BY <1>3, <1>4

LEMMA ClearSched == ASSUME IInv, GInv, DequeueClear PROVE GInv'
<1> USE DEF EnqueueStages, DequeueStages, Stages
<1> DEFINE a == frame[cur].node
           f == [frame[cur] EXCEPT !.at = "dispatch"]
<1>1. /\ Alive /\ Sched /\ cur \in Greens /\ frame[cur] \in Frames /\ frame[cur].at = "clear"
      /\ frame[cur].op \in {"yield", "join", "exit"} /\ heap \in Heap
  BY StandsAt DEF DequeueClear, Stands
<1>2. Hand = {a} /\ a \in Greens /\ a # Null
  BY <1>1, NullAssumption DEF Hand, Sched, InHand
<1>3. /\ heap' = [heap EXCEPT !.next[a] = Null]
      /\ SetFrame(f) /\ UNCHANGED <<thread, cpu, sync, fault>>
  BY <1>2 DEF DequeueClear, Goto
<1>4. /\ f \in Frames /\ f.at = "dispatch" /\ f.op = frame[cur].op /\ f.node = a
      /\ f.target = frame[cur].target
  BY <1>1, <1>2 DEF Frames, Stands
<1> HIDE DEF f
<1>5. /\ UNCHANGED <<cur, ctx, join>> /\ UNCHANGED <<cur, zombie, freed>>
      /\ UNCHANGED <<numSusp, taken, fault>> /\ frame'[cur'] = f
  BY <1>1, <1>3 DEF thread, cpu, sync, SetFrame, IInv, TypeOK
<1>6. Settled = heap' /\ Settled' = heap'
  BY <1>1, <1>3, <1>4, <1>5 DEF Settled
<1>7. Sound(Settled)' /\ \A g, q : In(g, q)' <=> In(g, q)
  BY <1>1, <1>6 DEF Sched, In
<1>8. Hand' = {a}
  BY <1>4, <1>5 DEF Hand
<1>9. \A g \in Greens, q \in Queues :
        In(g, q)' <=> (In(g, q) \/ (q = "ready" /\ g \in Hand)) /\ g \notin Hand'
  <2>1. \A g \in Greens, q \in Queues : In(g, q) => g \notin Hand
    BY <1>1 DEF Sched, Placement, Placed
  <2> QED BY <1>2, <1>7, <1>8, <2>1
<1>10. cur \in Hand' => f.op = "yield"
  BY <1>1, <1>2, <1>4, <1>8 DEF Sched, InHand
<1>11. Parted <=> Parted'
  BY <1>1, <1>4, <1>5 DEF Parted
<1>12. Counted'
  <2>1. Owed' = 0 /\ Owed = 0
    BY <1>1, <1>4, <1>5 DEF Owed
  <2> QED BY <1>1, <1>5, <1>6, <2>1 DEF Sched, Counted
<1>13. Standing'
  BY <1>4, <1>5 DEF Standing
<1>14. Endings'
  BY <1>1, <1>3, <1>4, <1>5, EndingsStep DEF Early
<1>15. heap'.head["susp"] = heap.head["susp"]
  BY <1>1, <1>3 DEF Heap
<1>16. /\ f.op \notin {"none", "gone", "wait"} /\ (f.op = "exit" <=> frame[cur].op = "exit")
       /\ f.op = "join" => /\ frame[cur].op = "join" /\ f.target = frame[cur].target
                           /\ frame[cur].at \in DequeueStages /\ f.at \in DequeueStages
       /\ ~(frame[cur].op = "join" /\ f.op # "join") /\ frame[cur].at # "retry"
       /\ (\A g \in Hand' : g \in Hand) /\ ~(cur \in Hand /\ cur \notin Hand')
  BY <1>1, <1>2, <1>4, <1>8
<1>17. Sched'
  BY <1>1, <1>3, <1>4, <1>5, <1>7, <1>9, <1>10, <1>11, <1>12, <1>13, <1>14, <1>15, <1>16, LocalStep
<1> QED BY <1>1, <1>5, <1>17, GoesOn

(* green_cond_signal takes the one waiter off the list: nobody is behind   *)
(* it, so that the link it keeps is null.                                  *)
LEMMA UnhookSched == ASSUME Orderly, IInv, GInv, SignalUnhook PROVE GInv'
<1> USE DEF EnqueueStages, DequeueStages, Stages
<1> DEFINE a == heap.head["waiting"]
           f == [frame[cur] EXCEPT !.at = "test"]
           d == Dequeue(heap, "waiting")
<1>1. /\ Alive /\ Sched /\ cur \in Greens /\ frame[cur] \in Frames /\ frame[cur].at = "unhook"
      /\ frame[cur].op = "signal" /\ heap \in Heap
  BY StandsAt DEF SignalUnhook, Stands
<1>2. /\ Settled = heap /\ \A g, q : In(g, q) <=> g \in Members(heap, q)
      /\ Hand = {} /\ ~Parted /\ frame[cur].item = a /\ a # Null
  BY <1>1, SettledNow DEF Hand, Parted, Sched, Standing
<1>3. /\ heap' = [heap EXCEPT !.head["waiting"] = heap.next[a]]
      /\ SetFrame(f) /\ UNCHANGED <<thread, cpu, sync, fault>>
  BY <1>2 DEF SignalUnhook, Goto
<1>4. f \in Frames /\ f.at = "test" /\ f.op = "signal" /\ f.item = a
  BY <1>1, <1>2 DEF Frames, Stands
<1> HIDE DEF f
<1>5. /\ UNCHANGED <<cur, ctx, join>> /\ UNCHANGED <<cur, zombie, freed>>
      /\ UNCHANGED <<numSusp, taken, fault>> /\ frame'[cur'] = f
  BY <1>1, <1>3 DEF thread, cpu, sync, SetFrame, IInv, TypeOK
<1>6. /\ a \in Greens /\ a \in Members(heap, "waiting") /\ d \in Heap /\ Sound(d)
      /\ \A g \in Greens, r \in Queues : g \in Members(d, r) <=> g \in Members(heap, r) /\ g # a
  <2>1. Sound(heap) /\ "waiting" \in Queues
    BY <1>1, <1>2 DEF Sched, Queues
  <2> QED BY <1>1, <1>2, <2>1, DequeueSound
<1>7. heap.next[a] = Null
  <2> SUFFICES ASSUME heap.next[a] # Null PROVE FALSE
    OBVIOUS
  <2>1. a \in Pointer
    BY <1>6 DEF Pointer
  <2>2. heap.next[a] \in Members(heap, "waiting") /\ heap.next[a] \in Greens
    BY <1>1, <1>6, <2>1, ChainClosed DEF Members
  <2>3. \A g \in Members(heap, "waiting") : g \in Greens => "wait" \in May[g]
    BY <1>1, <1>2 DEF Sched, SleepersRetry, AsCalled
  <2>4. heap.next[a] = a
    BY <1>6, <2>2, <2>3 DEF Orderly
  <2> QED BY <1>1, <1>2, <1>6, <2>4 DEF Sched, Sound, FirstIsFirst, Queues
<1>8. heap' = d
  <2>1. /\ heap = [head |-> heap.head, next |-> heap.next]
        /\ heap.next \in [Greens -> Pointer] /\ heap.head \in [Queues -> Pointer]
    BY <1>1 DEF Heap
  <2>2. [heap.next EXCEPT ![a] = Null] = heap.next
    BY <1>6, <1>7, <2>1
  <2> QED BY <1>3, <2>1, <2>2 DEF Dequeue
<1> HIDE DEF d
<1>9. Settled' = heap' /\ \A g, q : In(g, q)' <=> g \in Members(heap', q)
  BY <1>4, <1>5, SettledThen
<1>10. Sound(Settled)'
  BY <1>6, <1>8, <1>9
<1>11. Hand' = {a}
  BY <1>4, <1>5 DEF Hand
<1>12. \A g \in Greens, q \in Queues :
         In(g, q)' <=> (In(g, q) \/ (q = "ready" /\ g \in Hand)) /\ g \notin Hand'
  BY <1>2, <1>6, <1>8, <1>9, <1>11
<1>13. In(a, "waiting") /\ a # cur
  <2>1. In(a, "waiting")
    BY <1>2, <1>6
  <2> QED BY <1>1, <1>2, <2>1 DEF Sched, Placement, Placed, Queues
<1>14. ~Parted'
  BY <1>4, <1>5 DEF Parted
<1>15. Counted'
  <2> DEFINE W == Members(heap, "waiting")
  <2>1. Members(d, "waiting") = W \ {a}
    <3>1. Members(d, "waiting") \subseteq Greens /\ W \subseteq Greens
      BY <1>1, <1>6, HeadIsMember DEF Queues
    <3> QED BY <1>6, <3>1 DEF Queues
  <2>2. a \in W /\ IsFiniteSet(W) /\ Cardinality(W) \in Nat
    BY <1>1, <1>6, FiniteQueue DEF Queues
  <2>3. Owed' = 1 /\ Owed = 0
    BY <1>1, <1>4, <1>5 DEF Owed
  <2>4. numSusp = Cardinality(W) + 0
    BY <1>1, <1>2, <2>3 DEF Sched, Counted
  <2> HIDE DEF W
  <2>5. Cardinality(W \ {a}) = Cardinality(W) - 1
    BY <2>2, FS_RemoveElement
  <2>6. numSusp' = Cardinality(Members(d, "waiting")) + 1
    BY <1>5, <2>1, <2>2, <2>4, <2>5
  <2> QED BY <1>8, <1>9, <2>3, <2>6 DEF Counted
<1>16. Standing'
  BY <1>4, <1>5 DEF Standing
<1>17. Endings'
  BY <1>1, <1>3, <1>4, <1>5, EndingsStep
<1>18. heap'.head["susp"] = heap.head["susp"]
  BY <1>1, <1>3 DEF Heap
<1>19. /\ f.op \notin {"none", "gone", "wait"} /\ f.op # "exit" /\ frame[cur].op # "exit"
       /\ f.op # "join" /\ frame[cur].op # "join" /\ frame[cur].at # "retry"
       /\ cur \notin Hand /\ cur \notin Hand'
       /\ \A g \in Hand' : g \in Greens /\ \E q \in Queues : In(g, q)
  BY <1>1, <1>2, <1>4, <1>6, <1>11, <1>13 DEF Queues
<1>20. Sched'
  BY <1>1, <1>2, <1>3, <1>4, <1>5, <1>10, <1>12, <1>14, <1>15, <1>16, <1>17, <1>18, <1>19, LocalStep
<1> QED BY <1>1, <1>5, <1>20, GoesOn

LEMMA JoinSched ==
  ASSUME IInv, GInv, Alive, frame[cur].op = "user", "join" \in May[cur],
         NEW u \in Threads, CallJoin(u)
  PROVE  GInv'
<1> USE DEF EnqueueStages, DequeueStages, Stages, Calls
<1> DEFINE f == Frame("join", "register", Null, Null, u)
<1>1. /\ Sched /\ cur \in Greens /\ heap \in Heap /\ frame[cur].at = "run"
      /\ Settled = heap /\ Owed = 0 /\ Hand = {} /\ ~Parted
  BY InUser
<1>2. u \in Greens \ {cur} /\ ~zombie[u] /\ frame[u].op # "none" /\ SetFrame(f)
  BY DEF CallJoin, Threads
<1>3. f \in Frames /\ f.op = "join" /\ f.at = "register"
  <2>1. "join" \in Calls /\ "register" \in Stages /\ Stands("join", "register")
    BY DEF Stands
  <2>2. Null \in Pointer /\ u \in Pointer
    BY <1>2 DEF Pointer
  <2> QED BY <2>1, <2>2, CallFrameType
<1>4. f.target = u
  BY DEF Frame
<1> HIDE DEF f
<1>5. UNCHANGED <<heap, cur, ctx, join, fault>> /\ UNCHANGED <<cur, zombie, freed>>
      /\ UNCHANGED <<taken, numSusp>>
  BY DEF CallJoin, cpu, sync, thread
<1>6. frame'[cur'] = f
  BY <1>1, <1>2, <1>5 DEF SetFrame, IInv, TypeOK
<1>7. Joins(f)
  <2>1. Live(u)
    BY <1>1, <1>2 DEF Live, Sched, Endings
  <2>2. frame[u].op # "exit"
    <3>1. frame[u] \in Frames
      BY <1>2 DEF IInv, TypeOK
    <3> QED BY <1>1, <1>2, <3>1 DEF Sched, OthersRest, Frames, Stands
  <2> QED BY <1>2, <1>3, <1>4, <2>1, <2>2 DEF Joins
<1>8. Hand' = {} /\ ~Parted'
  BY <1>3, <1>6 DEF Hand, Parted
<1>9. Standing'
  BY <1>3, <1>6 DEF Standing
<1>10. Owed' = 0 /\ numSusp \in Int
  BY <1>3, <1>6 DEF Owed, IInv, TypeOK
<1>11. Endings'
  BY <1>1, <1>2, <1>3, <1>5, EndingsStep
<1>12. numSusp' \in Int /\ numSusp' - Owed' = numSusp - Owed
  BY <1>1, <1>5, <1>10
<1>13. /\ frame[cur].at # "clear" /\ frame[cur].at # "retry" /\ f.at # "clear"
       /\ Hand' = Hand \/ (Hand = {} /\ Hand' = {cur} /\ ~Parted /\ f.op = "yield")
       /\ f.op \notin {"none", "gone", "wait"} /\ f.op # "exit" /\ frame[cur].op # "exit"
       /\ frame[cur].op # "yield" /\ frame[cur].op # "join"
  BY <1>1, <1>3, <1>8
<1>14. Sched'
  BY <1>1, <1>2, <1>3, <1>5, <1>7, <1>8, <1>9, <1>11, <1>12, <1>13, StillStep
<1> QED BY <1>5, <1>14, GoesOn

(* The only thread that joins becomes the one that the thread it joins     *)
(* will wake.                                                              *)
LEMMA RegisterSched == ASSUME Orderly, IInv, GInv, JoinRegister PROVE GInv'
<1> USE DEF EnqueueStages, DequeueStages, Stages
<1> DEFINE f == [frame[cur] EXCEPT !.at = "take", !.item = running]
           u == frame[cur].target
<1>1. /\ Alive /\ Sched /\ cur \in Greens /\ frame[cur] \in Frames /\ frame[cur].at = "register"
      /\ frame[cur].op = "join" /\ heap \in Heap /\ cur' = cur
      /\ frame \in [Greens -> Frames] /\ join \in [Greens -> Pointer]
  BY StandsAt DEF JoinRegister, Stands, cpu, IInv, TypeOK
<1>2. /\ Settled = heap /\ \A g, q : In(g, q) <=> g \in Members(heap, q)
      /\ Hand = {} /\ ~Parted /\ Owed = 0 /\ running = cur
  BY <1>1, SettledNow DEF Hand, Parted, Owed, IInv, RunningIsCurrent, Owner
<1>3. /\ u \in Greens /\ u # cur /\ Live(u) /\ frame[u].op # "exit" /\ "join" \in May[cur]
  BY <1>1 DEF Sched, JoinKept, AsCalled
<1>4. /\ frame' = [frame EXCEPT ![cur] = f] /\ join' = [join EXCEPT ![u] = cur]
      /\ UNCHANGED <<heap, zombie, freed, ctx, taken, numSusp, fault>>
  BY <1>2 DEF JoinRegister, SetFrame, cpu, sync
<1>5. f.op = "join" /\ f.at = "take" /\ f.target = u
  BY <1>1 DEF Frames
<1> HIDE DEF f, u
<1>6. /\ frame'[cur] = f /\ \A g \in Greens \ {cur} : frame'[g] = frame[g]
      /\ join'[u] = cur /\ \A g \in Greens \ {u} : join'[g] = join[g]
  BY <1>1, <1>3, <1>4
<1>7. \A g \in Greens : Live(g)' <=> Live(g)
  BY <1>1, <1>5, <1>6 DEF Live
<1>8. \A g, v \in Greens : ~Awaits(g, v)
  <2> SUFFICES ASSUME NEW g \in Greens, NEW v \in Greens, Awaits(g, v) PROVE FALSE
    OBVIOUS
  <2>1. frame[g].op = "join" /\ frame[g].at # "register"
    BY <1>1 DEF Sched, OnePlace
  <2>2. "join" \in May[g]
    BY <1>1, <2>1 DEF Sched, AsCalled
  <2>3. g = cur
    BY <1>1, <1>3, <2>2 DEF Orderly
  <2> QED BY <1>1, <2>1, <2>3
<1>9. \A g, v \in Greens : Awaits(g, v)' <=> g = cur /\ v = u
  <2> SUFFICES ASSUME NEW g \in Greens, NEW v \in Greens PROVE Awaits(g, v)' <=> g = cur /\ v = u
    OBVIOUS
  <2>1. CASE v = u
    BY <1>3, <1>6, <1>7, <2>1 DEF Awaits
  <2>2. CASE v # u
    <3>1. Awaits(g, v)' => Awaits(g, v)
      BY <1>1, <1>6, <1>7, <2>2 DEF Awaits
    <3> QED BY <1>8, <2>2, <3>1
  <2> QED BY <2>1, <2>2
<1>10. Settled' = heap /\ (\A g, q : In(g, q)' <=> In(g, q)) /\ Hand' = {} /\ Parted' /\ Owed' = 0
  <2>1. frame'[cur'].at = "take" /\ frame'[cur'].op = "join"
    BY <1>1, <1>5, <1>6
  <2> QED BY <1>2, <1>4, <2>1, SettledThen DEF Hand, Parted, Owed
<1>11. \A g \in Greens, q \in Queues : In(g, q) => Live(g) /\ g # cur
  BY <1>1, <1>2 DEF Sched, Placement, Placed
<1>12. Placement'
  <2> SUFFICES ASSUME NEW g \in Greens
               PROVE  Placed(g)' <=> Live(g)' /\ g \notin Hand' /\ (g = cur' => Parted')
    BY DEF Placement
  <2>1. CASE g = cur
    <3>1. Placed(g)'
      BY <1>3, <1>9, <2>1 DEF Placed
    <3> QED BY <1>1, <1>7, <1>10, <2>1, <3>1 DEF Sched, OthersRest
  <2>2. CASE g # cur
    <3>1. Placed(g)' <=> Placed(g)
      BY <1>8, <1>9, <1>10, <2>2 DEF Placed
    <3>2. Placed(g) <=> Live(g) /\ g \notin Hand /\ (g = cur => Parted)
      BY <1>1 DEF Sched, Placement
    <3> QED BY <1>1, <1>2, <1>7, <1>10, <2>2, <3>1, <3>2
  <2> QED BY <2>1, <2>2
<1>13. OnePlace'
  <2> SUFFICES ASSUME NEW g \in Greens, NEW v \in Greens, Awaits(g, v)'
               PROVE  /\ \A q \in Queues : ~In(g, q)'
                      /\ frame'[g].op = "join" /\ frame'[g].at # "register" /\ frame'[g].target = v
    BY DEF OnePlace
  <2>1. g = cur /\ v = u
    BY <1>9
  <2> QED BY <1>1, <1>5, <1>6, <1>10, <1>11, <2>1
<1>14. InHand'
  BY <1>10 DEF InHand
<1>15. SleepersRetry'
  BY <1>1, <1>6, <1>10, <1>11 DEF Sched, SleepersRetry, Queues
<1>16. JoinKept'
  <2> SUFFICES ASSUME NEW g \in Greens, frame'[g].op = "join", NEW v, v = frame'[g].target
               PROVE  /\ v \in Greens /\ frame'[v].op # "none" /\ v # g
                      /\ frame'[g].at = "register" => Live(v)' /\ frame'[v].op # "exit"
                      /\ frame'[g].at # "register" =>
                           \/ Awaits(g, v)'
                           \/ frame'[g].at = "return"
                                /\ (zombie'[v] \/ (v = cur' /\ frame'[v].op = "exit"))
    BY DEF JoinKept
  <2>1. g = cur
    <3> SUFFICES ASSUME g # cur PROVE FALSE
      OBVIOUS
    <3>1. frame[g].op = "join"
      BY <1>6
    <3>2. "join" \in May[g]
      BY <1>1, <3>1 DEF Sched, AsCalled
    <3> QED BY <1>1, <1>3, <3>2 DEF Orderly
  <2>2. v = u /\ frame'[v].op # "none"
    BY <1>3, <1>5, <1>6, <2>1 DEF Live
  <2> QED BY <1>3, <1>5, <1>6, <1>9, <2>1, <2>2
<1>17. OthersRest'
  BY <1>1, <1>6, <1>7 DEF Sched, OthersRest
<1>18. Endings'
  BY <1>1, <1>4, <1>5, <1>6 DEF Sched, Endings
<1>19. Resumable'
  BY <1>1, <1>4, <1>6, <1>7 DEF Sched, Resumable
<1>20. AsCalled'
  BY <1>1, <1>3, <1>5, <1>6 DEF Sched, AsCalled
<1>21. Standing'
  BY <1>1, <1>5, <1>6 DEF Standing
<1>22. Counted' /\ Sound(Settled)'
  BY <1>1, <1>2, <1>4, <1>10 DEF Sched, Counted
<1>23. SomebodyLooks'
  <2> SUFFICES ASSUME ~taken', heap'.head["susp"] # Null
               PROVE  \E g \in Greens : (In(g, "ready")' \/ g \in Hand' \/ g = cur')
                                        /\ frame'[g].at = "retry"
    BY DEF SomebodyLooks
  <2>1. PICK g \in Greens : (In(g, "ready") \/ g \in Hand \/ g = cur) /\ frame[g].at = "retry"
    BY <1>1, <1>4 DEF Sched, SomebodyLooks
  <2> QED BY <1>1, <1>2, <1>6, <1>10, <2>1
<1>24. Sched'
  BY <1>12, <1>13, <1>14, <1>15, <1>16, <1>17, <1>18, <1>19, <1>20, <1>21, <1>22, <1>23 DEF Sched
<1> QED BY <1>1, <1>4, <1>24, GoesOn

(* A thread that ends takes in hand who waits for its end.                 *)
LEMMA ExitSched ==
  ASSUME IInv, GInv, Alive, frame[cur].op = "user", CallExit PROVE GInv'
<1> USE DEF EnqueueStages, DequeueStages, Stages
<1> DEFINE a == join[cur]
           f == frame'[cur]
<1>1. /\ Sched /\ cur \in Greens /\ heap \in Heap /\ frame[cur].at = "run"
      /\ Settled = heap /\ Owed = 0 /\ Hand = {} /\ ~Parted
      /\ frame \in [Greens -> Frames] /\ join \in [Greens -> Pointer]
      /\ \A g, q : In(g, q) <=> g \in Members(heap, q)
  BY InUser DEF IInv, TypeOK
<1>2. /\ f.op = "exit" /\ \A g \in Greens \ {cur} : frame'[g] = frame[g]
      /\ a # Null => f.at = "test" /\ f.item = a
      /\ a = Null => f.at = "free"
  BY <1>1 DEF CallExit, SetFrame, Frame
<1>3. UNCHANGED <<heap, join, zombie, freed, cur, ctx, taken, numSusp, fault>>
  BY DEF CallExit, thread, cpu, sync
<1> HIDE DEF f
<1>4. frame'[cur'] = f /\ frame'[cur] = f /\ f.at \in {"test", "free"}
  BY <1>2, <1>3 DEF f
<1>5. \A g \in Greens : Live(g)' <=> Live(g)
  BY <1>1, <1>2, <1>4 DEF Live
<1>6. /\ \A g \in Greens : Awaits(g, cur) <=> g = a
      /\ \A g \in Greens : ~Awaits(g, cur)'
      /\ \A g \in Greens, v \in Greens \ {cur} : Awaits(g, v)' <=> Awaits(g, v)
  <2>1. \A g \in Greens : Awaits(g, cur) <=> g = a
    BY <1>1 DEF Awaits, Live
  <2>2. \A g \in Greens : ~Awaits(g, cur)'
    BY <1>2, <1>4 DEF Awaits
  <2>3. \A g \in Greens, v \in Greens \ {cur} : Awaits(g, v)' <=> Awaits(g, v)
    BY <1>2, <1>3, <1>5 DEF Awaits
  <2> QED BY <2>1, <2>2, <2>3
<1>7. /\ Settled' = heap /\ (\A g, q : In(g, q)' <=> In(g, q)) /\ ~Parted' /\ Owed' = 0
      /\ Hand' = IF a = Null THEN {} ELSE {a}
  BY <1>1, <1>2, <1>3, <1>4, SettledThen DEF Parted, Owed, Hand
<1>8. a # Null => /\ a \in Greens /\ a # cur /\ Live(a) /\ frame[a].op = "join"
                  /\ frame[a].target = cur /\ \A q \in Queues : ~In(a, q)
  <2> SUFFICES ASSUME a # Null PROVE /\ a \in Greens /\ a # cur /\ Live(a) /\ frame[a].op = "join"
                                     /\ frame[a].target = cur /\ \A q \in Queues : ~In(a, q)
    OBVIOUS
  <2>1. a \in Greens /\ Awaits(a, cur)
    BY <1>1, <1>6 DEF Pointer
  <2>2. Placed(a)
    BY <1>1, <2>1 DEF Placed
  <2>3. a # cur /\ Live(a)
    BY <1>1, <2>1, <2>2 DEF Sched, Placement
  <2> QED BY <1>1, <2>1, <2>3 DEF Sched, OnePlace
<1>9. \A g \in Greens, q \in Queues : In(g, q) => g # cur
  BY <1>1 DEF Sched, Placement, Placed
<1> HIDE DEF a
<1>10. Placement'
  <2> SUFFICES ASSUME NEW g \in Greens
               PROVE  Placed(g)' <=> Live(g)' /\ g \notin Hand' /\ (g = cur' => Parted')
    BY DEF Placement
  <2>1. Placed(g) <=> Live(g) /\ g # cur
    BY <1>1 DEF Sched, Placement
  <2>2. CASE g = a
    <3>1. a # Null
      BY <2>2, NullAssumption
    <3>2. ASSUME NEW v \in Greens, Awaits(g, v)' PROVE FALSE
      <4>1. v # cur /\ Awaits(g, v)
        BY <1>3, <1>6, <3>2
      <4> QED BY <1>1, <1>8, <2>2, <3>1, <4>1 DEF Sched, OnePlace
    <3>3. ~Placed(g)'
      BY <1>7, <1>8, <2>2, <3>1, <3>2 DEF Placed
    <3> QED BY <1>7, <2>2, <3>1, <3>3
  <2>3. CASE g # a
    <3>1. \A v \in Greens : Awaits(g, v)' <=> Awaits(g, v)
      BY <1>1, <1>3, <1>6, <2>3
    <3>2. Placed(g)' <=> Placed(g)
      BY <1>7, <3>1 DEF Placed
    <3> QED BY <1>3, <1>5, <1>7, <2>1, <2>3, <3>2
  <2> QED BY <2>2, <2>3
<1>11. OnePlace'
  <2> SUFFICES ASSUME NEW g \in Greens, NEW v \in Greens, Awaits(g, v)'
               PROVE  /\ \A q \in Queues : ~In(g, q)'
                      /\ frame'[g].op = "join" /\ frame'[g].at # "register" /\ frame'[g].target = v
    BY DEF OnePlace
  <2>1. Awaits(g, v)
    BY <1>3, <1>6
  <2>2. g # cur
    BY <1>1, <2>1 DEF Sched, OnePlace
  <2> QED BY <1>1, <1>2, <1>7, <2>1, <2>2 DEF Sched, OnePlace
<1>12. InHand'
  BY <1>3, <1>5, <1>7, <1>8 DEF InHand
<1>13. SleepersRetry'
  BY <1>1, <1>2, <1>7, <1>9 DEF Sched, SleepersRetry, Queues
<1>14. JoinKept'
  <2> SUFFICES ASSUME NEW g \in Greens, frame'[g].op = "join", NEW v, v = frame'[g].target
               PROVE  /\ v \in Greens /\ frame'[v].op # "none" /\ v # g
                      /\ frame'[g].at = "register" => Live(v)' /\ frame'[v].op # "exit"
                      /\ frame'[g].at # "register" =>
                           \/ Awaits(g, v)'
                           \/ frame'[g].at = "return"
                                /\ (zombie'[v] \/ (v = cur' /\ frame'[v].op = "exit"))
    BY DEF JoinKept
  <2>1. g # cur /\ frame'[g] = frame[g]
    BY <1>2, <1>4
  <2>2. frame[g].at = "return"
    <3>1. frame[g] \in Frames
      BY <1>1
    <3> QED BY <1>1, <2>1, <3>1 DEF Sched, OthersRest, Frames, Stands
  <2>3. /\ v \in Greens /\ frame[v].op # "none" /\ v # g
        /\ Awaits(g, v) \/ zombie[v]
    BY <1>1, <2>1, <2>2 DEF Sched, JoinKept
  <2>4. CASE v = cur
    BY <1>2, <1>3, <1>4, <2>1, <2>2, <2>3, <2>4
  <2>5. CASE v # cur
    BY <1>2, <1>3, <1>6, <2>1, <2>2, <2>3, <2>5
  <2> QED BY <2>4, <2>5
<1>15. OthersRest'
  BY <1>1, <1>2, <1>3, <1>5 DEF Sched, OthersRest
<1>16. Endings'
  <2>1. Endings /\ Live(cur) /\ freed \subseteq Greens
    BY <1>1 DEF Sched, OthersRest, IInv, TypeOK
  <2> QED BY <1>1, <1>2, <1>3, <1>4, <2>1 DEF Endings, Live
<1>17. Resumable'
  BY <1>1, <1>2, <1>3, <1>5 DEF Sched, Resumable
<1>18. AsCalled'
  BY <1>1, <1>2, <1>4 DEF Sched, AsCalled
<1>19. Standing'
  BY <1>4 DEF Standing
<1>20. Counted' /\ Sound(Settled)'
  BY <1>1, <1>3, <1>7 DEF Sched, Counted
<1>21. SomebodyLooks'
  <2> SUFFICES ASSUME ~taken', heap'.head["susp"] # Null
               PROVE  \E g \in Greens : (In(g, "ready")' \/ g \in Hand' \/ g = cur')
                                        /\ frame'[g].at = "retry"
    BY DEF SomebodyLooks
  <2>1. PICK g \in Greens : (In(g, "ready") \/ g \in Hand \/ g = cur) /\ frame[g].at = "retry"
    BY <1>1, <1>3 DEF Sched, SomebodyLooks
  <2> QED BY <1>1, <1>2, <1>7, <2>1
<1>22. Sched'
  BY <1>10, <1>11, <1>12, <1>13, <1>14, <1>15, <1>16, <1>17, <1>18, <1>19, <1>20, <1>21 DEF Sched
<1> QED BY <1>3, <1>22, GoesOn

(* The thread that is created is taken in hand, to be queued.              *)
LEMMA CreateSched ==
  ASSUME IInv, GInv, Alive, frame[cur].op = "user", NEW n \in Threads, CallCreate(n)
  PROVE  GInv'
<1> USE DEF EnqueueStages, DequeueStages, Stages
<1> DEFINE f == Frame("create", "test", n, Null, Null)
<1>1. /\ Sched /\ cur \in Greens /\ heap \in Heap /\ frame[cur].at = "run"
      /\ Settled = heap /\ Owed = 0 /\ Hand = {} /\ ~Parted
      /\ frame \in [Greens -> Frames] /\ join \in [Greens -> Pointer]
      /\ ctx \in [Greens -> Pointer] /\ zombie \in [Greens -> BOOLEAN]
      /\ \A g, q : In(g, q) <=> g \in Members(heap, q)
  BY InUser DEF IInv, TypeOK
<1>2. /\ n \in Greens /\ n # cur /\ frame[n].op = "none" /\ frame[n].at = "run" /\ ~Live(n)
      /\ frame' = [frame EXCEPT ![n] = UserFrame, ![cur] = f]
      /\ heap' = [heap EXCEPT !.next[n] = Null] /\ ctx' = [ctx EXCEPT ![n] = n]
      /\ join' = [join EXCEPT ![n] = Null] /\ zombie' = [zombie EXCEPT ![n] = FALSE]
      /\ UNCHANGED <<freed, cur, taken, numSusp, fault>>
  BY <1>1 DEF CallCreate, Threads, sync, Live, Frames, Stands
<1>3. f.op = "create" /\ f.at = "test" /\ f.item = n
  BY DEF Frame
<1> HIDE DEF f
<1>4. /\ frame'[cur] = f /\ frame'[cur'] = f /\ frame'[n] = UserFrame
      /\ \A g \in Greens \ {n, cur} : frame'[g] = frame[g]
      /\ ctx'[n] = n /\ join'[n] = Null
      /\ \A g \in Greens \ {n} : ctx'[g] = ctx[g] /\ join'[g] = join[g]
  BY <1>1, <1>2
<1>5. UserFrame.op = "user" /\ UserFrame.at = "run"
  BY UserFrameType
<1>6. /\ ~Placed(n)
      /\ \A q \in Queues : ~In(n, q)
      /\ \A g \in Greens : ~Awaits(g, n) /\ ~Awaits(n, g)
  <2>1. ~Placed(n)
    BY <1>1, <1>2 DEF Sched, Placement
  <2> QED BY <1>2, <2>1 DEF Placed, Awaits
<1>7. heap' = heap
  <2>1. heap.next[n] = Null
    BY <1>1, <1>2, <1>6 DEF Sched, Sound, Loose
  <2>2. heap.next \in [Greens -> Pointer] /\ heap = [head |-> heap.head, next |-> heap.next]
    BY <1>1 DEF Heap
  <2>3. [heap.next EXCEPT ![n] = Null] = heap.next
    BY <2>1, <2>2
  <2> QED BY <1>2, <2>2, <2>3
<1>8. /\ \A g \in Greens \ {n} : Live(g)' <=> Live(g)
      /\ Live(n)'
  BY <1>1, <1>2, <1>3, <1>4, <1>5 DEF Live
<1>9. \A g, v \in Greens : Awaits(g, v)' <=> Awaits(g, v)
  <2> SUFFICES ASSUME NEW g \in Greens, NEW v \in Greens PROVE Awaits(g, v)' <=> Awaits(g, v)
    OBVIOUS
  <2>1. CASE v = n
    BY <1>4, <1>6, <2>1, NullAssumption DEF Awaits
  <2>2. CASE v = cur
    BY <1>1, <1>2, <1>3, <1>4, <1>8, <2>2 DEF Awaits
  <2>3. CASE v \notin {n, cur}
    BY <1>4, <1>8, <2>3 DEF Awaits
  <2> QED BY <2>1, <2>2, <2>3
<1>10. /\ Settled' = heap /\ (\A g, q : In(g, q)' <=> In(g, q)) /\ ~Parted' /\ Owed' = 0
       /\ Hand' = {n}
  BY <1>1, <1>3, <1>4, <1>7, SettledThen DEF Parted, Owed, Hand
<1>11. \A g \in Greens, q \in Queues : In(g, q) => g # cur
  BY <1>1 DEF Sched, Placement, Placed
<1>12. Placement'
  <2> SUFFICES ASSUME NEW g \in Greens
               PROVE  Placed(g)' <=> Live(g)' /\ g \notin Hand' /\ (g = cur' => Parted')
    BY DEF Placement
  <2>1. Placed(g) <=> Live(g) /\ g # cur
    BY <1>1 DEF Sched, Placement
  <2>2. Placed(g)' <=> Placed(g)
    BY <1>9, <1>10 DEF Placed
  <2> QED BY <1>2, <1>6, <1>8, <1>10, <2>1, <2>2
<1>13. OnePlace'
  <2> SUFFICES ASSUME NEW g \in Greens, NEW v \in Greens, Awaits(g, v)'
               PROVE  /\ \A q \in Queues : ~In(g, q)'
                      /\ frame'[g].op = "join" /\ frame'[g].at # "register" /\ frame'[g].target = v
    BY DEF OnePlace
  <2>1. Awaits(g, v)
    BY <1>9
  <2>2. g \notin {n, cur}
    BY <1>1, <1>6, <2>1 DEF Sched, OnePlace
  <2> QED BY <1>1, <1>4, <1>10, <2>1, <2>2 DEF Sched, OnePlace
<1>14. InHand'
  BY <1>2, <1>8, <1>10 DEF InHand
<1>15. SleepersRetry'
  BY <1>1, <1>4, <1>6, <1>10, <1>11 DEF Sched, SleepersRetry, Queues
<1>16. JoinKept'
  <2> SUFFICES ASSUME NEW g \in Greens, frame'[g].op = "join", NEW v, v = frame'[g].target
               PROVE  /\ v \in Greens /\ frame'[v].op # "none" /\ v # g
                      /\ frame'[g].at = "register" => Live(v)' /\ frame'[v].op # "exit"
                      /\ frame'[g].at # "register" =>
                           \/ Awaits(g, v)'
                           \/ frame'[g].at = "return"
                                /\ (zombie'[v] \/ (v = cur' /\ frame'[v].op = "exit"))
    BY DEF JoinKept
  <2>1. g \notin {n, cur} /\ frame'[g] = frame[g]
    BY <1>3, <1>4, <1>5
  <2>2. frame[g].at # "register"
    BY <1>1, <2>1 DEF Sched, OthersRest
  <2>3. /\ v \in Greens /\ frame[v].op # "none" /\ v # g
        /\ Awaits(g, v) \/ (frame[g].at = "return" /\ zombie[v])
    BY <1>1, <2>1, <2>2 DEF Sched, JoinKept
  <2>4. v # n /\ frame'[v].op # "none"
    <3>1. v # n
      BY <1>2, <2>3
    <3>2. CASE v = cur
      BY <1>3, <1>4, <3>1, <3>2
    <3>3. CASE v # cur
      BY <1>4, <2>3, <3>1, <3>3
    <3> QED BY <3>1, <3>2, <3>3
  <2>5. zombie'[v] = zombie[v]
    BY <1>1, <1>2, <2>3, <2>4
  <2> QED BY <1>9, <2>1, <2>2, <2>3, <2>4, <2>5
<1>17. OthersRest'
  BY <1>1, <1>2, <1>4, <1>5, <1>8 DEF Sched, OthersRest
<1>18. Endings'
  <2>1. Endings /\ Live(cur) /\ freed \subseteq Greens
    BY <1>1 DEF Sched, OthersRest, IInv, TypeOK
  <2>2. \A g \in Greens : frame'[g].op = "gone" => g \notin {n, cur} /\ zombie'[g]
    BY <1>1, <1>2, <1>3, <1>4, <1>5, <2>1 DEF Endings
  <2>3. \A g \in freed' : frame'[g].op = "gone"
    BY <1>1, <1>2, <1>4, <2>1 DEF Endings, Live
  <2> QED BY <1>3, <1>4, <2>2, <2>3 DEF Endings
<1>19. Resumable'
  BY <1>1, <1>2, <1>4, <1>8 DEF Sched, Resumable
<1>20. AsCalled'
  BY <1>1, <1>3, <1>4, <1>5 DEF Sched, AsCalled
<1>21. Standing'
  BY <1>3, <1>4 DEF Standing
<1>22. Counted' /\ Sound(Settled)'
  BY <1>1, <1>2, <1>10 DEF Sched, Counted
<1>23. SomebodyLooks'
  <2> SUFFICES ASSUME ~taken', heap'.head["susp"] # Null
               PROVE  \E g \in Greens : (In(g, "ready")' \/ g \in Hand' \/ g = cur')
                                        /\ frame'[g].at = "retry"
    BY DEF SomebodyLooks
  <2>1. PICK g \in Greens : (In(g, "ready") \/ g \in Hand \/ g = cur) /\ frame[g].at = "retry"
    BY <1>1, <1>2, <1>7 DEF Sched, SomebodyLooks
  <2> QED BY <1>1, <1>2, <1>4, <1>10, <2>1
<1>24. Sched'
  BY <1>12, <1>13, <1>14, <1>15, <1>16, <1>17, <1>18, <1>19, <1>20, <1>21, <1>22, <1>23 DEF Sched
<1> QED BY <1>2, <1>24, GoesOn
-----------------------------------------------------------------------------
(* Context switches.                                                       *)

(* The frame f is one that a thread is switched out at.                    *)
AtRest(f) == f.op \in {"user", "gone"} \/ f.at \in {"retry", "return"}

(* The executing thread goes to its place, leaving f, and n is executed.   *)
LEMMA SwitchedSched ==
  ASSUME IInv, Alive, Sched, NEW n \in Greens, cur' = n, NEW f \in Frames, SetFrame(f),
         UNCHANGED <<join, zombie, freed>>,
         AtRest(f), f.op \notin {"none", "exit"}, Live(n)',
         f.op = "gone" <=> frame[cur].op = "exit",
         frame[cur].op = "exit" => frame[cur].at \in DequeueStages,
         f.op = "join" <=> frame[cur].op = "join",
         f.op = "join" => /\ f.at = "return" /\ frame[cur].at # "register"
                          /\ f.target = frame[cur].target,
         f.op = "wait" => "wait" \in May[cur],
         \A g \in Greens \ {n} : Live(g)' => ctx'[g] = g,
         heap' \in Heap, Sound(heap'),
         \A g \in Greens : (\E q \in Queues : g \in Members(heap', q)) \/ (\E u \in Greens : Awaits(g, u))
                             <=> Live(g)' /\ g # n,
         \A g, u \in Greens : Awaits(g, u) => \A q \in Queues : g \notin Members(heap', q),
         \A g \in Greens : g \in Members(heap', "susp") =>
                             IF g = cur THEN f.at = "retry" ELSE In(g, "susp"),
         \A g \in Greens : g \in Members(heap', "waiting") =>
                             IF g = cur THEN f.op = "wait" ELSE In(g, "waiting"),
         numSusp' = Cardinality(Members(heap', "waiting")),
         ~taken' /\ heap'.head["susp"] # Null =>
           \E g \in Greens : (g \in Members(heap', "ready") \/ g = n) /\ frame'[g].at = "retry"
  PROVE  Sched'
<1> USE DEF EnqueueStages, DequeueStages, Stages
<1>1. /\ cur \in Greens /\ frame \in [Greens -> Frames] /\ Live(cur)
      /\ frame'[cur] = f /\ \A g \in Greens \ {cur} : frame'[g] = frame[g]
  BY Executing DEF SetFrame
<1>2. AtRest(frame'[n]) /\ frame'[n] \in Frames /\ frame'[n].op \notin {"none", "gone", "exit"}
  <2>1. CASE n = cur
    BY <1>1, <2>1 DEF Live
  <2>2. CASE n # cur
    <3>1. frame'[n] = frame[n] /\ Live(n)
      BY <1>1, <2>2 DEF Live
    <3>2. frame[n].op = "user" \/ frame[n].at \in {"retry", "return"}
      BY <2>2, <3>1 DEF Sched, OthersRest, Live
    <3> QED BY <1>1, <3>1, <3>2 DEF Live, AtRest, Frames, Stands
  <2> QED BY <2>1, <2>2
<1>3. frame'[cur'].at \in {"run", "retry", "return"} /\ frame'[cur'].op \notin {"exit", "signal", "yield"}
  BY <1>2 DEF AtRest, Frames, Stands
<1>4. /\ Settled' = heap' /\ Hand' = {} /\ ~Parted' /\ Owed' = 0
      /\ \A g, q : In(g, q)' <=> g \in Members(heap', q)
  BY <1>3, SettledThen DEF Hand, Parted, Owed
<1>5. \A g, u \in Greens : Awaits(g, u)' <=> Awaits(g, u)
  <2> SUFFICES ASSUME NEW g \in Greens, NEW u \in Greens PROVE Awaits(g, u)' <=> Awaits(g, u)
    OBVIOUS
  <2>1. CASE u = cur
    BY <1>1, <2>1 DEF Awaits, Live
  <2>2. CASE u # cur
    BY <1>1, <2>2 DEF Awaits, Live
  <2> QED BY <2>1, <2>2
<1>6. Placement'
  BY <1>4, <1>5 DEF Placement, Placed
<1>7. OnePlace'
  <2> SUFFICES ASSUME NEW g \in Greens, NEW u \in Greens, Awaits(g, u)'
               PROVE  /\ \A q \in Queues : ~In(g, q)'
                      /\ frame'[g].op = "join" /\ frame'[g].at # "register" /\ frame'[g].target = u
    BY DEF OnePlace
  <2>1. Awaits(g, u)
    BY <1>5
  <2>2. frame[g].op = "join" /\ frame[g].at # "register" /\ frame[g].target = u
    BY <2>1 DEF Sched, OnePlace
  <2> QED BY <1>1, <1>4, <2>1, <2>2
<1>8. InHand'
  BY <1>4 DEF InHand
<1>9. SleepersRetry'
  BY <1>1, <1>4 DEF Sched, SleepersRetry
<1>10. JoinKept'
  <2> SUFFICES ASSUME NEW g \in Greens, frame'[g].op = "join", NEW v, v = frame'[g].target
               PROVE  /\ v \in Greens /\ frame'[v].op # "none" /\ v # g
                      /\ frame'[g].at # "register"
                      /\ \/ Awaits(g, v)'
                         \/ frame'[g].at = "return" /\ zombie'[v]
    BY DEF JoinKept
  <2>1. /\ frame[g].op = "join" /\ v = frame[g].target /\ frame[g].at # "register"
        /\ frame'[g].at # "register"
        /\ frame[g].at = "return" => frame'[g].at = "return"
    <3>1. CASE g = cur
      BY <1>1, <3>1
    <3>2. CASE g # cur
      BY <1>1, <3>2 DEF Sched, OthersRest
    <3> QED BY <3>1, <3>2
  <2>2. /\ v \in Greens /\ frame[v].op # "none" /\ v # g
        /\ \/ Awaits(g, v)
           \/ frame[g].at = "return" /\ (zombie[v] \/ (v = cur /\ frame[v].op = "exit"))
    BY <2>1 DEF Sched, JoinKept
  <2>3. frame'[v].op # "none"
    BY <1>1, <2>2
  <2>4. v = cur /\ frame[v].op = "exit" => zombie[v]
    BY DEF Sched, Endings
  <2> QED BY <1>5, <2>1, <2>2, <2>3, <2>4
<1>11. OthersRest'
  <2> SUFFICES ASSUME NEW g \in Greens \ {n}
               PROVE \/ frame'[g].op \in {"none", "user", "gone"}
                     \/ frame'[g].at \in {"retry", "return"}
    BY DEF OthersRest
  <2> QED BY <1>1 DEF AtRest, Sched, OthersRest
<1>12. Endings'
  <2>1. Endings /\ freed \subseteq Greens
    BY DEF Sched, IInv, TypeOK
  <2>2. \A g \in Greens : frame'[g].op = "gone" => zombie'[g]
    BY <1>1, <2>1 DEF Endings
  <2>3. \A g \in freed : frame'[g].op = "gone"
    BY <1>1, <2>1 DEF Endings, Live
  <2> QED BY <1>3, <2>2, <2>3 DEF Endings
<1>13. Resumable'
  BY DEF Resumable
<1>14. AsCalled'
  BY <1>1 DEF Sched, AsCalled
<1>15. Standing'
  BY <1>3 DEF Standing
<1>16. Counted' /\ Sound(Settled)'
  <2>1. Cardinality(Members(heap', "waiting")) \in Nat
    BY FiniteQueue DEF Queues
  <2> QED BY <1>4, <2>1 DEF Counted
<1>17. SomebodyLooks'
  BY <1>4 DEF SomebodyLooks
<1> QED BY <1>6, <1>7, <1>8, <1>9, <1>10, <1>11, <1>12, <1>13, <1>14, <1>15, <1>16, <1>17 DEF Sched

(* A live thread is found where it was left.                               *)
LEMMA LoadFinds ==
  ASSUME IInv, Alive, Sched, NEW c \in [Greens -> Pointer], NEW n \in Greens, Load(c, n), Live(n),
         n # cur \/ frame[cur].op # "exit", NEW S \in SUBSET Greens, n \in S, \A g \in S : c[g] = g
  PROVE  cur' = n /\ UNCHANGED fault /\ \A g \in S \ {n} : ctx'[g] = g
<1> USE NullAssumption
<1>1. n \notin freed
  BY DEF Sched, Endings, Live
<1>2. c[n] = n /\ n # Null
  OBVIOUS
<1>3. cur' = n /\ UNCHANGED fault /\ ctx' = [g \in Greens |-> IF c[g] = n THEN Null ELSE c[g]]
  BY <1>1, <1>2 DEF Load
<1> QED BY <1>3

LEMMA SwapFinds ==
  ASSUME IInv, Alive, Sched, NEW n \in Greens, SwapContext(cur, n), Live(n), frame[cur].op # "exit"
  PROVE  cur' = n /\ UNCHANGED fault /\ \A g \in Greens \ {n} : Live(g) => ctx'[g] = g
<1> DEFINE c == [ctx EXCEPT ![cur] = cur]
           S == {g \in Greens : Live(g)}
<1>1. cur \in Greens /\ Live(cur) /\ ctx \in [Greens -> Pointer]
  BY Executing DEF IInv, TypeOK
<1>2. cur \notin freed
  BY <1>1 DEF Sched, Endings, Live
<1>3. Load(c, n)
  BY <1>2 DEF SwapContext
<1>4. c \in [Greens -> Pointer] /\ \A g \in S : c[g] = g
  BY <1>1 DEF Pointer, Sched, Resumable
<1>5. S \in SUBSET Greens /\ n \in S
  OBVIOUS
<1> HIDE DEF c
<1>6. cur' = n /\ UNCHANGED fault /\ \A g \in S \ {n} : ctx'[g] = g
  <2> HIDE DEF S
  <2> QED BY <1>3, <1>4, <1>5, LoadFinds
<1> QED BY <1>6

(* The context switches of yield, join and the end of a thread.            *)
LEMMA SwitchSched == ASSUME IInv, GInv, SwitchContext PROVE GInv'
<1> USE DEF EnqueueStages, DequeueStages, Stages
<1> DEFINE f == frame'[cur]
<1>0. PICK n : n = frame[cur].node
  OBVIOUS
<1>1. /\ Alive /\ Sched /\ cur \in Greens /\ frame[cur] \in Frames /\ frame[cur].at = "switch"
      /\ frame[cur].op \in {"yield", "join", "exit"} /\ heap \in Heap
      /\ frame \in [Greens -> Frames] /\ Live(cur)
  BY StandsAt, Executing DEF SwitchContext, Stands
<1>2. Hand = {n} /\ n \in Greens /\ Live(n) /\ (n = cur => frame[cur].op = "yield")
  BY <1>0, <1>1 DEF Hand, Sched, InHand
<1>3. UNCHANGED <<heap, join, zombie, freed, taken, numSusp>>
  BY DEF SwitchContext, thread, sync
<1>4. /\ SetFrame(f) /\ f \in Frames /\ AtRest(f)
      /\ f.op = CASE frame[cur].op = "exit" -> "gone"
                  [] frame[cur].op = "yield" -> "user"
                  [] OTHER -> "join"
      /\ f.op = "join" => f.at = "return" /\ f.target = frame[cur].target
  <2>1. CASE frame[cur].op = "exit"
    <3>1. SetFrame(GoneFrame)
      BY <1>1, <2>1 DEF SwitchContext
    <3>2. GoneFrame \in Frames /\ GoneFrame.op = "gone"
      BY DEF GoneFrame, Frame, Frames, Stands, Ops, Calls, Pointer
    <3> QED BY <1>1, <2>1, <3>1, <3>2 DEF SetFrame, AtRest
  <2>2. CASE frame[cur].op = "yield"
    <3>1. SetFrame(UserFrame)
      BY <1>1, <2>2 DEF SwitchContext
    <3> QED BY <1>1, <2>2, <3>1, UserFrameType DEF SetFrame, AtRest
  <2>3. CASE frame[cur].op = "join"
    <3> DEFINE r == [frame[cur] EXCEPT !.at = "return"]
    <3>1. SetFrame(r)
      BY <1>1, <2>3 DEF SwitchContext, Goto
    <3>2. r \in Frames /\ r.op = "join" /\ r.at = "return" /\ r.target = frame[cur].target
      BY <1>1, <2>3 DEF Frames, Stands
    <3> HIDE DEF r
    <3> QED BY <1>1, <2>3, <3>1, <3>2 DEF SetFrame, AtRest
  <2> QED BY <1>1, <2>1, <2>2, <2>3
<1> HIDE DEF f
<1>5. /\ frame'[cur] = f /\ \A g \in Greens \ {cur} : frame'[g] = frame[g]
      /\ \A g \in Greens : Live(g)' <=> Live(g) /\ (g = cur => frame[cur].op # "exit")
  BY <1>1, <1>4 DEF SetFrame, Live
<1>6. cur' = n /\ UNCHANGED fault /\ \A g \in Greens \ {n} : Live(g)' => ctx'[g] = g
  <2>1. CASE frame[cur].op = "exit"
    <3> DEFINE S == {g \in Greens \ {cur} : Live(g)}
    <3>1. Load(ctx, n) /\ ctx \in [Greens -> Pointer]
      BY <1>0, <1>1, <2>1 DEF SwitchContext, IInv, TypeOK
    <3>2. S \in SUBSET Greens /\ n \in S /\ n # cur /\ \A g \in S : ctx[g] = g
      BY <1>1, <1>2, <2>1 DEF Sched, Resumable
    <3>3. \A g \in Greens : Live(g)' => g \in S
      BY <1>5, <2>1
    <3> HIDE DEF S
    <3>4. cur' = n /\ UNCHANGED fault /\ \A g \in S \ {n} : ctx'[g] = g
      BY <1>1, <1>2, <3>1, <3>2, LoadFinds
    <3> QED BY <3>3, <3>4
  <2>2. CASE frame[cur].op # "exit"
    <3>1. frame[cur].item = cur
      BY <1>1, <2>2 DEF IInv, ItemIsSelf
    <3>2. SwapContext(cur, n)
      BY <1>0, <1>1, <2>2, <3>1 DEF SwitchContext
    <3>3. cur' = n /\ UNCHANGED fault /\ \A g \in Greens \ {n} : Live(g) => ctx'[g] = g
      BY <1>1, <1>2, <2>2, <3>2, SwapFinds
    <3> QED BY <1>1, <1>5, <2>2, <3>3
  <2> QED BY <2>1, <2>2
<1>7. Live(n)'
  BY <1>1, <1>2, <1>5
<1>8. /\ Settled = heap /\ (\A g, q : In(g, q) <=> g \in Members(heap, q)) /\ Owed = 0
      /\ Parted <=> frame[cur].op # "exit"
  BY <1>1, SettledNow DEF Owed, Parted
<1>9. \A g \in Greens : (\E q \in Queues : g \in Members(heap', q)) \/ (\E u \in Greens : Awaits(g, u))
                          <=> Live(g)' /\ g # n
  <2> SUFFICES ASSUME NEW g \in Greens
               PROVE (\E q \in Queues : g \in Members(heap', q)) \/ (\E u \in Greens : Awaits(g, u))
                          <=> Live(g)' /\ g # n
    OBVIOUS
  <2>1. Placed(g) <=> Live(g) /\ g # n /\ (g = cur => frame[cur].op # "exit")
    BY <1>1, <1>2, <1>8 DEF Sched, Placement
  <2>2. Placed(g) <=> (\E q \in Queues : g \in Members(heap', q)) \/ (\E u \in Greens : Awaits(g, u))
    BY <1>3, <1>8 DEF Placed
  <2> QED BY <1>1, <1>5, <2>1, <2>2
<1>10. \A g, u \in Greens : Awaits(g, u) => \A q \in Queues : g \notin Members(heap', q)
  BY <1>1, <1>3, <1>8 DEF Sched, OnePlace
<1>11. /\ \A g \in Greens : g \in Members(heap', "susp") => g # cur /\ In(g, "susp")
       /\ \A g \in Greens : g \in Members(heap', "waiting") => g # cur /\ In(g, "waiting")
  BY <1>1, <1>3, <1>8 DEF Sched, SleepersRetry
<1>12. heap' \in Heap /\ Sound(heap') /\ numSusp' = Cardinality(Members(heap', "waiting"))
  <2>1. Cardinality(Members(heap, "waiting")) \in Nat
    BY <1>1, FiniteQueue DEF Queues
  <2> QED BY <1>1, <1>3, <1>8, <2>1 DEF Sched, Counted
<1>13. ~taken' /\ heap'.head["susp"] # Null =>
         \E g \in Greens : (g \in Members(heap', "ready") \/ g = n) /\ frame'[g].at = "retry"
  <2> SUFFICES ASSUME ~taken', heap'.head["susp"] # Null
               PROVE \E g \in Greens : (g \in Members(heap', "ready") \/ g = n) /\ frame'[g].at = "retry"
    OBVIOUS
  <2>1. PICK g \in Greens : (In(g, "ready") \/ g \in Hand \/ g = cur) /\ frame[g].at = "retry"
    BY <1>1, <1>3 DEF Sched, SomebodyLooks
  <2>2. g # cur
    BY <1>1, <2>1
  <2> QED BY <1>2, <1>3, <1>5, <1>8, <2>1, <2>2
<1>14. /\ f.op \notin {"none", "exit", "wait"} /\ (f.op = "gone" <=> frame[cur].op = "exit")
       /\ (f.op = "join" <=> frame[cur].op = "join")
       /\ frame[cur].at \in DequeueStages /\ frame[cur].at # "register"
  BY <1>1, <1>4
<1>15. Sched'
  BY <1>1, <1>2, <1>3, <1>4, <1>6, <1>7, <1>9, <1>10, <1>11, <1>12, <1>13, <1>14, SwitchedSched
<1> QED BY <1>1, <1>6, <1>15, GoesOn

(* What is known of a thread at the test of the loop on taken, or between  *)
(* two calls.                                                              *)
LEMMA AtEase ==
  ASSUME IInv, GInv, Alive, frame[cur].op = "user" \/ frame[cur].at = "retry"
  PROVE  /\ Sched /\ cur \in Greens /\ heap \in Heap /\ frame[cur] \in Frames
         /\ frame[cur].at \in {"run", "retry"} /\ frame[cur].op \in {"user", "lock", "wait"}
         /\ running = cur /\ Live(cur)
         /\ Settled = heap /\ \A g, q : In(g, q) <=> g \in Members(heap, q)
         /\ Hand = {} /\ ~Parted /\ Owed = 0 /\ Sound(heap)
         /\ \A q \in Queues : cur \notin Members(heap, q)
         /\ \A u \in Greens : ~Awaits(cur, u)
         /\ numSusp = Cardinality(Members(heap, "waiting"))
<1> USE DEF EnqueueStages, DequeueStages
<1>1. /\ Sched /\ cur \in Greens /\ heap \in Heap /\ frame[cur] \in Frames
      /\ frame[cur].at \in {"run", "retry"} /\ frame[cur].op \in {"user", "lock", "wait"}
  BY DEF GInv, SInv, IInv, TypeOK, Frames, Stands
<1>2. running = cur
  BY <1>1 DEF IInv, RunningIsCurrent, Owner
<1>3. Hand = {} /\ ~Parted /\ Owed = 0 /\ Live(cur)
  BY <1>1 DEF Hand, Parted, Owed, Live
<1>4. Settled = heap /\ \A g, q : In(g, q) <=> g \in Members(heap, q)
  BY <1>1, SettledNow
<1>5. ~Placed(cur)
  BY <1>1, <1>3 DEF Sched, Placement
<1>6. Cardinality(Members(heap, "waiting")) \in Nat
  BY <1>1, FiniteQueue DEF Queues
<1>7. Sound(heap) /\ numSusp = Cardinality(Members(heap, "waiting"))
  BY <1>1, <1>3, <1>4, <1>6 DEF Sched, Counted
<1> QED BY <1>1, <1>2, <1>3, <1>4, <1>5, <1>7 DEF Placed

(* With the timer blocked: the executing thread goes to a queue, which     *)
(* makes the queues h, and the first ready thread is executed.             *)
LEMMA OutSched ==
  ASSUME IInv, GInv, Alive, frame[cur].op = "user" \/ frame[cur].at = "retry",
         NEW h \in Heap, Sound(h), NEW f \in Frames, SwitchOut(h, f), h.head["ready"] # Null,
         UNCHANGED thread, f.op \in {"user", "lock", "wait"}, AtRest(f),
         f.op = "wait" => "wait" \in May[cur],
         \A g \in Greens : (\E q \in Queues : g \in Members(h, q)) <=> (\E q \in Queues : In(g, q)) \/ g = cur,
         \A g \in Greens : g \in Members(h, "susp") =>
                             IF g = cur THEN f.at = "retry" ELSE In(g, "susp"),
         \A g \in Greens : g \in Members(h, "waiting") =>
                             IF g = cur THEN f.op = "wait" ELSE In(g, "waiting"),
         numSusp' = Cardinality(Members(h, "waiting")),
         ~taken' /\ h.head["susp"] # Null =>
           \E g \in Greens : g \in Members(h, "ready") /\ frame'[g].at = "retry"
  PROVE  GInv'
<1>1. /\ Sched /\ cur \in Greens /\ frame[cur].op \in {"user", "lock", "wait"} /\ Live(cur)
      /\ running = cur /\ frame \in [Greens -> Frames] /\ Hand = {} /\ ~Parted
      /\ \A u \in Greens : ~Awaits(cur, u)
  BY AtEase DEF IInv, TypeOK
<1>2. PICK n : n = h.head["ready"]
  OBVIOUS
<1>3. heap' = Dequeue(h, "ready") /\ SetFrame(f) /\ SwapContext(cur, n)
  BY <1>1, <1>2 DEF SwitchOut
<1>4. /\ n \in Greens /\ n \in Members(h, "ready") /\ heap' \in Heap /\ Sound(heap')
      /\ \A g \in Greens, r \in Queues :
           g \in Members(heap', r) <=> g \in Members(h, r) /\ g # n
      /\ heap'.head["susp"] = h.head["susp"]
  <2>1. "ready" \in Queues /\ "susp" \in Queues \ {"ready"}
    BY DEF Queues
  <2>2. /\ n \in Greens /\ n \in Members(h, "ready")
        /\ Dequeue(h, "ready") \in Heap /\ Sound(Dequeue(h, "ready"))
        /\ \A g \in Greens, r \in Queues :
             g \in Members(Dequeue(h, "ready"), r) <=> g \in Members(h, r) /\ g # n
        /\ \A r \in Queues \ {"ready"} : Dequeue(h, "ready").head[r] = h.head[r]
    BY <1>2, <2>1, DequeueSound
  <2> QED BY <1>3, <2>1, <2>2
<1>5. \A g \in Greens : /\ (\E q \in Queues : In(g, q)) => Live(g) /\ g # cur
                        /\ (\E u \in Greens : Awaits(g, u)) => Live(g) /\ g # cur /\ ~\E q \in Queues : In(g, q)
                        /\ Live(g) /\ g # cur => (\E q \in Queues : In(g, q)) \/ (\E u \in Greens : Awaits(g, u))
  <2> SUFFICES ASSUME NEW g \in Greens
               PROVE  /\ (\E q \in Queues : In(g, q)) => Live(g) /\ g # cur
                      /\ (\E u \in Greens : Awaits(g, u)) => Live(g) /\ g # cur /\ ~\E q \in Queues : In(g, q)
                      /\ Live(g) /\ g # cur => (\E q \in Queues : In(g, q)) \/ (\E u \in Greens : Awaits(g, u))
    OBVIOUS
  <2>1. (\E q \in Queues : In(g, q)) \/ (\E u \in Greens : Awaits(g, u)) <=> Live(g) /\ g # cur
    BY <1>1 DEF Sched, Placement, Placed
  <2>2. \A u \in Greens : Awaits(g, u) => \A q \in Queues : ~In(g, q)
    BY DEF Sched, OnePlace, GInv, SInv
  <2> QED BY <2>1, <2>2
<1>6. Live(n)
  BY <1>1, <1>4, <1>5 DEF Queues
<1>7. cur' = n /\ UNCHANGED fault /\ \A g \in Greens \ {n} : Live(g) => ctx'[g] = g
  BY <1>1, <1>3, <1>4, <1>6, SwapFinds
<1>8. \A g \in Greens : Live(g)' <=> Live(g)
  BY <1>1, <1>3 DEF SetFrame, Live
<1>9. UNCHANGED <<join, zombie, freed>>
  BY DEF thread
<1>10. \A g \in Greens : (\E q \in Queues : g \in Members(heap', q)) \/ (\E u \in Greens : Awaits(g, u))
                           <=> Live(g)' /\ g # n
  <2> SUFFICES ASSUME NEW g \in Greens
               PROVE (\E q \in Queues : g \in Members(heap', q)) \/ (\E u \in Greens : Awaits(g, u))
                           <=> Live(g)' /\ g # n
    OBVIOUS
  <2>1. (\E q \in Queues : g \in Members(heap', q)) <=> (\E q \in Queues : g \in Members(h, q)) /\ g # n
    BY <1>4
  <2>2. (\E q \in Queues : g \in Members(h, q)) <=> (\E q \in Queues : In(g, q)) \/ g = cur
    OBVIOUS
  <2>3. (\E u \in Greens : Awaits(g, u)) => g # n
    <3>1. \E q \in Queues : n \in Members(h, q)
      BY <1>4 DEF Queues
    <3>2. (\E q \in Queues : In(n, q)) \/ n = cur
      BY <1>4, <3>1
    <3> QED BY <1>5, <3>2
  <2> QED BY <1>1, <1>5, <1>8, <2>1, <2>2, <2>3
<1>11. \A g, u \in Greens : Awaits(g, u) => \A q \in Queues : g \notin Members(heap', q)
  BY <1>1, <1>4, <1>5
<1>12. /\ \A g \in Greens : g \in Members(heap', "susp") =>
                              IF g = cur THEN f.at = "retry" ELSE In(g, "susp")
       /\ \A g \in Greens : g \in Members(heap', "waiting") =>
                              IF g = cur THEN f.op = "wait" ELSE In(g, "waiting")
  BY <1>4 DEF Queues
<1>13. numSusp' = Cardinality(Members(heap', "waiting"))
  <2>1. Members(heap', "waiting") \subseteq Greens /\ Members(h, "waiting") \subseteq Greens
    BY <1>4, HeadIsMember DEF Queues
  <2>2. n \notin Members(h, "waiting")
    BY <1>4 DEF Sound, Apart, Queues
  <2>3. Members(heap', "waiting") = Members(h, "waiting")
    BY <1>4, <2>1, <2>2 DEF Queues
  <2> QED BY <2>3
<1>14. ~taken' /\ heap'.head["susp"] # Null =>
         \E g \in Greens : (g \in Members(heap', "ready") \/ g = n) /\ frame'[g].at = "retry"
  BY <1>4 DEF Queues
<1>15. /\ f.op \notin {"none", "exit"} /\ f.op # "gone" /\ frame[cur].op # "exit"
       /\ f.op # "join" /\ frame[cur].op # "join"
       /\ Live(n)' /\ \A g \in Greens \ {n} : Live(g)' => ctx'[g] = g
  BY <1>1, <1>4, <1>6, <1>7, <1>8
<1>16. Sched'
  BY <1>1, <1>3, <1>4, <1>7, <1>9, <1>10, <1>11, <1>12, <1>13, <1>14, <1>15, SwitchedSched
<1> QED BY <1>7, <1>16, GoesOn

LEMMA SuspendSched ==
  ASSUME IInv, GInv, Alive, frame[cur].op = "user" \/ frame[cur].at = "retry",
         NEW q \in {"ready", "susp"}, NEW f \in Frames, SuspendOn(q, f), UNCHANGED <<thread, sync>>,
         f.op \in {"user", "lock", "wait"}, AtRest(f), f.op = "wait" => "wait" \in May[cur],
         q = "susp" => f.at = "retry" /\ taken,
         frame[cur].at = "retry" => f.at = "retry"
  PROVE  GInv'
<1>1. /\ Sched /\ cur \in Greens /\ heap \in Heap /\ Hand = {} /\ running = cur
      /\ frame[cur].at # "clear" /\ Sound(heap)
      /\ \A r \in Queues : cur \notin Members(heap, r)
      /\ \A g, r : In(g, r) <=> g \in Members(heap, r)
      /\ numSusp = Cardinality(Members(heap, "waiting"))
      /\ q \in Queues /\ q # "waiting" /\ frame \in [Greens -> Frames]
  BY AtEase DEF IInv, TypeOK, Queues
<1>2. PICK h : h = Enqueue(heap, q, cur)
  OBVIOUS
<1>3. /\ ~Endless(heap, q) /\ h \in Heap /\ Sound(h)
      /\ \A g \in Greens, r \in Queues : g \in Members(h, r) <=> g \in Members(heap, r) \/ (r = q /\ g = cur)
      /\ \A r \in Queues \ {q} : h.head[r] = heap.head[r]
      /\ h.head[q] # Null
  <2> DEFINE e == Enqueue(heap, q, cur)
  <2>1. /\ ~Endless(heap, q) /\ e \in Heap /\ Sound(e)
        /\ \A g \in Greens, r \in Queues : g \in Members(e, r) <=> g \in Members(heap, r) \/ (r = q /\ g = cur)
        /\ \A r \in Queues \ {q} : e.head[r] = heap.head[r]
        /\ e.head[q] # Null
    BY <1>1, EnqueueSound
  <2> HIDE DEF e
  <2>2. h = e
    BY <1>2 DEF e
  <2> QED BY <2>1, <2>2
<1>4. SwitchOut(h, f)
  BY <1>1, <1>2, <1>3 DEF SuspendOn
<1>5. CASE h.head["ready"] = Null
  <2>1. q = "susp" /\ heap.head["ready"] = Null /\ taken
    BY <1>3, <1>5 DEF Queues
  <2>2. fault' = "null" /\ UNCHANGED <<heap, join, frame, cur, taken>>
    BY <1>4, <1>5 DEF SwitchOut, thread, sync, cpu
  <2> QED BY <1>1, <2>1, <2>2, DeadlockStep
<1>6. CASE h.head["ready"] # Null
  <2>1. \A g \in Greens : (\E r \in Queues : g \in Members(h, r)) <=> (\E r \in Queues : In(g, r)) \/ g = cur
    BY <1>1, <1>3
  <2>2. /\ \A g \in Greens : g \in Members(h, "susp") =>
                               IF g = cur THEN f.at = "retry" ELSE In(g, "susp")
        /\ \A g \in Greens : g \in Members(h, "waiting") =>
                               IF g = cur THEN f.op = "wait" ELSE In(g, "waiting")
    BY <1>1, <1>3 DEF Queues
  <2>3. numSusp' = Cardinality(Members(h, "waiting"))
    <3>1. Members(h, "waiting") = Members(heap, "waiting")
      <4>1. Members(h, "waiting") \subseteq Greens /\ Members(heap, "waiting") \subseteq Greens
        BY <1>1, <1>3, HeadIsMember DEF Queues
      <4> QED BY <1>1, <1>3, <4>1 DEF Queues
    <3> QED BY <1>1, <3>1 DEF sync
  <2>4. ASSUME ~taken', h.head["susp"] # Null
        PROVE  \E g \in Greens : g \in Members(h, "ready") /\ frame'[g].at = "retry"
    <3>1. ~taken /\ q = "ready" /\ heap.head["susp"] # Null
      BY <1>3, <2>4 DEF sync, Queues
    <3>2. PICK g \in Greens : (In(g, "ready") \/ g = cur) /\ frame[g].at = "retry"
      BY <1>1, <3>1 DEF Sched, SomebodyLooks
    <3>3. g \in Members(h, "ready")
      BY <1>1, <1>3, <3>1, <3>2
    <3>4. SetFrame(f)
      BY <1>4, <1>6 DEF SwitchOut
    <3>5. frame'[g].at = "retry"
      BY <1>1, <3>2, <3>4 DEF SetFrame
    <3> QED BY <3>3, <3>5
  <2>5. UNCHANGED thread
    OBVIOUS
  <2> QED BY <1>3, <1>4, <1>6, <2>1, <2>2, <2>3, <2>4, <2>5, OutSched
<1> QED BY <1>5, <1>6

LEMMA TickSched == ASSUME Orderly, IInv, GInv, Tick PROVE GInv'
<1>1. Alive /\ Sched /\ frame[cur] \in Frames /\ Live(cur)
  BY Executing DEF Tick, GInv, SInv, IInv, TypeOK
<1>2. frame[cur].op = "user"
  <2>1. frame[cur].op \in Ops /\ frame[cur].op \notin Exposed \cup {"lock", "wait", "none", "gone"}
    BY <1>1 DEF Tick, Orderly, Frames, Live
  <2>2. frame[cur].op # "unlock"
    BY <1>1 DEF Frames, Stands, Stages, EnqueueStages, DequeueStages
  <2> QED BY <2>1, <2>2 DEF Ops, Calls, Exposed
<1> QED BY <1>1, <1>2, SuspendSched DEF Tick, AtRest

(* The loop on taken: take the mutex, or suspend and come back to the test.*)
LEMMA TryLockSched ==
  ASSUME IInv, GInv, Alive, frame[cur].op = "user" \/ frame[cur].at = "retry",
         NEW f \in Frames, TakeOrSuspend(f), UNCHANGED thread,
         f.op \in {"lock", "wait"}, f.at = "retry", f.op = "wait" => "wait" \in May[cur]
  PROVE  GInv'
<1>1. CASE ~taken
  BY <1>1, TakenSched
<1>2. CASE taken
  BY <1>2, SuspendSched DEF TakeOrSuspend, AtRest
<1> QED BY <1>1, <1>2

LEMMA RetrySched == ASSUME IInv, GInv, Retry PROVE GInv'
<1>1. /\ Alive /\ Sched /\ cur \in Greens /\ frame[cur] \in Frames /\ frame[cur].at = "retry"
      /\ frame[cur].op \in {"lock", "wait"}
  BY StandsAt DEF Retry, Stands, Frames, Here
<1>2. frame[cur].op = "wait" => "wait" \in May[cur]
  BY <1>1 DEF Sched, AsCalled
<1> QED BY <1>1, <1>2, TryLockSched DEF Retry

LEMMA LockSched ==
  ASSUME IInv, GInv, Alive, frame[cur].op = "user", CallLock PROVE GInv'
<1> DEFINE f == Frame("lock", "retry", Null, Null, Null)
<1>1. f \in Frames /\ f.op = "lock" /\ f.at = "retry"
  BY CallFrameType DEF Stands, Calls, Stages, EnqueueStages, DequeueStages, Pointer
<1>2. TakeOrSuspend(f) /\ UNCHANGED thread
  BY DEF CallLock
<1> HIDE DEF f
<1> QED BY <1>1, <1>2, TryLockSched

(* green_mutex_unlock: one suspended thread is ready and looks at the      *)
(* mutex, which is free.                                                   *)
LEMMA UnlockSched ==
  ASSUME IInv, GInv, Alive, frame[cur].op = "user", Unlock PROVE GInv'
<1> DEFINE n == heap.head["susp"]
           d == Dequeue(heap, "susp")
<1>1. /\ Sched /\ cur \in Greens /\ heap \in Heap /\ Hand = {} /\ ~Parted /\ Owed = 0
      /\ frame[cur].at \in {"run", "retry"} /\ Sound(heap) /\ Settled = heap
      /\ \A q \in Queues : cur \notin Members(heap, q)
      /\ \A g, r : In(g, r) <=> g \in Members(heap, r)
      /\ numSusp = Cardinality(Members(heap, "waiting"))
  BY AtEase
<1>2. /\ UNCHANGED fault /\ UNCHANGED <<join, zombie, freed, cur, ctx, frame, numSusp>> /\ ~taken'
      /\ heap' \in Heap /\ Sound(heap')
      /\ \A g \in Greens, r \in Queues :
           g \in Members(heap', r) <=> IF n # Null /\ g = n THEN r = "ready" ELSE g \in Members(heap, r)
  <2>1. CASE n = Null
    BY <1>1, <2>1 DEF Unlock, thread, cpu
  <2>2. CASE n # Null
    <3>1. /\ n \in Greens /\ n \in Members(heap, "susp") /\ d \in Heap /\ Sound(d)
          /\ \A g \in Greens, r \in Queues : g \in Members(d, r) <=> g \in Members(heap, r) /\ g # n
      BY <1>1, <2>2, DequeueSound DEF Queues
    <3> HIDE DEF d
    <3> DEFINE e == Enqueue(d, "ready", n)
    <3>2. /\ ~Endless(d, "ready") /\ e \in Heap /\ Sound(e)
          /\ \A g \in Greens, r \in Queues :
               g \in Members(e, r) <=> g \in Members(d, r) \/ (r = "ready" /\ g = n)
      <4>1. /\ \A r \in Queues : n \notin Members(d, r)
            /\ "ready" \in Queues /\ n \in Greens /\ d \in Heap /\ Sound(d)
        BY <3>1 DEF Queues
      <4> HIDE DEF n
      <4> QED BY <4>1, EnqueueSound
    <3>3. heap' = e /\ ~taken' /\ UNCHANGED <<thread, cpu, frame, numSusp, fault>>
      BY <2>2, <3>2 DEF Unlock, d
    <3> HIDE DEF e, n
    <3>4. UNCHANGED <<join, zombie, freed, cur, ctx>>
      BY <3>3 DEF thread, cpu
    <3> QED BY <2>2, <3>1, <3>2, <3>3, <3>4
  <2> QED BY <2>1, <2>2
<1>3. /\ n # Null => n \in Greens /\ n \in Members(heap, "susp") /\ frame[n].at = "retry"
      /\ \A g \in Greens : (\E q \in Queues : g \in Members(heap', q)) <=> (\E q \in Queues : In(g, q))
      /\ \A g \in Greens : g \in Members(heap', "waiting") <=> In(g, "waiting")
      /\ \A g \in Greens : g \in Members(heap', "susp") => In(g, "susp")
  <2>1. n # Null => n \in Greens /\ n \in Members(heap, "susp") /\ frame[n].at = "retry"
    BY <1>1, HeadIsMember DEF Queues, Sched, SleepersRetry
  <2>2. n # Null => n \notin Members(heap, "waiting")
    BY <1>1, <2>1 DEF Sound, Apart, Queues
  <2> HIDE DEF n
  <2> QED BY <1>1, <1>2, <2>1, <2>2 DEF Queues
<1> HIDE DEF n, d
<1>4. /\ \A g \in Greens : Live(g)' <=> Live(g)
      /\ \A g, u \in Greens : Awaits(g, u)' <=> Awaits(g, u)
  BY <1>2 DEF Live, Awaits
<1>5. /\ Hand' = {} /\ ~Parted' /\ Owed' = 0
      /\ Settled' = heap' /\ \A g, r : In(g, r)' <=> g \in Members(heap', r)
  <2>1. Hand' = {} /\ ~Parted' /\ Owed' = 0
    BY <1>1, <1>2 DEF Hand, Parted, Owed
  <2> QED BY <1>1, <1>2, <2>1, SettledThen
<1>6. Placement'
  <2>1. \A g \in Greens : Placed(g)' <=> Placed(g)
    BY <1>3, <1>4, <1>5 DEF Placed
  <2> QED BY <1>1, <1>2, <1>4, <1>5, <2>1 DEF Sched, Placement
<1>7. OnePlace'
  <2> SUFFICES ASSUME NEW g \in Greens, NEW u \in Greens, Awaits(g, u)'
               PROVE  /\ \A q \in Queues : ~In(g, q)'
                      /\ frame'[g].op = "join" /\ frame'[g].at # "register" /\ frame'[g].target = u
    BY DEF OnePlace
  <2>1. Awaits(g, u)
    BY <1>4
  <2> QED BY <1>1, <1>2, <1>3, <1>5, <2>1 DEF Sched, OnePlace
<1>8. InHand' /\ SleepersRetry'
  BY <1>1, <1>2, <1>3, <1>5 DEF InHand, Sched, SleepersRetry
<1>9. JoinKept'
  BY <1>1, <1>2, <1>4 DEF Sched, JoinKept
<1>10. OthersRest' /\ Endings' /\ Resumable' /\ AsCalled'
  <2>1. OthersRest'
    BY <1>1, <1>2, <1>4 DEF Sched, OthersRest
  <2>2. Endings'
    BY <1>1, <1>2 DEF Sched, Endings
  <2>3. Resumable'
    BY <1>1, <1>2, <1>4 DEF Sched, Resumable
  <2>4. AsCalled'
    BY <1>1, <1>2 DEF Sched, AsCalled
  <2> QED BY <2>1, <2>2, <2>3, <2>4
<1>11. Standing'
  BY <1>1, <1>2 DEF Standing
<1>12. Counted' /\ Sound(Settled)'
  <2>1. Members(heap', "waiting") \subseteq Greens /\ Members(heap, "waiting") \subseteq Greens
    BY <1>1, <1>2, HeadIsMember DEF Queues
  <2>2. Members(heap', "waiting") = Members(heap, "waiting")
    BY <1>1, <1>3, <2>1
  <2>3. Cardinality(Members(heap, "waiting")) \in Nat
    BY <1>1, FiniteQueue DEF Queues
  <2>4. numSusp' = Cardinality(Members(heap', "waiting")) + 0
    BY <1>1, <1>2, <2>2, <2>3
  <2> QED BY <1>2, <1>5, <2>4 DEF Counted
<1>13. SomebodyLooks'
  <2> SUFFICES ASSUME heap'.head["susp"] # Null
               PROVE  \E g \in Greens : In(g, "ready")' /\ frame'[g].at = "retry"
    BY DEF SomebodyLooks
  <2>1. PICK g \in Greens : g \in Members(heap', "susp")
    BY <1>2, HeadIsMember DEF Queues
  <2>2. In(g, "susp")
    BY <1>3, <2>1
  <2>3. n # Null
    <3>1. Members(heap, "susp") # {}
      BY <1>1, <2>2
    <3> QED BY <1>1, <3>1, HeadIsMember DEF n, Queues
  <2> QED BY <1>2, <1>3, <1>5, <2>3 DEF Queues
<1>14. Sched'
  BY <1>6, <1>7, <1>8, <1>9, <1>10, <1>11, <1>12, <1>13 DEF Sched
<1> QED BY <1>2, <1>14, GoesOn

(* green_cond_wait: the thread waits, and with the mutex everybody who was *)
(* suspended on that is ready.                                             *)
LEMMA WaitSched ==
  ASSUME IInv, GInv, Alive, frame[cur].op = "user", "wait" \in May[cur],
         NEW m \in BOOLEAN, CallWait(m)
  PROVE  GInv'
<1> DEFINE f == Frame("wait", IF m THEN "retry" ELSE "return", Null, Null, Null)
<1>1. /\ Sched /\ cur \in Greens /\ heap \in Heap /\ Hand = {} /\ frame[cur].at = "run"
      /\ Sound(heap) /\ running = cur /\ frame \in [Greens -> Frames]
      /\ \A q \in Queues : cur \notin Members(heap, q)
      /\ \A g, r : In(g, r) <=> g \in Members(heap, r)
      /\ numSusp = Cardinality(Members(heap, "waiting"))
  BY AtEase, InUser DEF IInv, TypeOK
<1>2. PICK k : k = WaitQueued
  OBVIOUS
<1>3. /\ ~Endless(heap, "waiting") /\ k \in Heap /\ Sound(k)
      /\ \A g \in Greens, r \in Queues :
           g \in Members(k, r) <=> g \in Members(heap, r) \/ (r = "waiting" /\ g = cur)
      /\ k.head["susp"] = heap.head["susp"] /\ k.head["ready"] = heap.head["ready"]
  <2> DEFINE e == Enqueue(heap, "waiting", cur)
  <2>1. /\ ~Endless(heap, "waiting") /\ e \in Heap /\ Sound(e)
        /\ \A g \in Greens, r \in Queues :
             g \in Members(e, r) <=> g \in Members(heap, r) \/ (r = "waiting" /\ g = cur)
        /\ \A r \in Queues \ {"waiting"} : e.head[r] = heap.head[r]
    BY <1>1, EnqueueSound DEF Queues
  <2> HIDE DEF e
  <2>2. k = e
    BY <1>1, <1>2 DEF WaitQueued, e
  <2> QED BY <2>1, <2>2 DEF Queues
<1>4. ~Endless(k, "ready")
  BY <1>3 DEF Sound, Ends, Queues
<1>5. PICK h : h = IF m THEN WaitReleased ELSE WaitQueued
  OBVIOUS
<1>6. /\ h \in Heap /\ Sound(h)
      /\ \A g \in Greens : /\ g \in Members(h, "ready") <=> In(g, "ready") \/ (m /\ In(g, "susp"))
                           /\ g \in Members(h, "susp") <=> ~m /\ In(g, "susp")
                           /\ g \in Members(h, "waiting") <=> In(g, "waiting") \/ g = cur
      /\ m => h.head["susp"] = Null
      /\ ~m => h.head["susp"] = heap.head["susp"]
  <2>1. CASE m
    <3> DEFINE e == [Enqueue(k, "ready", k.head["susp"]) EXCEPT !.head["susp"] = Null]
    <3>1. h = e
      BY <1>2, <1>3, <1>5, <2>1 DEF WaitReleased
    <3>2. /\ e \in Heap /\ Sound(e) /\ e.head["susp"] = Null
          /\ \A g \in Greens, r \in Queues :
              g \in Members(e, r) <=>
                \/ r \notin {"ready", "susp"} /\ g \in Members(k, r)
                \/ r = "ready" /\ (g \in Members(k, "ready") \/ g \in Members(k, "susp"))
      <4>1. k \in Heap /\ "ready" \in Queues /\ "susp" \in Queues /\ "susp" # "ready" /\ Sound(k)
        BY <1>3 DEF Queues
      <4>2. /\ e \in Heap /\ Sound(e)
            /\ \A g \in Greens, r \in Queues :
                 g \in Members(e, r) <=>
                   \/ r \notin {"ready", "susp"} /\ g \in Members(k, r)
                   \/ r = "ready" /\ (g \in Members(k, "ready") \/ g \in Members(k, "susp"))
            /\ \A r \in Queues \ {"ready", "susp"} : e.head[r] = k.head[r]
            /\ e.head["susp"] = Null
        BY ONLY <4>1, MoveSound
      <4> HIDE DEF e
      <4> QED BY <4>2
    <3> HIDE DEF e
    <3>3. \A g \in Greens : /\ g \in Members(e, "ready") <=> In(g, "ready") \/ In(g, "susp")
                            /\ g \notin Members(e, "susp")
                            /\ g \in Members(e, "waiting") <=> In(g, "waiting") \/ g = cur
      BY <1>1, <1>3, <3>2 DEF Queues
    <3> QED BY <2>1, <3>1, <3>2, <3>3
  <2>2. CASE ~m
    <3>1. h = k
      BY <1>2, <1>5, <2>2
    <3>2. \A g \in Greens : /\ g \in Members(k, "ready") <=> In(g, "ready")
                            /\ g \in Members(k, "susp") <=> In(g, "susp")
                            /\ g \in Members(k, "waiting") <=> In(g, "waiting") \/ g = cur
      BY <1>1, <1>3 DEF Queues
    <3> QED BY <1>3, <2>2, <3>1, <3>2
  <2> QED BY <2>1, <2>2
<1>7. IF h.head["ready"] = Null
      THEN Crash("null")
      ELSE /\ SwitchOut(h, f) /\ UNCHANGED thread
           /\ numSusp' = numSusp + 1
           /\ taken' = IF m THEN FALSE ELSE taken
  BY <1>2, <1>3, <1>4, <1>5 DEF CallWait
<1>8. CASE h.head["ready"] = Null
  <2>1. heap.head["ready"] = Null
    <3>1. \A g \in Greens : ~In(g, "ready")
      BY <1>6, <1>8, HeadIsMember DEF Queues
    <3> QED BY <1>1, <3>1, HeadIsMember DEF Queues
  <2>2. fault' = "null" /\ UNCHANGED <<heap, join, frame, cur, taken>>
    BY <1>7, <1>8 DEF Crash, thread, sync, cpu
  <2> QED BY <1>1, <2>1, <2>2, DeadlockStep
<1>9. CASE h.head["ready"] # Null
  <2>1. /\ SwitchOut(h, f) /\ UNCHANGED thread /\ numSusp' = numSusp + 1
        /\ taken' = IF m THEN FALSE ELSE taken
    BY <1>7, <1>9
  <2>2. f \in Frames /\ f.op = "wait" /\ AtRest(f)
    BY CallFrameType DEF Stands, Calls, Stages, EnqueueStages, DequeueStages, Pointer, AtRest, Frame
  <2> HIDE DEF f
  <2>3. \A g \in Greens : (\E r \in Queues : g \in Members(h, r)) <=> (\E r \in Queues : In(g, r)) \/ g = cur
    BY <1>6 DEF Queues
  <2>4. /\ \A g \in Greens : g \in Members(h, "susp") =>
                               IF g = cur THEN f.at = "retry" ELSE In(g, "susp")
        /\ \A g \in Greens : g \in Members(h, "waiting") =>
                               IF g = cur THEN f.op = "wait" ELSE In(g, "waiting")
    BY <1>1, <1>6, <2>2 DEF Queues
  <2>5. numSusp' = Cardinality(Members(h, "waiting"))
    <3> DEFINE W == Members(heap, "waiting")
    <3>1. Members(h, "waiting") = W \cup {cur}
      <4>1. Members(h, "waiting") \subseteq Greens /\ W \subseteq Greens
        BY <1>1, <1>6, HeadIsMember DEF Queues
      <4> QED BY <1>1, <1>6, <4>1
    <3>2. cur \notin W /\ IsFiniteSet(W) /\ numSusp = Cardinality(W)
      BY <1>1, FiniteQueue DEF Queues
    <3> HIDE DEF W
    <3>3. Cardinality(W \cup {cur}) = Cardinality(W) + 1
      BY <3>2, FS_AddElement
    <3> QED BY <2>1, <3>1, <3>2, <3>3
  <2>6. ASSUME ~taken', h.head["susp"] # Null
        PROVE  \E g \in Greens : g \in Members(h, "ready") /\ frame'[g].at = "retry"
    <3>1. ~taken /\ ~m /\ heap.head["susp"] # Null
      BY <1>6, <2>1, <2>6
    <3>2. PICK g \in Greens : (In(g, "ready") \/ g = cur) /\ frame[g].at = "retry"
      BY <1>1, <3>1 DEF Sched, SomebodyLooks
    <3>3. g # cur /\ g \in Members(h, "ready")
      BY <1>1, <1>6, <3>2
    <3>4. SetFrame(f)
      BY <1>9, <2>1 DEF SwitchOut
    <3> QED BY <1>1, <3>2, <3>3, <3>4 DEF SetFrame
  <2> QED BY <1>6, <1>9, <2>1, <2>2, <2>3, <2>4, <2>5, <2>6, OutSched
<1> QED BY <1>8, <1>9
-----------------------------------------------------------------------------
(* Every step keeps the invariant.                                         *)
LEMMA InitSched == Init => GInv
<1> SUFFICES ASSUME Init PROVE GInv
  OBVIOUS
<1> USE NullAssumption, GreenAssumption
<1>1. /\ cur = Main /\ cur \in Greens /\ frame[cur] = UserFrame
      /\ \A g \in Greens \ {cur} : frame[g] = NoFrame
      /\ heap = EmptyHeap /\ heap \in Heap /\ freed = {} /\ numSusp = 0 /\ fault = "none"
      /\ \A g \in Greens : join[g] = Null /\ ~zombie[g]
  BY DEF Init, EmptyHeap, Heap, Pointer
<1>2. /\ UserFrame.op = "user" /\ UserFrame.at = "run" /\ NoFrame.op = "none" /\ NoFrame.at = "run"
  BY DEF UserFrame, NoFrame, Frame
<1>3. /\ \A q \in Queues : heap.head[q] = Null /\ Members(heap, q) = {}
      /\ \A g \in Greens : heap.next[g] = Null
  <2>1. /\ \A q \in Queues : heap.head[q] = Null
        /\ \A g \in Greens : heap.next[g] = Null
    BY <1>1 DEF EmptyHeap
  <2> QED BY <1>1, <2>1, HeadIsMember
<1>4. Sound(heap)
  BY <1>3 DEF Sound, Ends, Endless, Apart, FirstIsFirst, NextOfOne, Loose
<1>5. /\ Settled = heap /\ (\A g, q : In(g, q) <=> g \in Members(heap, q))
      /\ Hand = {} /\ ~Parted /\ Owed = 0
  <2>1. frame[cur].at = "run" /\ frame[cur].op = "user"
    BY <1>1, <1>2
  <2> QED BY <2>1, SettledNow DEF Hand, Parted, Owed, EnqueueStages, DequeueStages
<1>6. /\ \A g \in Greens : (Live(g) <=> g = cur) /\ frame[g].op \in {"user", "none"}
      /\ \A g, u \in Greens : ~Awaits(g, u)
  <2>1. \A g \in Greens : (Live(g) <=> g = cur) /\ frame[g].op \in {"user", "none"}
    BY <1>1, <1>2 DEF Live
  <2> QED BY <1>1, <2>1 DEF Awaits
<1>7. Placement /\ OnePlace /\ InHand /\ SleepersRetry
  <2>1. \A g \in Greens : ~Placed(g)
    BY <1>3, <1>5, <1>6 DEF Placed
  <2> QED BY <1>3, <1>5, <1>6, <2>1 DEF Placement, OnePlace, InHand, SleepersRetry, Queues
<1>8. JoinKept /\ OthersRest /\ Endings /\ Resumable /\ AsCalled
  <2>1. JoinKept /\ AsCalled
    BY <1>6 DEF JoinKept, AsCalled
  <2>2. OthersRest /\ Resumable
    BY <1>1, <1>6 DEF OthersRest, Resumable
  <2>3. Endings
    BY <1>1, <1>2, <1>6 DEF Endings
  <2> QED BY <2>1, <2>2, <2>3
<1>9. Standing
  BY <1>1, <1>2 DEF Standing
<1>10. Counted /\ SomebodyLooks
  BY <1>1, <1>3, <1>5, FS_EmptySet DEF Counted, SomebodyLooks, Queues
<1>11. Sched
  BY <1>4, <1>5, <1>7, <1>8, <1>9, <1>10 DEF Sched
<1> QED BY <1>1, <1>11 DEF GInv, SInv, CrashOnlyOnDeadlock, Alive

LEMMA UserSched == ASSUME Orderly, IInv, GInv, UserCall PROVE GInv'
<1>1. Alive /\ frame[cur].op = "user"
  BY DEF UserCall, Calling
<1>2. ASSUME NEW n \in Threads, CallCreate(n) PROVE GInv'
  BY <1>1, <1>2, CreateSched
<1>3. ASSUME CallYield PROVE GInv'
  BY <1>1, <1>3, YieldSched
<1>4. ASSUME NEW u \in Threads, CallJoin(u), "join" \in May[cur] PROVE GInv'
  BY <1>1, <1>4, JoinSched
<1>5. ASSUME CallExit PROVE GInv'
  BY <1>1, <1>5, ExitSched
<1>6. ASSUME CallSignal PROVE GInv'
  BY <1>1, <1>6, SignalSched
<1>7. ASSUME CallLock PROVE GInv'
  BY <1>1, <1>7, LockSched
<1>8. ASSUME Unlock PROVE GInv'
  BY <1>1, <1>8, UnlockSched
<1>9. ASSUME NEW m \in BOOLEAN, CallWait(m), "wait" \in May[cur] PROVE GInv'
  BY <1>1, <1>9, WaitSched
<1> QED BY <1>2, <1>3, <1>4, <1>5, <1>6, <1>7, <1>8, <1>9 DEF UserCall, Calling

LEMMA LibSched == ASSUME Orderly, IInv, GInv, LibStep PROVE GInv'
BY TestSched, SetSched, WalkSched, LinkSched, TakeSched, AdvanceSched, ClearSched,
   DispatchSched, SwitchSched, RegisterSched, ReturnSched, FreeSched, MarkSched,
   OldSched, UnhookSched, CountSched, RetrySched DEF LibStep

LEMMA IdleSched == ASSUME GInv, UNCHANGED vars PROVE GInv'
<1>1. UNCHANGED <<heap, join, zombie, ctx, freed, cur, frame, taken, numSusp, fault>>
  BY DEF vars
<1>2. /\ UNCHANGED <<Settled, Hand, Parted, Owed>>
      /\ \A g, q : In(g, q)' <=> In(g, q)
      /\ \A g : Live(g)' <=> Live(g)
  BY <1>1 DEF Settled, Hand, Parted, Owed, In, Live
<1>3. \A g, u : Awaits(g, u)' <=> Awaits(g, u)
  BY <1>1, <1>2 DEF Awaits
<1>4. \A g : Placed(g)' <=> Placed(g)
  BY <1>2, <1>3 DEF Placed
<1>5. ASSUME Sched PROVE Sched'
  <2>1. Sound(Settled)' /\ Counted'
    BY <1>1, <1>2, <1>5 DEF Sched, Counted
  <2>2. Placement' /\ OnePlace' /\ InHand' /\ SleepersRetry'
    BY <1>1, <1>2, <1>3, <1>4, <1>5 DEF Sched, Placement, OnePlace, InHand, SleepersRetry
  <2>3. JoinKept' /\ OthersRest' /\ Endings' /\ Resumable' /\ AsCalled'
    BY <1>1, <1>2, <1>3, <1>5 DEF Sched, JoinKept, OthersRest, Endings, Resumable, AsCalled
  <2>4. Standing' /\ SomebodyLooks'
    BY <1>1, <1>2, <1>5 DEF Sched, Standing, SomebodyLooks
  <2> QED BY <2>1, <2>2, <2>3, <2>4 DEF Sched
<1>6. CrashOnlyOnDeadlock'
  BY <1>1 DEF GInv, CrashOnlyOnDeadlock, Alive, Live, Blocked, JoinedTo
<1> QED BY <1>1, <1>5, <1>6 DEF GInv, SInv, Alive

LEMMA NextSched == ASSUME Orderly PROVE IInv /\ GInv /\ [Next]_vars => GInv'
<1> SUFFICES ASSUME IInv, GInv, [Next]_vars PROVE GInv'
  OBVIOUS
<1> QED BY TickSched, LibSched, UserSched, IdleSched DEF Next
-----------------------------------------------------------------------------
(* What follows from the invariant where the CPU is between two calls, or  *)
(* in one that the timer cannot interrupt.                                 *)
LEMMA AtStable ==
  ASSUME IInv, GInv, Stable
  PROVE  /\ Sched /\ cur \in Greens /\ heap \in Heap
         /\ Settled = heap /\ \A g, q : In(g, q) <=> g \in Members(heap, q)
         /\ Hand = {} /\ ~Parted /\ Owed = 0 /\ Sound(heap)
         /\ \A g \in Greens : JoinedTo(g) = {u \in Greens : Awaits(g, u)}
<1> USE DEF EnqueueStages, DequeueStages
<1>1. /\ Sched /\ cur \in Greens /\ heap \in Heap /\ frame \in [Greens -> Frames]
      /\ frame[cur].at \in {"run", "retry", "return"} /\ frame[cur].op \in {"user", "lock", "wait"}
  BY DEF Stable, GInv, SInv, IInv, TypeOK, Frames, Stands, Stages
<1>2. Hand = {} /\ ~Parted /\ Owed = 0
  BY <1>1 DEF Hand, Parted, Owed
<1>3. Settled = heap /\ \A g, q : In(g, q) <=> g \in Members(heap, q)
  BY <1>1, SettledNow
<1>4. Sound(heap)
  BY <1>1, <1>3 DEF Sched
<1>5. \A u \in Greens : frame[u].op # "exit"
  BY <1>1 DEF Sched, OthersRest, Frames, Stands
<1>6. \A g \in Greens : JoinedTo(g) = {u \in Greens : Awaits(g, u)}
  BY <1>5 DEF JoinedTo, Awaits
<1> QED BY <1>1, <1>2, <1>3, <1>4, <1>6

LEMMA EachInOnePlace == ASSUME IInv, GInv PROVE NoThreadLost
<1> SUFFICES ASSUME Stable, NEW g \in Greens
             PROVE  Cardinality(Queued(g)) + Cardinality(JoinedTo(g)) = IF Live(g) /\ g # cur THEN 1 ELSE 0
  BY DEF NoThreadLost
<1>1. /\ Sched /\ Hand = {} /\ ~Parted /\ Sound(heap)
      /\ Queued(g) = {q \in Queues : In(g, q)} /\ JoinedTo(g) = {u \in Greens : Awaits(g, u)}
  BY AtStable DEF Queued
<1>2. /\ \A q, r \in Queues : In(g, q) /\ In(g, r) => q = r
      /\ \A u, v \in Greens : Awaits(g, u) /\ Awaits(g, v) => u = v
      /\ \A u \in Greens, q \in Queues : ~(Awaits(g, u) /\ In(g, q))
      /\ Placed(g) <=> Live(g) /\ g # cur
  <2>1. \A q, r \in Queues : In(g, q) /\ In(g, r) => q = r
    BY AtStable DEF Sound, Apart
  <2>2. \A u \in Greens : Awaits(g, u) => (\A q \in Queues : ~In(g, q)) /\ frame[g].target = u
    BY <1>1 DEF Sched, OnePlace
  <2>3. Placed(g) <=> Live(g) /\ g # cur
    BY <1>1 DEF Sched, Placement
  <2> QED BY <2>1, <2>2, <2>3
<1>3. Cardinality({}) = 0 /\ \A x : Cardinality({x}) = 1
  BY FS_EmptySet, FS_Singleton
<1>4. CASE \E q \in Queues : In(g, q)
  <2>1. PICK q \in Queues : In(g, q)
    BY <1>4
  <2>2. Queued(g) = {q} /\ JoinedTo(g) = {} /\ Placed(g)
    BY <1>1, <1>2, <2>1 DEF Placed
  <2>3. Cardinality(Queued(g)) = 1 /\ Cardinality(JoinedTo(g)) = 0
    BY <1>3, <2>2
  <2>4. Live(g) /\ g # cur
    BY <1>2, <2>2
  <2> QED BY <2>3, <2>4
<1>5. CASE \E u \in Greens : Awaits(g, u)
  <2>1. PICK u \in Greens : Awaits(g, u)
    BY <1>5
  <2>2. Queued(g) = {} /\ JoinedTo(g) = {u} /\ Placed(g)
    BY <1>1, <1>2, <2>1 DEF Placed
  <2>3. Cardinality(Queued(g)) = 0 /\ Cardinality(JoinedTo(g)) = 1
    BY <1>3, <2>2
  <2>4. Live(g) /\ g # cur
    BY <1>2, <2>2
  <2> QED BY <2>3, <2>4
<1>6. CASE ~Placed(g)
  <2>1. Queued(g) = {} /\ JoinedTo(g) = {}
    BY <1>1, <1>6 DEF Placed
  <2> QED BY <1>2, <1>3, <1>6, <2>1
<1> QED BY <1>4, <1>5, <1>6 DEF Placed

LEMMA SomebodyAwake == ASSUME IInv, GInv PROVE NoLostWakeup /\ NumSuspCounts
<1>1. ASSUME Stable, ~taken, heap.head["susp"] # Null
      PROVE  \E g \in Members(heap, "ready") \cup {cur} : frame[g].at = "retry"
  <2>1. PICK g \in Greens : (In(g, "ready") \/ g \in Hand \/ g = cur) /\ frame[g].at = "retry"
    BY <1>1, AtStable DEF Sched, SomebodyLooks
  <2> QED BY <1>1, <2>1, AtStable
<1>2. ASSUME Stable PROVE numSusp = Cardinality(Members(heap, "waiting"))
  <2>1. Cardinality(Members(heap, "waiting")) \in Nat
    BY <1>2, AtStable, FiniteQueue DEF Queues
  <2> QED BY <1>2, <2>1, AtStable DEF Sched, Counted
<1> QED BY <1>1, <1>2 DEF NoLostWakeup, NumSuspCounts

(* Nobody but the executing thread moves in its stack, except that one may *)
(* be created.                                                             *)
LEMMA OthersMove ==
  ASSUME IInv, [Next]_vars, NEW g \in Greens \ {cur}
  PROVE  frame'[g] = frame[g] \/ (frame[g].op = "none" /\ frame'[g] = UserFrame)
<1>1. cur \in Greens /\ frame \in [Greens -> Frames]
  BY DEF IInv, TypeOK
<1>2. ASSUME NEW f, SetFrame(f) PROVE frame'[g] = frame[g]
  BY <1>1, <1>2 DEF SetFrame
<1>3. ASSUME NEW h, NEW f, SwitchOut(h, f) PROVE frame'[g] = frame[g]
  BY <1>2, <1>3 DEF SwitchOut
<1>4. ASSUME NEW q, NEW f, SuspendOn(q, f) PROVE frame'[g] = frame[g]
  BY <1>3, <1>4 DEF SuspendOn
<1>5. ASSUME NEW f, TakeOrSuspend(f) PROVE frame'[g] = frame[g]
  BY <1>2, <1>4, <1>5 DEF TakeOrSuspend
<1>6. ASSUME NEW x, Crash(x) PROVE frame'[g] = frame[g]
  BY <1>6 DEF Crash
<1>7. CASE Tick
  BY <1>4, <1>7 DEF Tick
<1>8. CASE LibStep
  <2>1. CASE EnqueueTest \/ EnqueueSet \/ EnqueueWalk \/ EnqueueLink
    BY <1>2, <2>1 DEF EnqueueTest, EnqueueSet, EnqueueWalk, EnqueueLink, AfterEnqueue, Goto, GotoWith
  <2>2. CASE DequeueTake \/ DequeueAdvance \/ DequeueClear \/ Dispatch
    BY <1>2, <1>6, <2>2 DEF DequeueTake, DequeueAdvance, DequeueClear, Dispatch, Goto, GotoWith
  <2>3. CASE SwitchContext
    <3>1. \E f : SetFrame(f)
      BY <2>3 DEF SwitchContext, Goto
    <3> QED BY <1>2, <3>1
  <2>4. CASE JoinRegister \/ Return \/ ExitFree \/ ExitMark
    BY <1>2, <2>4 DEF JoinRegister, Return, ExitFree, ExitMark, Goto
  <2>5. CASE SignalOld \/ SignalUnhook \/ SignalCount
    BY <1>2, <1>6, <2>5 DEF SignalOld, SignalUnhook, SignalCount, Goto
  <2>6. CASE Retry
    BY <1>5, <2>6 DEF Retry
  <2> QED BY <1>8, <2>1, <2>2, <2>3, <2>4, <2>5, <2>6 DEF LibStep
<1>9. CASE UserCall
  <2>1. ASSUME NEW n \in Threads, CallCreate(n)
        PROVE  frame'[g] = frame[g] \/ (frame[g].op = "none" /\ frame'[g] = UserFrame)
    BY <1>1, <2>1 DEF CallCreate
  <2>2. CASE CallYield \/ CallExit \/ CallSignal \/ \E u \in Threads : CallJoin(u)
    BY <1>2, <2>2 DEF CallYield, CallExit, CallSignal, CallJoin
  <2>3. CASE CallLock
    BY <1>5, <2>3 DEF CallLock
  <2>4. CASE Unlock
    BY <1>6, <2>4 DEF Unlock
  <2>5. ASSUME NEW m \in BOOLEAN, CallWait(m) PROVE frame'[g] = frame[g]
    BY <1>3, <1>6, <2>5 DEF CallWait
  <2> QED BY <1>9, <2>1, <2>2, <2>3, <2>4, <2>5 DEF UserCall
<1>10. CASE UNCHANGED vars
  BY <1>10 DEF vars
<1> QED BY <1>7, <1>8, <1>9, <1>10 DEF Next

LEMMA OthersStay ==
  ASSUME IInv, [Next]_vars, NEW g \in Greens \ {cur}, frame[g].op # "none"
  PROVE  frame'[g] = frame[g]
BY OthersMove

LEMMA JoinDone ==
  ASSUME IInv, GInv, [Next]_vars, NEW g \in Greens, Joining(g), frame'[g].op # "join"
  PROVE  zombie[frame[g].target]
<1>1. g = cur
  BY OthersStay DEF Joining
<1>2. Alive
  <2> SUFFICES ASSUME ~Alive PROVE FALSE
    OBVIOUS
  <2>1. ~Next
    BY DEF Next, Tick, LibStep, UserCall, Calling, Here, EnqueueTest, EnqueueSet, EnqueueWalk,
           EnqueueLink, DequeueTake, DequeueAdvance, DequeueClear, Dispatch, SwitchContext,
           JoinRegister, Return, ExitFree, ExitMark, SignalOld, SignalUnhook, SignalCount, Retry
  <2> QED BY <2>1 DEF vars, Joining
<1>3. Sched /\ ~Placed(cur)
  <2>1. Sched /\ cur \in Greens
    BY <1>2 DEF GInv, SInv, IInv, TypeOK
  <2>2. ~Parted
    BY <1>1 DEF Joining, Parted, DequeueStages
  <2> QED BY <2>1, <2>2 DEF Sched, Placement
<1> QED BY <1>1, <1>3 DEF Joining, Sched, JoinKept, Placed

(* The queues, the joins, the saved contexts, the count of the waiters and *)
(* the looks at the mutex fit together in every state.                     *)
THEOREM SchedInvariance == ASSUME Orderly PROVE Spec => [](IInv /\ GInv)
<1>1. Init => IInv /\ GInv
  BY InitIInv, InitSched
<1>2. IInv /\ GInv /\ [Next]_vars => (IInv /\ GInv)'
  BY NextIInv, NextSched
<1> QED
  BY <1>1, <1>2, PTL DEF Spec

(* Whatever threads there are, and however create, yield, join, the end of *)
(* a thread, the mutex and the condition move them about: a live thread    *)
(* that is not executing is in exactly one place it can come back from.    *)
THEOREM NobodyLost == ASSUME Orderly PROVE Spec => []NoThreadLost
<1>1. IInv /\ GInv => NoThreadLost
  BY EachInOnePlace
<1> QED
  BY <1>1, SchedInvariance, PTL

(* green_mutex_unlock wakes one thread, which may find the mutex taken by  *)
(* another: whoever is asleep while it is free has somebody ready to look. *)
THEOREM WakeupsKept == ASSUME Orderly PROVE Spec => []NoLostWakeup
<1>1. IInv /\ GInv => NoLostWakeup
  BY SomebodyAwake
<1> QED
  BY <1>1, SchedInvariance, PTL

(* num_susp, which green_cond_signal trusts, is the number of waiters.     *)
THEOREM WaitersCounted == ASSUME Orderly PROVE Spec => []NumSuspCounts
<1>1. IInv /\ GInv => NumSuspCounts
  BY SomebodyAwake
<1> QED
  BY <1>1, SchedInvariance, PTL

(* No walk along a queue is endless, no context is out of date or freed,   *)
(* and the null pointer that dequeue returns is met only when the client   *)
(* has blocked every thread.                                               *)
THEOREM DiesOfDeadlock == ASSUME Orderly PROVE Spec => []CrashOnlyOnDeadlock
<1>1. IInv /\ GInv => CrashOnlyOnDeadlock
  BY DEF GInv
<1> QED
  BY <1>1, SchedInvariance, PTL

(* A join goes back to its caller when the thread it names is a zombie.    *)
THEOREM JoinsEnd == ASSUME Orderly PROVE Spec => JoinMeansDone
<1>1. IInv /\ GInv /\ [Next]_vars =>
        [\A g \in Greens : Joining(g) /\ frame'[g].op # "join" => zombie[frame[g].target]]_vars
  BY JoinDone
<1> QED
  BY <1>1, SchedInvariance, PTL DEF Spec, JoinMeansDone
-----------------------------------------------------------------------------
(* The library implements Scheduler.  What that needs beyond GInv: who has *)
(* the mutex is nowhere it would be given away, a taken mutex is somebody's,*)
(* and a thread that ends has a joiner to wake only if that one joins it.  *)
HolderActs == \A g \in holding : frame[g].op \in {"user", "create", "yield", "join", "signal"}
TakenIsHeld == taken => holding # {}
EndingJoined ==
  Alive /\ frame[cur].op = "exit" =>
    /\ cur # Main
    /\ join[cur] # Null => frame[join[cur]].op = "join" /\ frame[join[cur]].target = cur

Roles == MutualExclusion /\ HolderActs /\ TakenIsHeld /\ EndingJoined

(* How a statement of the library, or the timer, changes the executing     *)
(* stack.                                                                  *)
LEMMA OwnStep ==
  ASSUME IInv, Tick \/ (LibStep /\ ~Retry)
  PROVE  /\ \/ frame'[cur].op = frame[cur].op
            \/ frame'[cur].op = "user"
            \/ frame[cur].op = "exit" /\ frame'[cur].op = "gone"
         /\ UNCHANGED <<taken, holding>>
<1>1. cur \in Greens /\ frame \in [Greens -> Frames] /\ frame[cur] \in Frames
  BY DEF IInv, TypeOK
<1>2. UserFrame.op = "user" /\ GoneFrame.op = "gone"
  BY DEF UserFrame, GoneFrame, Frame
<1> DEFINE Own == \/ frame'[cur].op = frame[cur].op
                  \/ frame'[cur].op = "user"
                  \/ frame[cur].op = "exit" /\ frame'[cur].op = "gone"
<1>3. ASSUME NEW s, Goto(s) PROVE Own
  BY <1>1, <1>3 DEF Goto, SetFrame, Frames
<1>4. ASSUME NEW s, NEW n, GotoWith(s, n) PROVE Own
  BY <1>1, <1>4 DEF GotoWith, SetFrame, Frames
<1>5. ASSUME SetFrame(UserFrame) PROVE Own
  BY <1>1, <1>2, <1>5 DEF SetFrame
<1>6. ASSUME AfterEnqueue PROVE Own
  BY <1>3, <1>5, <1>6 DEF AfterEnqueue
<1>7. ASSUME NEW x, Crash(x) PROVE Own /\ UNCHANGED <<taken, holding>>
  BY <1>7 DEF Crash, sync
<1>8. CASE Tick
  <2>1. SetFrame(frame[cur]) \/ UNCHANGED frame
    BY <1>8 DEF Tick, SuspendOn, SwitchOut
  <2> QED BY <1>1, <1>8, <2>1 DEF Tick, sync, SetFrame
<1>9. CASE EnqueueTest \/ EnqueueSet \/ EnqueueWalk \/ EnqueueLink
  BY <1>3, <1>4, <1>6, <1>9 DEF EnqueueTest, EnqueueSet, EnqueueWalk, EnqueueLink, sync
<1>10. CASE DequeueTake \/ DequeueAdvance \/ DequeueClear \/ Dispatch
  BY <1>3, <1>4, <1>7, <1>10 DEF DequeueTake, DequeueAdvance, DequeueClear, Dispatch, sync
<1>11. CASE SwitchContext
  <2>1. Own
    <3>1. CASE frame[cur].op = "exit"
      BY <1>1, <1>2, <1>11, <3>1 DEF SwitchContext, SetFrame
    <3>2. CASE frame[cur].op = "yield"
      BY <1>5, <1>11, <3>2 DEF SwitchContext
    <3>3. CASE frame[cur].op \notin {"exit", "yield"}
      BY <1>3, <1>11, <3>3 DEF SwitchContext
    <3> QED BY <3>1, <3>2, <3>3
  <2> QED BY <1>11, <2>1 DEF SwitchContext, sync
<1>12. CASE JoinRegister
  BY <1>1, <1>12 DEF JoinRegister, SetFrame, Frames, sync
<1>13. CASE Return \/ ExitFree \/ ExitMark \/ SignalCount
  BY <1>3, <1>5, <1>13 DEF Return, ExitFree, ExitMark, SignalCount, sync
<1>14. CASE SignalOld
  BY <1>1, <1>14 DEF SignalOld, SetFrame, Frames, sync
<1>15. CASE SignalUnhook
  BY <1>3, <1>7, <1>15 DEF SignalUnhook, sync
<1> QED BY <1>8, <1>9, <1>10, <1>11, <1>12, <1>13, <1>14, <1>15 DEF LibStep

(* The mutex is taken exactly while somebody has it, and who has it is     *)
(* executing, ready, or asleep for the end of another.                     *)
LEMMA HolderStep ==
  ASSUME IInv, MutualExclusion, HolderActs, TakenIsHeld, [Next]_vars
  PROVE  HolderActs' /\ TakenIsHeld'
<1>1. cur \in Greens /\ frame \in [Greens -> Frames] /\ holding \subseteq Greens
  BY DEF IInv, TypeOK
<1>2. \A g \in holding \ {cur} : frame'[g] = frame[g]
  BY <1>1, OthersStay DEF HolderActs
<1>3. UserFrame.op = "user"
  BY DEF UserFrame, Frame
<1>4. CASE Tick \/ (LibStep /\ ~Retry)
  <2>1. /\ UNCHANGED <<taken, holding>>
        /\ \/ frame'[cur].op = frame[cur].op \/ frame'[cur].op = "user"
           \/ frame[cur].op = "exit" /\ frame'[cur].op = "gone"
    BY <1>4, OwnStep
  <2> QED BY <1>2, <2>1 DEF HolderActs, TakenIsHeld
<1>5. ASSUME NEW f, TakeOrSuspend(f), cur \notin holding PROVE HolderActs' /\ TakenIsHeld'
  <2>1. CASE taken
    BY <1>2, <1>5, <2>1 DEF TakeOrSuspend, sync, HolderActs, TakenIsHeld
  <2>2. CASE ~taken
    BY <1>1, <1>2, <1>3, <1>5, <2>2 DEF TakeOrSuspend, SetFrame, HolderActs, TakenIsHeld
  <2> QED BY <2>1, <2>2
<1>6. CASE Retry
  <2>1. frame[cur].op \in {"lock", "wait"}
    BY <1>1, <1>6 DEF Retry, Here, Frames, Stands
  <2>2. cur \notin holding
    BY <2>1 DEF HolderActs
  <2> QED BY <1>5, <1>6, <2>2 DEF Retry
<1>7. ASSUME NEW x, Crash(x) PROVE HolderActs' /\ TakenIsHeld'
  BY <1>7 DEF Crash, sync, HolderActs, TakenIsHeld
<1>8. CASE UserCall
  <2>1. ASSUME NEW n \in Threads, CallCreate(n) PROVE HolderActs' /\ TakenIsHeld'
    <3>1. frame'[cur].op = "create" /\ UNCHANGED <<taken, holding>>
      BY <1>1, <2>1 DEF CallCreate, Frame, sync
    <3> QED BY <1>2, <3>1 DEF HolderActs, TakenIsHeld
  <2>2. CASE CallYield \/ CallExit \/ CallSignal \/ \E u \in Threads : CallJoin(u)
    <3>1. UNCHANGED <<taken, holding>>
      BY <2>2 DEF CallYield, CallExit, CallSignal, CallJoin, sync
    <3>2. frame'[cur].op \in {"yield", "signal", "join"} \/ cur \notin holding
      BY <1>1, <2>2 DEF CallYield, CallExit, CallSignal, CallJoin, SetFrame, Frame
    <3> QED BY <1>2, <3>1, <3>2 DEF HolderActs, TakenIsHeld
  <2>3. CASE CallLock
    BY <1>5, <2>3 DEF CallLock
  <2>4. CASE Unlock
    <3>1. UNCHANGED <<frame, taken, holding>> \/ (UNCHANGED frame /\ ~taken' /\ holding' = holding \ {cur})
      BY <2>4 DEF Unlock, Crash, sync
    <3> QED BY <3>1 DEF HolderActs, TakenIsHeld
  <2>5. ASSUME NEW m \in BOOLEAN, CallWait(m) PROVE HolderActs' /\ TakenIsHeld'
    <3>1. (\E x : Crash(x)) \/ (holding' = holding \ {cur} /\ taken' = IF m THEN FALSE ELSE taken)
      BY <2>5 DEF CallWait
    <3>2. m <=> cur \in holding
      BY <2>5 DEF CallWait
    <3> QED BY <1>2, <1>7, <3>1, <3>2 DEF HolderActs, TakenIsHeld
  <2> QED BY <1>8, <2>1, <2>2, <2>3, <2>4, <2>5 DEF UserCall
<1>9. CASE UNCHANGED vars
  BY <1>9 DEF vars, HolderActs, TakenIsHeld
<1> QED BY <1>4, <1>6, <1>8, <1>9 DEF Next

LEMMA NextAlive == Next => Alive
BY DEF Next, Tick, LibStep, UserCall, Calling, Here, EnqueueTest, EnqueueSet, EnqueueWalk,
       EnqueueLink, DequeueTake, DequeueAdvance, DequeueClear, Dispatch, SwitchContext,
       JoinRegister, Return, ExitFree, ExitMark, SignalOld, SignalUnhook, SignalCount, Retry

(* A thread begins to end in CallExit only.                                *)
LEMMA EntersExit ==
  ASSUME IInv, Next, frame[cur].op # "exit", frame'[cur].op = "exit"
  PROVE  CallExit
<1>1. cur \in Greens /\ frame \in [Greens -> Frames] /\ frame[cur] \in Frames
  BY DEF IInv, TypeOK
<1>2. UserFrame.op = "user"
  BY DEF UserFrame, Frame
<1>3. ~(Tick \/ (LibStep /\ ~Retry))
  BY OwnStep
<1>4. ASSUME NEW f, TakeOrSuspend(f), f.op # "exit" PROVE FALSE
  <2>1. SetFrame(f) \/ SetFrame(UserFrame) \/ UNCHANGED frame
    BY <1>4 DEF TakeOrSuspend, SuspendOn, SwitchOut
  <2> QED BY <1>1, <1>2, <1>4, <2>1 DEF SetFrame
<1>5. CASE Retry
  BY <1>4, <1>5 DEF Retry
<1>6. CASE UserCall
  <2>1. ~CallYield /\ ~CallSignal /\ (\A n \in Threads : ~CallCreate(n)) /\ \A u \in Threads : ~CallJoin(u)
    BY <1>1 DEF CallYield, CallSignal, CallCreate, CallJoin, SetFrame, Frame
  <2>2. ~CallLock
    BY <1>4 DEF CallLock, Frame
  <2>3. ~Unlock
    BY DEF Unlock, Crash
  <2>4. \A m \in BOOLEAN : ~CallWait(m)
    <3> SUFFICES ASSUME NEW m \in BOOLEAN, CallWait(m) PROVE FALSE
      OBVIOUS
    <3>1. UNCHANGED frame \/ \E s : SetFrame(Frame("wait", s, Null, Null, Null))
      BY DEF CallWait, Crash, SwitchOut
    <3> QED BY <1>1, <3>1 DEF SetFrame, Frame
  <2> QED BY <1>6, <2>1, <2>2, <2>3, <2>4 DEF UserCall
<1> QED BY <1>3, <1>5, <1>6 DEF Next

(* While a thread ends, no join field changes.                             *)
LEMMA ExitKeepsJoin ==
  ASSUME IInv, Next, frame[cur].op = "exit"
  PROVE  join' = join
<1>1. frame[cur] \in Frames
  BY DEF IInv, TypeOK
<1>2. ~UserCall /\ ~JoinRegister /\ ~Retry
  BY <1>1 DEF UserCall, Calling, JoinRegister, Retry, Here, Frames, Stands
<1> QED
  BY <1>2 DEF Next, Tick, LibStep, EnqueueTest, EnqueueSet, EnqueueWalk, EnqueueLink, DequeueTake,
              DequeueAdvance, DequeueClear, Dispatch, SwitchContext, Return, ExitFree, ExitMark,
              SignalOld, SignalUnhook, SignalCount, Crash, thread

LEMMA EndingStep ==
  ASSUME IInv, IInv', GInv, GInv', EndingJoined, [Next]_vars
  PROVE  EndingJoined'
<1> SUFFICES ASSUME Alive', frame'[cur'].op = "exit"
             PROVE  /\ cur' # Main
                    /\ join'[cur'] # Null => frame'[join'[cur']].op = "join" /\ frame'[join'[cur']].target = cur'
  BY DEF EndingJoined
<1>1. CASE UNCHANGED vars
  BY <1>1 DEF vars, EndingJoined, Alive
<1> SUFFICES ASSUME Next PROVE /\ cur' # Main
                               /\ join'[cur'] # Null => frame'[join'[cur']].op = "join" /\ frame'[join'[cur']].target = cur'
  BY <1>1
<1>2. /\ Alive /\ Sched /\ cur \in Greens /\ frame \in [Greens -> Frames] /\ join \in [Greens -> Pointer]
      /\ cur' \in Greens /\ frame' \in [Greens -> Frames]
  <2>1. Alive
    BY NextAlive
  <2> QED BY <2>1 DEF GInv, SInv, IInv, TypeOK
<1>3. UserFrame.op = "user"
  BY DEF UserFrame, Frame
<1>4. cur' = cur
  <2> SUFFICES ASSUME cur' # cur PROVE FALSE
    OBVIOUS
  <2>1. frame'[cur'] = frame[cur']
    BY <1>2, <1>3, OthersMove
  <2>2. frame[cur'].at \in {"retry", "return"} /\ frame[cur'].op = "exit" /\ frame[cur'] \in Frames
    BY <1>2, <2>1 DEF Sched, OthersRest
  <2> QED BY <2>2 DEF Frames, Stands
<1>5. CASE frame[cur].op = "exit"
  <2>1. join' = join
    BY <1>2, <1>5, ExitKeepsJoin
  <2>2. join[cur] # Null => frame'[join[cur]] = frame[join[cur]]
    BY <1>2, <1>5, OthersStay DEF EndingJoined, Pointer
  <2> QED BY <1>2, <1>4, <1>5, <2>1, <2>2 DEF EndingJoined
<1>6. CASE frame[cur].op # "exit"
  <2>1. CallExit
    BY <1>2, <1>4, <1>6, EntersExit
  <2>2. cur # Main /\ join' = join
    BY <2>1 DEF CallExit, thread
  <2>3. ASSUME join[cur] # Null PROVE frame[join[cur]].op = "join" /\ frame[join[cur]].target = cur
    BY <1>2, <1>6, <2>3 DEF Sched, OnePlace, OthersRest, Awaits, Pointer
  <2>4. join[cur] # Null => frame'[join[cur]] = frame[join[cur]]
    <3>1. join[cur] # Null => join[cur] # cur
      BY <1>2, <2>3 DEF Sched, JoinKept
    <3> QED BY <1>2, <2>3, <3>1, OthersStay DEF Pointer
  <2> QED BY <1>4, <2>2, <2>3, <2>4
<1> QED BY <1>5, <1>6

LEMMA RolesInit == Init => Roles
<1> SUFFICES ASSUME Init PROVE Roles
  OBVIOUS
<1>1. frame[cur].op = "user"
  BY GreenAssumption DEF Init, UserFrame, Frame
<1> QED BY <1>1 DEF Init, Roles, MutualExclusion, HolderActs, TakenIsHeld, EndingJoined

(* The invariant that the mapping needs.                                   *)
RInv == IInv /\ GInv /\ Roles

LEMMA RolesNext == ASSUME Orderly PROVE RInv /\ [Next]_vars => RInv'
<1> SUFFICES ASSUME RInv, [Next]_vars PROVE RInv'
  OBVIOUS
<1>1. IInv' /\ GInv'
  BY NextIInv, NextSched DEF RInv
<1>2. MutualExclusion'
  BY MutexStep, UserCallIsCall DEF Next, RInv, Roles
<1>3. HolderActs' /\ TakenIsHeld'
  BY HolderStep DEF RInv, Roles
<1>4. EndingJoined'
  BY <1>1, EndingStep DEF RInv, Roles
<1> QED BY <1>1, <1>2, <1>3, <1>4 DEF RInv, Roles

LEMMA RolesInvariance == ASSUME Orderly PROVE Spec => []RInv
<1>1. Init => RInv
  BY InitIInv, InitSched, RolesInit DEF RInv
<1> QED
  BY <1>1, RolesNext, PTL DEF Spec
-----------------------------------------------------------------------------
(* Between the second and the third statement of dequeue too, the queues   *)
(* hold who they hold when it is done.                                     *)
LEMMA MembersNow ==
  ASSUME IInv, Alive, Sched, NEW q \in Queues
  PROVE  Members(heap, q) = Members(Settled, q)
<1>1. CASE frame[cur].at # "clear"
  BY <1>1 DEF Settled
<1>2. CASE frame[cur].at = "clear"
  <2>1. /\ heap \in Heap /\ Settled \in Heap /\ frame[cur].node \in Hand
        /\ Settled = [heap EXCEPT !.next[frame[cur].node] = Null]
        /\ \A g \in Greens : In(g, q) => Placed(g)
    BY <1>2, Executing DEF Settled, Hand, EnqueueStages
  <2>2. frame[cur].node \notin Members(Settled, q)
    BY <2>1 DEF Sched, InHand, Placement, In
  <2>3. heap.head[q] = Settled.head[q] /\ \A g \in Members(Settled, q) : heap.next[g] = Settled.next[g]
    BY <2>1, <2>2, HeadIsMember DEF Heap
  <2> QED BY <2>1, <2>3, QueueFrame
<1> QED BY <1>1, <1>2

(* The join of g on u is pending until u is gone.                          *)
Pends(g, u) == Live(u) /\ join[u] = g

Sleeps(g) == g \in Members(heap, "susp") \/ g \in Members(heap, "waiting") \/ \E u \in Greens : Pends(g, u)

(* Where the threads of Scheduler are.  A live one is executing, or asleep *)
(* in one of three ways, or ready.                                         *)
Where ==
  /\ cur \in Greens /\ Live(cur)
  /\ Members(heap, "susp") \subseteq Greens /\ Members(heap, "waiting") \subseteq Greens
  /\ \A g \in Greens : g \in Members(heap, "susp") \/ g \in Members(heap, "waiting") =>
       Live(g) /\ g # cur /\ \A u \in Greens : ~Pends(g, u)
  /\ \A g \in Greens : ~(g \in Members(heap, "susp") /\ g \in Members(heap, "waiting"))
  /\ \A g, u \in Greens : Pends(g, u) => Live(g) /\ frame[g].op = "join" /\ frame[g].target = u
  /\ \A u \in Greens : Pends(cur, u) => frame[cur].at \in DequeueStages
  /\ Ready = {g \in Greens : Live(g) /\ (g = cur \/ ~Sleeps(g))}
  /\ PendingJoins = {j \in Greens \X Greens : j[1] # cur /\ Pends(j[1], j[2])}
  /\ Dead = {g \in Greens : frame[g].op = "gone"}

LEMMA WhereThreadsAre == ASSUME RInv, Alive PROVE Where
<1>1. /\ Sched /\ cur \in Greens /\ Live(cur) /\ heap \in Heap /\ Settled \in Heap
      /\ frame \in [Greens -> Frames] /\ Hand \subseteq Greens /\ join \in [Greens -> Pointer]
  BY Executing DEF RInv, GInv, SInv, IInv, TypeOK
<1>2. /\ \A g \in Greens, q \in Queues : g \in Members(heap, q) <=> In(g, q)
      /\ Members(heap, "susp") \subseteq Greens /\ Members(heap, "waiting") \subseteq Greens
      /\ "ready" \in Queues /\ "susp" \in Queues /\ "waiting" \in Queues
  BY <1>1, MembersNow, HeadIsMember DEF RInv, In, Queues
<1>3. \A g, u \in Greens : Pends(g, u) =>
        /\ frame[g].op = "join" /\ frame[g].target = u
        /\ u # cur => Awaits(g, u)
        /\ Awaits(g, u) \/ (u = cur /\ frame[u].op = "exit")
  <2> SUFFICES ASSUME NEW g \in Greens, NEW u \in Greens, Pends(g, u)
               PROVE  /\ frame[g].op = "join" /\ frame[g].target = u
                      /\ u # cur => Awaits(g, u)
                      /\ Awaits(g, u) \/ (u = cur /\ frame[u].op = "exit")
    OBVIOUS
  <2>1. CASE frame[u].op # "exit"
    BY <1>1, <2>1 DEF Pends, Awaits, Sched, OnePlace
  <2>2. CASE frame[u].op = "exit"
    <3>1. u = cur
      <4>1. frame[u] \in Frames
        BY <1>1
      <4> QED BY <1>1, <2>2, <4>1 DEF Sched, OthersRest, Frames, Stands
    <3> QED BY <2>2, <3>1, NullAssumption DEF Pends, RInv, Roles, EndingJoined
  <2> QED BY <2>1, <2>2
<1>4. \A g \in Greens : g \in Members(heap, "susp") \/ g \in Members(heap, "waiting") =>
        /\ Live(g) /\ g # cur /\ g \notin Hand /\ ~In(g, "ready") /\ \A u \in Greens : ~Pends(g, u)
        /\ ~(g \in Members(heap, "susp") /\ g \in Members(heap, "waiting"))
  <2> SUFFICES ASSUME NEW g \in Greens, In(g, "susp") \/ In(g, "waiting")
               PROVE  /\ Live(g) /\ g # cur /\ g \notin Hand /\ ~In(g, "ready")
                      /\ \A u \in Greens : ~Pends(g, u)
                      /\ ~(In(g, "susp") /\ In(g, "waiting"))
    BY <1>2
  <2>1. frame[g].op \in {"lock", "wait"}
    <3>1. frame[g] \in Frames
      BY <1>1
    <3> QED BY <1>1, <3>1 DEF Sched, SleepersRetry, Frames, Stands
  <2>2. Live(g) /\ g \notin Hand /\ (g = cur => Parted)
    BY <1>1, <1>2 DEF Sched, Placement, Placed
  <2>3. ~In(g, "ready") /\ ~(In(g, "susp") /\ In(g, "waiting"))
    BY <1>1, <1>2 DEF Sched, Sound, Apart, In
  <2> QED BY <1>3, <2>1, <2>2, <2>3 DEF Parted
<1>5. \A g \in Greens : JoinedTo(g) = {} <=> \A u \in Greens : ~Pends(g, u)
  BY DEF JoinedTo, Pends
<1>6. \A g, u \in Greens : Pends(g, u) => Live(g)
  BY <1>3 DEF Live
<1>7. Ready = {g \in Greens : Live(g) /\ (g = cur \/ ~Sleeps(g))}
  <2> SUFFICES ASSUME NEW g \in Greens, Live(g), g # cur
               PROVE  (g \in Members(heap, "ready") \cup Hand /\ JoinedTo(g) = {}) <=> ~Sleeps(g)
    BY DEF Ready
  <2>1. ASSUME g \in Members(heap, "ready") \cup Hand, JoinedTo(g) = {} PROVE ~Sleeps(g)
    BY <1>2, <1>4, <1>5, <2>1 DEF Sleeps
  <2>2. ASSUME ~Sleeps(g) PROVE g \in Members(heap, "ready") \cup Hand /\ JoinedTo(g) = {}
    <3>1. \A u \in Greens : ~Awaits(g, u)
      BY <2>2 DEF Sleeps, Pends, Awaits
    <3>2. ~In(g, "susp") /\ ~In(g, "waiting")
      BY <1>2, <2>2 DEF Sleeps
    <3>3. Placed(g) \/ g \in Hand
      BY <1>1 DEF Sched, Placement
    <3>4. In(g, "ready") \/ g \in Hand
      BY <3>1, <3>2, <3>3 DEF Placed, Queues
    <3> QED BY <1>2, <1>5, <2>2, <3>4 DEF Sleeps
  <2> QED BY <2>1, <2>2
<1>8. PendingJoins = {j \in Greens \X Greens : j[1] # cur /\ Pends(j[1], j[2])}
  <2>1. ASSUME NEW j \in PendingJoins
        PROVE  j \in Greens \X Greens /\ j[1] # cur /\ Pends(j[1], j[2])
    <3>1. PICK g \in Greens \ {cur} : JoinedTo(g) # {} /\ j = <<g, frame[g].target>>
      BY <2>1 DEF PendingJoins
    <3>2. PICK u \in Greens : Pends(g, u)
      BY <1>5, <3>1
    <3> QED BY <1>3, <3>1, <3>2
  <2>2. ASSUME NEW j \in Greens \X Greens, j[1] # cur, Pends(j[1], j[2])
        PROVE  j \in PendingJoins
    <3>1. j[1] \in Greens \ {cur} /\ frame[j[1]].target = j[2] /\ JoinedTo(j[1]) # {} /\ j = <<j[1], j[2]>>
      BY <1>3, <1>5, <2>2
    <3> QED BY <3>1 DEF PendingJoins
  <2> QED BY <2>1, <2>2
<1>9. Dead = {g \in Greens : frame[g].op = "gone"}
  BY <1>1 DEF Dead, Sched, Endings
<1>10. \A u \in Greens : Pends(cur, u) => frame[cur].at \in DequeueStages
  BY <1>1, <1>3 DEF Sched, Placement, Placed, Parted
<1> QED BY <1>1, <1>2, <1>3, <1>4, <1>6, <1>7, <1>8, <1>9, <1>10 DEF Where

-----------------------------------------------------------------------------
(* The steps of Scheduler, by what they do to the places.  Nobody comes to *)
(* life or ends, and no sleep for the end of a thread begins or is over.   *)
Steady ==
  /\ \A g \in Greens : Live(g)' <=> Live(g)
  /\ \A g \in Greens : frame'[g].op = "gone" <=> frame[g].op = "gone"
  /\ \A g, u \in Greens : Pends(g, u)' <=> Pends(g, u)

LEMMA Stutters ==
  ASSUME Where, Where', UNCHANGED <<cur, holding, fault>>,
         Members(heap', "susp") = Members(heap, "susp"),
         Members(heap', "waiting") = Members(heap, "waiting"),
         \A g \in Greens : Live(g)' <=> Live(g),
         \A g \in Greens : frame'[g].op = "gone" <=> frame[g].op = "gone",
         \A g \in Greens \ {cur}, u \in Greens : Pends(g, u)' <=> Pends(g, u)
  PROVE  UNCHANGED Scheduling!vars
<1>1. \A g \in Greens \ {cur} : Sleeps(g)' <=> Sleeps(g)
  BY DEF Sleeps
<1>2. Ready' = Ready /\ Dead' = Dead
  BY <1>1 DEF Where
<1>3. PendingJoins' = PendingJoins
  BY DEF Where
<1>4. UNCHANGED <<Sleeping("susp"), Sleeping("waiting"), Alive>>
  BY DEF Sleeping, Alive
<1> QED BY <1>2, <1>3, <1>4 DEF Scheduling!vars

(* The CPU goes from the executing thread, which is not asleep for the end *)
(* of another, to n.                                                       *)
LEMMA Leaves ==
  ASSUME Where, Where', Steady, UNCHANGED fault, \A u \in Greens : ~Pends(cur, u),
         NEW n \in Greens, cur' = n, \A u \in Greens : ~Pends(n, u)
  PROVE  /\ UNCHANGED <<PendingJoins, Dead, Alive>>
         /\ \A g \in Greens : Live(g)' <=> Live(g)
         /\ Ready = {g \in Greens : /\ Live(g) /\ g \notin Members(heap, "susp")
                                    /\ g \notin Members(heap, "waiting") /\ \A u \in Greens : ~Pends(g, u)}
         /\ Ready' = {g \in Greens : /\ Live(g) /\ g \notin Members(heap', "susp")
                                     /\ g \notin Members(heap', "waiting") /\ \A u \in Greens : ~Pends(g, u)}
<1>1. PendingJoins' = PendingJoins
  <2>1. PendingJoins = {j \in Greens \X Greens : Pends(j[1], j[2])}
    BY DEF Where
  <2>2. PendingJoins' = {j \in Greens \X Greens : Pends(j[1], j[2])}
    <3>1. PendingJoins' = {j \in Greens \X Greens : j[1] # n /\ Pends(j[1], j[2])'}
      BY DEF Where
    <3>2. \A j \in Greens \X Greens : j[1] # n /\ Pends(j[1], j[2])' <=> Pends(j[1], j[2])
      BY DEF Steady
    <3> QED BY <3>1, <3>2
  <2> QED BY <2>1, <2>2
<1>2. Dead' = Dead /\ Alive' = Alive
  BY DEF Where, Steady, Alive
<1>3. Ready = {g \in Greens : /\ Live(g) /\ g \notin Members(heap, "susp")
                              /\ g \notin Members(heap, "waiting") /\ \A u \in Greens : ~Pends(g, u)}
  BY DEF Where, Sleeps
<1>4. Ready' = {g \in Greens : /\ Live(g) /\ g \notin Members(heap', "susp")
                               /\ g \notin Members(heap', "waiting") /\ \A u \in Greens : ~Pends(g, u)}
  BY DEF Where, Sleeps, Steady
<1> QED BY <1>1, <1>2, <1>3, <1>4 DEF Steady

LEMMA YieldMaps ==
  ASSUME Where, Where', Steady, UNCHANGED <<fault, holding>>,
         \A u \in Greens : ~Pends(cur, u), \A u \in Greens : ~Pends(cur, u)',
         Members(heap', "susp") = Members(heap, "susp"),
         Members(heap', "waiting") = Members(heap, "waiting")
  PROVE  Scheduling!Yield
<1>1. PICK n \in Greens : cur' = n
  BY DEF Where
<1>2. \A u \in Greens : ~Pends(n, u)
  BY <1>1 DEF Steady
<1>3. /\ UNCHANGED <<PendingJoins, Dead, Alive>>
      /\ Ready' = Ready
  BY <1>1, <1>2, Leaves
<1>4. cur' \in Ready'
  BY DEF Where
<1> QED BY <1>3, <1>4 DEF Scheduling!Yield, Sleeping

LEMMA SleepMaps ==
  ASSUME Where, Where', Steady, UNCHANGED <<fault, holding>>,
         \A u \in Greens : ~Pends(cur, u), \A u \in Greens : ~Pends(cur, u)',
         Members(heap', "susp") = Members(heap, "susp") \cup {cur},
         Members(heap', "waiting") = Members(heap, "waiting"),
         holding # {}, cur \notin holding
  PROVE  Scheduling!Sleep
<1>1. PICK n \in Greens : cur' = n
  BY DEF Where
<1>2. \A u \in Greens : ~Pends(n, u)
  BY <1>1 DEF Steady
<1>3. /\ UNCHANGED <<PendingJoins, Dead, Alive>>
      /\ Ready' = Ready \ {cur}
  BY <1>1, <1>2, Leaves
<1>4. cur' \in Ready'
  BY DEF Where
<1> QED BY <1>3, <1>4 DEF Scheduling!Sleep, Scheduling!Leave, Sleeping

LEMMA WaitMaps ==
  ASSUME Where, Where', Steady, UNCHANGED fault, NEW m \in BOOLEAN, holding' = holding \ {cur},
         \A u \in Greens : ~Pends(cur, u), \A u \in Greens : ~Pends(cur, u)',
         Members(heap', "susp") = IF m THEN {} ELSE Members(heap, "susp"),
         Members(heap', "waiting") = Members(heap, "waiting") \cup {cur},
         m <=> cur \in holding, MutualExclusion
  PROVE  Scheduling!Wait \/ Scheduling!WaitReleasing
<1>1. PICK n \in Greens : cur' = n
  BY DEF Where
<1>2. \A u \in Greens : ~Pends(n, u)
  BY <1>1 DEF Steady
<1>3. /\ UNCHANGED <<PendingJoins, Dead, Alive>>
      /\ Ready' = (Ready \cup IF m THEN Members(heap, "susp") ELSE {}) \ {cur}
  <2>1. /\ UNCHANGED <<PendingJoins, Dead, Alive>>
        /\ Ready = {g \in Greens : /\ Live(g) /\ g \notin Members(heap, "susp")
                                   /\ g \notin Members(heap, "waiting") /\ \A u \in Greens : ~Pends(g, u)}
        /\ Ready' = {g \in Greens : /\ Live(g) /\ g \notin Members(heap', "susp")
                                    /\ g \notin Members(heap', "waiting") /\ \A u \in Greens : ~Pends(g, u)}
    BY <1>1, <1>2, Leaves
  <2>2. /\ Members(heap, "susp") \subseteq Greens
        /\ \A g \in Members(heap, "susp") : /\ Live(g) /\ g # cur /\ g \notin Members(heap, "waiting")
                                            /\ \A u \in Greens : ~Pends(g, u)
    BY DEF Where
  <2> QED BY <2>1, <2>2
<1>4. cur' \in Ready'
  BY DEF Where
<1>5. CASE m
  <2>1. holding = {cur} /\ holding' = {}
    BY <1>5 DEF MutualExclusion
  <2> QED BY <1>3, <1>4, <1>5, <2>1 DEF Scheduling!WaitReleasing, Scheduling!Leave, Sleeping
<1>6. CASE ~m
  <2>1. cur \notin holding /\ holding' = holding
    BY <1>6
  <2> QED BY <1>3, <1>4, <1>6, <2>1 DEF Scheduling!Wait, Scheduling!Leave, Sleeping
<1> QED BY <1>5, <1>6

(* Who is alive exists in Scheduler.                                       *)
LEMMA LiveExist ==
  ASSUME Where, NEW g \in Greens
  PROVE  Live(g) <=> g \in Scheduling!Existing
<1> DEFINE J(u) == Scheduling!Joiners(u)
<1>1. Scheduling!Existing = Ready \cup Members(heap, "susp") \cup Members(heap, "waiting")
                              \cup UNION {J(u) : u \in Greens}
  BY DEF Scheduling!Existing, Sleeping
<1>2. g \in UNION {J(u) : u \in Greens} <=> g # cur /\ \E u \in Greens : Pends(g, u)
  <2>1. \A u \in Greens : g \in J(u) <=> g # cur /\ Pends(g, u)
    BY DEF Where, Scheduling!Joiners
  <2> HIDE DEF J
  <2> QED BY <2>1
<1> HIDE DEF J
<1>3. Live(g) => g \in Ready \/ (g # cur /\ Sleeps(g))
  BY DEF Where
<1>4. ASSUME Sleeps(g), g # cur
      PROVE  \/ g \in Members(heap, "susp") \/ g \in Members(heap, "waiting")
             \/ g # cur /\ \E u \in Greens : Pends(g, u)
  BY <1>4 DEF Sleeps
<1>5. /\ g \in Ready => Live(g)
      /\ g \in Members(heap, "susp") \/ g \in Members(heap, "waiting") => Live(g)
      /\ (\E u \in Greens : Pends(g, u)) => Live(g)
  BY DEF Where
<1> QED BY <1>1, <1>2, <1>3, <1>4, <1>5

LEMMA JoinMaps ==
  ASSUME Where, Where', Steady, UNCHANGED <<fault, holding>>,
         NEW u \in Greens, Pends(cur, u), u # cur, \A v \in Greens : ~Pends(cur, v)',
         Members(heap', "susp") = Members(heap, "susp"),
         Members(heap', "waiting") = Members(heap, "waiting")
  PROVE  Scheduling!Join(u)
<1>1. PICK n \in Greens : cur' = n
  BY DEF Where
<1>2. cur \in Greens /\ n # cur /\ \A v \in Greens : ~Pends(n, v) /\ (Pends(cur, v) <=> v = u)
  BY <1>1 DEF Steady, Where
<1>3. PendingJoins' = PendingJoins \cup {<<cur, u>>}
  <2>1. PendingJoins = {j \in Greens \X Greens : j[1] # cur /\ Pends(j[1], j[2])}
    BY DEF Where
  <2>2. PendingJoins' = {j \in Greens \X Greens : j[1] # n /\ Pends(j[1], j[2])'}
    BY <1>1 DEF Where
  <2>3. \A j \in Greens \X Greens : j[1] # n /\ Pends(j[1], j[2])' <=> Pends(j[1], j[2])
    BY <1>2 DEF Steady
  <2>4. \A j \in Greens \X Greens : Pends(j[1], j[2]) <=> (j[1] # cur /\ Pends(j[1], j[2])) \/ j = <<cur, u>>
    BY <1>2
  <2> QED BY <1>2, <2>1, <2>2, <2>3, <2>4
<1>4. Ready' = Ready \ {cur}
  <2>1. \A g \in Greens : Sleeps(g)' <=> Sleeps(g)
    BY DEF Sleeps, Steady
  <2>2. Sleeps(cur) /\ ~Sleeps(n)
    <3>1. n \notin Members(heap', "susp") /\ n \notin Members(heap', "waiting")
      BY <1>1 DEF Where
    <3> QED BY <1>2, <3>1 DEF Sleeps
  <2>3. Ready' = {g \in Greens : Live(g) /\ (g = n \/ ~Sleeps(g))}
    BY <1>1, <2>1 DEF Where, Steady
  <2> QED BY <2>2, <2>3 DEF Where
<1>5. cur' \in Ready' /\ UNCHANGED <<Dead, Alive>>
  BY DEF Where, Steady, Alive
<1>6. u \in Scheduling!Existing \ {cur}
  BY LiveExist DEF Pends
<1> QED BY <1>3, <1>4, <1>5, <1>6 DEF Scheduling!Join, Scheduling!Leave, Sleeping

LEMMA ExitMaps ==
  ASSUME Where, Where', UNCHANGED <<fault, holding>>, cur # Main, cur \notin holding,
         \A g \in Greens : Live(g)' <=> Live(g) /\ g # cur,
         \A g \in Greens : frame'[g].op = "gone" <=> frame[g].op = "gone" \/ g = cur,
         \A g, u \in Greens : Pends(g, u)' <=> Pends(g, u) /\ u # cur,
         \A u \in Greens : ~Pends(cur, u), \A u \in Greens : ~Pends(cur, u)',
         Members(heap', "susp") = Members(heap, "susp"),
         Members(heap', "waiting") = Members(heap, "waiting")
  PROVE  Scheduling!Exit
<1>1. PICK n \in Greens : cur' = n
  BY DEF Where
<1>2. cur \in Greens /\ n # cur /\ \A v \in Greens : ~Pends(cur, v) /\ (Pends(n, v) => v = cur)
  BY <1>1 DEF Where
<1>3. PendingJoins' = {j \in PendingJoins : j[2] # cur}
  <2>1. PendingJoins = {j \in Greens \X Greens : j[1] # cur /\ Pends(j[1], j[2])}
    BY DEF Where
  <2>2. PendingJoins' = {j \in Greens \X Greens : j[1] # n /\ Pends(j[1], j[2])'}
    BY <1>1 DEF Where
  <2>3. \A j \in Greens \X Greens :
          j[1] # n /\ Pends(j[1], j[2])' <=> j[1] # cur /\ Pends(j[1], j[2]) /\ j[2] # cur
    BY <1>2
  <2> QED BY <2>1, <2>2, <2>3
<1>4. Ready' = (Ready \cup Scheduling!Joiners(cur)) \ {cur}
  <2>1. Scheduling!Joiners(cur) = {g \in Greens : g # cur /\ Pends(g, cur)}
    BY <1>2 DEF Scheduling!Joiners, Where
  <2>2. \A g \in Greens : /\ Sleeps(g) => Sleeps(g)' \/ Pends(g, cur)
                          /\ Sleeps(g)' => Sleeps(g)
                          /\ Pends(g, cur) => Live(g) /\ ~Sleeps(g)'
    <3> SUFFICES ASSUME NEW g \in Greens
                 PROVE  /\ Sleeps(g) => Sleeps(g)' \/ Pends(g, cur)
                        /\ Sleeps(g)' => Sleeps(g)
                        /\ Pends(g, cur) => Live(g) /\ ~Sleeps(g)'
      OBVIOUS
    <3>1. (Sleeps(g) => Sleeps(g)' \/ Pends(g, cur)) /\ (Sleeps(g)' => Sleeps(g))
      BY DEF Sleeps
    <3>2. ASSUME Pends(g, cur) PROVE Live(g) /\ ~Sleeps(g)'
      <4>1. /\ Live(g) /\ g \notin Members(heap, "susp") /\ g \notin Members(heap, "waiting")
            /\ \A u \in Greens : Pends(g, u) => u = cur
        BY <1>2, <3>2 DEF Where
      <4> QED BY <4>1 DEF Sleeps
    <3> QED BY <3>1, <3>2
  <2>3. ~Sleeps(n)'
    BY <1>1 DEF Where, Sleeps
  <2>4. Ready' = {g \in Greens : Live(g) /\ g # cur /\ (g = n \/ ~Sleeps(g)')}
    BY <1>1 DEF Where
  <2>5. Ready = {g \in Greens : Live(g) /\ (g = cur \/ ~Sleeps(g))}
    BY DEF Where
  <2> QED BY <1>2, <2>1, <2>2, <2>3, <2>4, <2>5
<1>5. cur' \in Ready' /\ Dead' = Dead \cup {cur} /\ Alive' = Alive
  BY <1>2 DEF Where, Alive
<1> QED BY <1>3, <1>4, <1>5 DEF Scheduling!Exit, Scheduling!Leave, Sleeping

LEMMA CreateMaps ==
  ASSUME Where, Where', UNCHANGED <<cur, holding, fault>>, NEW n \in Greens, frame[n].op = "none",
         \A g \in Greens : Live(g)' <=> Live(g) \/ g = n,
         \A g \in Greens : frame'[g].op = "gone" <=> frame[g].op = "gone",
         \A g, u \in Greens : Pends(g, u)' <=> Pends(g, u),
         Members(heap', "susp") = Members(heap, "susp"),
         Members(heap', "waiting") = Members(heap, "waiting")
  PROVE  Scheduling!Create(n)
<1>1. ~Live(n) /\ n \notin Scheduling!Existing
  BY LiveExist DEF Live
<1>2. \A g \in Greens : Sleeps(g)' <=> Sleeps(g)
  BY DEF Sleeps
<1>3. ~Sleeps(n)
  BY <1>1 DEF Where, Sleeps
<1>4. Ready' = Ready \cup {n} /\ Dead' = Dead /\ n \notin Dead
  BY <1>2, <1>3 DEF Where
<1>5. PendingJoins' = PendingJoins /\ Alive' = Alive
  BY DEF Where, Alive
<1> QED BY <1>1, <1>4, <1>5 DEF Scheduling!Create, Sleeping

(* The executing thread stays, and the threads of W are ready.             *)
LEMMA Wakes ==
  ASSUME Where, Where', Steady, UNCHANGED <<cur, fault>>, NEW W \in SUBSET Greens,
         \A g \in W : g \in Members(heap, "susp") \/ g \in Members(heap, "waiting"),
         Members(heap', "susp") = Members(heap, "susp") \ W,
         Members(heap', "waiting") = Members(heap, "waiting") \ W
  PROVE  UNCHANGED <<PendingJoins, Dead, Alive>> /\ Ready' = Ready \cup W
<1>1. \A g \in Greens : (Sleeps(g)' <=> Sleeps(g) /\ g \notin W) /\ (g \in W => Live(g))
  <2> SUFFICES ASSUME NEW g \in Greens
               PROVE  (Sleeps(g)' <=> Sleeps(g) /\ g \notin W) /\ (g \in W => Live(g))
    OBVIOUS
  <2>1. g \in W => Live(g) /\ \A u \in Greens : ~Pends(g, u)
    BY DEF Where
  <2> QED BY <2>1 DEF Sleeps, Steady
<1>2. Ready' = Ready \cup W /\ Dead' = Dead
  BY <1>1 DEF Where, Steady
<1>3. PendingJoins' = PendingJoins /\ Alive' = Alive
  BY DEF Where, Steady, Alive
<1> QED BY <1>2, <1>3

LEMMA LockMaps ==
  ASSUME Where, Where', Steady, UNCHANGED <<cur, fault>>,
         Members(heap', "susp") = Members(heap, "susp"),
         Members(heap', "waiting") = Members(heap, "waiting"),
         holding = {}, holding' = {cur}
  PROVE  Scheduling!Lock
<1>1. UNCHANGED <<PendingJoins, Dead, Alive>> /\ Ready' = Ready \cup {}
  BY Wakes
<1> QED BY <1>1 DEF Scheduling!Lock, Sleeping

LEMMA UnlockMaps ==
  ASSUME Where, Where', Steady, UNCHANGED <<cur, fault>>, holding = {cur}, holding' = {},
         NEW W \in SUBSET Greens,
         (W = {} /\ Members(heap, "susp") = {}) \/ \E g \in Members(heap, "susp") : W = {g},
         Members(heap', "susp") = Members(heap, "susp") \ W,
         Members(heap', "waiting") = Members(heap, "waiting")
  PROVE  Scheduling!Unlock
<1>1. Members(heap, "waiting") \ W = Members(heap, "waiting")
  BY DEF Where
<1>2. UNCHANGED <<PendingJoins, Dead, Alive>> /\ Ready' = Ready \cup W
  BY <1>1, Wakes
<1> QED BY <1>2 DEF Scheduling!Unlock, Sleeping

LEMMA SignalMaps ==
  ASSUME Where, Where', Steady, UNCHANGED <<cur, fault, holding>>,
         NEW a \in Members(heap, "waiting"),
         Members(heap', "susp") = Members(heap, "susp"),
         Members(heap', "waiting") = Members(heap, "waiting") \ {a}
  PROVE  Scheduling!Signal
<1>1. Members(heap, "susp") \ {a} = Members(heap, "susp") /\ {a} \in SUBSET Greens
  BY DEF Where
<1>2. UNCHANGED <<PendingJoins, Dead, Alive>> /\ Ready' = Ready \cup {a}
  BY <1>1, Wakes
<1> QED BY <1>2 DEF Scheduling!Signal, Sleeping

(* The process is lost when everybody but the executing thread is blocked. *)
LEMMA HaltMaps ==
  ASSUME Where, Roles, CrashOnlyOnDeadlock', ~Alive',
         UNCHANGED <<heap, join, zombie, frame, cur, holding, taken>>
  PROVE  Scheduling!Halt
<1>1. \A g \in Greens \ {cur} : Live(g) => Blocked(g)
  <2>1. \A g \in Greens \ {cur'} : Live(g)' => Blocked(g)'
    BY DEF CrashOnlyOnDeadlock
  <2>2. \A g \in Greens : (Live(g)' <=> Live(g)) /\ (Blocked(g)' <=> Blocked(g))
    BY DEF Live, Blocked, JoinedTo
  <2> QED BY <2>1, <2>2
<1>2. \A g \in Greens \ {cur} : Live(g) => Sleeps(g)
  BY <1>1 DEF Blocked, Sleeps, JoinedTo, Pends
<1>3. Ready = {cur}
  BY <1>2 DEF Where
<1>4. Members(heap, "susp") # {} => holding # {}
  <2> SUFFICES ASSUME NEW g \in Members(heap, "susp") PROVE holding # {}
    OBVIOUS
  <2>1. /\ g \in Greens /\ Live(g) /\ g # cur /\ g \notin Members(heap, "waiting")
        /\ \A u \in Greens : ~Pends(g, u)
    BY DEF Where
  <2>2. taken
    BY <1>1, <2>1 DEF Blocked, JoinedTo, Pends
  <2> QED BY <2>2 DEF Roles, TakenIsHeld
<1>5. UNCHANGED <<Ready, cur, PendingJoins, Dead, holding>> /\ ~Alive'
  BY DEF Ready, PendingJoins, Dead, Live, JoinedTo, Hand
<1> QED BY <1>3, <1>4, <1>5 DEF Scheduling!Halt, Sleeping

-----------------------------------------------------------------------------
(* The steps of the library that change nothing in Scheduler.              *)

LEMMA LocalMaps ==
  ASSUME Where, Where', UNCHANGED <<cur, holding, fault, join>>,
         \A g \in Greens \ {cur} : frame'[g] = frame[g],
         Members(heap', "susp") = Members(heap, "susp"),
         Members(heap', "waiting") = Members(heap, "waiting")
  PROVE  UNCHANGED Scheduling!vars
<1>1. Live(cur) /\ Live(cur)' /\ cur' = cur
  BY DEF Where
<1>2. \A g \in Greens : /\ Live(g)' <=> Live(g)
                        /\ frame'[g].op = "gone" <=> frame[g].op = "gone"
  BY <1>1 DEF Live
<1>3. \A g, u \in Greens : Pends(g, u)' <=> Pends(g, u)
  BY <1>2 DEF Pends
<1> QED BY <1>2, <1>3, Stutters

(* A step that leaves the links of a queue and its head alone.             *)
LEMMA SleepersStay ==
  ASSUME IInv, IInv',
         heap'.head["susp"] = heap.head["susp"], heap'.head["waiting"] = heap.head["waiting"],
         \A g \in Members(heap, "susp") \cup Members(heap, "waiting") : heap'.next[g] = heap.next[g]
  PROVE  /\ Members(heap', "susp") = Members(heap, "susp")
         /\ Members(heap', "waiting") = Members(heap, "waiting")
BY QueueFrame DEF IInv, TypeOK, Queues

LEMMA StillMaps ==
  ASSUME RInv, Alive, Where, Where', UNCHANGED <<fault, holding>>,
         \/ EnqueueTest \/ EnqueueWalk \/ DequeueTake \/ Dispatch \/ Return \/ ExitFree \/ ExitMark
         \/ SignalOld \/ SignalCount \/ CallYield \/ CallExit \/ CallSignal
         \/ \E u \in Threads : CallJoin(u)
  PROVE  UNCHANGED Scheduling!vars
<1>1. UNCHANGED <<heap, cur, join>> /\ \E f : SetFrame(f)
  BY DEF EnqueueTest, EnqueueWalk, DequeueTake, Dispatch, Return, ExitFree, ExitMark, SignalOld,
         SignalCount, CallYield, CallExit, CallSignal, CallJoin, Goto, GotoWith, thread, cpu
<1>2. \A g \in Greens \ {cur} : frame'[g] = frame[g]
  BY <1>1 DEF SetFrame, RInv, IInv, TypeOK
<1> QED BY <1>1, <1>2, LocalMaps

LEMMA QueueMaps ==
  ASSUME RInv, RInv', Alive, Alive', Where, Where', UNCHANGED <<fault, holding>>,
         EnqueueSet \/ EnqueueLink \/ DequeueAdvance \/ DequeueClear
  PROVE  UNCHANGED Scheduling!vars
<1>1. /\ Sched /\ cur \in Greens /\ heap \in Heap /\ frame \in [Greens -> Frames]
      /\ heap.head \in [Queues -> Pointer] /\ heap.next \in [Greens -> Pointer]
      /\ heap = [head |-> heap.head, next |-> heap.next]
      /\ Members(heap, "susp") \subseteq Greens /\ Members(heap, "waiting") \subseteq Greens
      /\ \A g \in Greens, q \in Queues : g \in Members(heap, q) <=> In(g, q)
  BY MembersNow DEF RInv, GInv, SInv, IInv, TypeOK, Heap, Where, In
<1>2. ~Crash("null")
  BY DEF Crash, Alive
<1> DEFINE Kept == /\ heap'.head["susp"] = heap.head["susp"] /\ heap'.head["waiting"] = heap.head["waiting"]
                   /\ \A g \in Members(heap, "susp") \cup Members(heap, "waiting") :
                        heap'.next[g] = heap.next[g]
           Moved == UNCHANGED <<cur, join>> /\ \E f : SetFrame(f)
<1>3. AfterEnqueue => \E f : SetFrame(f)
  BY DEF AfterEnqueue, Goto
<1>4. ASSUME EnqueueSet PROVE Kept /\ Moved
  <2>1. heap' = [head |-> [heap.head EXCEPT !["ready"] = frame[cur].item], next |-> heap.next]
    BY <1>1, <1>4 DEF EnqueueSet
  <2>2. Kept
    BY <1>1, <2>1 DEF Queues
  <2> QED BY <1>3, <1>4, <2>2 DEF EnqueueSet, thread, cpu
<1>5. ASSUME EnqueueLink PROVE Kept /\ Moved
  <2>1. In(frame[cur].node, "ready") /\ Apart(Settled)
    BY <1>1, <1>5 DEF EnqueueLink, Here, Sched, Standing, Sound
  <2>2. \A g \in Members(heap, "susp") \cup Members(heap, "waiting") : g # frame[cur].node
    BY <1>1, <2>1 DEF Apart, In, Queues
  <2>3. heap' = [head |-> heap.head, next |-> [heap.next EXCEPT ![frame[cur].node] = frame[cur].item]]
    BY <1>1, <1>5 DEF EnqueueLink
  <2>4. Kept
    BY <1>1, <2>2, <2>3
  <2> QED BY <1>3, <1>5, <2>4 DEF EnqueueLink, thread, cpu
<1>6. ASSUME DequeueAdvance PROVE Kept /\ Moved
  <2>1. heap' = [heap EXCEPT !.head["ready"] = heap.next[@]] /\ Goto("clear") /\ UNCHANGED <<thread, cpu>>
    BY <1>2, <1>6 DEF DequeueAdvance
  <2>2. \E x : heap' = [head |-> [heap.head EXCEPT !["ready"] = x], next |-> heap.next]
    BY <1>1, <2>1
  <2>3. Kept
    BY <1>1, <2>2 DEF Queues
  <2> QED BY <2>1, <2>3 DEF Goto, thread, cpu
<1>7. ASSUME DequeueClear PROVE Kept /\ Moved
  <2>1. heap' = [heap EXCEPT !.next[frame[cur].node] = Null] /\ Goto("dispatch") /\ UNCHANGED <<thread, cpu>>
    BY <1>2, <1>7 DEF DequeueClear
  <2>2. frame[cur].node \in Hand
    BY <1>7 DEF DequeueClear, Here, Hand, EnqueueStages
  <2>3. \A g \in Members(heap, "susp") \cup Members(heap, "waiting") : g # frame[cur].node
    BY <1>1, <2>2 DEF Sched, Placement, Placed, Queues
  <2>4. heap' = [head |-> heap.head, next |-> [heap.next EXCEPT ![frame[cur].node] = Null]]
    BY <1>1, <2>1
  <2>5. Kept
    BY <1>1, <2>3, <2>4
  <2> QED BY <2>1, <2>5 DEF Goto, thread, cpu
<1>8. Kept /\ Moved
  BY <1>4, <1>5, <1>6, <1>7
<1>9. \A g \in Greens \ {cur} : frame'[g] = frame[g]
  BY <1>1, <1>8 DEF SetFrame
<1>10. /\ Members(heap', "susp") = Members(heap, "susp")
       /\ Members(heap', "waiting") = Members(heap, "waiting")
  <2>1. IInv /\ IInv'
    BY DEF RInv
  <2> QED BY <1>8, <2>1, SleepersStay
<1> QED BY <1>8, <1>9, <1>10, LocalMaps

(* green_join registers the only thread that joins.                        *)
LEMMA RegisterMaps ==
  ASSUME Orderly, RInv, Alive, Where, Where', UNCHANGED <<fault, holding>>, JoinRegister
  PROVE  UNCHANGED Scheduling!vars
<1>1. /\ Sched /\ cur \in Greens /\ frame \in [Greens -> Frames] /\ frame[cur].at = "register"
      /\ join \in [Greens -> Pointer] /\ running = cur /\ frame[cur].op = "join"
  BY DEF RInv, GInv, SInv, IInv, TypeOK, JoinRegister, Here, RunningIsCurrent, Owner, Frames, Stands
<1>2. UNCHANGED <<heap, cur>> /\ join' = [join EXCEPT ![frame[cur].target] = cur]
      /\ \A g \in Greens \ {cur} : frame'[g] = frame[g]
  BY <1>1 DEF JoinRegister, SetFrame, cpu
<1>3. \A g \in Greens : /\ Live(g)' <=> Live(g)
                        /\ frame'[g].op = "gone" <=> frame[g].op = "gone"
  <2>1. Live(cur) /\ Live(cur)'
    BY <1>2 DEF Where
  <2> QED BY <1>2, <2>1 DEF Live
<1>4. \A g \in Greens \ {cur}, u \in Greens : ~Pends(g, u)
  <2> SUFFICES ASSUME NEW g \in Greens \ {cur}, NEW u \in Greens, Pends(g, u) PROVE FALSE
    OBVIOUS
  <2>1. frame[g].op = "join"
    BY DEF Where
  <2>2. "join" \in May[g] /\ "join" \in May[cur]
    BY <1>1, <2>1 DEF Sched, AsCalled
  <2> QED BY <1>1, <2>2 DEF Orderly
<1>5. \A g \in Greens \ {cur}, u \in Greens : ~Pends(g, u)'
  BY <1>1, <1>2, <1>3, <1>4 DEF Pends
<1> QED BY <1>2, <1>3, <1>4, <1>5, Stutters

(* green_cond_signal unhooks the only thread that waits.                   *)
LEMMA UnhookMaps ==
  ASSUME Orderly, RInv, RInv', Alive, Alive', Where, Where', UNCHANGED <<fault, holding>>, SignalUnhook
  PROVE  Scheduling!Signal
<1> DEFINE a == heap.head["waiting"]
<1>1. /\ Sched /\ cur \in Greens /\ frame \in [Greens -> Frames] /\ frame[cur].at = "unhook"
      /\ heap \in Heap /\ frame[cur].op = "signal" /\ Settled = heap
      /\ frame[cur].item = a /\ a # Null
      /\ \A g, q : In(g, q) <=> g \in Members(heap, q)
  <2>1. /\ Sched /\ cur \in Greens /\ frame \in [Greens -> Frames] /\ frame[cur].at = "unhook"
        /\ heap \in Heap /\ frame[cur].op = "signal"
    BY DEF RInv, GInv, SInv, IInv, TypeOK, SignalUnhook, Here, Frames, Stands
  <2> QED BY <2>1, SettledNow DEF Sched, Standing
<1>2. ~Crash("null")
  BY DEF Crash, Alive
<1>3. /\ heap' = [heap EXCEPT !.head["waiting"] = heap.next[a]]
      /\ Goto("test") /\ UNCHANGED <<thread, cpu>>
  BY <1>1, <1>2 DEF SignalUnhook
<1>4. a \in Greens /\ a \in Members(heap, "waiting")
  BY <1>1, HeadIsMember DEF Queues, Pointer
<1>5. \A g \in Members(heap, "waiting") : g = a
  <2>1. \A g \in Members(heap, "waiting") : g \in Greens /\ "wait" \in May[g]
    BY <1>1 DEF Where, Sched, SleepersRetry, AsCalled
  <2> QED BY <1>4, <2>1 DEF Orderly
<1>6. heap.next[a] = Null
  <2> SUFFICES ASSUME heap.next[a] # Null PROVE FALSE
    OBVIOUS
  <2>1. heap.next[a] \in Members(heap, "waiting")
    BY <1>1, <1>4, ChainClosed DEF Members, Pointer
  <2>2. heap.next[a] = a
    BY <1>5, <2>1
  <2> QED BY <1>1, <1>4, <2>2 DEF Sched, Sound, FirstIsFirst, Queues
<1>7. heap' = [head |-> [heap.head EXCEPT !["waiting"] = Null], next |-> heap.next]
  <2>1. heap = [head |-> heap.head, next |-> heap.next]
    BY <1>1 DEF Heap
  <2> QED BY <1>3, <1>6, <2>1
<1>8. heap.head \in [Queues -> Pointer] /\ heap' \in Heap
  BY <1>1 DEF Heap, RInv, IInv, TypeOK
<1>9. Members(heap', "susp") = Members(heap, "susp")
  BY <1>1, <1>7, <1>8, QueueFrame DEF Queues
<1>10. Members(heap', "waiting") = Members(heap, "waiting") \ {a}
  <2>1. heap'.head["waiting"] = Null
    BY <1>7, <1>8 DEF Queues
  <2>2. Members(heap', "waiting") = {}
    BY <1>8, <2>1, HeadIsMember DEF Queues
  <2> QED BY <1>5, <2>2
<1>11. UNCHANGED <<cur, join>> /\ \A g \in Greens \ {cur} : frame'[g] = frame[g]
  BY <1>1, <1>3 DEF Goto, SetFrame, thread, cpu
<1>12. Steady
  <2>1. frame'[cur].op = "signal"
    BY <1>1, <1>3 DEF Goto, SetFrame, Frames
  <2> QED BY <1>1, <1>11, <2>1 DEF Steady, Live, Pends
<1> HIDE DEF a
<1> QED BY <1>4, <1>9, <1>10, <1>11, <1>12, SignalMaps

(* green_create makes a ready thread of the one it is given.               *)
LEMMA NewMaps ==
  ASSUME RInv, RInv', Alive, Where, Where', UNCHANGED <<fault, holding>>,
         frame[cur].op = "user", NEW n \in Threads, CallCreate(n)
  PROVE  Scheduling!Create(n)
<1> DEFINE f == Frame("create", "test", n, Null, Null)
<1>1. /\ Sched /\ cur \in Greens /\ heap \in Heap /\ frame[cur].at = "run" /\ Hand = {}
      /\ frame \in [Greens -> Frames] /\ join \in [Greens -> Pointer] /\ Settled = heap
      /\ \A g, q : In(g, q) <=> g \in Members(heap, q)
  BY InUser DEF RInv, IInv, TypeOK
<1>2. /\ n \in Greens /\ n # cur /\ frame[n].op = "none" /\ ~Live(n)
      /\ frame' = [frame EXCEPT ![n] = UserFrame, ![cur] = f]
      /\ heap' = [heap EXCEPT !.next[n] = Null] /\ join' = [join EXCEPT ![n] = Null]
      /\ UNCHANGED cur
  BY <1>1 DEF CallCreate, Threads, Live
<1>3. f.op = "create" /\ UserFrame.op = "user"
  BY DEF Frame, UserFrame
<1> HIDE DEF f
<1>4. /\ frame'[cur] = f /\ frame'[n] = UserFrame /\ join'[n] = Null
      /\ \A g \in Greens \ {n, cur} : frame'[g] = frame[g]
      /\ \A g \in Greens \ {n} : join'[g] = join[g]
  BY <1>1, <1>2
<1>5. heap' = heap
  <2>1. ~Placed(n)
    BY <1>1, <1>2 DEF Sched, Placement
  <2>2. heap.next[n] = Null
    BY <1>1, <1>2, <2>1 DEF Sched, Sound, Loose, Placed
  <2>3. heap.next \in [Greens -> Pointer] /\ heap = [head |-> heap.head, next |-> heap.next]
    BY <1>1 DEF Heap
  <2>4. [heap.next EXCEPT ![n] = Null] = heap.next
    BY <2>2, <2>3
  <2> QED BY <1>2, <2>3, <2>4
<1>6. \A g \in Greens : /\ Live(g)' <=> Live(g) \/ g = n
                        /\ frame'[g].op = "gone" <=> frame[g].op = "gone"
  BY <1>1, <1>2, <1>3, <1>4 DEF Live
<1>7. \A g, u \in Greens : Pends(g, u)' <=> Pends(g, u)
  BY <1>2, <1>4, <1>6, NullAssumption DEF Pends
<1> QED BY <1>2, <1>5, <1>6, <1>7, CreateMaps

-----------------------------------------------------------------------------
(* The steps that pass the CPU on.  Who gets it stands at a place where a  *)
(* thread can be left, hence in no join that is still to be waited for.    *)
LEMMA RestsThere ==
  ASSUME IInv, Sched, Where', NEW f, SetFrame(f), AtRest(f)
  PROVE  \A u \in Greens : ~Pends(cur, u)'
<1> PICK n \in Greens : cur' = n
  BY DEF Where
<1>1. frame \in [Greens -> Frames] /\ cur \in Greens
  BY DEF IInv, TypeOK
<1>2. frame'[n].op # "join" \/ frame'[n].at \notin DequeueStages
  <2>1. CASE n = cur
    BY <1>1, <2>1 DEF SetFrame, AtRest, DequeueStages
  <2>2. CASE n # cur
    <3>1. frame'[n] = frame[n]
      BY <1>1, <2>2 DEF SetFrame
    <3> QED BY <2>2, <3>1 DEF Sched, OthersRest, DequeueStages
  <2> QED BY <2>1, <2>2
<1>3. \A u \in Greens : Pends(cur, u)' => frame'[cur'].op = "join" /\ frame'[cur'].at \in DequeueStages
  BY DEF Where
<1> QED BY <1>2, <1>3

LEMMA Goes ==
  ASSUME IInv, Where, NEW f, SetFrame(f), f.op \notin {"none", "gone"}, UNCHANGED join,
         frame[cur].op # "join"
  PROVE  Steady /\ \A u \in Greens : ~Pends(cur, u)
<1>1. /\ frame \in [Greens -> Frames] /\ cur \in Greens /\ Live(cur)
      /\ \A u \in Greens : ~Pends(cur, u)
  BY DEF Where, IInv, TypeOK
<1>2. frame'[cur] = f /\ \A g \in Greens \ {cur} : frame'[g] = frame[g]
  BY <1>1 DEF SetFrame
<1>3. Steady
  BY <1>1, <1>2 DEF Steady, Live, Pends
<1> QED BY <1>1, <1>3

LEMMA OutQueues ==
  ASSUME NEW h \in Heap, Sound(h), NEW f, SwitchOut(h, f), Alive, UNCHANGED fault
  PROVE  /\ SetFrame(f) /\ heap' \in Heap
         /\ Members(heap', "susp") = Members(h, "susp")
         /\ Members(heap', "waiting") = Members(h, "waiting")
<1>1. h.head["ready"] # Null
  BY DEF SwitchOut, Alive
<1>2. SetFrame(f) /\ heap' = Dequeue(h, "ready")
  BY <1>1 DEF SwitchOut
<1> DEFINE d == Dequeue(h, "ready")
<1>3. /\ h.head["ready"] \in Greens /\ h.head["ready"] \in Members(h, "ready") /\ d \in Heap
      /\ \A g \in Greens, r \in Queues : g \in Members(d, r) <=> g \in Members(h, r) /\ g # h.head["ready"]
  BY <1>1, DequeueSound DEF Queues
<1> HIDE DEF d
<1>4. h.head["ready"] \notin Members(h, "susp") /\ h.head["ready"] \notin Members(h, "waiting")
  BY <1>3 DEF Sound, Apart, Queues
<1>5. /\ Members(h, "susp") \subseteq Greens /\ Members(h, "waiting") \subseteq Greens
      /\ Members(d, "susp") \subseteq Greens /\ Members(d, "waiting") \subseteq Greens
  BY <1>3, HeadIsMember DEF Queues
<1>6. Members(d, "susp") = Members(h, "susp") /\ Members(d, "waiting") = Members(h, "waiting")
  BY <1>3, <1>4, <1>5 DEF Queues
<1> QED BY <1>2, <1>3, <1>6 DEF d

LEMMA SuspendQueues ==
  ASSUME IInv, GInv, Alive, UNCHANGED fault, frame[cur].op = "user" \/ frame[cur].at = "retry",
         NEW q \in {"ready", "susp"}, NEW f, SuspendOn(q, f)
  PROVE  /\ SetFrame(f)
         /\ Members(heap', "susp") = Members(heap, "susp") \cup (IF q = "susp" THEN {cur} ELSE {})
         /\ Members(heap', "waiting") = Members(heap, "waiting")
<1>1. /\ cur \in Greens /\ heap \in Heap /\ running = cur /\ Sound(heap)
      /\ \A r \in Queues : cur \notin Members(heap, r)
  BY AtEase
<1> DEFINE h == Enqueue(heap, q, cur)
<1>2. /\ ~Endless(heap, q) /\ h \in Heap /\ Sound(h)
      /\ \A g \in Greens, r \in Queues : g \in Members(h, r) <=> g \in Members(heap, r) \/ (r = q /\ g = cur)
  BY <1>1, EnqueueSound DEF Queues
<1>3. SwitchOut(h, f)
  BY <1>1, <1>2 DEF SuspendOn
<1> HIDE DEF h
<1>4. /\ SetFrame(f)
      /\ Members(heap', "susp") = Members(h, "susp")
      /\ Members(heap', "waiting") = Members(h, "waiting")
  BY <1>2, <1>3, OutQueues
<1>5. /\ Members(h, "susp") \subseteq Greens /\ Members(h, "waiting") \subseteq Greens
      /\ Members(heap, "susp") \subseteq Greens /\ Members(heap, "waiting") \subseteq Greens
  BY <1>1, <1>2, HeadIsMember DEF Queues
<1>6. /\ Members(h, "susp") = Members(heap, "susp") \cup (IF q = "susp" THEN {cur} ELSE {})
      /\ Members(h, "waiting") = Members(heap, "waiting")
  BY <1>1, <1>2, <1>5 DEF Queues
<1> QED BY <1>4, <1>6

LEMMA TickMaps ==
  ASSUME Orderly, RInv, Alive, Where, Where', UNCHANGED <<fault, holding>>, Tick
  PROVE  Scheduling!Yield
<1>1. Sched /\ frame[cur] \in Frames /\ Live(cur) /\ IInv /\ GInv
  BY Executing DEF RInv, GInv, SInv, IInv, TypeOK
<1>2. frame[cur].op = "user"
  <2>1. frame[cur].op \in Ops /\ frame[cur].op \notin Exposed \cup {"lock", "wait", "none", "gone"}
    BY <1>1 DEF Tick, Orderly, Frames, Live
  <2>2. frame[cur].op # "unlock"
    BY <1>1 DEF Frames, Stands, Stages, EnqueueStages, DequeueStages
  <2> QED BY <2>1, <2>2 DEF Ops, Calls, Exposed
<1> PICK f : f = frame[cur]
  OBVIOUS
<1>3. SuspendOn("ready", f) /\ UNCHANGED join
  BY DEF Tick, thread
<1>4. /\ SetFrame(f)
      /\ Members(heap', "susp") = Members(heap, "susp") \cup {}
      /\ Members(heap', "waiting") = Members(heap, "waiting")
  BY <1>1, <1>2, <1>3, SuspendQueues
<1>5. AtRest(f) /\ f.op \notin {"none", "gone"} /\ frame[cur].op # "join"
  BY <1>2 DEF AtRest
<1>6. Steady /\ \A u \in Greens : ~Pends(cur, u)
  BY <1>1, <1>3, <1>4, <1>5, Goes
<1>7. \A u \in Greens : ~Pends(cur, u)'
  BY <1>1, <1>4, <1>5, RestsThere
<1> QED BY <1>4, <1>6, <1>7, YieldMaps

(* A round of the loops on taken.                                          *)
LEMMA TryMaps ==
  ASSUME RInv, Alive, Where, Where', UNCHANGED fault,
         frame[cur].op = "user" \/ frame[cur].at = "retry",
         NEW f, TakeOrSuspend(f), UNCHANGED thread, f.op \in {"lock", "wait"}, f.at = "retry",
         cur \notin holding
  PROVE  Scheduling!Sleep \/ Scheduling!Lock
<1>1. Sched /\ IInv /\ GInv /\ frame[cur].op # "join" /\ UNCHANGED join
  BY AtEase DEF RInv, thread
<1>2. CASE taken
  <2>1. SuspendOn("susp", f) /\ UNCHANGED holding
    BY <1>2 DEF TakeOrSuspend, sync
  <2>2. /\ SetFrame(f)
        /\ Members(heap', "susp") = Members(heap, "susp") \cup {cur}
        /\ Members(heap', "waiting") = Members(heap, "waiting")
    BY <1>1, <2>1, SuspendQueues
  <2>3. Steady /\ \A u \in Greens : ~Pends(cur, u)
    BY <1>1, <2>2, Goes
  <2>4. \A u \in Greens : ~Pends(cur, u)'
    BY <1>1, <2>2, RestsThere DEF AtRest
  <2>5. holding # {}
    BY <1>2 DEF RInv, Roles, TakenIsHeld
  <2> QED BY <2>1, <2>2, <2>3, <2>4, <2>5, SleepMaps
<1>3. CASE ~taken
  <2>1. /\ holding' = holding \cup {cur} /\ SetFrame(UserFrame)
        /\ UNCHANGED <<heap, cur>>
    BY <1>3 DEF TakeOrSuspend, cpu
  <2>2. holding = {}
    BY <1>3 DEF RInv, Roles, MutualExclusion
  <2>3. Steady
    BY <1>1, <2>1, UserFrameType, Goes
  <2> QED BY <2>1, <2>2, <2>3, LockMaps
<1> QED BY <1>2, <1>3

LEMMA WaitingMaps ==
  ASSUME RInv, Alive, Alive', Where, Where', UNCHANGED fault, frame[cur].op = "user",
         NEW m \in BOOLEAN, CallWait(m)
  PROVE  Scheduling!Wait \/ Scheduling!WaitReleasing
<1> DEFINE f == Frame("wait", IF m THEN "retry" ELSE "return", Null, Null, Null)
<1>1. /\ cur \in Greens /\ heap \in Heap /\ running = cur /\ Sound(heap)
      /\ Sched /\ IInv /\ GInv
      /\ \A r \in Queues : cur \notin Members(heap, r)
  BY AtEase DEF RInv
<1>2. PICK k : k = WaitQueued
  OBVIOUS
<1>3. /\ k \in Heap /\ Sound(k) /\ ~Endless(heap, "waiting")
      /\ \A g \in Greens, r \in Queues :
           g \in Members(k, r) <=> g \in Members(heap, r) \/ (r = "waiting" /\ g = cur)
      /\ k.head["susp"] = heap.head["susp"]
  <2> DEFINE e == Enqueue(heap, "waiting", cur)
  <2>1. /\ ~Endless(heap, "waiting") /\ e \in Heap /\ Sound(e)
        /\ \A g \in Greens, r \in Queues :
             g \in Members(e, r) <=> g \in Members(heap, r) \/ (r = "waiting" /\ g = cur)
        /\ \A r \in Queues \ {"waiting"} : e.head[r] = heap.head[r]
    BY <1>1, EnqueueSound DEF Queues
  <2> HIDE DEF e
  <2>2. k = e
    BY <1>1, <1>2 DEF WaitQueued, e
  <2> QED BY <2>1, <2>2 DEF Queues
<1>4. PICK h : h = IF m THEN WaitReleased ELSE WaitQueued
  OBVIOUS
<1>5. /\ h \in Heap /\ Sound(h)
      /\ \A g \in Greens : /\ g \in Members(h, "susp") <=> ~m /\ g \in Members(heap, "susp")
                           /\ g \in Members(h, "waiting") <=> g \in Members(heap, "waiting") \/ g = cur
  <2>1. CASE m
    <3> DEFINE e == [Enqueue(k, "ready", k.head["susp"]) EXCEPT !.head["susp"] = Null]
    <3>1. h = e
      BY <1>2, <1>3, <1>4, <2>1 DEF WaitReleased
    <3>2. k \in Heap /\ "ready" \in Queues /\ "susp" \in Queues /\ "susp" # "ready" /\ Sound(k)
      BY <1>3 DEF Queues
    <3>3. /\ e \in Heap /\ Sound(e)
          /\ \A g \in Greens, r \in Queues :
               g \in Members(e, r) <=>
                 \/ r \notin {"ready", "susp"} /\ g \in Members(k, r)
                 \/ r = "ready" /\ (g \in Members(k, "ready") \/ g \in Members(k, "susp"))
          /\ \A r \in Queues \ {"ready", "susp"} : e.head[r] = k.head[r]
          /\ e.head["susp"] = Null
      BY ONLY <3>2, MoveSound
    <3> HIDE DEF e
    <3> QED BY <1>3, <2>1, <3>1, <3>3 DEF Queues
  <2>2. CASE ~m
    <3>1. h = k
      BY <1>2, <1>4, <2>2
    <3> QED BY <1>3, <2>2, <3>1 DEF Queues
  <2> QED BY <2>1, <2>2
<1>6. /\ m <=> cur \in holding
      /\ SwitchOut(h, f) /\ UNCHANGED thread /\ holding' = holding \ {cur}
  <2>1. ~Crash("null") /\ ~Crash("endless")
    BY DEF Crash, Alive
  <2> QED BY <1>4, <2>1 DEF CallWait
<1>7. f.op = "wait" /\ AtRest(f)
  BY DEF Frame, AtRest
<1> HIDE DEF f
<1>8. /\ SetFrame(f)
      /\ Members(heap', "susp") = Members(h, "susp")
      /\ Members(heap', "waiting") = Members(h, "waiting")
  BY <1>5, <1>6, OutQueues
<1>9. /\ Members(heap', "susp") = IF m THEN {} ELSE Members(heap, "susp")
      /\ Members(heap', "waiting") = Members(heap, "waiting") \cup {cur}
  <2>1. /\ Members(h, "susp") \subseteq Greens /\ Members(h, "waiting") \subseteq Greens
        /\ Members(heap, "susp") \subseteq Greens /\ Members(heap, "waiting") \subseteq Greens
    BY <1>1, <1>5, HeadIsMember DEF Queues
  <2> QED BY <1>1, <1>5, <1>8, <2>1
<1>10. Steady /\ \A u \in Greens : ~Pends(cur, u)
  <2>1. UNCHANGED join
    BY <1>6 DEF thread
  <2> QED BY <1>1, <1>7, <1>8, <2>1, Goes
<1>11. \A u \in Greens : ~Pends(cur, u)'
  BY <1>1, <1>7, <1>8, RestsThere
<1>12. MutualExclusion
  BY DEF RInv, Roles
<1> QED BY <1>6, <1>9, <1>10, <1>11, <1>12, WaitMaps

LEMMA UnlockingMaps ==
  ASSUME RInv, Alive, Alive', Where, Where', UNCHANGED fault, frame[cur].op = "user", Unlock
  PROVE  Scheduling!Unlock
<1> DEFINE n == heap.head["susp"]
           d == Dequeue(heap, "susp")
           W == IF n = Null THEN {} ELSE {n}
<1>1. /\ cur \in Greens /\ heap \in Heap /\ Sound(heap) /\ IInv
  BY AtEase DEF RInv
<1>2. /\ n = Null => UNCHANGED heap
      /\ n # Null => heap' = Enqueue(d, "ready", n)
      /\ cur \in holding /\ holding' = holding \ {cur} /\ UNCHANGED <<cur, join, frame>>
  <2>1. ~Crash("endless")
    BY DEF Crash, Alive
  <2>2. ~(n # Null /\ Endless(IF n = Null THEN heap ELSE d, "ready"))
    BY <2>1 DEF Unlock
  <2> QED BY <2>2 DEF Unlock, thread, cpu
<1>3. W \in SUBSET Greens /\ ((W = {} /\ Members(heap, "susp") = {}) \/ \E g \in Members(heap, "susp") : W = {g})
  BY <1>1, HeadIsMember DEF Queues, Pointer
<1>4. /\ Members(heap', "susp") = Members(heap, "susp") \ W
      /\ Members(heap', "waiting") = Members(heap, "waiting")
  <2>1. CASE n = Null
    BY <1>2, <2>1
  <2>2. CASE n # Null
    <3>1. /\ n \in Greens /\ n \in Members(heap, "susp") /\ d \in Heap /\ Sound(d)
          /\ \A g \in Greens, r \in Queues : g \in Members(d, r) <=> g \in Members(heap, r) /\ g # n
      BY <1>1, <2>2, DequeueSound DEF Queues
    <3> HIDE DEF d
    <3> DEFINE e == Enqueue(d, "ready", n)
    <3>2. /\ e \in Heap
          /\ \A g \in Greens, r \in Queues :
               g \in Members(e, r) <=> g \in Members(d, r) \/ (r = "ready" /\ g = n)
      <4>1. /\ \A r \in Queues : n \notin Members(d, r)
            /\ "ready" \in Queues /\ n \in Greens /\ d \in Heap /\ Sound(d)
        BY <3>1 DEF Queues
      <4> HIDE DEF n
      <4> QED BY <4>1, EnqueueSound
    <3>3. heap' = e
      BY <1>2, <2>2
    <3> HIDE DEF e, n
    <3>4. /\ Members(e, "susp") \subseteq Greens /\ Members(e, "waiting") \subseteq Greens
          /\ Members(heap, "susp") \subseteq Greens /\ Members(heap, "waiting") \subseteq Greens
      BY <1>1, <3>2, HeadIsMember DEF Queues
    <3>5. n \notin Members(heap, "waiting")
      BY <1>1, <3>1 DEF Sound, Apart, Queues
    <3>6. W = {n}
      BY <2>2
    <3> QED BY <3>1, <3>2, <3>3, <3>4, <3>5, <3>6 DEF Queues
  <2> QED BY <2>1, <2>2
<1> HIDE DEF W, n, d
<1>5. Steady
  BY <1>2 DEF Steady, Live, Pends
<1>6. holding = {cur} /\ holding' = {}
  BY <1>2 DEF RInv, Roles, MutualExclusion
<1> QED BY <1>2, <1>3, <1>4, <1>5, <1>6, UnlockMaps

(* The context switches of yield, join and the end of a thread are where   *)
(* these take effect.                                                      *)
LEMMA SwitchMaps ==
  ASSUME RInv, Alive, Where, Where', UNCHANGED <<fault, holding>>, SwitchContext
  PROVE  Scheduling!Yield \/ Scheduling!Exit \/ \E u \in Greens : Scheduling!Join(u)
<1>1. /\ Sched /\ cur \in Greens /\ frame[cur] \in Frames /\ frame[cur].at = "switch"
      /\ frame[cur].op \in {"yield", "join", "exit"} /\ frame \in [Greens -> Frames] /\ IInv
  BY DEF RInv, GInv, SInv, IInv, TypeOK, SwitchContext, Here, Frames, Stands, DequeueStages
<1>2. UNCHANGED <<heap, join>>
  BY DEF SwitchContext, thread
<1>3. CASE frame[cur].op = "yield"
  <2>1. SetFrame(UserFrame)
    BY <1>3 DEF SwitchContext
  <2>2. Steady /\ \A u \in Greens : ~Pends(cur, u)
    BY <1>1, <1>2, <1>3, <2>1, UserFrameType, Goes
  <2>3. \A u \in Greens : ~Pends(cur, u)'
    BY <1>1, <2>1, UserFrameType, RestsThere DEF AtRest
  <2> QED BY <1>2, <2>2, <2>3, YieldMaps
<1>4. CASE frame[cur].op = "join"
  <2> PICK f : f = [frame[cur] EXCEPT !.at = "return"]
    OBVIOUS
  <2>1. SetFrame(f) /\ f.op = "join" /\ f.at = "return"
    BY <1>1, <1>4 DEF SwitchContext, Goto, Frames
  <2> PICK u : u = frame[cur].target
    OBVIOUS
  <2>2. u \in Greens /\ u # cur /\ Pends(cur, u)
    BY <1>1, <1>4 DEF Sched, JoinKept, Awaits, Pends
  <2>3. \A v \in Greens : ~Pends(cur, v)'
    BY <1>1, <2>1, RestsThere DEF AtRest
  <2>4. Steady
    BY <1>1, <1>2, <1>4, <2>1 DEF SetFrame, Steady, Live, Pends
  <2>5. Scheduling!Join(u)
    BY <1>2, <2>2, <2>3, <2>4, JoinMaps
  <2> QED BY <2>2, <2>5
<1>5. CASE frame[cur].op = "exit"
  <2>1. SetFrame(GoneFrame) /\ GoneFrame.op = "gone"
    BY <1>5 DEF SwitchContext, GoneFrame, Frame
  <2>2. \A v \in Greens : ~Pends(cur, v)'
    BY <1>1, <2>1, RestsThere DEF AtRest
  <2>3. \A v \in Greens : ~Pends(cur, v)
    BY <1>5 DEF Where
  <2>4. /\ frame'[cur].op = "gone" /\ frame[cur].op # "gone"
        /\ \A g \in Greens \ {cur} : frame'[g] = frame[g]
    BY <1>1, <1>5, <2>1 DEF SetFrame
  <2>5. /\ \A g \in Greens : Live(g)' <=> Live(g) /\ g # cur
        /\ \A g \in Greens : frame'[g].op = "gone" <=> frame[g].op = "gone" \/ g = cur
    BY <1>5, <2>4 DEF Live
  <2>6. \A g, u \in Greens : Pends(g, u)' <=> Pends(g, u) /\ u # cur
    BY <1>2, <2>5 DEF Pends
  <2>7. cur # Main /\ cur \notin holding
    BY <1>5 DEF RInv, Roles, EndingJoined, HolderActs
  <2> QED BY <1>2, <2>2, <2>3, <2>5, <2>6, <2>7, ExitMaps
<1> QED BY <1>1, <1>3, <1>4, <1>5

(* A step that loses the process changes nothing else that matters here.   *)
LEMMA LostMaps ==
  ASSUME RInv, Alive, Where, GInv', ~Alive', Next
  PROVE  Scheduling!Halt
<1>1. CrashOnlyOnDeadlock' /\ fault' = "null"
  BY DEF GInv, CrashOnlyOnDeadlock
<1> DEFINE Still == UNCHANGED <<heap, join, zombie, frame, cur, holding, taken>>
<1>2. fault # fault'
  BY DEF Alive
<1>3. ASSUME NEW h, NEW f, SwitchOut(h, f) PROVE UNCHANGED <<heap, frame, cur>>
  BY <1>1, <1>2, <1>3 DEF SwitchOut, SwapContext, Load, cpu
<1>4. ASSUME NEW q, NEW f, SuspendOn(q, f) PROVE UNCHANGED <<heap, frame, cur>>
  BY <1>1, <1>3, <1>4 DEF SuspendOn, cpu
<1>5. ASSUME NEW f, TakeOrSuspend(f), UNCHANGED thread PROVE Still
  BY <1>2, <1>4, <1>5 DEF TakeOrSuspend, sync, thread
<1>6. ASSUME NEW x, Crash(x) PROVE Still
  BY <1>6 DEF Crash, thread, cpu, sync
<1>7. Still
  <2>1. CASE Tick
    BY <1>4, <2>1 DEF Tick, thread, sync
  <2>2. CASE EnqueueTest \/ EnqueueSet \/ EnqueueWalk \/ EnqueueLink \/ DequeueTake \/ Dispatch
             \/ JoinRegister \/ Return \/ ExitFree \/ ExitMark \/ SignalOld \/ SignalCount
    BY <1>2, <2>2 DEF EnqueueTest, EnqueueSet, EnqueueWalk, EnqueueLink, DequeueTake, Dispatch,
                      JoinRegister, Return, ExitFree, ExitMark, SignalOld, SignalCount
  <2>3. CASE DequeueAdvance \/ DequeueClear \/ SignalUnhook
    BY <1>2, <1>6, <2>3 DEF DequeueAdvance, DequeueClear, SignalUnhook
  <2>4. CASE SwitchContext
    BY <1>1, <1>2, <2>4 DEF SwitchContext, SwapContext, Load
  <2>5. CASE Retry
    BY <1>5, <2>5 DEF Retry
  <2>6. CASE UserCall
    <3>1. ASSUME NEW n \in Threads, CallCreate(n) PROVE FALSE
      BY <1>2, <3>1 DEF CallCreate
    <3>2. ASSUME CallYield \/ CallExit \/ CallSignal \/ \E u \in Threads : CallJoin(u) PROVE FALSE
      BY <1>2, <3>2 DEF CallYield, CallExit, CallSignal, CallJoin
    <3>3. CASE CallLock
      BY <1>5, <3>3 DEF CallLock
    <3>4. CASE Unlock
      BY <1>2, <1>6, <3>4 DEF Unlock
    <3>5. ASSUME NEW m \in BOOLEAN, CallWait(m) PROVE Still
      <4> PICK h : h = IF m THEN WaitReleased ELSE WaitQueued
        OBVIOUS
      <4>1. (\E x : Crash(x)) \/ (h.head["ready"] # Null /\ \E f : SwitchOut(h, f))
        BY <3>5 DEF CallWait
      <4>2. ASSUME NEW f, h.head["ready"] # Null, SwitchOut(h, f) PROVE FALSE
        BY <1>1, <1>2, <4>2 DEF SwitchOut, SwapContext, Load
      <4> QED BY <1>6, <4>1, <4>2
    <3> QED BY <2>6, <3>1, <3>2, <3>3, <3>4, <3>5 DEF UserCall
  <2> QED BY <2>1, <2>2, <2>3, <2>4, <2>5, <2>6 DEF Next, LibStep
<1>8. Roles
  BY DEF RInv
<1> QED BY <1>1, <1>7, <1>8, HaltMaps

-----------------------------------------------------------------------------
(* Every step of the library is one of Scheduler or changes nothing there. *)
LEMMA WhereNow == RInv /\ Alive => Where
BY WhereThreadsAre

LEMMA StepMaps ==
  ASSUME Orderly, RInv, [Next]_vars
  PROVE  Scheduling!Next \/ UNCHANGED Scheduling!vars
<1>1. CASE UNCHANGED vars
  BY <1>1 DEF vars, Scheduling!vars, Ready, Sleeping, PendingJoins, Dead, Live, JoinedTo, Hand, Alive
<1>2. CASE Next
  <2>1. Alive /\ Where
    BY <1>2, NextAlive, WhereThreadsAre
  <2>2. RInv' /\ GInv'
    BY RolesNext DEF RInv
  <2>3. (RInv /\ Alive => Where)'
    BY WhereNow, PTL
  <2>4. CASE ~Alive'
    BY <1>2, <2>1, <2>2, <2>4, LostMaps DEF Scheduling!Next
  <2>5. CASE Alive'
    <3>1. Where' /\ UNCHANGED fault
      BY <2>1, <2>2, <2>3, <2>5 DEF Alive
    <3>2. CASE Tick
      <4>1. UNCHANGED holding
        BY <3>2 DEF Tick, sync
      <4> QED BY <2>1, <3>1, <3>2, <4>1, TickMaps DEF Scheduling!Next
    <3>3. CASE LibStep /\ ~Retry
      <4>1. UNCHANGED holding
        BY <3>3, OwnStep DEF RInv
      <4>2. CASE \/ EnqueueTest \/ EnqueueWalk \/ DequeueTake \/ Dispatch \/ Return \/ ExitFree
                 \/ ExitMark \/ SignalOld \/ SignalCount
        BY <2>1, <3>1, <4>1, <4>2, StillMaps
      <4>3. CASE EnqueueSet \/ EnqueueLink \/ DequeueAdvance \/ DequeueClear
        BY <2>1, <2>2, <2>5, <3>1, <4>1, <4>3, QueueMaps
      <4>4. CASE JoinRegister
        BY <2>1, <3>1, <4>1, <4>4, RegisterMaps
      <4>5. CASE SignalUnhook
        BY <2>1, <2>2, <2>5, <3>1, <4>1, <4>5, UnhookMaps DEF Scheduling!Next
      <4>6. CASE SwitchContext
        BY <2>1, <3>1, <4>1, <4>6, SwitchMaps DEF Scheduling!Next
      <4> QED BY <3>3, <4>2, <4>3, <4>4, <4>5, <4>6 DEF LibStep
    <3>4. CASE Retry
      <4>1. frame[cur] \in Frames /\ frame[cur].at = "retry"
        BY <3>4 DEF Retry, Here, RInv, IInv, TypeOK
      <4>2. frame[cur].op \in {"lock", "wait"}
        BY <4>1 DEF Frames, Stands
      <4>3. cur \notin holding
        BY <4>2 DEF RInv, Roles, HolderActs
      <4>4. TakeOrSuspend(frame[cur]) /\ UNCHANGED thread
        BY <3>4 DEF Retry
      <4> PICK f : f = frame[cur]
        OBVIOUS
      <4> QED BY <2>1, <3>1, <4>1, <4>2, <4>3, <4>4, TryMaps DEF Scheduling!Next
    <3>5. CASE UserCall
      <4>1. frame[cur].op = "user"
        BY <3>5 DEF UserCall, Calling
      <4>2. ASSUME NEW n \in Threads, CallCreate(n) PROVE Scheduling!Next
        <5>1. UNCHANGED holding /\ n \in Greens
          BY <4>2 DEF CallCreate, sync, Threads
        <5>2. Scheduling!Create(n)
          BY <2>1, <2>2, <3>1, <4>1, <4>2, <5>1, NewMaps
        <5> QED BY <2>1, <5>1, <5>2 DEF Scheduling!Next
      <4>3. CASE CallYield \/ CallExit \/ CallSignal \/ \E u \in Threads : CallJoin(u)
        <5>1. UNCHANGED holding
          BY <4>3 DEF CallYield, CallExit, CallSignal, CallJoin, sync
        <5> QED BY <2>1, <3>1, <4>3, <5>1, StillMaps
      <4>4. CASE CallLock
        <5> PICK f : f = Frame("lock", "retry", Null, Null, Null)
          OBVIOUS
        <5>1. TakeOrSuspend(f) /\ UNCHANGED thread /\ cur \notin holding /\ f.op = "lock" /\ f.at = "retry"
          BY <4>4 DEF CallLock, Frame
        <5> QED BY <2>1, <3>1, <4>1, <5>1, TryMaps DEF Scheduling!Next
      <4>5. CASE Unlock
        BY <2>1, <2>5, <3>1, <4>1, <4>5, UnlockingMaps DEF Scheduling!Next
      <4>6. ASSUME NEW m \in BOOLEAN, CallWait(m) PROVE Scheduling!Next
        BY <2>1, <2>5, <3>1, <4>1, <4>6, WaitingMaps DEF Scheduling!Next
      <4> QED BY <3>5, <4>2, <4>3, <4>4, <4>5, <4>6 DEF UserCall
    <3> QED BY <1>2, <3>2, <3>3, <3>4, <3>5 DEF Next
  <2> QED BY <2>4, <2>5
<1> QED BY <1>1, <1>2

LEMMA InitMaps == Init => Scheduling!Init
<1> SUFFICES ASSUME Init PROVE Scheduling!Init
  OBVIOUS
<1>1. /\ cur = Main /\ Main \in Greens /\ frame[cur] = UserFrame /\ holding = {} /\ Alive
      /\ \A g \in Greens \ {cur} : frame[g] = NoFrame
      /\ \A g \in Greens : join[g] = Null
      /\ heap = EmptyHeap /\ heap \in Heap
  BY GreenAssumption DEF Init, Alive, EmptyHeap, Heap, Pointer
<1>2. UserFrame.op = "user" /\ NoFrame.op = "none"
  BY DEF UserFrame, NoFrame, Frame
<1>3. \A q \in Queues : Members(heap, q) = {}
  <2>1. \A q \in Queues : heap.head[q] = Null
    BY <1>1 DEF EmptyHeap
  <2> QED BY <1>1, <2>1, HeadIsMember
<1>4. Ready = {Main} /\ PendingJoins = {} /\ Dead = {}
  <2>1. \A g \in Greens : JoinedTo(g) = {}
    BY <1>1, NullAssumption DEF JoinedTo
  <2> QED BY <1>1, <1>2, <2>1 DEF Ready, PendingJoins, Dead, Live
<1> QED BY <1>1, <1>3, <1>4 DEF Scheduling!Init, Sleeping, Queues

(* ImplementsScheduler, for every number of threads and every client that  *)
(* is Orderly (green.c as a whole): although a call takes many statements, *)
(* create, yield, join, the end of a thread, lock, unlock, wait and signal *)
(* each take effect at one moment, nobody gets the CPU who is not ready,   *)
(* and the process is lost only when nobody else is.                       *)
THEOREM SchedulerImplemented == ASSUME Orderly PROVE Spec => ImplementsScheduler
<1>1. Init => Scheduling!Init
  BY InitMaps
<1>2. RInv /\ [Next]_vars => [Scheduling!Next]_(Scheduling!vars)
  BY StepMaps
<1> QED
  BY <1>1, <1>2, RolesInvariance, PTL DEF Spec, ImplementsScheduler, Scheduling!Spec
-----------------------------------------------------------------------------
(* Clients that cannot deadlock: nobody waits on the condition, and who    *)
(* joins does not lock.                                                    *)
LockOrJoin == \A g \in Greens : "wait" \notin May[g] /\ ~({"lock", "join"} \subseteq May[g])

(* Who calls lock may, and Main does not end.                              *)
Callers ==
  /\ \A g \in Greens : frame[g].op = "lock" \/ g \in holding => "lock" \in May[g]
  /\ Live(Main)

LEMMA CallersStep ==
  ASSUME LockOrJoin, RInv, Callers, [Next]_vars
  PROVE  Callers'
<1>1. /\ cur \in Greens /\ frame \in [Greens -> Frames] /\ frame[cur] \in Frames
      /\ holding \subseteq Greens /\ Main \in Greens /\ IInv
  BY GreenAssumption DEF RInv, IInv, TypeOK
<1>2. UserFrame.op = "user" /\ UserFrame.op \notin {"none", "gone", "lock"}
  BY DEF UserFrame, Frame
<1>3. \A g \in Greens \ {cur} : frame'[g] = frame[g] \/ frame'[g] = UserFrame
  BY <1>1, OthersMove
<1> DEFINE Own == /\ frame'[cur].op = "lock" => "lock" \in May[cur]
                  /\ cur = Main => frame'[cur].op \notin {"none", "gone"}
           Held == \A g \in holding' : "lock" \in May[g]
<1>4. ASSUME Own, Held PROVE Callers'
  BY <1>1, <1>2, <1>3, <1>4 DEF Callers, Live
<1>5. ASSUME NEW f, TakeOrSuspend(f), f.op = "lock", "lock" \in May[cur] PROVE Own /\ Held
  <2>1. SetFrame(f) \/ SetFrame(UserFrame) \/ UNCHANGED frame
    BY <1>5 DEF TakeOrSuspend, SuspendOn, SwitchOut
  <2>2. holding' \subseteq holding \cup {cur}
    BY <1>5 DEF TakeOrSuspend, sync
  <2>3. Own
    BY <1>1, <1>2, <1>5, <2>1 DEF SetFrame, Callers, Live
  <2> QED BY <1>1, <1>5, <2>2, <2>3 DEF Callers
<1>6. CASE Tick \/ (LibStep /\ ~Retry)
  <2>1. /\ UNCHANGED holding
        /\ \/ frame'[cur].op = frame[cur].op \/ frame'[cur].op = "user"
           \/ frame[cur].op = "exit" /\ frame'[cur].op = "gone"
    BY <1>1, <1>6, OwnStep
  <2>2. frame[cur].op = "exit" => cur # Main
    BY <1>6, NextAlive DEF Next, RInv, Roles, EndingJoined
  <2> QED BY <1>1, <1>4, <2>1, <2>2 DEF Callers, Live
<1>7. CASE Retry
  <2>1. frame[cur].op \in {"lock", "wait"} /\ Alive
    BY <1>1, <1>7 DEF Retry, Here, Frames, Stands
  <2>2. frame[cur].op # "wait"
    BY <1>1, <2>1 DEF RInv, GInv, SInv, Sched, AsCalled, LockOrJoin
  <2> PICK f : f = frame[cur]
    OBVIOUS
  <2>3. TakeOrSuspend(f) /\ f.op = "lock" /\ "lock" \in May[cur]
    BY <1>1, <1>7, <2>1, <2>2 DEF Retry, Callers
  <2> QED BY <1>4, <1>5, <2>3
<1>8. CASE UserCall
  <2>1. ASSUME NEW n \in Threads, CallCreate(n) PROVE Own /\ Held
    <3>1. frame'[cur].op = "create" /\ UNCHANGED holding
      BY <1>1, <2>1 DEF CallCreate, Frame, sync
    <3> QED BY <1>1, <3>1 DEF Callers
  <2>2. CASE CallYield \/ CallExit \/ CallSignal \/ \E u \in Threads : CallJoin(u)
    <3>1. UNCHANGED holding
      BY <2>2 DEF CallYield, CallExit, CallSignal, CallJoin, sync
    <3>2. frame'[cur].op \in {"yield", "signal", "join", "exit"}
      BY <1>1, <2>2 DEF CallYield, CallExit, CallSignal, CallJoin, SetFrame, Frame
    <3> QED BY <1>1, <1>4, <3>1, <3>2 DEF Callers
  <2>3. CASE Calling("lock") /\ CallLock
    <3> PICK f : f = Frame("lock", "retry", Null, Null, Null)
      OBVIOUS
    <3>1. TakeOrSuspend(f) /\ f.op = "lock" /\ "lock" \in May[cur]
      BY <2>3 DEF CallLock, Frame, Calling
    <3> QED BY <1>4, <1>5, <3>1
  <2>4. CASE Unlock
    <3>1. UNCHANGED frame /\ holding' \subseteq holding
      BY <2>4 DEF Unlock, Crash, sync
    <3> QED BY <1>1, <1>4, <3>1 DEF Callers, Live
  <2>5. ~Calling("wait")
    BY <1>1 DEF Calling, LockOrJoin
  <2> QED BY <1>4, <1>8, <2>1, <2>2, <2>3, <2>4, <2>5 DEF UserCall
<1>9. CASE UNCHANGED vars
  BY <1>9 DEF vars, Callers, Live
<1> QED BY <1>6, <1>7, <1>8, <1>9 DEF Next

LEMMA CallersInit == Init => Callers
BY GreenAssumption DEF Init, Callers, Live, UserFrame, NoFrame, Frame

(* Who has the mutex, unless it is the executing thread, is ready.         *)
LEMMA HolderReady ==
  ASSUME LockOrJoin, RInv, Callers, Alive, Hand = {}, taken, cur \notin holding
  PROVE  \E r \in Greens : In(r, "ready")
<1>1. Sched /\ frame \in [Greens -> Frames] /\ holding \subseteq Greens
  BY DEF RInv, GInv, SInv, IInv, TypeOK
<1>2. PICK h \in Greens : h \in holding /\ h # cur
  BY <1>1 DEF RInv, Roles, TakenIsHeld
<1>3. frame[h].op \in {"user", "create", "yield", "join", "signal"} /\ "lock" \in May[h]
  BY <1>2 DEF RInv, Roles, HolderActs, Callers
<1>4. Placed(h)
  BY <1>1, <1>2, <1>3 DEF Sched, Placement, Live
<1>5. \A u \in Greens : ~Awaits(h, u)
  BY <1>1, <1>3 DEF Sched, OnePlace, AsCalled, LockOrJoin
<1>6. frame[h].at # "retry" /\ frame[h].op # "wait"
  <2>1. frame[h] \in Frames
    BY <1>1
  <2> QED BY <1>3, <2>1 DEF Frames, Stands
<1>7. In(h, "ready")
  BY <1>1, <1>4, <1>5, <1>6 DEF Placed, Queues, Sched, SleepersRetry
<1> QED BY <1>7

(* A queue that is not empty, between the calls of enqueue and dequeue,    *)
(* means a ready thread.                                                   *)
LEMMA SleeperMeansReady ==
  ASSUME LockOrJoin, RInv, Callers, Alive, Hand = {}, cur \notin holding, frame[cur].at # "retry",
         heap = Settled, NEW g \in Greens, NEW q \in Queues, In(g, q)
  PROVE  \E r \in Greens : In(r, "ready")
<1>1. Sched /\ frame \in [Greens -> Frames] /\ heap \in Heap
  BY DEF RInv, GInv, SInv, IInv, TypeOK
<1>2. CASE q = "ready"
  BY <1>2
<1>3. CASE q = "waiting"
  BY <1>1, <1>3 DEF Sched, SleepersRetry, AsCalled, LockOrJoin
<1>4. CASE q = "susp" /\ taken
  BY <1>4, HolderReady
<1>5. CASE q = "susp" /\ ~taken
  <2>1. heap.head["susp"] # Null
    BY <1>1, <1>5, HeadIsMember DEF In, Queues
  <2> QED BY <1>1, <1>5, <2>1 DEF Sched, SomebodyLooks
<1> QED BY <1>2, <1>3, <1>4, <1>5 DEF Queues

(* dequeue finds a thread on the ready queue, whoever calls it.            *)
LEMMA DequeueFinds ==
  ASSUME Orderly, LockOrJoin, RInv, Callers, Alive, frame[cur].at = "advance"
  PROVE  heap.head["ready"] # Null
<1> USE DEF EnqueueStages, DequeueStages
<1>1. /\ Sched /\ cur \in Greens /\ frame \in [Greens -> Frames] /\ heap \in Heap /\ Main \in Greens
      /\ frame[cur].op \in {"yield", "join", "exit"} /\ Hand = {} /\ Settled = heap
  BY GreenAssumption DEF RInv, GInv, SInv, IInv, TypeOK, Frames, Stands, Hand, Settled
<1>2. SUFFICES \E r \in Greens : In(r, "ready")
  BY <1>1, HeadIsMember DEF In, Queues
<1>3. \A g, u \in Greens : Awaits(g, u) => frame[g].op = "join" /\ "join" \in May[g]
  BY <1>1 DEF Sched, OnePlace, AsCalled
<1>4. CASE frame[cur].op = "yield"
  <2>1. Placed(cur)
    BY <1>1, <1>4 DEF Sched, Placement, OthersRest, Parted
  <2>2. \A u \in Greens : ~Awaits(cur, u)
    BY <1>1, <1>3, <1>4
  <2>3. In(cur, "ready")
    BY <1>1, <1>4, <2>1, <2>2 DEF Placed, Queues, Sched, SleepersRetry
  <2> QED BY <1>1, <2>3
<1>5. ASSUME NEW u \in Greens, u # cur, Live(u), \A v \in Greens : ~Awaits(u, v), cur \notin holding
      PROVE  \E r \in Greens : In(r, "ready")
  <2>1. Placed(u)
    BY <1>1, <1>5 DEF Sched, Placement
  <2>2. PICK q \in Queues : In(u, q)
    BY <1>5, <2>1 DEF Placed
  <2> QED BY <1>1, <1>5, <2>2, SleeperMeansReady
<1>6. CASE frame[cur].op = "join"
  <2> PICK u : u = frame[cur].target
    OBVIOUS
  <2>1. u \in Greens /\ u # cur /\ Awaits(cur, u) /\ "join" \in May[cur]
    BY <1>1, <1>6 DEF Sched, JoinKept, AsCalled
  <2>2. \A v \in Greens : ~Awaits(u, v)
    BY <1>1, <1>3, <2>1 DEF Orderly
  <2>3. cur \notin holding
    BY <1>1, <2>1 DEF Callers, LockOrJoin
  <2> QED BY <1>5, <2>1, <2>2, <2>3 DEF Awaits
<1>7. CASE frame[cur].op = "exit"
  <2>1. cur # Main /\ cur \notin holding /\ Live(Main)
    BY <1>7 DEF RInv, Roles, EndingJoined, HolderActs, Callers
  <2>2. CASE \A v \in Greens : ~Awaits(Main, v)
    BY <1>1, <1>5, <2>1, <2>2
  <2>3. ASSUME NEW v \in Greens, Awaits(Main, v) PROVE \E r \in Greens : In(r, "ready")
    <3>1. v # cur /\ Live(v) /\ frame[Main].op = "join" /\ "join" \in May[Main]
      BY <1>1, <1>3, <1>7, <2>3 DEF Awaits
    <3>2. v # Main
      BY <1>1, <2>3, <3>1 DEF Sched, OnePlace, JoinKept
    <3>3. \A w \in Greens : ~Awaits(v, w)
      BY <1>1, <1>3, <3>1, <3>2 DEF Orderly
    <3> QED BY <1>5, <2>1, <3>1, <3>3
  <2> QED BY <2>2, <2>3
<1> QED BY <1>1, <1>4, <1>6, <1>7

LEMMA StaysAlive ==
  ASSUME Orderly, LockOrJoin, RInv, Callers, Alive, [Next]_vars
  PROVE  Alive'
<1>1. CASE UNCHANGED vars
  BY <1>1 DEF vars, Alive
<1> SUFFICES ASSUME Next, ~Alive' PROVE FALSE
  BY <1>1
<1>2. fault' = "null" /\ fault = "none"
  <2>1. RInv'
    BY RolesNext
  <2> QED BY <2>1 DEF RInv, GInv, CrashOnlyOnDeadlock, Alive
<1>3. /\ Sched /\ cur \in Greens /\ frame[cur] \in Frames /\ heap \in Heap /\ Live(cur)
      /\ IInv /\ GInv
  BY Executing DEF RInv, GInv, SInv, IInv, TypeOK
<1>4. ASSUME NEW h, NEW f, SwitchOut(h, f), h.head["ready"] # Null PROVE FALSE
  BY <1>2, <1>4 DEF SwitchOut, SwapContext, Load
<1>5. ASSUME NEW q \in {"ready", "susp"}, NEW f, SuspendOn(q, f),
             frame[cur].op = "user" \/ frame[cur].at = "retry",
             q = "susp" => taken /\ cur \notin holding
      PROVE  FALSE
  <2>1. /\ running = cur /\ Sound(heap) /\ Hand = {} /\ (\A r \in Queues : cur \notin Members(heap, r))
        /\ \A g, r : In(g, r) <=> g \in Members(heap, r)
    BY <1>3, <1>5, AtEase
  <2> DEFINE h == Enqueue(heap, q, cur)
  <2>2. /\ ~Endless(heap, q) /\ h.head[q] # Null
        /\ \A r \in Queues \ {q} : h.head[r] = heap.head[r]
    BY <1>3, <2>1, EnqueueSound DEF Queues
  <2>3. SwitchOut(h, f)
    BY <1>5, <2>1, <2>2 DEF SuspendOn
  <2> HIDE DEF h
  <2>4. CASE q = "ready"
    BY <1>4, <2>2, <2>3, <2>4
  <2>5. CASE q = "susp"
    <3>1. \E r \in Greens : In(r, "ready")
      BY <1>5, <2>1, <2>5, HolderReady
    <3>2. h.head["ready"] # Null
      BY <1>3, <2>1, <2>2, <2>5, <3>1, HeadIsMember DEF Queues
    <3> QED BY <1>4, <2>3, <3>2
  <2> QED BY <2>4, <2>5
<1>6. ASSUME Tick PROVE FALSE
  <2>1. frame[cur].op = "user"
    <3>1. frame[cur].op \in Ops /\ frame[cur].op \notin Exposed \cup {"lock", "wait", "none", "gone"}
      BY <1>3, <1>6 DEF Tick, Orderly, Frames, Live
    <3>2. frame[cur].op # "unlock"
      BY <1>3 DEF Frames, Stands, Stages, EnqueueStages, DequeueStages
    <3> QED BY <3>1, <3>2 DEF Ops, Calls, Exposed
  <2> QED BY <1>5, <1>6, <2>1 DEF Tick
<1>7. ASSUME NEW f, TakeOrSuspend(f), frame[cur].op = "user" \/ frame[cur].at = "retry", cur \notin holding
      PROVE  FALSE
  <2>1. taken /\ SuspendOn("susp", f)
    BY <1>2, <1>7 DEF TakeOrSuspend
  <2> QED BY <1>5, <1>7, <2>1
<1>8. ASSUME LibStep PROVE FALSE
  <2>1. ASSUME \/ EnqueueTest \/ EnqueueSet \/ EnqueueWalk \/ EnqueueLink \/ DequeueTake \/ Dispatch
               \/ JoinRegister \/ Return \/ ExitFree \/ ExitMark \/ SignalOld \/ SignalCount
        PROVE  FALSE
    BY <1>2, <2>1 DEF EnqueueTest, EnqueueSet, EnqueueWalk, EnqueueLink, DequeueTake, Dispatch,
                      JoinRegister, Return, ExitFree, ExitMark, SignalOld, SignalCount
  <2>2. ASSUME DequeueAdvance PROVE FALSE
    <3>1. heap.head["ready"] # Null
      BY <2>2, DequeueFinds DEF DequeueAdvance, Here
    <3> QED BY <1>2, <2>2, <3>1 DEF DequeueAdvance
  <2>3. ASSUME DequeueClear PROVE FALSE
    <3>1. frame[cur].node \in Greens
      BY <1>3, <2>3 DEF DequeueClear, Here, Hand, EnqueueStages, Sched, InHand
    <3> QED BY <1>2, <2>3, <3>1, NullAssumption DEF DequeueClear
  <2>4. ASSUME SignalUnhook PROVE FALSE
    BY <1>2, <1>3, <2>4 DEF SignalUnhook, Here, Sched, Standing
  <2>5. ASSUME SwitchContext PROVE FALSE
    BY <1>2, <2>5 DEF SwitchContext, SwapContext, Load
  <2>6. ASSUME Retry PROVE FALSE
    <3>1. frame[cur].op \in {"lock", "wait"} /\ frame[cur].at = "retry"
      BY <1>3, <2>6 DEF Retry, Here, Frames, Stands
    <3> QED BY <1>7, <2>6, <3>1 DEF Retry, RInv, Roles, HolderActs
  <2> QED BY <1>8, <2>1, <2>2, <2>3, <2>4, <2>5, <2>6 DEF LibStep
<1>9. ASSUME UserCall PROVE FALSE
  <2>1. frame[cur].op = "user" /\ ~Calling("wait")
    BY <1>3, <1>9 DEF UserCall, Calling, LockOrJoin
  <2>2. ASSUME NEW n \in Threads, CallCreate(n) PROVE FALSE
    BY <1>2, <2>2 DEF CallCreate
  <2>3. ASSUME CallYield \/ CallExit \/ CallSignal \/ \E u \in Threads : CallJoin(u) PROVE FALSE
    BY <1>2, <2>3 DEF CallYield, CallExit, CallSignal, CallJoin
  <2>4. ASSUME CallLock PROVE FALSE
    BY <1>7, <2>1, <2>4 DEF CallLock
  <2>5. ASSUME Unlock PROVE FALSE
    BY <1>2, <2>5 DEF Unlock, Crash
  <2> QED BY <1>9, <2>1, <2>2, <2>3, <2>4, <2>5 DEF UserCall
<1> QED BY <1>6, <1>8, <1>9 DEF Next

(* A client whose one joiner does not lock, and which leaves the condition *)
(* alone, never loses the process (dequeue, green_join, green_thread and   *)
(* green_mutex_lock of green.c never meet an empty ready queue).           *)
THEOREM NeverLost == ASSUME Orderly, LockOrJoin PROVE Spec => []Alive
<1>1. Init => Callers /\ Alive
  BY CallersInit DEF Init, Alive
<1>2. RInv /\ Callers /\ Alive /\ [Next]_vars => Callers' /\ Alive'
  BY CallersStep, StaysAlive
<1> QED
  BY <1>1, <1>2, RolesInvariance, PTL DEF Spec
=============================================================================
