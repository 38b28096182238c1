-------------------------------- MODULE Green --------------------------------
(***************************************************************************)
(* The green thread library of seminars/sem3/green.c with one mutex and    *)
(* one condition, driven by an arbitrary client.                           *)
(*                                                                         *)
(* There is one CPU.  cur is the thread whose stack it executes, running   *)
(* is the pointer of that name in the code; they are two things, and part  *)
(* of what has to be shown is when they agree.  frame[g] says where the    *)
(* stack of g stands: in its own code, or at a statement of a library      *)
(* function.  The functions that block SIGVTALRM (lock, unlock, wait) and  *)
(* the handler, which runs with it blocked, go from one context switch to  *)
(* the next in a single step; the others (create, yield, join, signal, the *)
(* end of green_thread) take one step per statement, because the timer may *)
(* strike between any two.                                                 *)
(*                                                                         *)
(* ctx[g] abstracts the ucontext_t of g: the stack whose present position  *)
(* is saved in it, or Null when what it holds is out of date.  Loading a   *)
(* context that is out of date or freed, saving into a freed one, reading  *)
(* through a null pointer and walking a circular queue with the timer      *)
(* blocked are the ways in which the process is lost; fault records them   *)
(* and nothing happens afterwards.                                         *)
(***************************************************************************)
EXTENDS Integers, FiniteSets, GreenQueue

CONSTANTS Main,     \* main_green
          May,      \* which calls the code of each thread makes
          Quiet,    \* exposed functions that no tick interrupts here; {} is the code
          MaxSusp   \* wait and signal are called while num_susp is within +-MaxSusp

Calls == {"create", "yield", "join", "exit", "signal", "lock", "unlock", "wait"}

(* The functions that leave SIGVTALRM unblocked.                           *)
Exposed == {"create", "yield", "join", "exit", "signal"}

ASSUME GreenAssumption ==
  /\ IsFiniteSet(Greens) /\ Main \in Greens
  /\ May \in [Greens -> SUBSET Calls]
  /\ Quiet \subseteq Exposed
  /\ MaxSusp \in Nat

Threads == Greens \ {Main}

VARIABLES heap,      \* the queues: heads and next fields
          join,      \* join field of each green_t
          zombie,    \* zombie field of each green_t
          ctx,       \* what the context of each green_t holds
          freed,     \* green_t's whose stack and context have been freed
          cur,       \* whose stack the CPU executes
          running,   \* the pointer running
          frame,     \* where each stack stands
          taken,     \* taken field of the mutex
          numSusp,   \* num_susp field of the condition
          holding,   \* history: who got the mutex and has not given it up
          fault      \* how the process was lost, "none" while it is not

sync   == <<taken, numSusp, holding>>
thread == <<join, zombie, freed>>
cpu    == <<cur, running, ctx>>
vars   == <<heap, join, zombie, ctx, freed, cur, running, frame, taken,
            numSusp, holding, fault>>

Ops == Calls \cup {"none", "user", "gone"}

Stages == {"run", "test", "set", "walk", "link", "take", "advance", "clear",
           "dispatch", "switch", "register", "return", "free", "mark", "old",
           "unhook", "count", "retry"}

EnqueueStages == {"test", "set", "walk", "link"}
DequeueStages == {"take", "advance", "clear", "dispatch", "switch"}

(* A stack in function o can stand at statement s.                         *)
Stands(o, s) ==
  /\ s = "run" <=> o \in {"none", "user", "gone"}
  /\ s \in EnqueueStages => o \in {"create", "yield", "exit", "signal"}
  /\ s \in DequeueStages => o \in {"yield", "join", "exit"}
  /\ s \in {"free", "mark"} => o = "exit"
  /\ s \in {"old", "unhook", "count"} => o = "signal"
  /\ s = "register" => o = "join"
  /\ s = "return" => o \in {"join", "wait"}
  /\ s = "retry" => o \in {"lock", "wait"}

(* A frame: the function, the statement about to be executed, the thread   *)
(* being queued or switched from, the local pointer of enqueue or dequeue, *)
(* and the thread a join is about.                                         *)
Frame(o, s, i, n, t) == [op |-> o, at |-> s, item |-> i, node |-> n, target |-> t]

Frames ==
  {f \in [op : Ops, at : Stages, item : Pointer, node : Pointer, target : Pointer] :
     /\ Stands(f.op, f.at)
     /\ f.at \in {"walk", "link", "dispatch", "switch"} => f.node # Null}

UserFrame == Frame("user", "run", Null, Null, Null)
NoFrame   == Frame("none", "run", Null, Null, Null)
GoneFrame == Frame("gone", "run", Null, Null, Null)

Init ==
  /\ heap = EmptyHeap
  /\ join = [g \in Greens |-> Null]
  /\ zombie = [g \in Greens |-> FALSE]
  /\ ctx = [g \in Greens |-> Null]
  /\ freed = {}
  /\ cur = Main /\ running = Main
  /\ frame = [g \in Greens |-> IF g = Main THEN UserFrame ELSE NoFrame]
  /\ taken = FALSE /\ numSusp = 0
  /\ holding = {}
  /\ fault = "none"
-----------------------------------------------------------------------------
Alive == fault = "none"

(* Contexts.                                                               *)

SetFrame(f) == frame' = [frame EXCEPT ![cur] = f]

(* Execution continues from the context of n, given the contents c of all  *)
(* contexts; every saved copy of the position it continues from is         *)
(* outdated by that.                                                       *)
Load(c, n) ==
  IF n \in freed \/ c[n] = Null
  THEN /\ fault' = "context"
       /\ ctx' = c
       /\ UNCHANGED cur
  ELSE /\ cur' = c[n]
       /\ ctx' = [g \in Greens |-> IF c[g] = c[n] THEN Null ELSE c[g]]
       /\ UNCHANGED fault

(* swapcontext(s->context, n->context)                                     *)
SwapContext(s, n) ==
  IF s \in freed
  THEN fault' = "context" /\ UNCHANGED <<ctx, cur>>
  ELSE Load([ctx EXCEPT ![s] = cur], n)

(* With the timer blocked: take the first ready thread of h, run it, and   *)
(* leave the current stack at f.                                           *)
SwitchOut(h, f) ==
  IF h.head["ready"] = Null
  THEN fault' = "null" /\ UNCHANGED <<heap, frame, cpu>>
  ELSE /\ heap' = Dequeue(h, "ready")
       /\ running' = h.head["ready"]
       /\ SetFrame(f)
       /\ SwapContext(running, h.head["ready"])

(* With the timer blocked: queue the running thread on q and switch out.   *)
SuspendOn(q, f) ==
  IF Endless(heap, q)
  THEN fault' = "endless" /\ UNCHANGED <<heap, frame, cpu>>
  ELSE SwitchOut(Enqueue(heap, q, running), f)
-----------------------------------------------------------------------------
(* timer_handler: SIGVTALRM strikes where it is not blocked; the thread    *)
(* resumes later at the very statement it was interrupted at.              *)
Tick ==
  /\ Alive
  /\ frame[cur].op \notin Quiet \cup {"lock", "wait"}
  /\ SuspendOn("ready", frame[cur])
  /\ UNCHANGED <<thread, sync>>
-----------------------------------------------------------------------------
(* The statements that the exposed functions are made of.                  *)

Here(s) == Alive /\ frame[cur].at = s
Goto(s) == SetFrame([frame[cur] EXCEPT !.at = s])
GotoWith(s, n) == SetFrame([frame[cur] EXCEPT !.at = s, !.node = n])

Crash(f) == fault' = f /\ UNCHANGED <<heap, thread, cpu, frame, sync>>

(* Where a function goes on after enqueue(&ready_queue, item) returns.     *)
AfterEnqueue ==
  CASE frame[cur].op = "create" -> SetFrame(UserFrame)
    [] frame[cur].op = "yield"  -> Goto("take")
    [] frame[cur].op = "exit"   -> Goto("free")
    [] OTHER                    -> Goto("count")

(* enqueue: is the list empty? if not, curr = *list                        *)
EnqueueTest ==
  /\ Here("test")
  /\ IF heap.head["ready"] = Null
     THEN Goto("set")
     ELSE GotoWith("walk", heap.head["ready"])
  /\ UNCHANGED <<heap, thread, cpu, sync, fault>>

(* enqueue: *list = thread                                                 *)
EnqueueSet ==
  /\ Here("set")
  /\ heap' = [heap EXCEPT !.head["ready"] = frame[cur].item]
  /\ AfterEnqueue
  /\ UNCHANGED <<thread, cpu, sync, fault>>

(* enqueue: while (curr->next != NULL) curr = curr->next                   *)
EnqueueWalk ==
  /\ Here("walk")
  /\ LET n == heap.next[frame[cur].node]
     IN  IF n # Null THEN GotoWith("walk", n) ELSE Goto("link")
  /\ UNCHANGED <<heap, thread, cpu, sync, fault>>

(* enqueue: curr->next = thread                                            *)
EnqueueLink ==
  /\ Here("link")
  /\ heap' = [heap EXCEPT !.next[frame[cur].node] = frame[cur].item]
  /\ AfterEnqueue
  /\ UNCHANGED <<thread, cpu, sync, fault>>

(* dequeue: thread = *list                                                 *)
DequeueTake ==
  /\ Here("take")
  /\ GotoWith("advance", heap.head["ready"])
  /\ UNCHANGED <<heap, thread, cpu, sync, fault>>

(* dequeue: the head moves on to its successor; *list is read again here   *)
DequeueAdvance ==
  /\ Here("advance")
  /\ IF heap.head["ready"] = Null
     THEN Crash("null")
     ELSE /\ heap' = [heap EXCEPT !.head["ready"] = heap.next[@]]
          /\ Goto("clear")
          /\ UNCHANGED <<thread, cpu, sync, fault>>

(* A plausible slip: dequeue returns a null pointer and the caller goes on.*)
DequeueClearBlind ==
  /\ Here("clear")
  /\ heap' = IF frame[cur].node = Null THEN heap
             ELSE [heap EXCEPT !.next[frame[cur].node] = Null]
  /\ Goto("dispatch")
  /\ UNCHANGED <<thread, cpu, sync, fault>>

(* dequeue: thread->next = NULL                                            *)
DequeueClear ==
  /\ Here("clear")
  /\ IF frame[cur].node = Null
     THEN Crash("null")
     ELSE /\ heap' = [heap EXCEPT !.next[frame[cur].node] = Null]
          /\ Goto("dispatch")
          /\ UNCHANGED <<thread, cpu, sync, fault>>

(* running = next                                                          *)
Dispatch ==
  /\ Here("dispatch")
  /\ running' = frame[cur].node
  /\ Goto("switch")
  /\ UNCHANGED <<heap, thread, cur, ctx, sync, fault>>

(* swapcontext at the end of green_yield and in green_join, setcontext at  *)
(* the end of green_thread; the position saved is the one after the call.  *)
SwitchContext ==
  /\ Here("switch")
  /\ CASE frame[cur].op = "exit" ->
            /\ SetFrame(GoneFrame)
            /\ Load(ctx, frame[cur].node)
       [] frame[cur].op = "yield" ->
            /\ SetFrame(UserFrame)
            /\ SwapContext(frame[cur].item, frame[cur].node)
       [] OTHER ->
            /\ Goto("return")
            /\ SwapContext(frame[cur].item, frame[cur].node)
  /\ UNCHANGED <<heap, thread, running, sync>>
-----------------------------------------------------------------------------
(* green_create: the fields of n are set before anything else can see it,  *)
(* then n is queued.                                                       *)
CallCreate(n) ==
  /\ frame[n].op = "none"
  /\ frame' = [frame EXCEPT ![n] = UserFrame,
                            ![cur] = Frame("create", "test", n, Null, Null)]
  /\ heap' = [heap EXCEPT !.next[n] = Null]
  /\ ctx' = [ctx EXCEPT ![n] = n]
  /\ join' = [join EXCEPT ![n] = Null]
  /\ zombie' = [zombie EXCEPT ![n] = FALSE]
  /\ UNCHANGED <<freed, cur, running, sync, fault>>

(* green_yield: susp = running                                             *)
CallYield ==
  /\ SetFrame(Frame("yield", "test", running, Null, Null))
  /\ UNCHANGED <<heap, thread, cpu, sync, fault>>

(* green_join(u): a call that finds u a zombie returns and changes nothing *)
CallJoin(u) ==
  /\ frame[u].op # "none" /\ u # cur
  /\ ~zombie[u]
  /\ SetFrame(Frame("join", "register", Null, Null, u))
  /\ UNCHANGED <<heap, thread, cpu, sync, fault>>

(* A plausible slip: the two threads of a join are mixed up.               *)
JoinRegisterSelf ==
  /\ Here("register")
  /\ join' = [join EXCEPT ![frame[cur].target] = running]
  /\ SetFrame([frame[cur] EXCEPT !.at = "take", !.item = frame[cur].target])
  /\ UNCHANGED <<heap, zombie, freed, cpu, sync, fault>>

(* green_join: susp = running; thread->join = susp                         *)
JoinRegister ==
  /\ Here("register")
  /\ join' = [join EXCEPT ![frame[cur].target] = running]
  /\ SetFrame([frame[cur] EXCEPT !.at = "take", !.item = running])
  /\ UNCHANGED <<heap, zombie, freed, cpu, sync, fault>>

(* What follows the context switch of a join, or of a wait without mutex.  *)
Return ==
  /\ Here("return")
  /\ SetFrame(UserFrame)
  /\ UNCHANGED <<heap, thread, cpu, sync, fault>>

(* A plausible slip: the end of a thread does not look for a joiner.       *)
CallExitAlone ==
  /\ cur # Main /\ cur \notin holding
  /\ SetFrame(Frame("exit", "free", Null, Null, Null))
  /\ UNCHANGED <<heap, thread, cpu, sync, fault>>

(* green_thread, when the function of the thread has returned.  A client   *)
(* does not leave its function with the mutex.                             *)
CallExit ==
  /\ cur # Main /\ cur \notin holding
  /\ SetFrame(IF join[cur] # Null
              THEN Frame("exit", "test", join[cur], Null, Null)
              ELSE Frame("exit", "free", Null, Null, Null))
  /\ UNCHANGED <<heap, thread, cpu, sync, fault>>

(* green_thread: free the stack and the context, on which it still runs.   *)
ExitFree ==
  /\ Here("free")
  /\ freed' = freed \cup {cur}
  /\ Goto("mark")
  /\ UNCHANGED <<heap, join, zombie, cpu, sync, fault>>

(* A plausible slip: the thread forgets to call itself a zombie.           *)
ExitUnmarked ==
  /\ Here("mark")
  /\ Goto("take")
  /\ UNCHANGED <<heap, thread, cpu, sync, fault>>

(* green_thread: this->zombie = TRUE                                       *)
ExitMark ==
  /\ Here("mark")
  /\ zombie' = [zombie EXCEPT ![cur] = TRUE]
  /\ Goto("take")
  /\ UNCHANGED <<heap, join, freed, cpu, sync, fault>>

(* green_cond_signal: without waiters it returns and changes nothing.      *)
CallSignal ==
  /\ numSusp # 0 /\ numSusp >= -MaxSusp
  /\ SetFrame(Frame("signal", "old", Null, Null, Null))
  /\ UNCHANGED <<heap, thread, cpu, sync, fault>>

(* green_cond_signal: old = cond->waiting                                  *)
SignalOld ==
  /\ Here("old")
  /\ SetFrame([frame[cur] EXCEPT !.at = "unhook", !.item = heap.head["waiting"]])
  /\ UNCHANGED <<heap, thread, cpu, sync, fault>>

(* A plausible slip: the waiter is unhooked and not queued.                *)
SignalDrops ==
  /\ Here("unhook")
  /\ IF frame[cur].item = Null
     THEN Crash("null")
     ELSE /\ heap' = [heap EXCEPT !.head["waiting"] = heap.next[frame[cur].item]]
          /\ Goto("count")
          /\ UNCHANGED <<thread, cpu, sync, fault>>

(* green_cond_signal: cond->waiting = old->next; the link of old stays.    *)
SignalUnhook ==
  /\ Here("unhook")
  /\ IF frame[cur].item = Null
     THEN Crash("null")
     ELSE /\ heap' = [heap EXCEPT !.head["waiting"] = heap.next[frame[cur].item]]
          /\ Goto("test")
          /\ UNCHANGED <<thread, cpu, sync, fault>>

(* A plausible slip: the count is not kept.                                *)
SignalCountNothing ==
  /\ Here("count")
  /\ SetFrame(UserFrame)
  /\ UNCHANGED <<heap, thread, cpu, sync, fault>>

(* green_cond_signal: cond->num_susp--                                     *)
SignalCount ==
  /\ Here("count")
  /\ numSusp' = numSusp - 1
  /\ SetFrame(UserFrame)
  /\ UNCHANGED <<heap, thread, cpu, taken, holding, fault>>
-----------------------------------------------------------------------------
(* The functions that block the timer.                                     *)

(* One round of the loops on mutex->taken in green_mutex_lock and          *)
(* green_cond_wait: take the mutex, or suspend at f to try again.          *)
TakeOrSuspend(f) ==
  IF taken
  THEN SuspendOn("susp", f) /\ UNCHANGED sync
  ELSE /\ taken' = TRUE
       /\ holding' = holding \cup {cur}
       /\ SetFrame(UserFrame)
       /\ UNCHANGED <<heap, cpu, numSusp, fault>>

(* green_mutex_lock, by a thread that does not have the mutex already.     *)
CallLock ==
  /\ cur \notin holding
  /\ TakeOrSuspend(Frame("lock", "retry", Null, Null, Null))
  /\ UNCHANGED thread

(* A plausible slip: whoever is woken takes the mutex for granted.         *)
RetryNoTest ==
  /\ Here("retry")
  /\ taken' = TRUE
  /\ holding' = holding \cup {cur}
  /\ SetFrame(UserFrame)
  /\ UNCHANGED <<heap, thread, cpu, numSusp, fault>>

(* A suspended thread runs again and returns to the test of its loop.      *)
Retry ==
  /\ Here("retry")
  /\ TakeOrSuspend(frame[cur])
  /\ UNCHANGED thread

(* A plausible slip: the mutex is released and nobody told.                *)
UnlockNoWake ==
  /\ cur \in holding
  /\ taken' = FALSE
  /\ holding' = holding \ {cur}
  /\ UNCHANGED <<heap, thread, cpu, frame, numSusp, fault>>

(* green_mutex_unlock, by the thread that has the mutex: one suspended     *)
(* thread, if there is any, becomes ready, and the mutex is free.          *)
Unlock ==
  /\ cur \in holding
  /\ LET next == heap.head["susp"]
         h == IF next = Null THEN heap ELSE Dequeue(heap, "susp")
     IN  IF next # Null /\ Endless(h, "ready")
         THEN Crash("endless")
         ELSE /\ heap' = IF next = Null THEN h ELSE Enqueue(h, "ready", next)
              /\ taken' = FALSE
              /\ holding' = holding \ {cur}
              /\ UNCHANGED <<thread, cpu, frame, numSusp, fault>>

(* green_cond_wait: running is the last to wait.                           *)
WaitQueued == Enqueue(heap, "waiting", running)

(* A plausible slip: the suspended threads are dropped.                    *)
WaitForgetsSusp == [WaitQueued EXCEPT !.head["susp"] = Null]

(* The lists when green_cond_wait has also released the mutex: whoever was *)
(* suspended on that (perhaps nobody, a null pointer) is ready.            *)
WaitReleased ==
  [Enqueue(WaitQueued, "ready", heap.head["susp"]) EXCEPT !.head["susp"] = Null]

(* green_cond_wait with the mutex (m), by the thread that has it, or with  *)
(* a null pointer for it (~m).                                             *)
CallWait(m) ==
  /\ m <=> cur \in holding
  /\ numSusp < MaxSusp
  /\ LET h == IF m THEN WaitReleased ELSE WaitQueued
     IN  IF Endless(heap, "waiting") \/ (m /\ Endless(WaitQueued, "ready"))
         THEN Crash("endless")
         ELSE IF h.head["ready"] = Null
         THEN Crash("null")
         ELSE /\ SwitchOut(h, Frame("wait", IF m THEN "retry" ELSE "return", Null, Null, Null))
              /\ numSusp' = numSusp + 1
              /\ taken' = IF m THEN FALSE ELSE taken
              /\ holding' = holding \ {cur}
              /\ UNCHANGED thread
-----------------------------------------------------------------------------
(* The statement at which the CPU stands in a library function.            *)
LibStep ==
  \/ EnqueueTest \/ EnqueueSet \/ EnqueueWalk \/ EnqueueLink
  \/ DequeueTake \/ DequeueAdvance \/ DequeueClear
  \/ Dispatch \/ SwitchContext
  \/ JoinRegister \/ Return
  \/ ExitFree \/ ExitMark
  \/ SignalOld \/ SignalUnhook \/ SignalCount
  \/ Retry

Calling(c) == Alive /\ frame[cur].op = "user" /\ c \in May[cur]

(* The client calls the library.                                           *)
UserCall ==
  \/ Calling("create") /\ \E n \in Threads : CallCreate(n)
  \/ Calling("yield")  /\ CallYield
  \/ Calling("join")   /\ \E u \in Threads : CallJoin(u)
  \/ Calling("exit")   /\ CallExit
  \/ Calling("signal") /\ CallSignal
  \/ Calling("lock")   /\ CallLock
  \/ Calling("unlock") /\ Unlock
  \/ Calling("wait")   /\ \E m \in BOOLEAN : CallWait(m)

Next == Tick \/ LibStep \/ UserCall

Spec == Init /\ [][Next]_vars

(* The CPU executes the statements of the library, and the timer, which is *)
(* periodic and stays pending while blocked, strikes again and again.  The *)
(* client may compute for ever without calling anything.                   *)
Fairness == WF_vars(LibStep) /\ SF_vars(Tick)

FairSpec == Spec /\ Fairness
-----------------------------------------------------------------------------
(* Type invariant.                                                         *)
TypeOK ==
  /\ heap \in Heap
  /\ join \in [Greens -> Pointer]
  /\ zombie \in [Greens -> BOOLEAN]
  /\ ctx \in [Greens -> Pointer]
  /\ freed \subseteq Greens
  /\ cur \in Greens /\ running \in Greens
  /\ frame \in [Greens -> Frames]
  /\ taken \in BOOLEAN
  /\ numSusp \in Int /\ numSusp <= MaxSusp
  /\ holding \subseteq Greens
  /\ fault \in {"none", "null", "context", "endless"}

(* No two threads have the mutex, and while one has it, it is marked taken *)
(* (green_mutex_lock, green_cond_wait): although a woken thread competes   *)
(* with threads that never slept, and wherever the timer strikes.          *)
MutualExclusion ==
  /\ \A a, b \in holding : a = b
  /\ holding # {} => taken

(* Whose context holds the position of stack s, when any does: the one of  *)
(* the next thread if s was interrupted after running = next.              *)
Owner(s) == IF frame[s].at = "switch" THEN frame[s].node ELSE s

(* The pointer running names the thread whose stack the CPU executes,      *)
(* except between running = next and the context switch after it, where it *)
(* names the thread to come: even when the timer strikes right there.      *)
RunningIsCurrent == Alive => running = Owner(cur)

(* What an up-to-date context holds is the position of its own thread, or  *)
(* of one that was interrupted on its way there; the position of the stack *)
(* in execution is in none.  Two contexts thus never hold the same stack.  *)
ContextsMatch ==
  Alive => \A g \in Greens : ctx[g] # Null => g = Owner(ctx[g]) /\ ctx[g] # cur

Live(g) == frame[g].op \notin {"none", "gone"}

(* The CPU is between two calls, or in one that the timer cannot interrupt.*)
Stable == Alive /\ frame[cur].op \in {"user", "lock", "wait"}

JoinedTo(g) == {u \in Greens : Live(u) /\ join[u] = g}
Queued(g) == {q \in Queues : g \in Members(heap, q)}

(* Every live thread that is not executing is in exactly one place from    *)
(* which it can come back: a queue, or the join field of one live thread.  *)
(* The executing thread and the dead are in none.                          *)
NoThreadLost ==
  Stable => \A g \in Greens :
    Cardinality(Queued(g)) + Cardinality(JoinedTo(g)) = IF Live(g) /\ g # cur THEN 1 ELSE 0

Blocked(g) == \/ g \in Members(heap, "susp") /\ taken
              \/ g \in Members(heap, "waiting")
              \/ JoinedTo(g) # {}

(* dequeue finds the ready queue empty, and the process dies of a null     *)
(* pointer, only when the client has blocked every thread; no walk is      *)
(* endless and no context out of date.                                     *)
CrashOnlyOnDeadlock ==
  ~Alive => /\ fault = "null"
                    /\ \A g \in Greens \ {cur} : Live(g) => Blocked(g)

(* Who sleeps on a free mutex has somebody awake, back from sleeping on it *)
(* too, who is going to look at it: although unlock wakes only one.        *)
NoLostWakeup ==
  Stable /\ ~taken /\ heap.head["susp"] # Null =>
    \E g \in Members(heap, "ready") \cup {cur} : frame[g].at = "retry"

(* num_susp is the length of the list it is kept beside.                   *)
NumSuspCounts == Stable => numSusp = Cardinality(Members(heap, "waiting"))

Joining(g) == frame[g].op = "join" /\ frame[g].at = "return"

(* A join returns to its caller only when the thread it names has ended.   *)
JoinMeansDone ==
  [][\A g \in Greens : Joining(g) /\ frame'[g].op # "join" => zombie[frame[g].target]]_vars

(* A ready thread gets the CPU.                                            *)
ReadyRuns == \A g \in Greens : g \in Members(heap, "ready") ~> cur = g

(* Whoever joins a thread that ends gets back to its own code.             *)
JoinReturns ==
  \A u \in Threads : \A g \in Greens :
    Joining(g) /\ frame[g].target = u /\ zombie[u] ~> frame[g].op # "join"
-----------------------------------------------------------------------------
(* The thread that the executing function is about to queue, or has taken  *)
(* off the ready queue.                                                    *)
Hand ==
  IF frame[cur].at \in EnqueueStages THEN {frame[cur].item}
  ELSE IF frame[cur].at \in {"clear", "dispatch", "switch"} THEN {frame[cur].node}
  ELSE {}

(* The library implements Scheduler.  What a thread of the scheduler is, it *)
(* is by the places a green_t is in: it sleeps for the end of another from  *)
(* the context switch of green_join to that at the end of green_thread.     *)
Ready == {g \in Greens : /\ Live(g)
                         /\ \/ g = cur
                            \/ g \in Members(heap, "ready") \cup Hand /\ JoinedTo(g) = {}}
Sleeping(q)  == Members(heap, q)
PendingJoins == {<<g, frame[g].target>> : g \in {x \in Greens \ {cur} : JoinedTo(x) # {}}}
Dead         == {g \in Greens : frame[g].op = "gone" /\ zombie[g]}

Scheduling ==
  INSTANCE Scheduler WITH
    Threads <- Greens, ready <- Ready, cpu <- cur, asleep <- Sleeping("susp"),
    waiting <- Sleeping("waiting"), joins <- PendingJoins, dead <- Dead, alive <- Alive

(* The CPU goes to ready threads only; create, yield, join, the end of a   *)
(* thread, lock, unlock, wait and signal each take effect at one moment of *)
(* their functions, and what sleeps is woken by what it sleeps for.        *)
ImplementsScheduler == Scheduling!Spec
=============================================================================
