------------------------------ MODULE Coroutines ------------------------------
(***************************************************************************)
(* assignments/ass 3 switch/yield.c: two coroutines that each call push    *)
(* down to a depth, yield there, and return; where they end up after that  *)
(* is the context done, by way of uc_link, which lets the other one end,   *)
(* too, and is entered a second time in the middle of its loop.            *)
(***************************************************************************)
EXTENDS Integers

CONSTANT MAX   \* how deep push goes

ASSUME CoroutinesAssumption == MAX \in Nat \ {0}

(* The stacks, and the contexts that main makes for them.                  *)
Coroutine == {"one", "two"}
Contexts  == Coroutine \cup {"done", "main"}
Nowhere   == "nowhere"

VARIABLES stack,     \* the stack in execution; Nowhere when a context was bad
          saved,     \* the stack whose position each context holds, or Nowhere
          running,   \* the variable of that name, "one" or "two"
          finished,  \* done1 and done2
          depth,     \* of push on each coroutine's stack
          doing      \* what each stack is at: "push", "pop", "return", "loop", "end"

coroutines == <<stack, saved, running, finished, depth, doing>>

CoroutinesInit ==
  /\ stack = "main"
  /\ saved = [c \in Contexts |-> IF c = "main" THEN Nowhere ELSE c]
  /\ running = "one"
  /\ finished = {}
  /\ depth = [c \in Coroutine |-> 1]
  /\ doing = [c \in Contexts |-> CASE c \in Coroutine -> "push" [] OTHER -> "loop"]

TheOther(c) == IF c = "one" THEN "two" ELSE "one"

Do(what) == doing' = [doing EXCEPT ![stack] = what]

(* setcontext(to), with the contexts as in s.                              *)
Resume(s, to) == stack' = s[to] /\ saved' = [s EXCEPT ![to] = Nowhere]

(* swapcontext(from, to)                                                   *)
Swap(from, to) == Resume([saved EXCEPT ![from] = stack], to)

(* main: swapcontext(&cntx_main, &cntx_one)                                *)
LetsGo ==
  /\ stack = "main" /\ doing["main"] = "loop"
  /\ Do("end") /\ Swap("main", "one")
  /\ UNCHANGED <<running, finished, depth>>

Push ==
  /\ stack \in Coroutine /\ doing[stack] = "push" /\ depth[stack] < MAX
  /\ depth' = [depth EXCEPT ![stack] = @ + 1]
  /\ UNCHANGED <<stack, saved, running, finished, doing>>

(* The top of push: yield.                                                 *)
Yield ==
  /\ stack \in Coroutine /\ doing[stack] = "push" /\ depth[stack] = MAX
  /\ running' = TheOther(running)
  /\ Do("pop") /\ Swap(running, TheOther(running))
  /\ UNCHANGED <<finished, depth>>

Pop ==
  /\ stack \in Coroutine /\ doing[stack] = "pop" /\ depth[stack] > 0
  /\ depth' = [depth EXCEPT ![stack] = @ - 1]
  /\ UNCHANGED <<stack, saved, running, finished, doing>>

(* The outermost push returns: uc_link.                                    *)
ReturnToDone ==
  /\ stack \in Coroutine /\ doing[stack] = "pop" /\ depth[stack] = 0
  /\ Do("end") /\ Resume(saved, "done")
  /\ UNCHANGED <<running, finished, depth>>

(* A plausible slip: done ends after the first coroutine.                  *)
TerminateOnce ==
  /\ stack = "done" /\ doing["done"] = "loop"
  /\ finished' = finished \cup {running}
  /\ Do("return") /\ UNCHANGED <<stack, saved, running, depth>>

(* A round of the loop of done.                                            *)
Terminate ==
  /\ stack = "done" /\ doing["done"] = "loop"
  /\ finished' = finished \cup {running}
  /\ IF TheOther(running) \in finished
     THEN Do("return") /\ UNCHANGED <<stack, saved, running>>
     ELSE /\ running' = TheOther(running)
          /\ Swap("done", TheOther(running))
          /\ UNCHANGED doing
  /\ UNCHANGED depth

(* done returns: uc_link.                                                  *)
ReturnToMain ==
  /\ stack = "done" /\ doing["done"] = "return"
  /\ Do("end") /\ Resume(saved, "main")
  /\ UNCHANGED <<running, finished, depth>>

CoroutinesStep ==
  LetsGo \/ Push \/ Yield \/ Pop \/ ReturnToDone \/ Terminate \/ ReturnToMain

CoroutinesEnded == stack = "main" /\ doing["main"] = "end"

CoroutinesNext == CoroutinesStep \/ (CoroutinesEnded /\ UNCHANGED coroutines)

CoroutinesSpec == CoroutinesInit /\ [][CoroutinesNext]_coroutines /\ WF_coroutines(CoroutinesStep)
-----------------------------------------------------------------------------
(* The program returns to main with both coroutines at their end.          *)
BothFinish == <>(CoroutinesEnded /\ finished = Coroutine /\ \A c \in Coroutine : depth[c] = 0)
=============================================================================
