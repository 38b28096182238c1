---------------------------- MODULE MCAssignments ----------------------------
(***************************************************************************)
(* The programs of the smaller assignments in one instance.  They share    *)
(* nothing: one of them is started and the others stay where they begin.   *)
(***************************************************************************)
EXTENDS Coroutines, Flow, Heap, Joshua, Paging, Signals

VARIABLE started

assignments == <<coroutines, flow, heap, joshua, paging, signals>>
vars == <<started, assignments>>

(* Nothing but the program p moves.                                        *)
Only(p) ==
  /\ started = p /\ UNCHANGED started
  /\ IF p = "yield"   THEN TRUE ELSE UNCHANGED coroutines
  /\ IF p = "flow"    THEN TRUE ELSE UNCHANGED flow
  /\ IF p = "bench"   THEN TRUE ELSE UNCHANGED heap
  /\ IF p = "joshua"  THEN TRUE ELSE UNCHANGED joshua
  /\ IF p = "swap"    THEN TRUE ELSE UNCHANGED paging
  /\ IF p = "signals" THEN TRUE ELSE UNCHANGED signals

(* One initial state for the programs that are not started.                *)
Init ==
  /\ started \in {"yield", "flow", "bench", "joshua", "swap", "signals"}
  /\ CoroutinesInit /\ FlowInit /\ HeapInit /\ JoshuaInit /\ PagingInit /\ SignalsInit
  /\ started # "bench"   => allocator = "mhysa" /\ break = "libc"
  /\ started # "swap"    => policy = "lru"
  /\ started # "signals" => waiting = "signal" /\ paced /\ ~cached

CoroutinesRun == CoroutinesStep /\ Only("yield")
FlowRuns      == FlowStep /\ Only("flow")
SignalComes   == Deliver /\ Only("signals")
SignalMain    == MainRuns /\ Only("signals")

Next ==
  \/ CoroutinesRun \/ FlowRuns
  \/ SignalComes \/ SignalMain \/ (Kill /\ Only("signals"))
  \/ HeapStep /\ Only("bench")
  \/ JoshuaStep /\ Only("joshua")
  \/ PagingStep /\ Only("swap")

Spec ==
  /\ Init /\ [][Next]_vars
  /\ WF_vars(CoroutinesRun) /\ WF_vars(FlowRuns)
  /\ WF_vars(SignalComes) /\ WF_vars(SignalMain)

(* yield.c returns to main with both coroutines at their end.              *)
YieldFinishes == started = "yield" => BothFinish

(* flow.c: neither process is left waiting for the other.                  *)
PipeDrained == started = "flow" => FlowEnds
=============================================================================
