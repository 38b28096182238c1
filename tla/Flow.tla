--------------------------------- MODULE Flow ---------------------------------
(***************************************************************************)
(* assignments/ping-ping-comm/flow.c: a producer writes bursts into a pipe *)
(* as fast as it takes them, its child reads them and sleeps after each.   *)
(* Both hold both ends of the pipe, so that neither ever sees it closed;   *)
(* that they end rests on their counts.  A write of ten bytes is one unit. *)
(***************************************************************************)
EXTENDS Integers

CONSTANTS ITERATIONS, BURSTS,
          CAPACITY   \* units the kernel keeps in the pipe

ASSUME FlowAssumption ==
  ITERATIONS \in Nat /\ BURSTS \in Nat \ {0} /\ CAPACITY \in Nat \ {0}

VARIABLES units,      \* in the pipe
          written, taken,   \* by the producer, by the consumer
          producer, consumer   \* "run", "sleep", "wait", "done"

flow == <<units, written, taken, producer, consumer>>

All == ITERATIONS * BURSTS

FlowInit ==
  /\ units = 0 /\ written = 0 /\ taken = 0
  /\ producer = "run" /\ consumer = "run"

(* A plausible slip: the loop over the bursts is left one too early.       *)
WriteFewer ==
  /\ producer = "run" /\ written < All - 1 /\ units < CAPACITY
  /\ units' = units + 1 /\ written' = written + 1
  /\ producer' = IF written' = All - 1 THEN "wait" ELSE "run"
  /\ UNCHANGED <<taken, consumer>>

(* write: it waits while the pipe is full.                                 *)
WriteUnit ==
  /\ producer = "run" /\ written < All /\ units < CAPACITY
  /\ units' = units + 1 /\ written' = written + 1
  /\ producer' = IF written' = All THEN "wait" ELSE "run"
  /\ UNCHANGED <<taken, consumer>>

(* read: it waits while the pipe is empty; after a burst, sleep(1).        *)
ReadUnit ==
  /\ consumer = "run" /\ taken < All /\ units > 0
  /\ units' = units - 1 /\ taken' = taken + 1
  /\ consumer' = IF taken' % BURSTS = 0 THEN "sleep" ELSE "run"
  /\ UNCHANGED <<written, producer>>

WakeUp ==
  /\ consumer = "sleep"
  /\ consumer' = IF taken = All THEN "wait" ELSE "run"
  /\ UNCHANGED <<units, written, taken, producer>>

(* wait(NULL) in the child, which has no child: it returns at once.        *)
ConsumerDone ==
  /\ consumer = "wait" /\ consumer' = "done"
  /\ UNCHANGED <<units, written, taken, producer>>

(* wait(NULL) in the parent.                                               *)
ProducerDone ==
  /\ producer = "wait" /\ consumer = "done" /\ producer' = "done"
  /\ UNCHANGED <<units, written, taken, consumer>>

FlowStep == WriteUnit \/ ReadUnit \/ WakeUp \/ ConsumerDone \/ ProducerDone

FlowEnded == producer = "done" /\ consumer = "done"

FlowNext == FlowStep \/ (FlowEnded /\ UNCHANGED flow)

(* Both processes are scheduled, and a sleep ends.                         *)
FlowSpec == FlowInit /\ [][FlowNext]_flow /\ WF_flow(FlowStep)
-----------------------------------------------------------------------------
(* Neither process is left waiting for the other, however small the pipe,  *)
(* and nothing is left in it.                                              *)
FlowEnds == <>(FlowEnded /\ units = 0 /\ taken = All)
=============================================================================
