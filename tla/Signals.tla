------------------------------- MODULE Signals -------------------------------
(***************************************************************************)
(* assignments/ass1/signals: a loop that waits for what a handler of       *)
(* SIGINT does,                                                            *)
(*   signal.c   until its count is 4;                                      *)
(*   wdytya.c   until done is set.                                         *)
(* Both print their process identifier and ask for signals before the      *)
(* handler is there.  A signal that comes while one is pending is merged   *)
(* with it, and while the handler runs it stays pending.                   *)
(*                                                                         *)
(* Signals are sent by somebody who reads what the program prints: at any  *)
(* time, or only when the last one was answered, and no more than are      *)
(* asked for.                                                              *)
(***************************************************************************)
EXTENDS Integers

CONSTANT MaxSent   \* how many signals are sent, with or without an answer

ASSUME SignalsAssumption == MaxSent \in Nat

VARIABLES waiting,   \* the program: "signal" or "wdytya"
          cached,    \* whether the variable waited for was loaded once and for all
          paced,     \* whether the sender waits for answers
          sent,      \* how many signals were sent
          answers,   \* how many handlers have printed their line
          pending,
          handling,  \* "no", or where the handler is: "prints", "counts"
          count,     \* count of signal.c, done of wdytya.c
          loop       \* "before", "waits", "leaves", "ended", "killed"

signals == <<waiting, cached, paced, sent, answers, pending, handling, count, loop>>

(* A plausible slip: count is not volatile either.                         *)
SignalsInitPlain ==
  /\ waiting \in {"signal", "wdytya"}
  /\ cached \in BOOLEAN /\ paced \in BOOLEAN
  /\ sent = 0 /\ answers = 0
  /\ pending = FALSE /\ handling = "no"
  /\ count = 0
  /\ loop = "before"

(* done is not volatile: a compiler may load it once and for all.          *)
SignalsInit ==
  /\ waiting \in {"signal", "wdytya"}
  /\ cached \in BOOLEAN /\ (cached => waiting = "wdytya")
  /\ paced \in BOOLEAN
  /\ sent = 0 /\ answers = 0
  /\ pending = FALSE /\ handling = "no"
  /\ count = 0
  /\ loop = "before"

Alive == loop \notin {"ended", "killed"}

(* What the loop waits for: count != 4, !done.                             *)
Enough == IF waiting = "signal" THEN 4 ELSE 1

(* kill(pid, SIGINT) by somebody.                                          *)
Kill ==
  /\ sent < MaxSent /\ Alive
  /\ paced => answers = sent /\ sent < Enough
  /\ sent' = sent + 1
  /\ pending' = TRUE
  /\ UNCHANGED <<waiting, cached, paced, answers, handling, count, loop>>

(* The kernel calls the handler, which cannot be interrupted by the same   *)
(* signal; without a handler it ends the process.                          *)
Deliver ==
  /\ pending /\ handling = "no" /\ Alive
  /\ pending' = FALSE
  /\ IF loop = "before" THEN loop' = "killed" /\ UNCHANGED handling
                        ELSE handling' = "prints" /\ UNCHANGED loop
  /\ UNCHANGED <<waiting, cached, paced, sent, answers, count>>

(* main: sigaction.                                                        *)
Install ==
  /\ loop = "before"
  /\ loop' = "waits"
  /\ UNCHANGED <<waiting, cached, paced, sent, answers, pending, handling, count>>

(* handler: the line is printed ...                                        *)
Answer ==
  /\ handling = "prints"
  /\ handling' = "counts"
  /\ answers' = answers + 1
  /\ UNCHANGED <<waiting, cached, paced, sent, pending, count, loop>>

(* ... before count++, or done = 1, and the handler returns.               *)
Handled ==
  /\ handling = "counts"
  /\ handling' = "no"
  /\ count' = IF waiting = "signal" THEN count + 1 ELSE 1
  /\ UNCHANGED <<waiting, cached, paced, sent, answers, pending, loop>>

(* main: the loop is left when it looks at the right moment.               *)
Leave ==
  /\ handling = "no" /\ loop = "waits"
  /\ count = Enough /\ ~cached
  /\ loop' = "leaves"
  /\ UNCHANGED <<waiting, cached, paced, sent, answers, pending, handling, count>>

(* main prints and returns.                                                *)
Return ==
  /\ handling = "no" /\ loop = "leaves"
  /\ loop' = "ended"
  /\ UNCHANGED <<waiting, cached, paced, sent, answers, pending, handling, count>>

MainRuns == Install \/ Answer \/ Handled \/ Leave \/ Return

SignalsNext == Kill \/ Deliver \/ MainRuns

(* A pending signal is delivered and the program runs; nobody has to send. *)
SignalsSpec ==
  SignalsInit /\ [][SignalsNext]_signals /\ WF_signals(Deliver) /\ WF_signals(MainRuns)
-----------------------------------------------------------------------------
(* Whoever sends the next signal when the last was answered, and has four  *)
(* answers, sees signal.c end, although the handler answers before it      *)
(* counts, signals that come meanwhile are kept back and merge, and only   *)
(* the handler changes what the loop reads (handler, main of signal.c).    *)
FourAnswersEnd == waiting = "signal" /\ paced /\ answers = 4 ~> loop = "ended"
=============================================================================
