------------------------------ MODULE Scheduler ------------------------------
(***************************************************************************)
(* What the library promises the threads, with nothing of queues, frames   *)
(* and contexts: every thread is ready, or asleep until something happens  *)
(* that wakes it, or dead; the CPU is only ever given to a ready one; and  *)
(* create, yield, join, the end of a thread, the mutex and the condition   *)
(* each take effect at one moment.                                         *)
(***************************************************************************)
CONSTANTS Threads, Main

VARIABLES ready,    \* who can be given the CPU, its present thread included
          cpu,      \* the thread that has the CPU
          asleep,   \* who sleeps until the mutex is released
          waiting,  \* who waits on the condition
          joins,    \* <<g, u>>: g sleeps until u has ended
          dead,     \* who has ended
          holding,  \* who has the mutex
          alive     \* the process exists

vars == <<ready, cpu, asleep, waiting, joins, dead, holding, alive>>

Init ==
  /\ ready = {Main} /\ cpu = Main
  /\ asleep = {} /\ waiting = {} /\ joins = {} /\ dead = {} /\ holding = {}
  /\ alive = TRUE
-----------------------------------------------------------------------------
Joiners(u)  == {g \in Threads : <<g, u>> \in joins}
Existing    == ready \cup asleep \cup waiting \cup UNION {Joiners(u) : u \in Threads}

(* The thread on the CPU is no longer ready, those of W are, and one of    *)
(* the ready ones gets the CPU.                                            *)
Leave(W) == ready' = (ready \cup W) \ {cpu} /\ cpu' \in ready'

Create(n) ==
  /\ n \notin Existing \cup dead
  /\ ready' = ready \cup {n}
  /\ UNCHANGED <<cpu, asleep, waiting, joins, dead, holding, alive>>

(* The CPU is passed on: by yield, or by the timer.                        *)
Yield ==
  /\ cpu' \in ready
  /\ UNCHANGED <<ready, asleep, waiting, joins, dead, holding, alive>>

Join(u) ==
  /\ u \in Existing \ {cpu}
  /\ joins' = joins \cup {<<cpu, u>>}
  /\ Leave({})
  /\ UNCHANGED <<asleep, waiting, dead, holding, alive>>

(* The end of a thread is the end of every sleep for it.                   *)
Exit ==
  /\ cpu # Main /\ cpu \notin holding
  /\ dead' = dead \cup {cpu}
  /\ joins' = {j \in joins : j[2] # cpu}
  /\ Leave(Joiners(cpu))
  /\ UNCHANGED <<asleep, waiting, holding, alive>>

Lock ==
  /\ holding = {}
  /\ holding' = {cpu}
  /\ UNCHANGED <<ready, cpu, asleep, waiting, joins, dead, alive>>

(* Nobody goes to sleep on a free mutex, or on its own.                    *)
Sleep ==
  /\ holding # {} /\ cpu \notin holding
  /\ asleep' = asleep \cup {cpu}
  /\ Leave({})
  /\ UNCHANGED <<waiting, joins, dead, holding, alive>>

(* A release wakes one of those who sleep, if there is any.                *)
Unlock ==
  /\ holding = {cpu} /\ holding' = {}
  /\ \/ asleep = {} /\ UNCHANGED <<asleep, ready>>
     \/ \E g \in asleep : asleep' = asleep \ {g} /\ ready' = ready \cup {g}
  /\ UNCHANGED <<cpu, waiting, joins, dead, alive>>

Wait ==
  /\ cpu \notin holding
  /\ waiting' = waiting \cup {cpu}
  /\ Leave({})
  /\ UNCHANGED <<asleep, joins, dead, holding, alive>>

(* Waiting with the mutex releases it, and wakes all who sleep.            *)
WaitReleasing ==
  /\ holding = {cpu} /\ holding' = {}
  /\ waiting' = waiting \cup {cpu}
  /\ asleep' = {}
  /\ Leave(asleep)
  /\ UNCHANGED <<joins, dead, alive>>

Signal ==
  /\ \E g \in waiting : waiting' = waiting \ {g} /\ ready' = ready \cup {g}
  /\ UNCHANGED <<cpu, asleep, joins, dead, holding, alive>>

(* The process is lost only when nobody else is ready, and nobody sleeps   *)
(* on a mutex that nobody has.                                             *)
Halt ==
  /\ ready = {cpu} /\ (asleep # {} => holding # {})
  /\ alive' = FALSE
  /\ UNCHANGED <<ready, cpu, asleep, waiting, joins, dead, holding>>

Next ==
  /\ alive
  /\ \/ \E n \in Threads : Create(n)
     \/ Yield
     \/ \E u \in Threads : Join(u)
     \/ Exit
     \/ Lock \/ Sleep \/ Unlock
     \/ Wait \/ WaitReleasing \/ Signal
     \/ Halt

Spec == Init /\ [][Next]_vars
=============================================================================
