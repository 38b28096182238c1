-------------------------------- MODULE Joshua --------------------------------
(***************************************************************************)
(* assignments/ass1/joshua: a kernel module with a character device, and   *)
(* processes of quote.c that ask it for a quote.  The handler of ioctl is  *)
(* not locked: what it does with the shared index next is a load, a store  *)
(* and a second load, and several processes may be in it.                  *)
(*                                                                         *)
(* The kernel lets a module go only when no file of it is open.            *)
(***************************************************************************)
EXTENDS Integers, FiniteSets, SequencesExt

CONSTANTS Callers,   \* processes that run quote.c, once each
          QUOTES     \* number of quotes

ASSUME JoshuaAssumption == QUOTES \in Nat \ {0}

(* What joshua_init registers, in this order.                              *)
Registrations == <<"region", "cdev", "class", "device">>

VARIABLES module,     \* "absent", "init", "loaded", "unwinding", "unloading", "rejected"
          registered, \* what the kernel holds for the module
          next,       \* the index of the quote given last
          caller,     \* where each process is
          computed,   \* the new index a handler has computed
          answer      \* the quote a handler has chosen

joshua == <<module, registered, next, caller, computed, answer>>

JoshuaInit ==
  /\ module = "absent" /\ registered = {}
  /\ next = 0
  /\ caller = [p \in Callers |-> "start"]
  /\ computed = [p \in Callers |-> 0]
  /\ answer = [p \in Callers |-> 0]
-----------------------------------------------------------------------------
Process(p, from, to) == caller[p] = from /\ caller' = [caller EXCEPT ![p] = to]

InModule == module \in {"absent", "init"}

Upcoming == Registrations[Cardinality(registered) + 1]
Latest   == Registrations[Cardinality(registered)]

(* joshua_init: the next registration succeeds.                            *)
Register ==
  /\ InModule
  /\ registered' = registered \cup {Upcoming}
  /\ module' = IF Upcoming = "device" THEN "loaded" ELSE "init"
  /\ UNCHANGED <<next, caller, computed, answer>>

(* joshua_init: it fails, and those before are undone, except that the     *)
(* region is kept when cdev_add fails.                                     *)
RegisterFails ==
  /\ InModule
  /\ module' = IF Upcoming \in {"region", "cdev"} THEN "rejected" ELSE "unwinding"
  /\ UNCHANGED <<registered, next, caller, computed, answer>>

Open(p) == caller[p] \in {"load", "store", "choose", "copy", "quote", "error"}

(* joshua_exit is called: no file of the module is open, and none will be. *)
Unload ==
  /\ module = "loaded" /\ \A p \in Callers : ~Open(p)
  /\ module' = "unloading"
  /\ UNCHANGED <<registered, next, caller, computed, answer>>

(* device_destroy, class_destroy, cdev_del, unregister_chrdev_region, each *)
(* in its turn, in joshua_exit and on the way out of joshua_init.  The     *)
(* memory of the module, and next with it, goes last.                      *)
Undo ==
  /\ module \in {"unwinding", "unloading"}
  /\ registered' = registered \ {Latest}
  /\ IF registered' # {} THEN UNCHANGED <<module, next>>
     ELSE module' = (IF module = "unwinding" THEN "rejected" ELSE "absent") /\ next' = 0
  /\ UNCHANGED <<caller, computed, answer>>
-----------------------------------------------------------------------------
(* quote.c: open.  The descriptor of a failed open, -1, is not recognised, *)
(* and ioctl fails on it.                                                  *)
OpenDevice(p) ==
  /\ IF module = "loaded" THEN Process(p, "start", "load") ELSE Process(p, "start", "badfd")
  /\ UNCHANGED <<module, registered, next, computed, answer>>

IoctlBadFd(p) ==
  /\ Process(p, "badfd", "end")
  /\ UNCHANGED <<module, registered, next, computed, answer>>

(* A plausible slip: the index is taken modulo in another statement.       *)
LoadNextUnwrapped(p) ==
  /\ Process(p, "load", "store")
  /\ computed' = [computed EXCEPT ![p] = next + 1]
  /\ UNCHANGED <<module, registered, next, answer>>

(* joshua_ioctl: (next+1) % QUOTES ...                                     *)
LoadNext(p) ==
  /\ Process(p, "load", "store")
  /\ computed' = [computed EXCEPT ![p] = (next + 1) % QUOTES]
  /\ UNCHANGED <<module, registered, next, answer>>

(* ... is stored.                                                          *)
StoreNext(p) ==
  /\ Process(p, "store", "choose")
  /\ next' = computed[p]
  /\ UNCHANGED <<module, registered, computed, answer>>

(* quotes[next], loaded again after the call of printk.                    *)
ChooseQuote(p) ==
  /\ Process(p, "choose", "copy")
  /\ answer' = [answer EXCEPT ![p] = next]
  /\ UNCHANGED <<module, registered, next, computed>>

(* copy_to_user may fail.                                                  *)
CopyToUser(p) ==
  /\ Process(p, "copy", "quote") \/ Process(p, "copy", "error")
  /\ UNCHANGED <<module, registered, next, computed, answer>>

(* quote.c: print, close, return.                                          *)
CloseDevice(p) ==
  /\ Process(p, "quote", "end") \/ Process(p, "error", "end")
  /\ UNCHANGED <<module, registered, next, computed, answer>>

ProcessStep(p) ==
  \/ OpenDevice(p) \/ IoctlBadFd(p)
  \/ LoadNext(p) \/ StoreNext(p) \/ ChooseQuote(p) \/ CopyToUser(p)
  \/ CloseDevice(p)

JoshuaStep ==
  \/ Register \/ RegisterFails \/ Unload \/ Undo
  \/ \E p \in Callers : ProcessStep(p)

JoshuaSpec == JoshuaInit /\ [][JoshuaStep]_joshua
-----------------------------------------------------------------------------
(* The shared index never leaves the table, in memory or in the hands of a *)
(* handler, although nothing locks it (joshua_ioctl); a process that has   *)
(* the device has all of its parts; nothing that is registered outlives    *)
(* what it was built on, not while loading fails half way nor while the    *)
(* module is unloaded; and when it has gone or was rejected nothing is     *)
(* left of it, save for the region when cdev_add failed (joshua_init,      *)
(* joshua_exit).                                                           *)
DeviceSound ==
  /\ next \in 0 .. QUOTES - 1 /\ \A p \in Callers : answer[p] \in 0 .. QUOTES - 1
  /\ (\E p \in Callers : Open(p)) => module = "loaded"
  /\ \A j \in DOMAIN Registrations : \A i \in 1 .. j :
       Registrations[j] \in registered => Registrations[i] \in registered
  /\ module = "loaded" => registered = ToSet(Registrations)
  /\ module = "absent" => registered = {}
  /\ module = "rejected" => registered \subseteq {"region"}
=============================================================================
