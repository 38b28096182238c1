----------------------------- MODULE JoshuaProofs -----------------------------
(***************************************************************************)
(* The device of assignments/ass1/joshua, for any number of processes and  *)
(* of quotes.  What the kernel holds for the module is always the first of *)
(* the registrations, as many as have succeeded: that is what lets unwind- *)
(* ing by hand in joshua_init be right, up to the region it forgets.       *)
(***************************************************************************)
EXTENDS Joshua, FiniteSetTheorems, TLAPS

Indices == 0 .. QUOTES - 1

CallerPlaces == {"start", "badfd", "load", "store", "choose", "copy", "quote", "error", "end"}

(* The registrations made, in the order of joshua_init.                    *)
PartlyRegistered == {{}, {"region"}, {"region", "cdev"}, {"region", "cdev", "class"}}
Complete == {"region", "cdev", "class", "device"}

DeviceInv ==
  /\ module \in {"absent", "init", "loaded", "unwinding", "unloading", "rejected"}
  /\ next \in Indices
  /\ caller \in [Callers -> CallerPlaces]
  /\ computed \in [Callers -> Indices]
  /\ answer \in [Callers -> Indices]
  /\ InModule \/ module = "unwinding" => registered \in PartlyRegistered
  /\ module = "unloading" => registered \in PartlyRegistered \cup {Complete}
  /\ module \in {"unwinding", "unloading"} => registered # {}
  /\ module = "absent" => registered = {}
  /\ module = "loaded" => registered = Complete
  /\ module = "rejected" => registered \subseteq {"region"}
  /\ (\E p \in Callers : Open(p)) => module = "loaded"
-----------------------------------------------------------------------------
(* Which registration is next, the first that has not been made, and which *)
(* was the last that has.                                                  *)
LEMMA InOrder ==
  /\ registered = {} => Upcoming = "region"
  /\ registered = {"region"} => Upcoming = "cdev" /\ Latest = "region"
  /\ registered = {"region", "cdev"} => Upcoming = "class" /\ Latest = "cdev"
  /\ registered = {"region", "cdev", "class"} => Upcoming = "device" /\ Latest = "class"
  /\ registered = Complete => Latest = "device"
<1>1. IsFiniteSet({}) /\ Cardinality({}) = 0
  BY FS_EmptySet
<1>2. IsFiniteSet({"region"}) /\ Cardinality({"region"}) = 1
  BY FS_Singleton
<1>3. IsFiniteSet({"region", "cdev"}) /\ Cardinality({"region", "cdev"}) = 2
  <2>1. {"region", "cdev"} = {"region"} \cup {"cdev"} /\ "cdev" \notin {"region"}
    OBVIOUS
  <2> QED
    BY <1>2, <2>1, FS_AddElement
<1>4. IsFiniteSet({"region", "cdev", "class"}) /\ Cardinality({"region", "cdev", "class"}) = 3
  <2>1. /\ {"region", "cdev", "class"} = {"region", "cdev"} \cup {"class"}
        /\ "class" \notin {"region", "cdev"}
    OBVIOUS
  <2> QED
    BY <1>3, <2>1, FS_AddElement
<1>5. Cardinality(Complete) = 4
  <2>1. /\ Complete = {"region", "cdev", "class"} \cup {"device"}
        /\ "device" \notin {"region", "cdev", "class"}
    BY DEF Complete
  <2> QED
    BY <1>4, <2>1, FS_AddElement
<1> QED
  BY <1>1, <1>2, <1>3, <1>4, <1>5 DEF Upcoming, Latest, Registrations

LEMMA IndexWraps ==
  ASSUME NEW i \in Indices
  PROVE  (i + 1) % QUOTES \in Indices
BY JoshuaAssumption DEF Indices

LEMMA DeviceInit == JoshuaInit => DeviceInv
BY JoshuaAssumption DEF JoshuaInit, DeviceInv, Indices, CallerPlaces, InModule, PartlyRegistered, Open

(* A process goes on: it has the device only if it was opened while the    *)
(* module was loaded, and hands on indices of the table only.              *)
LEMMA ProcessKeeps ==
  ASSUME DeviceInv, NEW p \in Callers, ProcessStep(p)
  PROVE  DeviceInv'
<1>1. UNCHANGED <<module, registered>>
  BY DEF ProcessStep, OpenDevice, IoctlBadFd, LoadNext, StoreNext, ChooseQuote, CopyToUser, CloseDevice
<1>2. /\ next' \in Indices
      /\ computed' \in [Callers -> Indices] /\ answer' \in [Callers -> Indices]
  BY IndexWraps DEF DeviceInv, ProcessStep, OpenDevice, IoctlBadFd, LoadNext, StoreNext,
                    ChooseQuote, CopyToUser, CloseDevice
<1>3. \E q \in CallerPlaces :
        /\ caller' = [caller EXCEPT ![p] = q]
        /\ q \in {"load", "store", "choose", "copy", "quote", "error"} => Open(p) \/ module = "loaded"
  BY DEF ProcessStep, OpenDevice, IoctlBadFd, LoadNext, StoreNext, ChooseQuote, CopyToUser,
         CloseDevice, Process, CallerPlaces, Open
<1>4. /\ caller' \in [Callers -> CallerPlaces]
      /\ \A r \in Callers : Open(r)' => Open(r) \/ module = "loaded"
  BY <1>3 DEF DeviceInv, Open
<1> QED
  BY <1>1, <1>2, <1>4 DEF DeviceInv, InModule

LEMMA ModuleKeeps ==
  ASSUME DeviceInv, Register \/ RegisterFails \/ Unload \/ Undo
  PROVE  DeviceInv'
<1>1. caller' = caller /\ computed' = computed /\ answer' = answer /\ \A p \in Callers : ~Open(p)
  BY DEF Register, RegisterFails, Unload, Undo, DeviceInv, InModule
<1>2. next' \in Indices
  BY JoshuaAssumption DEF Register, RegisterFails, Unload, Undo, DeviceInv, Indices
<1>3. \A p \in Callers : ~Open(p)'
  BY <1>1 DEF Open
<1>4. CASE Register
  <2>1. registered \in PartlyRegistered
    BY <1>4 DEF Register, DeviceInv
  <2>2. \/ registered' \in PartlyRegistered /\ module' = "init"
        \/ registered' = Complete /\ module' = "loaded"
    BY <1>4, <2>1, InOrder DEF Register, PartlyRegistered, Complete
  <2> QED
    BY <1>1, <1>2, <1>3, <2>2 DEF DeviceInv, InModule
<1>5. CASE RegisterFails
  <2>1. registered \in PartlyRegistered
    BY <1>5 DEF RegisterFails, DeviceInv
  <2>2. /\ registered' = registered
        /\ \/ module' = "rejected" /\ registered \subseteq {"region"}
           \/ module' = "unwinding" /\ registered # {}
    BY <1>5, <2>1, InOrder DEF RegisterFails, PartlyRegistered
  <2> QED
    BY <1>1, <1>2, <1>3, <2>1, <2>2 DEF DeviceInv, InModule
<1>6. CASE Unload
  BY <1>1, <1>2, <1>3, <1>6 DEF Unload, DeviceInv, InModule, Complete
<1>7. CASE Undo
  <2>1. registered \in (PartlyRegistered \cup {Complete}) \ {{}}
    BY <1>7 DEF Undo, DeviceInv
  <2>2. registered' \in PartlyRegistered
    BY <1>7, <2>1, InOrder DEF Undo, PartlyRegistered, Complete
  <2>3. \/ registered' # {} /\ module' = module /\ module \in {"unwinding", "unloading"}
        \/ registered' = {} /\ module' \in {"rejected", "absent"}
    BY <1>7 DEF Undo
  <2> QED
    BY <1>1, <1>2, <1>3, <2>2, <2>3 DEF DeviceInv, InModule, PartlyRegistered
<1> QED
  BY <1>4, <1>5, <1>6, <1>7

LEMMA DeviceNext == DeviceInv /\ [JoshuaStep]_joshua => DeviceInv'
<1> SUFFICES ASSUME DeviceInv, [JoshuaStep]_joshua PROVE DeviceInv'
  OBVIOUS
<1>1. CASE UNCHANGED joshua
  BY <1>1 DEF joshua, DeviceInv, InModule, Open
<1> QED
  BY <1>1, ProcessKeeps, ModuleKeeps DEF JoshuaStep

(* The index stays in the table of quotes although no lock protects it,    *)
(* who has the device open has all of its parts, and a module that is gone *)
(* or was rejected leaves nothing but the region (joshua_ioctl,            *)
(* joshua_init, joshua_exit).                                              *)
THEOREM DeviceIsSound == JoshuaSpec => []DeviceSound
<1>1. DeviceInv => DeviceSound
  <2>1. ToSet(Registrations) = Complete
    BY DEF ToSet, Registrations, Complete
  <2>2. ASSUME DeviceInv
        PROVE  \A j \in DOMAIN Registrations : \A i \in 1 .. j :
                 Registrations[j] \in registered => Registrations[i] \in registered
    <3>1. registered \in PartlyRegistered \cup {Complete}
      BY <2>2 DEF DeviceInv, InModule, PartlyRegistered
    <3>2. ASSUME NEW j \in 1 .. 4, NEW i \in 1 .. j, Registrations[j] \in registered
          PROVE  Registrations[i] \in registered
      BY <3>1, <3>2 DEF PartlyRegistered, Complete, Registrations
    <3> QED
      BY <3>2 DEF Registrations
  <2> QED
    BY <2>1, <2>2 DEF DeviceInv, DeviceSound, Indices
<1> QED
  BY DeviceInit, DeviceNext, <1>1, PTL DEF JoshuaSpec
=============================================================================
