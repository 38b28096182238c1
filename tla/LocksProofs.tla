----------------------------- MODULE LocksProofs -----------------------------
(***************************************************************************)
(* The locks of assignments/ass 3 locks exclude, for any number of rounds: *)
(* swap.c and futex.c whatever the store buffers do, peterson.c without    *)
(* them.                                                                   *)
(* On that rest the proofs that no addition to count is lost, that nobody  *)
(* is overtaken twice and that nobody sleeps on a free word.               *)
(*                                                                         *)
(* Of compare-and-swap the point is that a thread is to be counted as the  *)
(* holder until its plain store of 0 has left its buffer.  That this store *)
(* is the last of the buffer, and the only one to mutex, follows from the  *)
(* swap waiting for an empty buffer.                                       *)
(***************************************************************************)
EXTENDS Locks, TLAPS

Stores == [word : Words, value : Int]
Places == {"lock", "turn", "askRequest", "askTurn", "load", "store", "unlock",
           "wait", "asleep", "wake", "done"}

Typed ==
  /\ mem \in [Words -> Int]
  /\ buffer \in [Ids -> Seq(Stores)]
  /\ pc \in [Ids -> Places]
  /\ reg \in [Ids -> Int]

(* Without store buffers nothing is in them; where count is loaded nothing *)
(* is in them either.                                                      *)
BuffersUsed ==
  /\ ~buffered => \A id \in Ids : Drained(id)
  /\ \A id \in Ids : pc[id] \in {"load", "store"} /\ program # "peterson" => Drained(id)

(* id has not left the lock as long as its store to mutex is on the way.   *)
Leaving(id) == \E i \in DOMAIN buffer[id] : buffer[id][i].word = "mutex"
Holds(id)   == InSection(id) \/ Leaving(id)

(* The invariant of swap.c and futex.c.                                    *)
OneHolder ==
  program # "peterson" =>
    /\ \A id \in Ids : pc[id] \notin {"turn", "askRequest", "askTurn"}
    /\ \A id \in Ids : Holds(id) => mem["mutex"] = 1 /\ ~Holds(Other(id))
    /\ \A id \in Ids : InSection(id) => ~Leaving(id)
    /\ \A id \in Ids : \A i \in DOMAIN buffer[id] :
         buffer[id][i].word = "mutex" => i = Len(buffer[id])

Asked(id) == pc[id] \in {"askRequest", "askTurn"}

(* The invariant of peterson.c: who waits while the other has the lock has *)
(* given away the turn.                                                    *)
TurnGiven ==
  program = "peterson" =>
    /\ mem["turn"] \in Ids
    /\ \A id \in Ids : (pc[id] = "turn" \/ Asked(id) \/ InSection(id)) => mem[Request(id)] = 1
    /\ \A id \in Ids : InSection(id) /\ Asked(Other(id)) => mem["turn"] = id
    /\ \A id \in Ids : InSection(id) => ~InSection(Other(id))

IInv ==
  /\ program \in {"peterson", "swap", "futex"} /\ buffered \in BOOLEAN
  /\ Ordered => Typed /\ BuffersUsed /\ OneHolder /\ TurnGiven
-----------------------------------------------------------------------------
(* The other thread.                                                       *)
LEMMA OtherThread ==
  ASSUME NEW id \in Ids
  PROVE  Other(id) \in Ids /\ Other(id) # id /\ Other(Other(id)) = id /\ Ids = {id, Other(id)}
BY DEF Ids, Other

(* The invariant holds at the start.                                       *)
LEMMA InitHolds == Init => IInv
<1> SUFFICES ASSUME Init PROVE IInv
  OBVIOUS
<1>1. \A id \in Ids : buffer[id] = <<>> /\ pc[id] = "lock"
  BY DEF Init
<1>2. Typed
  BY DEF Init, Typed, Places, Words, Stores
<1>3. BuffersUsed
  BY <1>1 DEF BuffersUsed, Drained
<1>4. \A id \in Ids : ~Holds(id)
  BY <1>1 DEF Holds, InSection, Leaving
<1>5. OneHolder
  BY <1>1, <1>4 DEF OneHolder, Holds
<1>6. TurnGiven
  BY <1>1 DEF Init, TurnGiven, Ids, Words, InSection, Asked
<1> QED
  BY <1>2, <1>3, <1>5, <1>6 DEF Init, IInv

(* What has to be shown of a step: nothing is claimed of Peterson's        *)
(* algorithm with store buffers.                                           *)
LEMMA StepHolds ==
  ASSUME IInv, UNCHANGED <<program, buffered>>,
         Ordered => Typed' /\ BuffersUsed' /\ OneHolder' /\ TurnGiven'
  PROVE  IInv'
BY DEF IInv, Ordered
-----------------------------------------------------------------------------
(* A step that changes neither a shared word nor a buffer and gets nobody  *)
(* the lock.                                                               *)
LEMMA Idle ==
  ASSUME IInv, Ordered, UNCHANGED <<program, buffered, machine>>,
         pc' \in [Ids -> Places], reg' \in [Ids -> Int],
         \A id \in Ids : \/ pc'[id] = pc[id]
                         \/ ~InSection(id) /\ pc'[id] \in {"lock", "wait", "asleep", "wake", "done"}
                         \/ pc[id] = "load" /\ pc'[id] = "store"
                         \/ program = "peterson" /\ Asked(id) /\ pc'[id] \in {"askRequest", "askTurn"}
  PROVE  Typed' /\ BuffersUsed' /\ OneHolder' /\ TurnGiven'
<1>1. \A id \in Ids : InSection(id)' <=> InSection(id)
  BY DEF InSection, Asked
<1>2. \A id \in Ids : Leaving(id)' <=> Leaving(id)
  BY DEF Leaving, machine
<1>3. \A id \in Ids : Other(id) \in Ids
  BY OtherThread
<1>4. Typed'
  BY DEF IInv, Typed, machine
<1>5. BuffersUsed'
  BY DEF IInv, BuffersUsed, Drained, machine
<1>6. \A id \in Ids : Holds(id)' <=> Holds(id)
  BY <1>1, <1>2 DEF Holds
<1>7. OneHolder'
  BY <1>1, <1>2, <1>3, <1>6 DEF IInv, OneHolder, machine, Asked
<1>8. TurnGiven'
  BY <1>1, <1>3 DEF IInv, TurnGiven, machine, Asked
<1> QED
  BY <1>4, <1>5, <1>7, <1>8

(* The sequences in a store buffer.                                        *)
LEMMA Appended ==
  ASSUME NEW s \in Seq(Stores), NEW e \in Stores
  PROVE  /\ Append(s, e) \in Seq(Stores) /\ Len(Append(s, e)) = Len(s) + 1
         /\ Append(s, e)[Len(s) + 1] = e
         /\ \A i \in DOMAIN s : i \in DOMAIN Append(s, e) /\ Append(s, e)[i] = s[i]
         /\ \A i \in DOMAIN Append(s, e) : i = Len(s) + 1 \/ i \in DOMAIN s
OBVIOUS

LEMMA Shifted ==
  ASSUME NEW s \in Seq(Stores), s # <<>>
  PROVE  /\ Head(s) \in Stores /\ Head(s) = s[1] /\ 1 \in DOMAIN s /\ Len(s) \in Nat \ {0}
         /\ Tail(s) \in Seq(Stores) /\ Len(Tail(s)) = Len(s) - 1
         /\ \A i \in DOMAIN Tail(s) : i + 1 \in DOMAIN s /\ Tail(s)[i] = s[i + 1]
OBVIOUS

(* A thread that has the lock stores to count.                             *)
LEMMA WriteHolds ==
  ASSUME IInv, Ordered, NEW id \in Ids, Write(id)
  PROVE  Typed' /\ BuffersUsed' /\ OneHolder' /\ TurnGiven'
<1> DEFINE e == [word |-> "count", value |-> reg[id] + 1]
<1>1. /\ pc[id] = "store" /\ pc' = [pc EXCEPT ![id] = "unlock"]
      /\ Store(id, "count", reg[id] + 1)
      /\ UNCHANGED <<program, buffered, reg>>
  BY DEF Write, At, Goto
<1>2. /\ Typed /\ e \in Stores /\ Other(id) \in Ids /\ \A i \in Ids : Other(i) \in Ids
      /\ "count" \in Words
  BY OtherThread DEF IInv, Typed, Stores, Words
<1>3. /\ mem' \in [Words -> Int] /\ buffer' \in [Ids -> Seq(Stores)]
      /\ \A w \in Words \ {"count"} : mem'[w] = mem[w]
      /\ \A i \in Ids \ {id} : buffer'[i] = buffer[i]
      /\ buffer'[id] = buffer[id] \/ (buffered /\ buffer'[id] = Append(buffer[id], e))
      /\ ~buffered => buffer' = buffer
  <2>1. /\ mem \in [Words -> Int] /\ buffer \in [Ids -> Seq(Stores)] /\ e.value \in Int
    BY <1>2 DEF Typed, Stores
  <2>2. CASE buffered
    <3>1. mem' = mem /\ buffer' = [buffer EXCEPT ![id] = Append(buffer[id], e)]
      BY <1>1, <2>2 DEF Store
    <3> QED
      BY <3>1, <2>1, <2>2, <1>2, Appended
  <2>3. CASE ~buffered
    <3>1. buffer' = buffer /\ mem' = [mem EXCEPT !["count"] = e.value]
      BY <1>1, <2>3 DEF Store
    <3> QED
      BY <3>1, <2>1, <1>2
  <2> QED
    BY <2>2, <2>3
<1>4. Typed'
  BY <1>1, <1>2, <1>3 DEF Typed, Places
<1>5. \A i \in Ids : InSection(i)' <=> InSection(i)
  BY <1>1, <1>2 DEF InSection, Typed
<1>6. \A i \in Ids : Leaving(i)' <=> Leaving(i)
  <2> SUFFICES ASSUME NEW i \in Ids PROVE Leaving(i)' <=> Leaving(i)
    OBVIOUS
  <2>1. CASE buffer'[i] = buffer[i]
    BY <2>1 DEF Leaving
  <2>2. CASE i = id /\ buffer'[id] = Append(buffer[id], e)
    <3>1. buffer[id] \in Seq(Stores)
      BY <1>2 DEF Typed
    <3>2. e.word # "mutex"
      OBVIOUS
    <3> QED
      BY <2>2, <3>1, <3>2, <1>2, Appended DEF Leaving
  <2> QED
    BY <2>1, <2>2, <1>3
<1>7. BuffersUsed'
  BY <1>1, <1>2, <1>3 DEF IInv, BuffersUsed, Drained, Typed
<1>8. \A i \in Ids : Holds(i)' <=> Holds(i)
  BY <1>5, <1>6 DEF Holds
<1>9. InSection(id)
  BY <1>1 DEF InSection
<1>10. OneHolder'
  <2> SUFFICES ASSUME program # "peterson" PROVE OneHolder'
    BY <1>1 DEF OneHolder
  <2>1. \A i \in Ids : pc'[i] \notin {"turn", "askRequest", "askTurn"}
    BY <1>1, <1>2 DEF IInv, OneHolder, Typed
  <2>2. \A i \in Ids : Holds(i)' => mem'["mutex"] = 1 /\ ~Holds(Other(i))'
    BY <1>2, <1>3, <1>8 DEF IInv, OneHolder, Words
  <2>3. \A i \in Ids : InSection(i)' => ~Leaving(i)'
    BY <1>5, <1>6 DEF IInv, OneHolder
  <2>4. ~Leaving(id)'
    BY <1>5, <1>9, <2>3
  <2>5. \A i \in Ids : \A k \in DOMAIN buffer'[i] :
          buffer'[i][k].word = "mutex" => k = Len(buffer'[i])
    <3> SUFFICES ASSUME NEW i \in Ids, NEW k \in DOMAIN buffer'[i], buffer'[i][k].word = "mutex"
                 PROVE  k = Len(buffer'[i])
      OBVIOUS
    <3>1. i # id
      BY <2>4 DEF Leaving
    <3> QED
      BY <3>1, <1>3 DEF IInv, OneHolder
  <2> QED
    BY <2>1, <2>2, <2>3, <2>5, <1>1 DEF OneHolder
<1>11. TurnGiven'
  BY <1>1, <1>2, <1>3, <1>5, OtherThread
     DEF IInv, TurnGiven, Asked, Request, Words, Typed, Ids, InSection
<1> QED
  BY <1>4, <1>7, <1>10, <1>11
-----------------------------------------------------------------------------
(* What a step leaves of the types.                                        *)
LEMMA TypesKept ==
  ASSUME Typed, NEW id \in Ids, NEW w, NEW v \in Int, NEW p \in Places,
         mem' = mem \/ mem' = [mem EXCEPT ![w] = v],
         buffer' \in [Ids -> Seq(Stores)],
         pc' = pc \/ pc' = [pc EXCEPT ![id] = p],
         reg' = reg
  PROVE  Typed'
<1>1. mem' \in [Words -> Int]
  BY DEF Typed
<1>2. pc' \in [Ids -> Places]
  BY DEF Typed
<1> QED
  BY <1>1, <1>2 DEF Typed

(* Peterson's algorithm, as far as it is claimed of, stores to memory.     *)
LEMMA Direct ==
  ASSUME IInv, Ordered, program = "peterson", UNCHANGED <<program, buffered>>,
         NEW id \in Ids, NEW w \in Words, NEW v \in Int, Store(id, w, v)
  PROVE  /\ Typed /\ TurnGiven /\ BuffersUsed
         /\ buffer' = buffer /\ mem' = [mem EXCEPT ![w] = v]
         /\ BuffersUsed' /\ OneHolder'
BY DEF IInv, Ordered, Store, BuffersUsed, Drained, OneHolder

(* A thread asks for the lock: its pc was not where a request is set.      *)
LEMMA SetRequestHolds ==
  ASSUME IInv, Ordered, NEW id \in Ids, SetRequest(id)
  PROVE  Typed' /\ BuffersUsed' /\ OneHolder' /\ TurnGiven'
<1>1. /\ pc[id] = "lock" /\ pc' = [pc EXCEPT ![id] = "turn"]
      /\ program = "peterson" /\ Store(id, Request(id), 1)
      /\ UNCHANGED <<program, buffered, reg>>
  BY DEF SetRequest, At, Goto
<1>2. /\ Typed /\ TurnGiven /\ buffer' = buffer /\ mem' = [mem EXCEPT ![Request(id)] = 1]
      /\ BuffersUsed' /\ OneHolder'
  BY <1>1, Direct DEF Request, Words
<1>3. Typed'
  <2>1. 1 \in Int /\ "turn" \in Places /\ buffer' \in [Ids -> Seq(Stores)]
    BY <1>2 DEF Typed, Places
  <2> QED
    BY <1>1, <1>2, <2>1, TypesKept
<1>4. TurnGiven'
  BY <1>1, <1>2, OtherThread
     DEF TurnGiven, Typed, Asked, Request, Words, Ids, InSection
<1> QED
  BY <1>2, <1>3, <1>4

(* A thread gives the turn to the other, which may have the lock.          *)
LEMMA GiveTurnHolds ==
  ASSUME IInv, Ordered, NEW id \in Ids, GiveTurn(id)
  PROVE  Typed' /\ BuffersUsed' /\ OneHolder' /\ TurnGiven'
<1>1. /\ pc[id] = "turn" /\ pc' = [pc EXCEPT ![id] = "askRequest"]
      /\ Store(id, "turn", Other(id))
      /\ UNCHANGED <<program, buffered, reg>>
  BY DEF GiveTurn, At, Goto
<1>2. program = "peterson"
  BY <1>1 DEF IInv, OneHolder
<1>3. /\ Typed /\ TurnGiven /\ buffer' = buffer /\ mem' = [mem EXCEPT !["turn"] = Other(id)]
      /\ BuffersUsed' /\ OneHolder'
  BY <1>1, <1>2, Direct, OtherThread DEF Words, Ids
<1>4. Typed'
  <2>1. Other(id) \in Int /\ "askRequest" \in Places /\ buffer' \in [Ids -> Seq(Stores)]
    BY <1>3, OtherThread DEF Typed, Places, Ids
  <2> QED
    BY <1>1, <1>3, <2>1, TypesKept
<1>5. TurnGiven'
  BY <1>1, <1>3, OtherThread
     DEF TurnGiven, Typed, Asked, Request, Words, Ids, InSection
<1> QED
  BY <1>3, <1>4, <1>5

(* A thread that asks gets the lock when the other does not ask, or has    *)
(* given it the turn.                                                      *)
LEMMA AskHolds ==
  ASSUME IInv, Ordered, NEW id \in Ids, AskRequest(id) \/ AskTurn(id), pc'[id] = "load"
  PROVE  Typed' /\ BuffersUsed' /\ OneHolder' /\ TurnGiven'
<1>1. /\ Asked(id) /\ UNCHANGED <<program, buffered, machine, reg>>
      /\ program = "peterson"
  BY DEF AskRequest, AskTurn, At, Asked, IInv, OneHolder
<1>2. Typed /\ BuffersUsed /\ TurnGiven /\ \A i \in Ids : Drained(i)
  BY <1>1 DEF IInv, Ordered, BuffersUsed
<1>3. pc' = [pc EXCEPT ![id] = "load"]
  <2>1. Enter(id) => pc' = [pc EXCEPT ![id] = "load"]
    BY DEF Enter, Goto
  <2>2. pc' = [pc EXCEPT ![id] = "load"] \/ pc' = [pc EXCEPT ![id] = "askTurn"]
                                        \/ pc' = [pc EXCEPT ![id] = "askRequest"]
    BY <2>1 DEF AskRequest, AskTurn, Goto
  <2> QED
    BY <2>2, <1>2 DEF Typed
<1>4. \A w : Loaded(id, w) = mem[w]
  BY <1>2 DEF Loaded, Drained
<1>5. mem[Request(Other(id))] # 1 \/ mem["turn"] # Other(id)
  <2>1. CASE AskRequest(id)
    BY <2>1, <1>2, <1>4 DEF AskRequest, Goto, Typed
  <2>2. CASE AskTurn(id)
    BY <2>2, <1>2, <1>4 DEF AskTurn, Goto, Typed
  <2> QED
    BY <2>1, <2>2
<1>6. Typed'
  BY <1>1, <1>2, <1>3 DEF Typed, Places, machine
<1>7. BuffersUsed' /\ OneHolder'
  BY <1>1, <1>2 DEF BuffersUsed, OneHolder, Drained, machine
<1>8. ~InSection(Other(id)) /\ (Asked(Other(id)) => mem["turn"] = id)
  BY <1>1, <1>2, <1>5, OtherThread DEF TurnGiven, Ids
<1>9. TurnGiven'
  BY <1>1, <1>2, <1>3, <1>8, OtherThread
     DEF TurnGiven, Typed, Asked, InSection, machine, Ids, Request
<1> QED
  BY <1>6, <1>7, <1>9
-----------------------------------------------------------------------------
(* A swap that finds 0 gets the lock: then nobody holds it, and no store   *)
(* to mutex is on the way.                                                 *)
LEMMA TryHolds ==
  ASSUME IInv, Ordered, NEW id \in Ids, Try(id), mem["mutex"] = 0
  PROVE  Typed' /\ BuffersUsed' /\ OneHolder' /\ TurnGiven'
<1>1. /\ program # "peterson" /\ Drained(id) /\ pc' = [pc EXCEPT ![id] = "load"]
      /\ mem' = [mem EXCEPT !["mutex"] = 1]
      /\ UNCHANGED <<program, buffered, buffer, reg>>
  BY DEF Try, Enter, Goto
<1>2. Typed /\ BuffersUsed /\ OneHolder
  BY DEF IInv
<1>3. \A i \in Ids : ~InSection(i) /\ ~Leaving(i)
  BY <1>1, <1>2 DEF OneHolder, Holds
<1>4. Typed'
  <2>1. 1 \in Int /\ "load" \in Places /\ buffer' \in [Ids -> Seq(Stores)]
    BY <1>1, <1>2 DEF Typed, Places
  <2> QED
    BY <1>1, <1>2, <2>1, TypesKept
<1>5. BuffersUsed'
  BY <1>1, <1>2 DEF BuffersUsed, Drained, Typed
<1>6. /\ \A i \in Ids : Leaving(i)' <=> Leaving(i)
      /\ \A i \in Ids : InSection(i)' <=> i = id
      /\ mem'["mutex"] = 1
  BY <1>1, <1>2, <1>3 DEF Leaving, InSection, Typed, Words
<1>7. OneHolder'
  BY <1>1, <1>2, <1>3, <1>6, OtherThread DEF OneHolder, Holds, Typed
<1> QED
  BY <1>1, <1>4, <1>5, <1>7 DEF TurnGiven

(* unlock: the store of 0 goes to memory, or behind all others into the    *)
(* buffer.                                                                 *)
LEMMA UnlockHolds ==
  ASSUME IInv, Ordered, NEW id \in Ids, Unlock(id)
  PROVE  Typed' /\ BuffersUsed' /\ OneHolder' /\ TurnGiven'
<1> DEFINE w == IF program = "peterson" THEN Request(id) ELSE "mutex"
           e == [word |-> w, value |-> 0]
<1>1. /\ pc[id] = "unlock" /\ Store(id, w, 0) /\ UNCHANGED <<program, buffered, reg>>
      /\ pc' = [pc EXCEPT ![id] = "lock"] \/ pc' = [pc EXCEPT ![id] = "wake"]
      /\ program = "peterson" => pc' = [pc EXCEPT ![id] = "lock"]
  BY DEF Unlock, At, Goto
<1>2. Typed /\ BuffersUsed /\ OneHolder /\ w \in Words /\ e \in Stores
  BY DEF IInv, Request, Words, Stores
<1>3. InSection(id)
  BY <1>1 DEF InSection
<1>4. \A i \in Ids : InSection(i)' <=> InSection(i) /\ i # id
  BY <1>1, <1>2 DEF InSection, Typed
<1>5. CASE program = "peterson"
  <2>1. /\ TurnGiven /\ buffer' = buffer /\ mem' = [mem EXCEPT ![Request(id)] = 0]
        /\ BuffersUsed' /\ OneHolder'
    BY <1>1, <1>2, <1>5, Direct
  <2>2. Typed'
    <3>1. 0 \in Int /\ "lock" \in Places /\ buffer' \in [Ids -> Seq(Stores)]
      BY <1>2, <2>1 DEF Typed, Places
    <3> QED
      BY <1>1, <1>2, <1>5, <2>1, <3>1, TypesKept
  <2>3. TurnGiven'
    BY <1>1, <1>2, <1>4, <1>5, <2>1, OtherThread
       DEF TurnGiven, Typed, Asked, Request, Words, Ids, InSection
  <2> QED
    BY <2>1, <2>2, <2>3
<1>6. CASE program # "peterson" /\ buffered
  <2>1. mem' = mem /\ buffer' = [buffer EXCEPT ![id] = Append(buffer[id], e)]
    BY <1>1, <1>6 DEF Store
  <2>2. buffer[id] \in Seq(Stores) /\ Append(buffer[id], e) \in Seq(Stores)
    BY <1>2, Appended DEF Typed
  <2>3. Typed'
    BY <1>1, <1>2, <2>1, <2>2 DEF Typed, Places
  <2>4. BuffersUsed'
    BY <1>1, <1>2, <1>6, <2>1 DEF BuffersUsed, Drained, Typed
  <2>5. /\ \A i \in Ids \ {id} : buffer'[i] = buffer[i] /\ (Leaving(i)' <=> Leaving(i))
        /\ buffer'[id] = Append(buffer[id], e)
    BY <1>2, <2>1 DEF Typed, Leaving
  <2>6. \A i \in Ids : Holds(i)' => Holds(i)
    BY <1>3, <1>4, <2>5 DEF Holds
  <2>7. \A k \in DOMAIN buffer'[id] :
          buffer'[id][k].word = "mutex" => k = Len(buffer'[id])
    BY <1>2, <1>3, <1>6, <2>2, <2>5, Appended DEF OneHolder, Leaving
  <2>8. OneHolder'
    <3>1. \A i \in Ids : pc'[i] \notin {"turn", "askRequest", "askTurn"}
      BY <1>1, <1>2, <1>6 DEF OneHolder, Typed
    <3>2. \A i \in Ids : Holds(i)' => mem'["mutex"] = 1 /\ ~Holds(Other(i))'
      BY <1>2, <1>6, <2>1, <2>6, OtherThread DEF OneHolder
    <3>3. \A i \in Ids : InSection(i)' => ~Leaving(i)'
      BY <1>2, <1>4, <1>6, <2>5 DEF OneHolder
    <3>4. \A i \in Ids : \A k \in DOMAIN buffer'[i] :
            buffer'[i][k].word = "mutex" => k = Len(buffer'[i])
      BY <1>2, <1>6, <2>5, <2>7 DEF OneHolder
    <3> QED
      BY <1>1, <3>1, <3>2, <3>3, <3>4 DEF OneHolder
  <2> QED
    BY <1>1, <1>6, <2>3, <2>4, <2>8 DEF TurnGiven
<1>7. CASE program # "peterson" /\ ~buffered
  <2>1. buffer' = buffer /\ mem' = [mem EXCEPT !["mutex"] = 0]
    BY <1>1, <1>7 DEF Store
  <2>2. Typed'
    <3>1. /\ 0 \in Int /\ "lock" \in Places /\ "wake" \in Places
          /\ buffer' \in [Ids -> Seq(Stores)]
      BY <1>2, <2>1 DEF Typed, Places
    <3>2. CASE pc' = [pc EXCEPT ![id] = "lock"]
      BY <1>1, <1>2, <2>1, <3>1, <3>2, TypesKept
    <3>3. CASE pc' = [pc EXCEPT ![id] = "wake"]
      BY <1>1, <1>2, <2>1, <3>1, <3>3, TypesKept
    <3> QED
      BY <1>1, <3>2, <3>3
  <2>3. BuffersUsed'
    BY <1>1, <1>2, <1>7, <2>1 DEF BuffersUsed, Drained
  <2>4. \A i \in Ids : buffer'[i] = <<>>
    BY <1>2, <1>7, <2>1 DEF BuffersUsed, Drained
  <2>5. \A i \in Ids : ~Leaving(i)'
    BY <2>4 DEF Leaving
  <2>6. ~InSection(Other(id))
    BY <1>2, <1>3, <1>7 DEF OneHolder, Holds
  <2>7. \A i \in Ids : ~Holds(i)'
    BY <1>4, <2>5, <2>6, OtherThread DEF Holds
  <2>8. OneHolder'
    BY <1>1, <1>2, <1>7, <2>4, <2>5, <2>7 DEF OneHolder, Typed, Holds
  <2> QED
    BY <1>1, <1>7, <2>2, <2>3, <2>8 DEF TurnGiven
<1> QED
  BY <1>5, <1>6, <1>7

(* A store leaves the buffer: if it is the one to mutex, the buffer is     *)
(* empty and nobody holds the lock.                                        *)
LEMMA FlushHolds ==
  ASSUME IInv, Ordered, NEW id \in Ids, Flush(id)
  PROVE  Typed' /\ BuffersUsed' /\ OneHolder' /\ TurnGiven'
<1> DEFINE s == buffer[id]
<1>1. /\ s # <<>> /\ mem' = [mem EXCEPT ![Head(s).word] = Head(s).value]
      /\ buffer' = [buffer EXCEPT ![id] = Tail(s)]
      /\ UNCHANGED <<program, buffered, pc, reg>>
  BY DEF Flush, Drained
<1>2. /\ Typed /\ BuffersUsed /\ OneHolder /\ s \in Seq(Stores)
      /\ buffered /\ program # "peterson"
  BY <1>1 DEF IInv, Ordered, Typed, BuffersUsed, Drained
<1>3. /\ Head(s) \in Stores /\ Head(s) = s[1] /\ 1 \in DOMAIN s /\ Len(s) \in Nat \ {0}
      /\ Tail(s) \in Seq(Stores) /\ Len(Tail(s)) = Len(s) - 1
      /\ \A i \in DOMAIN Tail(s) : i + 1 \in DOMAIN s /\ Tail(s)[i] = s[i + 1]
  BY <1>1, <1>2, Shifted
<1>4. Typed'
  BY <1>1, <1>2, <1>3 DEF Typed, Stores
<1>5. BuffersUsed'
  BY <1>1, <1>2 DEF BuffersUsed, Drained, Typed
<1>6. \A i \in Ids : InSection(i)' <=> InSection(i)
  BY <1>1 DEF InSection
<1>7. /\ buffer'[id] = Tail(s)
      /\ \A i \in Ids \ {id} : buffer'[i] = buffer[i] /\ (Leaving(i)' <=> Leaving(i))
  BY <1>1, <1>2 DEF Typed, Leaving
<1>8. Leaving(id)' => Leaving(id)
  BY <1>3, <1>7 DEF Leaving
<1>9. \A i \in Ids : Holds(i)' => Holds(i)
  BY <1>6, <1>7, <1>8 DEF Holds
<1>10. \A i \in Ids : Holds(i)' => mem'["mutex"] = 1
  <2>1. CASE Head(s).word = "mutex"
    <3>1. Len(s) = 1 /\ Leaving(id)
      BY <1>2, <1>3, <2>1 DEF OneHolder, Leaving
    <3>2. ~Leaving(id)'
      BY <1>3, <1>7, <3>1 DEF Leaving
    <3>3. ~InSection(id) /\ ~Holds(Other(id))
      BY <1>2, <3>1 DEF OneHolder, Holds
    <3> QED
      BY <1>6, <1>9, <3>2, <3>3, OtherThread DEF Holds
  <2>2. CASE Head(s).word # "mutex"
    <3>1. mem'["mutex"] = mem["mutex"]
      BY <1>1, <1>2, <1>3, <2>2 DEF Typed, Stores, Words
    <3> QED
      BY <1>2, <1>9, <3>1 DEF OneHolder
  <2> QED
    BY <2>1, <2>2
<1>11. \A k \in DOMAIN buffer'[id] : buffer'[id][k].word = "mutex" => k = Len(buffer'[id])
  <2> SUFFICES ASSUME NEW k \in DOMAIN Tail(s), Tail(s)[k].word = "mutex" PROVE k = Len(Tail(s))
    BY <1>7
  <2>1. k + 1 \in DOMAIN s /\ s[k + 1].word = "mutex" /\ k \in Nat
    BY <1>3
  <2>2. k + 1 = Len(s)
    BY <1>2, <2>1 DEF OneHolder
  <2> QED
    BY <1>3, <2>1, <2>2
<1>12. OneHolder'
  <2>1. \A i \in Ids : pc'[i] \notin {"turn", "askRequest", "askTurn"}
    BY <1>1, <1>2 DEF OneHolder
  <2>2. \A i \in Ids : Holds(i)' => mem'["mutex"] = 1 /\ ~Holds(Other(i))'
    BY <1>2, <1>9, <1>10, OtherThread DEF OneHolder
  <2>3. \A i \in Ids : InSection(i)' => ~Leaving(i)'
    BY <1>2, <1>6, <1>7, <1>8 DEF OneHolder
  <2>4. \A i \in Ids : \A k \in DOMAIN buffer'[i] :
          buffer'[i][k].word = "mutex" => k = Len(buffer'[i])
    BY <1>2, <1>7, <1>11 DEF OneHolder
  <2> QED
    BY <2>1, <2>2, <2>3, <2>4 DEF OneHolder
<1> QED
  BY <1>1, <1>2, <1>4, <1>5, <1>12 DEF TurnGiven
-----------------------------------------------------------------------------
(* A thread that asks and does not get the lock, or is refused by a swap,  *)
(* or waits, wakes the other or ends.                                      *)
LEMMA RefusedHolds ==
  ASSUME IInv, Ordered, NEW id \in Ids,
         \/ (AskRequest(id) \/ AskTurn(id)) /\ pc'[id] # "load"
         \/ Try(id) /\ mem["mutex"] # 0
         \/ FutexWait(id) \/ FutexWake(id) \/ Return(id)
  PROVE  Typed' /\ BuffersUsed' /\ OneHolder' /\ TurnGiven'
<1>1. /\ Typed /\ UNCHANGED <<program, buffered, machine, reg>>
      /\ pc[id] \in {"lock", "wait", "wake", "askRequest", "askTurn"}
  BY DEF IInv, AskRequest, AskTurn, Try, FutexWait, FutexWake, Return, At, machine
<1>2. CASE (AskRequest(id) \/ AskTurn(id)) /\ pc'[id] # "load"
  <2>1. Asked(id) /\ program = "peterson"
    BY <1>2 DEF AskRequest, AskTurn, At, Asked, IInv, OneHolder
  <2>2. ~Enter(id)
    BY <1>1, <1>2 DEF Enter, Goto, Typed
  <2>3. pc' = [pc EXCEPT ![id] = "askTurn"] \/ pc' = [pc EXCEPT ![id] = "askRequest"]
    BY <1>2, <2>2 DEF AskRequest, AskTurn, Goto
  <2>4. /\ pc' \in [Ids -> Places] /\ pc'[id] \in {"askRequest", "askTurn"}
        /\ \A i \in Ids \ {id} : pc'[i] = pc[i]
    BY <1>1, <2>3 DEF Typed, Places
  <2> QED
    BY <1>1, <2>1, <2>4, Idle DEF Typed
<1>3. CASE ~((AskRequest(id) \/ AskTurn(id)) /\ pc'[id] # "load")
  <2>1. /\ ~InSection(id)
        /\ \/ \E p \in {"lock", "wait", "asleep", "done"} : pc' = [pc EXCEPT ![id] = p]
           \/ pc' = [i \in Ids |-> IF i = id \/ At(i, "asleep") THEN "lock" ELSE pc[i]]
    BY <1>3 DEF Try, FutexWait, FutexWake, Return, At, Goto, InSection
  <2>2. /\ pc' \in [Ids -> Places]
        /\ \A i \in Ids : pc'[i] = pc[i] \/ (~InSection(i) /\ pc'[i] \in {"lock", "wait", "asleep", "wake", "done"})
    BY <1>1, <2>1 DEF Typed, Places, At, InSection
  <2> QED
    BY <1>1, <2>2, Idle DEF Typed
<1> QED
  BY <1>2, <1>3

(* A thread that has the lock loads count: its buffer is empty, so what it *)
(* finds is in memory.                                                     *)
LEMMA ReadHolds ==
  ASSUME IInv, Ordered, NEW id \in Ids, Read(id)
  PROVE  Typed' /\ BuffersUsed' /\ OneHolder' /\ TurnGiven'
<1>1. /\ Typed /\ UNCHANGED <<program, buffered, machine>> /\ pc[id] = "load"
      /\ pc' = [pc EXCEPT ![id] = "store"] /\ reg' = [reg EXCEPT ![id] = Loaded(id, "count")]
  BY DEF IInv, Read, At, Goto, machine
<1>2. Drained(id)
  BY <1>1 DEF IInv, Ordered, BuffersUsed
<1>3. Loaded(id, "count") = mem["count"]
  BY <1>2 DEF Loaded, Drained
<1>4. reg' \in [Ids -> Int] /\ pc' \in [Ids -> Places]
  BY <1>1, <1>3 DEF Typed, Words, Places
<1>5. pc'[id] = "store" /\ \A i \in Ids \ {id} : pc'[i] = pc[i]
  BY <1>1 DEF Typed
<1> QED
  BY <1>1, <1>4, <1>5, Idle

(* Every step keeps the invariant.                                         *)
LEMMA NextHolds == IInv /\ [Next]_vars => IInv'
<1> SUFFICES ASSUME IInv, [Next]_vars PROVE IInv'
  OBVIOUS
<1>1. CASE UNCHANGED vars
  BY <1>1 DEF vars, IInv, Ordered, Typed, BuffersUsed, OneHolder, TurnGiven,
              Drained, Holds, InSection, Leaving, Asked
<1>2. ASSUME NEW id \in Ids, Step(id) \/ Flush(id) PROVE IInv'
  <2>1. UNCHANGED <<program, buffered>>
    BY <1>2 DEF Step, Flush, SetRequest, GiveTurn, AskRequest, AskTurn, Try, FutexWait,
                FutexWake, Read, Write, Unlock, Return
  <2>2. SUFFICES ASSUME Ordered PROVE Typed' /\ BuffersUsed' /\ OneHolder' /\ TurnGiven'
    BY <2>1, StepHolds
  <2>3. CASE SetRequest(id)
    BY <2>2, <2>3, SetRequestHolds
  <2>4. CASE GiveTurn(id)
    BY <2>2, <2>4, GiveTurnHolds
  <2>5. CASE AskRequest(id) \/ AskTurn(id)
    BY <2>2, <2>5, AskHolds, RefusedHolds
  <2>6. CASE Try(id)
    BY <2>2, <2>6, TryHolds, RefusedHolds
  <2>7. CASE FutexWait(id) \/ FutexWake(id) \/ Return(id)
    BY <2>2, <2>7, RefusedHolds
  <2>8. CASE Read(id)
    BY <2>2, <2>8, ReadHolds
  <2>9. CASE Write(id)
    BY <2>2, <2>9, WriteHolds
  <2>10. CASE Unlock(id)
    BY <2>2, <2>10, UnlockHolds
  <2>11. CASE Flush(id)
    BY <2>2, <2>11, FlushHolds
  <2> QED
    BY <1>2, <2>3, <2>4, <2>5, <2>6, <2>7, <2>8, <2>9, <2>10, <2>11 DEF Step
<1> QED
  BY <1>1, <1>2 DEF Next

(* At most one thread has the lock, whatever the number of rounds: lock    *)
(* and unlock of swap.c and futex.c with store buffers too, those of       *)
(* peterson.c where no store waits.                                        *)
THEOREM LocksExclude == Spec => []Exclusion
<1>1. IInv => Exclusion
  <2> SUFFICES ASSUME IInv, Ordered PROVE ~(InSection(0) /\ InSection(1))
    BY DEF Exclusion
  <2>1. 0 \in Ids /\ Other(0) = 1
    BY DEF Ids, Other
  <2> QED
    BY <2>1 DEF IInv, OneHolder, TurnGiven, Holds
<1> QED
  BY InitHolds, NextHolds, <1>1, PTL DEF Spec
-----------------------------------------------------------------------------
(* Who sleeps has seen the word at 1, and the store that changes it comes  *)
(* from a thread that has its wake-up still to make.                       *)
SleepInv ==
  /\ pc \in [Ids -> Places]
  /\ \A id \in Ids : pc[id] \in {"wait", "asleep", "wake"} => program = "futex"
  /\ program = "futex" => \A id \in Ids : Leaving(id) => At(id, "wake")
  /\ NoSleepOnFree

(* Peterson's algorithm without store buffers: a thread that waits and was *)
(* overtaken has the turn, or the other has not asked again.               *)
OvertakeInv ==
  program = "peterson" /\ ~buffered =>
    /\ overtaken \in [Ids -> Nat]
    /\ \A id \in Ids : overtaken[id] <= 1
    /\ \A id \in Ids : Asked(id) /\ Asked(Other(id)) /\ mem["turn"] = Other(id) =>
                           overtaken[id] = 0

(* The additions made, that of a thread about to unlock included.          *)
Added == 2 * Inc - left[0] - left[1] + (IF \E id \in Ids : At(id, "unlock") THEN 1 ELSE 0)

CountStores(id) == {i \in DOMAIN buffer[id] : buffer[id][i].word = "count"}

(* A store to count that is on the way comes from the holder and is        *)
(* up to date; without one the memory is.                                  *)
CountInv ==
  Ordered =>
    /\ left \in [Ids -> Int]
    /\ \A id \in Ids : At(id, "store") => reg[id] = Added
    /\ \A id \in Ids : \A i \in CountStores(id) :
         buffer[id][i].value = Added /\ Holds(id)
    /\ (\A id \in Ids : CountStores(id) = {}) => mem["count"] = Added
    /\ \A id \in Ids : At(id, "done") => left[id] = 0 /\ Drained(id)
-----------------------------------------------------------------------------
LEMMA SleepInit == Init => SleepInv
BY DEF Init, SleepInv, Places, Leaving, At, NoSleepOnFree

(* Only threads of futex.c come to a system call.                          *)
LEMMA SleepersOfFutex ==
  ASSUME SleepInv, NEW id \in Ids, Step(id) \/ Flush(id), program' = program
  PROVE  /\ pc' \in [Ids -> Places]
         /\ \A i \in Ids : pc'[i] \in {"wait", "asleep", "wake"} => program = "futex"
<1>1. pc \in [Ids -> Places]
  BY DEF SleepInv
<1>2. CASE pc' = pc
  BY <1>2 DEF SleepInv
<1>3. CASE \E p \in Places \ {"wait", "asleep", "wake"} : pc' = [pc EXCEPT ![id] = p]
  BY <1>1, <1>3 DEF SleepInv
<1>4. CASE program = "futex" /\ \E p \in Places : pc' = [pc EXCEPT ![id] = p]
  BY <1>1, <1>4
<1>5. CASE FutexWake(id)
  BY <1>1, <1>5 DEF SleepInv, FutexWake, At, Places
<1>6. FutexWait(id) => program = "futex" /\ \E p \in Places : pc' = [pc EXCEPT ![id] = p]
  BY DEF FutexWait, SleepInv, At, Goto, Places
<1>7. SetRequest(id) \/ GiveTurn(id) \/ AskRequest(id) \/ AskTurn(id) \/ Read(id) \/ Write(id) \/ Return(id) =>
        \E p \in Places \ {"wait", "asleep", "wake"} : pc' = [pc EXCEPT ![id] = p]
  BY DEF SetRequest, GiveTurn, AskRequest, AskTurn, Read, Write, Return, Enter, Goto, Places
<1>8. Try(id) \/ Unlock(id) =>
        \/ \E p \in Places \ {"wait", "asleep", "wake"} : pc' = [pc EXCEPT ![id] = p]
        \/ program = "futex" /\ \E p \in Places : pc' = [pc EXCEPT ![id] = p]
  BY DEF Try, Unlock, Enter, Goto, Places
<1>9. Flush(id) => pc' = pc
  BY DEF Flush
<1> QED
  BY <1>2, <1>3, <1>4, <1>5, <1>6, <1>7, <1>8, <1>9 DEF Step

(* A step of a thread that has no wake-up to make, after which no store to *)
(* the word is on the way that was not, and the word is as it was or taken.*)
LEMMA SleepIdle ==
  ASSUME SleepInv, program = "futex", NEW id \in Ids, pc' \in [Ids -> Places],
         program' = program,
         \A i \in Ids : Leaving(i)' => Leaving(i),
         mem'["mutex"] = mem["mutex"] \/ mem'["mutex"] = 1,
         ~At(id, "wake"),
         \A i \in Ids \ {id} : pc'[i] = pc[i],
         pc'[id] # "asleep" \/ mem'["mutex"] = 1
  PROVE  SleepInv'
<1>1. \A i \in Ids : Leaving(i)' => At(i, "wake")'
  BY DEF SleepInv, At
<1>2. NoSleepOnFree'
  <2> SUFFICES ASSUME NEW i \in Ids, At(i, "asleep")', mem'["mutex"] = 0 PROVE At(Other(i), "wake")'
    BY DEF NoSleepOnFree
  <2>1. i # id
    BY DEF At
  <2>2. At(i, "asleep") /\ mem["mutex"] = 0
    BY <2>1 DEF At
  <2>3. At(Other(i), "wake") /\ Other(i) \in Ids
    BY <2>2, OtherThread DEF SleepInv, NoSleepOnFree
  <2> QED
    BY <2>3 DEF At
<1> QED
  BY <1>1, <1>2 DEF SleepInv

(* The wake-up is announced by unlock, made by futex_wake, and the store   *)
(* arrives in between.                                                     *)
LEMMA SleepStep ==
  ASSUME IInv, SleepInv, NEW id \in Ids, Step(id) \/ Flush(id), program' = program
  PROVE  SleepInv'
<1>1. /\ pc' \in [Ids -> Places]
      /\ \A i \in Ids : pc'[i] \in {"wait", "asleep", "wake"} => program = "futex"
  BY SleepersOfFutex
<1>2. CASE program # "futex"
  BY <1>1, <1>2 DEF SleepInv, NoSleepOnFree, At
<1> SUFFICES ASSUME program = "futex" PROVE SleepInv'
  BY <1>2
<1>3. Ordered /\ Typed /\ OneHolder /\ pc[id] \notin {"turn", "askRequest", "askTurn"}
  BY DEF IInv, Ordered, OneHolder
<1>4. Drained(id) => ~Leaving(id)
  BY DEF Drained, Leaving
<1>5. CASE Try(id) \/ FutexWait(id) \/ Read(id) \/ Return(id)
  <2>1. /\ buffer' = buffer
        /\ mem' = mem \/ mem' = [mem EXCEPT !["mutex"] = 1]
        /\ ~At(id, "wake")
    BY <1>5 DEF Try, FutexWait, Read, Return, At, machine
  <2>2. \A i \in Ids : Leaving(i)' => Leaving(i)
    BY <2>1 DEF Leaving
  <2>3. mem'["mutex"] = mem["mutex"] \/ mem'["mutex"] = 1
    BY <1>3, <2>1 DEF Typed, Words
  <2>4. \A i \in Ids \ {id} : pc'[i] = pc[i]
    BY <1>3, <1>5 DEF Typed, Try, FutexWait, Read, Return, Goto, Enter
  <2>5. pc'[id] # "asleep" \/ mem'["mutex"] = 1
    BY <1>3, <1>5 DEF Typed, Try, FutexWait, Read, Return, Goto, Enter, machine
  <2> QED
    BY <1>1, <2>1, <2>2, <2>3, <2>4, <2>5, SleepIdle
<1>6. CASE Write(id)
  <2> DEFINE e == [word |-> "count", value |-> reg[id] + 1]
  <2>1. /\ At(id, "store") /\ pc' = [pc EXCEPT ![id] = "unlock"]
        /\ Store(id, "count", reg[id] + 1)
    BY <1>6 DEF Write, Goto
  <2>2. e \in Stores /\ buffer[id] \in Seq(Stores) /\ "count" # "mutex"
    BY <1>3 DEF Typed, Stores, Words
  <2>3. mem'["mutex"] = mem["mutex"]
    BY <1>3, <2>1 DEF Store, Typed, Words
  <2>4. \A i \in Ids : Leaving(i)' => Leaving(i)
    <3>1. buffer' = buffer \/ buffer' = [buffer EXCEPT ![id] = Append(buffer[id], e)]
      BY <2>1 DEF Store
    <3>2. e.word # "mutex"
      OBVIOUS
    <3> QED
      <4>1. CASE buffer' = buffer
        BY <4>1 DEF Leaving
      <4>2. CASE buffer' = [buffer EXCEPT ![id] = Append(buffer[id], e)]
        <5>1. buffer'[id] = Append(buffer[id], e) /\ \A i \in Ids \ {id} : buffer'[i] = buffer[i]
          BY <1>3, <4>2 DEF Typed
        <5>2. Leaving(id)' => Leaving(id)
          BY <2>2, <3>2, <5>1, Appended DEF Leaving
        <5> QED
          BY <5>1, <5>2 DEF Leaving
      <4> QED
        BY <3>1, <4>1, <4>2
  <2>5. ~At(id, "wake") /\ pc'[id] # "asleep" /\ \A i \in Ids \ {id} : pc'[i] = pc[i]
    BY <1>3, <2>1 DEF At, Typed
  <2> QED
    BY <1>1, <2>3, <2>4, <2>5, SleepIdle
<1>7. CASE Unlock(id)
  <2>1. /\ pc' = [pc EXCEPT ![id] = "wake"] /\ Store(id, "mutex", 0)
    BY <1>7 DEF Unlock, Goto
  <2>2. pc'[id] = "wake" /\ \A i \in Ids \ {id} : pc'[i] = pc[i]
    BY <1>3, <2>1 DEF Typed
  <2>3. \A i \in Ids \ {id} : Leaving(i)' => Leaving(i)
    BY <1>3, <2>1 DEF Store, Typed, Leaving
  <2> QED
    BY <1>1, <2>2, <2>3, OtherThread DEF SleepInv, NoSleepOnFree, At
<1>8. CASE FutexWake(id)
  <2>1. /\ pc' = [i \in Ids |-> IF i = id \/ At(i, "asleep") THEN "lock" ELSE pc[i]]
        /\ buffer' = buffer /\ ~Leaving(id)
    BY <1>4, <1>8 DEF FutexWake, machine
  <2>2. \A i \in Ids : ~At(i, "asleep")'
    BY <2>1 DEF At
  <2>3. \A i \in Ids : Leaving(i)' => At(i, "wake")'
    BY <2>1 DEF SleepInv, Leaving, At
  <2> QED
    BY <1>1, <2>2, <2>3 DEF SleepInv, NoSleepOnFree
<1>9. CASE Flush(id)
  <2> DEFINE s == buffer[id]
  <2>1. /\ s # <<>> /\ mem' = [mem EXCEPT ![Head(s).word] = Head(s).value]
        /\ buffer' = [buffer EXCEPT ![id] = Tail(s)] /\ pc' = pc
    BY <1>9 DEF Flush, Drained
  <2>2. /\ s \in Seq(Stores) /\ Head(s) \in Stores /\ Head(s) = s[1] /\ 1 \in DOMAIN s
        /\ \A i \in DOMAIN Tail(s) : i + 1 \in DOMAIN s /\ Tail(s)[i] = s[i + 1]
    BY <1>3, <2>1, Shifted DEF Typed
  <2>3. \A i \in Ids : Leaving(i)' => Leaving(i)
    <3>1. buffer'[id] = Tail(s) /\ \A i \in Ids \ {id} : buffer'[i] = buffer[i]
      BY <1>3, <2>1 DEF Typed
    <3>2. Leaving(id)' => Leaving(id)
      BY <2>2, <3>1 DEF Leaving
    <3> QED
      BY <3>1, <3>2 DEF Leaving
  <2>4. CASE Head(s).word = "mutex"
    <3>1. At(id, "wake")
      BY <2>2, <2>4 DEF SleepInv, Leaving
    <3> QED
      BY <1>1, <2>1, <2>3, <3>1, OtherThread DEF SleepInv, NoSleepOnFree, At
  <2>5. CASE Head(s).word # "mutex"
    <3>1. mem'["mutex"] = mem["mutex"]
      BY <1>3, <2>1, <2>2, <2>5 DEF Typed, Stores, Words
    <3> QED
      BY <1>1, <2>1, <2>3, <3>1, OtherThread DEF SleepInv, NoSleepOnFree, At
  <2> QED
    BY <2>4, <2>5
<1> QED
  BY <1>3, <1>5, <1>6, <1>7, <1>8, <1>9
     DEF Step, SetRequest, GiveTurn, AskRequest, AskTurn, At

LEMMA SleepNext == IInv /\ SleepInv /\ [Next]_vars => SleepInv'
<1> SUFFICES ASSUME IInv, SleepInv, [Next]_vars PROVE SleepInv'
  OBVIOUS
<1>1. CASE UNCHANGED vars
  BY <1>1 DEF vars, SleepInv, NoSleepOnFree, Leaving, At
<1>2. ASSUME NEW id \in Ids, Step(id) \/ Flush(id) PROVE SleepInv'
  <2>1. program' = program
    BY <1>2 DEF Step, Flush, SetRequest, GiveTurn, AskRequest, AskTurn, Try, FutexWait,
                FutexWake, Read, Write, Unlock, Return
  <2> QED
    BY <1>2, <2>1, SleepStep
<1> QED
  BY <1>1, <1>2 DEF Next

(* Nobody sleeps on a free word unless the wake-up is on its way: in       *)
(* unlock of futex.c the store comes before futex_wake, and the system     *)
(* call waits until it has arrived.                                        *)
THEOREM NoSleeperForgotten == Spec => []NoSleepOnFree
<1>1. SleepInv => NoSleepOnFree
  BY DEF SleepInv
<1> QED
  BY InitHolds, NextHolds, SleepInit, SleepNext, <1>1, PTL DEF Spec
-----------------------------------------------------------------------------
LEMMA OvertakeInit == Init => OvertakeInv
BY DEF Init, OvertakeInv, Asked

(* A thread gets Peterson's lock: the other, if it waits, was not          *)
(* overtaken before.                                                       *)
LEMMA OvertakeEnter ==
  ASSUME IInv, OvertakeInv, program = "peterson", ~buffered, NEW id \in Ids,
         AskRequest(id) \/ AskTurn(id), UNCHANGED <<program, buffered>>
  PROVE  OvertakeInv'
<1>1. /\ Typed /\ TurnGiven /\ Drained(id) /\ Asked(id) /\ mem' = mem
      /\ overtaken \in [Ids -> Nat] /\ \A i \in Ids : overtaken[i] <= 1
  BY DEF IInv, Ordered, BuffersUsed, AskRequest, AskTurn, At, Asked, machine, OvertakeInv
<1>2. \A w : Loaded(id, w) = mem[w]
  BY <1>1 DEF Loaded, Drained
<1>3. \/ Enter(id) /\ (mem[Request(Other(id))] # 1 \/ mem["turn"] # Other(id))
      \/ /\ pc' = [pc EXCEPT ![id] = "askTurn"] \/ pc' = [pc EXCEPT ![id] = "askRequest"]
         /\ overtaken' = overtaken
  BY <1>2 DEF AskRequest, AskTurn, Goto
<1>4. CASE Enter(id) /\ (mem[Request(Other(id))] # 1 \/ mem["turn"] # Other(id))
  <2>1. /\ pc' = [pc EXCEPT ![id] = "load"]
        /\ overtaken' = [overtaken EXCEPT ![Other(id)] =
                            IF Asked(Other(id)) THEN overtaken[Other(id)] + 1 ELSE 0]
    BY <1>4 DEF Enter, Goto, Waits, Asked
  <2>2. Asked(Other(id)) => overtaken[Other(id)] = 0
    <3>1. Asked(Other(id)) => mem["turn"] = id
      BY <1>1, <1>4, OtherThread DEF TurnGiven
    <3> QED
      BY <1>1, <3>1, OtherThread DEF OvertakeInv
  <2>3. ~Asked(id)'
    BY <1>1, <2>1 DEF Asked, Typed
  <2>4. overtaken' \in [Ids -> Nat] /\ \A i \in Ids : overtaken'[i] <= 1
    BY <1>1, <2>1, <2>2, OtherThread
  <2> QED
    BY <2>3, <2>4, OtherThread DEF OvertakeInv
<1>5. CASE /\ pc' = [pc EXCEPT ![id] = "askTurn"] \/ pc' = [pc EXCEPT ![id] = "askRequest"]
           /\ overtaken' = overtaken
  <2>1. \A i \in Ids : Asked(i)' <=> Asked(i)
    BY <1>1, <1>5 DEF Asked, Typed
  <2> QED
    BY <1>1, <1>5, <2>1, OtherThread DEF OvertakeInv
<1> QED
  BY <1>3, <1>4, <1>5

LEMMA OvertakeStep ==
  ASSUME IInv, OvertakeInv, NEW id \in Ids, Step(id) \/ Flush(id),
         UNCHANGED <<program, buffered>>
  PROVE  OvertakeInv'
<1> SUFFICES ASSUME program = "peterson", ~buffered PROVE OvertakeInv'
  BY DEF OvertakeInv
<1>1. /\ Ordered /\ Typed /\ TurnGiven /\ Drained(id)
      /\ overtaken \in [Ids -> Nat] /\ \A i \in Ids : overtaken[i] <= 1
  BY DEF IInv, Ordered, BuffersUsed, OvertakeInv
<1>2. CASE GiveTurn(id)
  <2>1. /\ mem' = [mem EXCEPT !["turn"] = Other(id)]
        /\ pc' = [pc EXCEPT ![id] = "askRequest"]
        /\ overtaken' = [overtaken EXCEPT ![id] = 0]
    BY <1>2 DEF GiveTurn, Store, Goto
  <2>2. mem'["turn"] = Other(id) /\ overtaken'[id] = 0 /\ overtaken' \in [Ids -> Nat]
    BY <1>1, <2>1 DEF Typed, Words
  <2>3. \A i \in Ids \ {id} : overtaken'[i] = overtaken[i] /\ Other(i) = id
    BY <1>1, <2>1, OtherThread
  <2>4. Other(id) # id
    BY OtherThread
  <2> QED
    BY <1>1, <2>2, <2>3, <2>4 DEF OvertakeInv
<1>3. CASE SetRequest(id) \/ Read(id) \/ Write(id) \/ Unlock(id) \/ Return(id) \/ FutexWait(id)
  <2>1. overtaken' = overtaken /\ ~Asked(id)
    BY <1>3 DEF SetRequest, Read, Write, Unlock, Return, FutexWait, At, Asked
  <2>2. mem' = mem \/ \E w \in Words \ {"turn"} : \E v : mem' = [mem EXCEPT ![w] = v]
    BY <1>3 DEF SetRequest, Read, Write, Unlock, Return, FutexWait, Store, machine, Request, Words
  <2>3. mem'["turn"] = mem["turn"]
    BY <1>1, <2>2 DEF Typed, Words
  <2>4. \E p \in Places \ {"askRequest", "askTurn"} : pc' = [pc EXCEPT ![id] = p]
    BY <1>3 DEF SetRequest, Read, Write, Unlock, Return, FutexWait, Goto, Places
  <2>5. \A i \in Ids : Asked(i)' => Asked(i)
    BY <1>1, <2>1, <2>4 DEF Asked, Typed
  <2> QED
    BY <1>1, <2>1, <2>3, <2>5, OtherThread DEF OvertakeInv
<1>4. CASE FutexWake(id)
  <2>1. overtaken' = overtaken /\ mem' = mem /\ \A i \in Ids : Asked(i)' => Asked(i)
    BY <1>4 DEF FutexWake, machine, Asked
  <2> QED
    BY <1>1, <2>1, OtherThread DEF OvertakeInv
<1> QED
  BY <1>1, <1>2, <1>3, <1>4, OvertakeEnter DEF Step, Try, Flush

LEMMA OvertakeNext == IInv /\ OvertakeInv /\ [Next]_vars => OvertakeInv'
<1> SUFFICES ASSUME IInv, OvertakeInv, [Next]_vars PROVE OvertakeInv'
  OBVIOUS
<1>1. CASE UNCHANGED vars
  BY <1>1 DEF vars, OvertakeInv, Asked
<1>2. ASSUME NEW id \in Ids, Step(id) \/ Flush(id) PROVE OvertakeInv'
  <2>1. UNCHANGED <<program, buffered>>
    BY <1>2 DEF Step, Flush, SetRequest, GiveTurn, AskRequest, AskTurn, Try, FutexWait,
                FutexWake, Read, Write, Unlock, Return
  <2> QED
    BY <1>2, <2>1, OvertakeStep
<1> QED
  BY <1>1, <1>2 DEF Next

(* Who has asked for Peterson's lock sees the other enter at most once,    *)
(* for any number of rounds (the turn in lock of peterson.c).              *)
THEOREM OvertakenOnce == Spec => []BoundedOvertaking
<1>1. OvertakeInv => BoundedOvertaking
  BY DEF OvertakeInv, BoundedOvertaking
<1> QED
  BY InitHolds, NextHolds, OvertakeInit, OvertakeNext, <1>1, PTL DEF Spec
-----------------------------------------------------------------------------
LEMMA CountInit == Init => CountInv
<1> SUFFICES ASSUME Init PROVE CountInv
  OBVIOUS
<1>1. left[0] = Inc /\ left[1] = Inc /\ left \in [Ids -> Int]
  BY IncAssumption DEF Init, Ids
<1>2. \A id \in Ids : pc[id] = "lock" /\ CountStores(id) = {} /\ ~At(id, "unlock")
  BY DEF Init, CountStores, At
<1>3. Added = 0
  BY <1>1, <1>2, IncAssumption DEF Added
<1>4. mem["count"] = 0
  BY DEF Init, Words
<1> QED
  BY <1>1, <1>2, <1>3, <1>4 DEF CountInv, At

(* No addition is lost or made up as long as nobody stores to count or     *)
(* gets to the unlock.                                                     *)
LEMMA CountIdle ==
  ASSUME CountInv, Ordered, NEW id \in Ids, pc \in [Ids -> Places], pc' \in [Ids -> Places],
         UNCHANGED <<program, buffered, left, reg>>,
         \A i \in Ids : (At(i, "unlock")' <=> At(i, "unlock")) /\ (At(i, "store")' => At(i, "store")),
         \A i \in Ids : Holds(i) => Holds(i)',
         buffer' = buffer, mem'["count"] = mem["count"],
         \A i \in Ids : At(i, "done")' => At(i, "done") \/ (left[i] = 0 /\ Drained(i))
  PROVE  CountInv'
<1>1. Added' = Added
  BY DEF Added
<1>2. \A i \in Ids : CountStores(i)' = CountStores(i)
  BY DEF CountStores
<1> QED
  BY <1>1, <1>2 DEF CountInv, At, Drained, Ordered

(* Who has the lock has it alone; before it stores, its buffer is empty    *)
(* and so the memory holds the count.                                      *)
LEMMA Alone ==
  ASSUME IInv, CountInv, Ordered, NEW id \in Ids, InSection(id)
  PROVE  /\ ~Holds(Other(id)) /\ Other(id) \in Ids
         /\ CountStores(Other(id)) = {}
         /\ ~At(id, "unlock") => Drained(id) /\ CountStores(id) = {} /\ mem["count"] = Added
<1>1. Other(id) \in Ids /\ Ids = {id, Other(id)}
  BY OtherThread
<1>2. ~Holds(Other(id))
  <2>1. CASE program = "peterson"
    BY <1>1, <2>1 DEF IInv, Ordered, TurnGiven, BuffersUsed, Drained, Holds, Leaving
  <2>2. CASE program # "peterson"
    BY <2>2 DEF IInv, OneHolder, Holds
  <2> QED
    BY <2>1, <2>2
<1>3. CountStores(Other(id)) = {}
  BY <1>1, <1>2 DEF CountInv
<1>4. ASSUME ~At(id, "unlock") PROVE Drained(id) /\ CountStores(id) = {} /\ mem["count"] = Added
  <2>1. Drained(id)
    BY <1>4 DEF IInv, Ordered, BuffersUsed, InSection, At
  <2>2. CountStores(id) = {}
    BY <2>1 DEF CountStores, Drained
  <2> QED
    BY <1>1, <1>3, <2>1, <2>2 DEF CountInv
<1> QED
  BY <1>1, <1>2, <1>3, <1>4

LEMMA CountRead ==
  ASSUME IInv, CountInv, Ordered, NEW id \in Ids, Read(id)
  PROVE  CountInv'
<1>1. /\ Typed /\ pc[id] = "load" /\ pc' = [pc EXCEPT ![id] = "store"]
      /\ reg' = [reg EXCEPT ![id] = Loaded(id, "count")]
      /\ UNCHANGED <<program, buffered, mem, buffer, left>>
  BY DEF IInv, Read, At, Goto, machine
<1>2. Drained(id) /\ mem["count"] = Added
  BY <1>1, Alone DEF InSection, At
<1>3. reg'[id] = Added /\ \A i \in Ids \ {id} : reg'[i] = reg[i] /\ pc'[i] = pc[i]
  BY <1>1, <1>2 DEF Loaded, Drained, Typed
<1>4. pc'[id] = "store" /\ \A i \in Ids : (At(i, "unlock")' <=> At(i, "unlock"))
  BY <1>1, <1>3 DEF At, Typed
<1>5. Added' = Added
  BY <1>1, <1>4 DEF Added
<1>6. \A i \in Ids : CountStores(i)' = CountStores(i) /\ (Holds(i) => Holds(i)')
  BY <1>1, <1>3, <1>4 DEF CountStores, Holds, InSection, Leaving
<1> QED
  BY <1>1, <1>3, <1>4, <1>5, <1>6 DEF CountInv, Ordered, At, Drained

LEMMA CountWrite ==
  ASSUME IInv, CountInv, Ordered, NEW id \in Ids, Write(id)
  PROVE  CountInv'
<1> DEFINE e == [word |-> "count", value |-> reg[id] + 1]
<1>1. /\ Typed /\ At(id, "store") /\ pc' = [pc EXCEPT ![id] = "unlock"]
      /\ Store(id, "count", reg[id] + 1)
      /\ UNCHANGED <<program, buffered, reg, left>>
  BY DEF IInv, Write, Goto
<1>2. /\ ~InSection(Other(id)) /\ Other(id) \in Ids /\ Ids = {id, Other(id)} /\ id # Other(id)
      /\ CountStores(Other(id)) = {} /\ Drained(id) /\ reg[id] = Added
  BY <1>1, Alone, OtherThread DEF InSection, At, CountInv, Holds
<1>3. pc'[id] = "unlock" /\ pc'[Other(id)] = pc[Other(id)]
  BY <1>1, <1>2 DEF Typed
<1>4. left[0] \in Int /\ left[1] \in Int /\ Inc \in Int
  BY IncAssumption DEF CountInv, Ids
<1>5. Added' = Added + 1
  <2>1. ~\E i \in Ids : At(i, "unlock")
    BY <1>1, <1>2 DEF At, InSection
  <2>2. \E i \in Ids : At(i, "unlock")'
    BY <1>3 DEF At
  <2> QED
    BY <1>1, <1>4, <2>1, <2>2 DEF Added
<1>6. /\ \A i \in Ids : ~At(i, "store")'
      /\ \A i \in Ids : At(i, "done")' => i = Other(id) /\ At(i, "done")
      /\ Holds(id)'
  BY <1>2, <1>3 DEF At, InSection, Holds
<1>7. /\ buffer'[Other(id)] = buffer[Other(id)] /\ CountStores(Other(id))' = {}
      /\ \/ CountStores(id)' = {} /\ mem'["count"] = Added + 1
         \/ CountStores(id)' = {1} /\ buffer'[id][1].value = Added + 1
  <2>1. CASE buffered
    <3>1. buffer' = [buffer EXCEPT ![id] = Append(buffer[id], e)]
      BY <1>1, <2>1 DEF Store
    <3>2. buffer'[id] = <<e>> /\ buffer'[Other(id)] = buffer[Other(id)]
      BY <1>1, <1>2, <3>1 DEF Typed, Drained
    <3>3. CountStores(id)' = {1} /\ buffer'[id][1].value = Added + 1
      BY <1>2, <3>2 DEF CountStores
    <3> QED
      BY <1>2, <3>2, <3>3 DEF CountStores
  <2>2. CASE ~buffered
    <3>1. buffer' = buffer /\ mem' = [mem EXCEPT !["count"] = reg[id] + 1]
      BY <1>1, <2>2 DEF Store
    <3>2. mem'["count"] = Added + 1
      BY <1>1, <1>2, <3>1 DEF Typed, Words
    <3> QED
      BY <1>2, <3>1, <3>2 DEF CountStores, Drained
  <2> QED
    BY <2>1, <2>2
<1>8. \A i \in Ids : \A k \in CountStores(i)' : buffer'[i][k].value = Added' /\ Holds(i)'
  BY <1>2, <1>5, <1>6, <1>7
<1>9. (\A i \in Ids : CountStores(i)' = {}) => mem'["count"] = Added'
  BY <1>5, <1>7
<1>10. \A i \in Ids : At(i, "done")' => left'[i] = 0 /\ Drained(i)'
  BY <1>1, <1>6, <1>7 DEF CountInv, Drained
<1> QED
  BY <1>1, <1>6, <1>8, <1>9, <1>10 DEF CountInv

LEMMA CountUnlock ==
  ASSUME IInv, CountInv, Ordered, NEW id \in Ids, Unlock(id)
  PROVE  CountInv'
<1> DEFINE w == IF program = "peterson" THEN Request(id) ELSE "mutex"
           e == [word |-> w, value |-> 0]
<1>1. /\ Typed /\ At(id, "unlock") /\ Store(id, w, 0)
      /\ \E p \in {"lock", "wake"} : pc' = [pc EXCEPT ![id] = p]
      /\ left' = [left EXCEPT ![id] = left[id] - 1]
      /\ UNCHANGED <<program, buffered, reg>>
  BY DEF IInv, Unlock, Goto
<1>2. /\ ~InSection(Other(id)) /\ Other(id) \in Ids /\ Ids = {id, Other(id)} /\ id # Other(id)
      /\ CountStores(Other(id)) = {}
  BY <1>1, Alone, OtherThread DEF InSection, At, Holds
<1>3. pc'[id] \in {"lock", "wake"} /\ pc'[Other(id)] = pc[Other(id)]
  BY <1>1, <1>2 DEF Typed
<1>4. left \in [Ids -> Int] /\ left' \in [Ids -> Int] /\ Inc \in Int /\ Ids = {0, 1}
  BY <1>1, IncAssumption DEF CountInv, Ids
<1>5. Added' = Added
  <2>1. \E i \in Ids : At(i, "unlock")
    BY <1>1
  <2>2. ~\E i \in Ids : At(i, "unlock")'
    BY <1>2, <1>3 DEF At, InSection
  <2>3. left'[0] + left'[1] = left[0] + left[1] - 1
    BY <1>1, <1>4
  <2>4. left[0] \in Int /\ left[1] \in Int /\ left'[0] \in Int /\ left'[1] \in Int
    BY <1>4
  <2>5. Added = 2 * Inc - left[0] - left[1] + 1
    BY <2>1 DEF Added
  <2>6. Added' = 2 * Inc - left'[0] - left'[1] + 0
    BY <2>2 DEF Added
  <2> QED
    BY <1>4, <2>3, <2>4, <2>5, <2>6
<1>6. /\ \A i \in Ids : ~At(i, "store")'
      /\ \A i \in Ids : At(i, "done")' => i = Other(id) /\ At(i, "done") /\ left'[i] = left[i]
  BY <1>1, <1>2, <1>3, <1>4 DEF At, InSection
<1>7. w # "count" /\ mem'["count"] = mem["count"]
  <2>1. w # "count"
    BY DEF Request
  <2> QED
    BY <1>1, <2>1 DEF Store, Typed, Words
<1>8. /\ buffer'[Other(id)] = buffer[Other(id)] /\ CountStores(Other(id))' = {}
      /\ CountStores(id)' = CountStores(id)
      /\ \A k \in CountStores(id) : buffer'[id][k] = buffer[id][k] /\ Holds(id)'
  <2>1. CASE buffered
    <3>1. buffer' = [buffer EXCEPT ![id] = Append(buffer[id], e)] /\ program # "peterson"
      BY <1>1, <2>1 DEF Store, Ordered
    <3>2. buffer[id] \in Seq(Stores) /\ e \in Stores
      BY <1>1 DEF Typed, Stores, Words, Request
    <3>3. buffer'[id] = Append(buffer[id], e) /\ buffer'[Other(id)] = buffer[Other(id)]
      BY <1>1, <1>2, <3>1 DEF Typed
    <3>4. CountStores(id)' = CountStores(id) /\ \A k \in CountStores(id) : buffer'[id][k] = buffer[id][k]
      <4>1. /\ Append(buffer[id], e)[Len(buffer[id]) + 1].word # "count"
            /\ \A i \in DOMAIN buffer[id] : /\ i \in DOMAIN Append(buffer[id], e)
                                           /\ Append(buffer[id], e)[i] = buffer[id][i]
            /\ \A i \in DOMAIN Append(buffer[id], e) :
                  i = Len(buffer[id]) + 1 \/ i \in DOMAIN buffer[id]
        <5>1. Append(buffer[id], e)[Len(buffer[id]) + 1] = e
          BY <3>2, Appended
        <5>2. e.word # "count"
          BY <1>7
        <5> HIDE DEF e
        <5> QED
          BY <3>2, <5>1, <5>2, Appended
      <4> HIDE DEF e
      <4> QED
        BY <3>3, <4>1 DEF CountStores
    <3>5. Leaving(id)'
      <4>1. Len(buffer[id]) + 1 \in DOMAIN Append(buffer[id], e)
        BY <3>2
      <4>2. Append(buffer[id], e)[Len(buffer[id]) + 1].word = "mutex"
        BY <3>1, <3>2
      <4> QED
        BY <3>3, <4>1, <4>2 DEF Leaving
    <3> QED
      BY <1>2, <3>3, <3>4, <3>5 DEF CountStores, Holds
  <2>2. CASE ~buffered
    <3>1. buffer' = buffer /\ Drained(id)
      BY <1>1, <2>2 DEF Store, IInv, Ordered, BuffersUsed
    <3> QED
      BY <1>2, <3>1 DEF CountStores, Drained
  <2> QED
    BY <2>1, <2>2
<1>9. \A i \in Ids : \A k \in CountStores(i)' : buffer'[i][k].value = Added' /\ Holds(i)'
  BY <1>2, <1>5, <1>8 DEF CountInv
<1>10. (\A i \in Ids : CountStores(i)' = {}) => mem'["count"] = Added'
  BY <1>2, <1>5, <1>7, <1>8 DEF CountInv
<1>11. \A i \in Ids : At(i, "done")' => left'[i] = 0 /\ Drained(i)'
  BY <1>6, <1>8 DEF CountInv, Drained
<1> QED
  BY <1>4, <1>6, <1>9, <1>10, <1>11 DEF CountInv

(* A store leaves the buffer: one to count brings the memory up to date;   *)
(* one to mutex is the last, so that no store to count is left behind it.  *)
LEMMA CountFlush ==
  ASSUME IInv, CountInv, Ordered, NEW id \in Ids, Flush(id)
  PROVE  CountInv'
<1> DEFINE s == buffer[id]
<1>1. /\ s # <<>> /\ mem' = [mem EXCEPT ![Head(s).word] = Head(s).value]
      /\ buffer' = [buffer EXCEPT ![id] = Tail(s)]
      /\ UNCHANGED <<program, buffered, pc, reg, left>>
  BY DEF Flush, Drained
<1>2. /\ Typed /\ OneHolder /\ s \in Seq(Stores) /\ program # "peterson"
  BY <1>1 DEF IInv, Ordered, Typed, BuffersUsed, Drained
<1>3. /\ Head(s) \in Stores /\ Head(s) = s[1] /\ 1 \in DOMAIN s
      /\ Len(s) \in Nat \ {0} /\ Len(Tail(s)) = Len(s) - 1 /\ Tail(s) \in Seq(Stores)
      /\ \A i \in DOMAIN Tail(s) : i + 1 \in DOMAIN s /\ Tail(s)[i] = s[i + 1]
  BY <1>1, <1>2, Shifted
<1>4. \A i \in DOMAIN s : i = 1 \/ (i - 1 \in DOMAIN Tail(s) /\ Tail(s)[i - 1] = s[i])
  BY <1>2, <1>3
<1>5. /\ buffer'[id] = Tail(s)
      /\ \A i \in Ids \ {id} : buffer'[i] = buffer[i] /\ CountStores(i)' = CountStores(i)
                               /\ (Holds(i) => Holds(i)')
  BY <1>1, <1>2 DEF Typed, CountStores, Holds, InSection, Leaving
<1>6. Added' = Added
  BY <1>1 DEF Added, At
<1>7. \A k \in CountStores(id)' : k + 1 \in CountStores(id) /\ Tail(s)[k] = s[k + 1]
  BY <1>3, <1>5 DEF CountStores
<1>8. \A k \in CountStores(id)' : buffer'[id][k].value = Added' /\ Holds(id)'
  <2> SUFFICES ASSUME NEW k \in CountStores(id)' PROVE Tail(s)[k].value = Added /\ Holds(id)'
    BY <1>5, <1>6
  <2>1. k + 1 \in CountStores(id) /\ Tail(s)[k] = s[k + 1] /\ k \in DOMAIN Tail(s)
    BY <1>5, <1>7 DEF CountStores
  <2>2. s[k + 1].value = Added /\ Holds(id)
    BY <2>1 DEF CountInv
  <2>3. CASE InSection(id)
    BY <1>1, <2>1, <2>2, <2>3 DEF Holds, InSection
  <2>4. CASE Leaving(id)
    <3>1. PICK i \in DOMAIN s : s[i].word = "mutex"
      BY <2>4 DEF Leaving
    <3>2. i = Len(s)
      BY <1>2, <3>1 DEF OneHolder
    <3>3. i # 1
      BY <1>3, <2>1, <3>2
    <3>4. i - 1 \in DOMAIN Tail(s) /\ Tail(s)[i - 1].word = "mutex"
      BY <1>4, <3>1, <3>3
    <3> QED
      BY <1>5, <2>1, <2>2, <3>4 DEF Holds, Leaving
  <2> QED
    BY <2>1, <2>2, <2>3, <2>4 DEF Holds
<1>9. ASSUME \A i \in Ids : CountStores(i)' = {} PROVE mem'["count"] = Added'
  <2>1. CASE s[1].word = "count"
    <3>1. 1 \in CountStores(id) /\ s[1].value = Added
      BY <1>3, <2>1 DEF CountStores, CountInv
    <3> QED
      BY <1>1, <1>2, <1>3, <1>6, <2>1, <3>1 DEF Typed, Words
  <2>2. CASE s[1].word # "count"
    <3>1. CountStores(id) = {}
      <4> SUFFICES ASSUME NEW i \in CountStores(id) PROVE FALSE
        OBVIOUS
      <4>1. i \in DOMAIN s /\ s[i].word = "count" /\ i # 1
        BY <2>2 DEF CountStores
      <4>2. i - 1 \in DOMAIN Tail(s) /\ Tail(s)[i - 1].word = "count"
        BY <1>4, <4>1
      <4>3. CountStores(id)' = {}
        BY <1>9
      <4> QED
        BY <1>5, <4>2, <4>3 DEF CountStores
    <3>2. \A i \in Ids : CountStores(i) = {}
      BY <1>5, <1>9, <3>1
    <3>3. mem["count"] = Added
      BY <3>2 DEF CountInv
    <3> QED
      BY <1>1, <1>2, <1>3, <1>6, <2>2, <3>3 DEF Typed, Words
  <2> QED
    BY <2>1, <2>2
<1>10. \A i \in Ids : At(i, "done") => Drained(i)'
  BY <1>1, <1>5 DEF CountInv, Drained
<1>11. \A i \in Ids : \A k \in CountStores(i)' : buffer'[i][k].value = Added' /\ Holds(i)'
  <2> SUFFICES ASSUME NEW i \in Ids, NEW k \in CountStores(i)'
               PROVE  buffer'[i][k].value = Added' /\ Holds(i)'
    OBVIOUS
  <2>1. CASE i = id
    BY <1>8, <2>1
  <2>2. CASE i # id
    <3>1. k \in CountStores(i) /\ buffer'[i] = buffer[i] /\ (Holds(i) => Holds(i)')
      BY <1>5, <2>2
    <3>2. buffer[i][k].value = Added /\ Holds(i)
      BY <3>1 DEF CountInv
    <3> QED
      BY <1>6, <3>1, <3>2
  <2> QED
    BY <2>1, <2>2
<1> QED
  BY <1>1, <1>6, <1>9, <1>10, <1>11 DEF CountInv, At

(* A thread asks, is refused, gets the lock, wakes the other or ends.      *)
LEMMA CountOther ==
  ASSUME IInv, CountInv, Ordered, NEW id \in Ids,
         \/ SetRequest(id) \/ GiveTurn(id) \/ AskRequest(id) \/ AskTurn(id)
         \/ Try(id) \/ FutexWait(id) \/ FutexWake(id) \/ Return(id)
  PROVE  CountInv'
<1>1. /\ UNCHANGED <<program, buffered, left, reg>>
      /\ pc[id] \in {"lock", "turn", "askRequest", "askTurn", "wait", "wake"}
  BY DEF SetRequest, GiveTurn, AskRequest, AskTurn, Try, FutexWait, FutexWake, Return, At
<1>2. Typed /\ pc \in [Ids -> Places]
  BY DEF IInv, Typed
<1>3. \/ \E p \in {"turn", "askRequest", "askTurn", "load", "lock", "wait", "asleep"} :
           pc' = [pc EXCEPT ![id] = p]
      \/ pc' = [i \in Ids |-> IF i = id \/ At(i, "asleep") THEN "lock" ELSE pc[i]]
      \/ pc' = [pc EXCEPT ![id] = "done"] /\ left[id] = 0 /\ Drained(id)
  BY DEF SetRequest, GiveTurn, AskRequest, AskTurn, Try, FutexWait, FutexWake, Return, Enter, Goto
<1>4. /\ pc' \in [Ids -> Places]
      /\ \A i \in Ids : pc'[i] = pc[i] \/ (pc[i] \in {"lock", "turn", "askRequest", "askTurn", "wait", "wake", "asleep"}
                                           /\ pc'[i] \notin {"store", "unlock"})
      /\ \A i \in Ids : pc'[i] = "done" => pc[i] = "done" \/ (left[i] = 0 /\ Drained(i))
  BY <1>1, <1>2, <1>3 DEF Places, At
<1>5. \A i \in Ids : /\ At(i, "unlock")' <=> At(i, "unlock")
                     /\ At(i, "store")' => At(i, "store")
                     /\ InSection(i) => InSection(i)'
                     /\ At(i, "done")' => At(i, "done") \/ (left[i] = 0 /\ Drained(i))
  BY <1>4 DEF At, InSection
<1>6. buffer' = buffer /\ mem'["count"] = mem["count"]
  <2>1. CASE SetRequest(id) \/ GiveTurn(id)
    <3>1. program = "peterson"
      BY <2>1 DEF SetRequest, GiveTurn, At, IInv, OneHolder, Ordered
    <3>2. \E w \in Words \ {"count"} : \E v \in Int : Store(id, w, v)
      BY <2>1, OtherThread DEF SetRequest, GiveTurn, Request, Words, Ids
    <3>3. PICK w \in Words \ {"count"} : \E v \in Int : Store(id, w, v)
      BY <3>2
    <3>4. buffer' = buffer /\ \E v \in Int : mem' = [mem EXCEPT ![w] = v]
      BY <1>1, <3>1, <3>3 DEF Ordered, Store
    <3> QED
      BY <1>2, <3>4 DEF Typed, Words
  <2>2. CASE ~(SetRequest(id) \/ GiveTurn(id))
    BY <1>2, <2>2 DEF AskRequest, AskTurn, Try, FutexWait, FutexWake, Return, machine, Typed, Words
  <2> QED
    BY <2>1, <2>2
<1>7. \A i \in Ids : Holds(i) => Holds(i)'
  BY <1>5, <1>6 DEF Holds, Leaving
<1> QED
  BY <1>1, <1>2, <1>4, <1>5, <1>6, <1>7, CountIdle

LEMMA CountNext == IInv /\ CountInv /\ [Next]_vars => CountInv'
<1> SUFFICES ASSUME IInv, CountInv, [Next]_vars PROVE CountInv'
  OBVIOUS
<1>1. CASE UNCHANGED vars
  BY <1>1 DEF vars, CountInv, CountStores, Added, At, Drained, Ordered, Holds, InSection, Leaving
<1>2. ASSUME NEW id \in Ids, Step(id) \/ Flush(id) PROVE CountInv'
  <2>1. UNCHANGED <<program, buffered>>
    BY <1>2 DEF Step, Flush, SetRequest, GiveTurn, AskRequest, AskTurn, Try, FutexWait,
                FutexWake, Read, Write, Unlock, Return
  <2>2. SUFFICES ASSUME Ordered PROVE CountInv'
    BY <2>1 DEF CountInv, Ordered
  <2>3. CASE Read(id) \/ Write(id) \/ Unlock(id)
    BY <2>2, <2>3, CountRead, CountWrite, CountUnlock
  <2>4. CASE Flush(id)
    BY <2>2, <2>4, CountFlush
  <2> QED
    BY <1>2, <2>2, <2>3, <2>4, CountOther DEF Step
<1> QED
  BY <1>1, <1>2 DEF Next

(* main prints twice Inc: no addition is lost although the last store of   *)
(* the holder may be in its buffer when the next gets the lock.            *)
THEOREM LocksCount == Spec => []CountExact
<1>1. CountInv => CountExact
  <2> SUFFICES ASSUME CountInv, Ended, Ordered PROVE mem["count"] = 2 * Inc
    BY DEF CountExact
  <2>1. \A id \in Ids : At(id, "done") /\ left[id] = 0 /\ Drained(id)
    BY DEF Ended, CountInv
  <2>2. \A id \in Ids : CountStores(id) = {} /\ ~At(id, "unlock")
    BY <2>1 DEF CountStores, Drained, At
  <2>3. mem["count"] = Added
    BY <2>2 DEF CountInv
  <2>4. Added = 2 * Inc - 0 - 0 + 0
    BY <2>1, <2>2 DEF Added, Ids
  <2> QED
    BY <2>3, <2>4, IncAssumption
<1> QED
  BY InitHolds, NextHolds, CountInit, CountNext, <1>1, PTL DEF Spec
=============================================================================
