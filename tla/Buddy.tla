-------------------------------- MODULE Buddy --------------------------------
(***************************************************************************)
(* The buddy allocator of seminars/sem2/buddy.c, driven by an arbitrary    *)
(* client that gives back what it got, once.                               *)
(*                                                                         *)
(* mem.head[a] is the struct head at the address a; status "None" says     *)
(* that no block starts there, so that what the memory holds belongs to    *)
(* the block around it.  That the code never reads such a header is one of *)
(* the things to show.  mem.flists holds the heads of the free lists.      *)
(*                                                                         *)
(* The program has one thread.  A call of balloc or bfree is a sequence of *)
(* steps, one for each activation of split_up and merge; call says which   *)
(* of them comes next, and no other call begins before it has returned.    *)
(*                                                                         *)
(* munmap of a page of the process succeeds; mmap may find no page left.   *)
(*                                                                         *)
(* hide and magic add and subtract the size of the header: the client's    *)
(* pointer is represented by the address of its block.                     *)
(***************************************************************************)
EXTENDS BuddyAddress, FiniteSets

CONSTANTS MAX_PAGES,   \* pages beyond this number are given back
          Null         \* the null pointer

ASSUME BuddyAssumption ==
  /\ MAX_PAGES \in Nat
  /\ Null \notin Addr

VARIABLES mem,               \* the headers and the heads of the free lists
          mapped,            \* the pages of the process
          NUM_ALLOC_PAGES,   \* how many the code believes there are
          held,              \* history: the size of what the client holds, or 0
          call               \* what remains to be done of the current call

vars == <<mem, mapped, NUM_ALLOC_PAGES, held, call>>

Pointer == Addr \cup {Null}

Header == [status : {"Free", "Taken", "None"}, level : Level,
           next : Pointer, prev : Pointer]

NoHeader == [status |-> "None", level |-> 0, next |-> Null, prev |-> Null]

Memory == [head : [Addr -> Header], flists : [Level -> Pointer]]

Idle == [op |-> "none"]

Splitting == [op : {"split"}, level : Level, goal : Level, size : Sizes]

Merging == [op : {"merge"}, block : Addr]

Exit == [op |-> "exit"]

TypeOK ==
  /\ mem \in Memory
  /\ mapped \subseteq Pages
  /\ NUM_ALLOC_PAGES \in Nat
  /\ held \in [Addr -> Sizes \cup {0}]
  /\ call \in {Idle, Exit} \cup Splitting \cup Merging

Init ==
  /\ mem = [head |-> [a \in Addr |-> NoHeader], flists |-> [l \in Level |-> Null]]
  /\ mapped = {}
  /\ NUM_ALLOC_PAGES = 0
  /\ held = [a \in Addr |-> 0]
  /\ call = Idle
-----------------------------------------------------------------------------
(* Mutant: the list loses all of its blocks with the first.                *)
UnlinkEmptiesList(m, b) ==
  IF m.head[b].prev = Null THEN [m EXCEPT !.flists[m.head[b].level] = Null] ELSE m

(* The free lists.  The block taken from between two others keeps its own  *)
(* links.                                                                  *)
Unlink(m, b) ==
  LET next  == m.head[b].next
      prev  == m.head[b].prev
      level == m.head[b].level
  IN  [head |-> [a \in Addr |->
         [m.head[a] EXCEPT
            !.next = IF a = prev THEN next ELSE IF a = b /\ prev = Null THEN Null ELSE @,
            !.prev = IF a = next THEN prev ELSE IF a = b /\ next = Null THEN Null ELSE @]],
       flists |-> IF prev = Null THEN [m.flists EXCEPT ![level] = next]
                  ELSE m.flists]

(* Mutant: the block that was first does not learn of its predecessor.     *)
LinkOneWay(m, b) ==
  [m EXCEPT !.head[b].next = m.flists[m.head[b].level],
            !.head[b].prev = Null,
            !.flists[m.head[b].level] = b]

Link(m, b) ==
  LET level == m.head[b].level
      first == m.flists[level]
  IN  [head |-> [a \in Addr |->
         [m.head[a] EXCEPT
            !.next = IF a = b THEN first ELSE @,
            !.prev = IF a = b THEN Null ELSE IF a = first THEN b ELSE @]],
       flists |-> [m.flists EXCEPT ![level] = b]]

SetStatus(m, b, s) == [m EXCEPT !.head[b].status = s]

Erase(m, b) == [m EXCEPT !.head[b] = NoHeader]
-----------------------------------------------------------------------------
(* reclaim_mem, of the page that the block b is, out of ps.                *)
Reclaim(m, b, ps, n) ==
  /\ mem' = Erase(m, b)
  /\ mapped' = ps \ {b.page}
  /\ NUM_ALLOC_PAGES' = n - 1

Keep(m, ps, n) ==
  /\ mem' = m
  /\ mapped' = ps
  /\ NUM_ALLOC_PAGES' = n

(* Mutant: no page is ever given back.                                     *)
InsertPageKeeps(m, b, ps, n) == Keep(Link(SetStatus(m, b, "Free"), b), ps, n)

(* insert, of a block that is a page, when there are n pages.              *)
InsertPage(m, b, ps, n) ==
  IF m.flists[Top] = Null \/ n <= MAX_PAGES
    THEN Keep(Link(SetStatus(m, b, "Free"), b), ps, n)
    ELSE Reclaim(m, b, ps, n)

(* new, of the page p, and the insert around each of its calls.            *)
InsertNew(p) ==
  LET b == PageStart(p)
      m == [mem EXCEPT !.head[b] = [NoHeader EXCEPT !.status = "Free", !.level = Top]]
  IN  InsertPage(m, b, mapped \cup {p}, NUM_ALLOC_PAGES + 1)

(* The last lines of find: the first block of the list is the one.         *)
Take(level, size) ==
  LET b == mem.flists[level]
  IN  /\ mem' = SetStatus(Unlink(mem, b), b, "Taken")
      /\ held' = [held EXCEPT ![b] = size]
      /\ call' = Idle
      /\ UNCHANGED <<mapped, NUM_ALLOC_PAGES>>

(* The levels above l with a block to split.                               *)
Larger(l) == {k \in Level : k > l /\ mem.flists[k] # Null}

(* Mutant: the block found is split one level too far.                     *)
BallocSplitTooFar(size) ==
  /\ call = Idle
  /\ mem.flists[LevelOf(size)] = Null
  /\ \E k \in Larger(LevelOf(size)) :
       /\ \A j \in Larger(LevelOf(size)) : k <= j
       /\ call' = [op |-> "split", level |-> k, goal |-> LevelOf(size) - 1, size |-> size]
  /\ UNCHANGED <<mem, mapped, NUM_ALLOC_PAGES, held>>

BallocFound(size) ==
  /\ call = Idle
  /\ mem.flists[LevelOf(size)] # Null
  /\ Take(LevelOf(size), size)

BallocSplit(size) ==
  /\ call = Idle
  /\ mem.flists[LevelOf(size)] = Null
  /\ \E k \in Larger(LevelOf(size)) :
       /\ \A j \in Larger(LevelOf(size)) : k <= j
       /\ call' = [op |-> "split", level |-> k, goal |-> LevelOf(size), size |-> size]
  /\ UNCHANGED <<mem, mapped, NUM_ALLOC_PAGES, held>>

BallocNew(size) ==
  /\ call = Idle
  /\ mem.flists[LevelOf(size)] = Null
  /\ Larger(LevelOf(size)) = {}
  /\ \E p \in Pages \ mapped : InsertNew(p)
  /\ call' = [op |-> "split", level |-> Top, goal |-> LevelOf(size), size |-> size]
  /\ UNCHANGED held

(* mmap has no page left for a call of new, by find or by the tests, and   *)
(* the program ends.                                                       *)
MmapFails ==
  /\ call = Idle
  /\ mapped = Pages
  /\ call' = Exit
  /\ UNCHANGED <<mem, mapped, NUM_ALLOC_PAGES, held>>

(* The tests put pages in before they begin.                               *)
Prepare ==
  /\ call = Idle
  /\ \E p \in Pages \ mapped : InsertNew(p)
  /\ UNCHANGED <<held, call>>

(* One activation of split_up above its goal.                              *)
SplitUp ==
  /\ call.op = "split"
  /\ call.level # call.goal
  /\ LET b    == mem.flists[call.level]
         m    == Unlink(mem, b)
         l    == m.head[b].level
         supl == Split(b, l)
         n    == [m EXCEPT !.head[supl] = [NoHeader EXCEPT !.status = "Free",
                                                           !.level = l - 1],
                           !.head[b].level = l - 1]
     IN  mem' = Link(Link(n, supl), b)
  /\ call' = [call EXCEPT !.level = @ - 1]
  /\ UNCHANGED <<mapped, NUM_ALLOC_PAGES, held>>

SplitDone ==
  /\ call.op = "split"
  /\ call.level = call.goal
  /\ Take(call.goal, call.size)

(* insert, down to its end or to its call of merge.                        *)
Insert(b) ==
  LET l == mem.head[b].level IN
  \/ /\ l = Top
     /\ InsertPage(mem, b, mapped, NUM_ALLOC_PAGES)
     /\ call' = Idle
  \/ /\ l # Top
     /\ mem.head[Buddy(b, l)].status = "Taken"
     /\ Keep(Link(SetStatus(mem, b, "Free"), b), mapped, NUM_ALLOC_PAGES)
     /\ call' = Idle
  \/ /\ l # Top
     /\ mem.head[Buddy(b, l)].status # "Taken"
     /\ Keep(mem, mapped, NUM_ALLOC_PAGES)
     /\ call' = [op |-> "merge", block |-> b]

(* bfree of a block that the client has.                                   *)
Bfree(b) ==
  /\ call = Idle
  /\ held[b] # 0
  /\ held' = [held EXCEPT ![b] = 0]
  /\ Insert(b)

(* Mutants: whether the buddy is whole, or free, is not asked.             *)
JoinableInParts(b) ==
  LET l == mem.head[b].level
  IN  l # Top /\ mem.head[Buddy(b, l)].status = "Free"

JoinableInUse(b) ==
  LET l == mem.head[b].level
  IN  l # Top /\ mem.head[Buddy(b, l)].level = l

(* merge, of a block whose buddy is free and whole: one level further up.  *)
Joinable(b) ==
  LET l == mem.head[b].level
      o == mem.head[Buddy(b, l)]
  IN  l # Top /\ o.status = "Free" /\ o.level = l

(* Mutant: the joined block is not merged in its turn.                     *)
MergeJoinOnce ==
  /\ call.op = "merge"
  /\ Joinable(call.block)
  /\ LET b    == call.block
         l    == mem.head[b].level
         prim == Primary(b, l)
         m    == Unlink(mem, Buddy(b, l))
     IN  mem' = Link(Erase([m EXCEPT !.head[prim].level = @ + 1,
                                     !.head[prim].status = "Free"],
                           Buddy(prim, l)), prim)
  /\ call' = Idle
  /\ UNCHANGED <<mapped, NUM_ALLOC_PAGES, held>>

MergeJoin ==
  /\ call.op = "merge"
  /\ Joinable(call.block)
  /\ LET b    == call.block
         l    == mem.head[b].level
         prim == Primary(b, l)
         m    == Unlink(mem, Buddy(b, l))
     IN  /\ mem' = Erase([m EXCEPT !.head[prim].level = @ + 1,
                                   !.head[prim].status = "Free"],
                         Buddy(prim, l))
         /\ call' = [call EXCEPT !.block = prim]
  /\ UNCHANGED <<mapped, NUM_ALLOC_PAGES, held>>

MergeLink ==
  /\ call.op = "merge"
  /\ ~ Joinable(call.block)
  /\ IF mem.head[call.block].level = Top /\ NUM_ALLOC_PAGES > MAX_PAGES
       THEN Reclaim(mem, call.block, mapped, NUM_ALLOC_PAGES)
       ELSE Keep(Link(mem, call.block), mapped, NUM_ALLOC_PAGES)
  /\ call' = Idle
  /\ UNCHANGED held

(* The process has ended.                                                  *)
Exited == call = Exit /\ UNCHANGED vars

Next ==
  \/ \E size \in Sizes : BallocFound(size) \/ BallocSplit(size) \/ BallocNew(size)
  \/ \E b \in Addr : Bfree(b)
  \/ MmapFails \/ Prepare \/ SplitUp \/ SplitDone \/ MergeJoin \/ MergeLink
  \/ Exited

Spec == Init /\ [][Next]_vars
-----------------------------------------------------------------------------
(* The blocks, and those that are on the free lists.                       *)
Blocks == {a \in Addr : mem.head[a].status # "None"}

InHand == IF call.op = "merge" THEN {call.block} ELSE {}

Listed == {a \in Blocks : held[a] = 0 /\ a \notin InHand}

(* The pages of the process are covered by blocks that do not overlap, and *)
(* there are no blocks elsewhere.                                          *)
Tiled ==
  \A x \in Addr :
    LET around == {a \in Blocks : Within(x, a, mem.head[a].level)}
    IN  IF x.page \in mapped THEN \E a \in Addr : around = {a} ELSE around = {}

(* buddy(block)->status is always read from a header, never from the       *)
(* memory of a client or from a page that is not there.                    *)
BuddyHasHeader ==
  \A a \in Blocks : mem.head[a].level # Top => Buddy(a, mem.head[a].level) \in Blocks

(* What the client holds is marked Taken and as large as it asked for.     *)
HeldIntact ==
  \A a \in Addr : held[a] # 0 =>
    mem.head[a].status = "Taken" /\ Fits(held[a], mem.head[a].level)

(* The links of the free lists agree in both directions, stay on a level,  *)
(* and lead to the blocks of S only.                                       *)
Linked(m, S) ==
  /\ \A l \in Level : m.flists[l] # Null =>
       /\ m.flists[l] \in S
       /\ m.head[m.flists[l]].level = l
       /\ m.head[m.flists[l]].prev = Null
  /\ \A a \in S :
       LET h == m.head[a] IN
       /\ h.next # Null => /\ h.next \in S
                           /\ m.head[h.next].level = h.level
                           /\ m.head[h.next].prev = a
       /\ h.prev = Null => m.flists[h.level] = a
       /\ h.prev # Null => /\ h.prev \in S
                           /\ m.head[h.prev].level = h.level
                           /\ m.head[h.prev].next = a

(* The free lists are made of the blocks that are neither held nor being   *)
(* merged.                                                                 *)
ListsLinked == Linked(mem, Listed)

(* Every free block can be found: a set that holds the first block of each *)
(* list and the successors of its members holds them all.                  *)
NothingLost ==
  \A S \in SUBSET Listed :
    (/\ \A l \in Level : mem.flists[l] \in S \cup {Null}
     /\ \A a \in S : mem.head[a].next \in S \cup {Null})
    => S = Listed

(* Two buddies marked Free are never both on the lists: they have been     *)
(* joined.                                                                 *)
MarkedBuddiesJoined ==
  call.op # "split" =>
  \A a \in Listed :
    LET l == mem.head[a].level
        o == Buddy(a, l)
    IN  ~ /\ l # Top
          /\ o \in Listed
          /\ mem.head[o].level = l
          /\ mem.head[a].status = "Free"
          /\ mem.head[o].status = "Free"

(* The count of pages is right, and above MAX_PAGES at most one page lies  *)
(* idle.                                                                   *)
PagesKept ==
  /\ NUM_ALLOC_PAGES = Cardinality(mapped)
  /\ NUM_ALLOC_PAGES > MAX_PAGES =>
       Cardinality({a \in Listed : mem.head[a].level = Top}) <= 1

(* buddy.c:205: merge joins blocks with their buddies to reclaim larger    *)
(* ones; when everything has been given back, every block is a page again. *)
AllFreedIsWhole ==
  (call = Idle /\ \A a \in Addr : held[a] = 0) =>
    \A a \in Blocks : mem.head[a].level = Top

(* The allocator keeps the promise of Allocator.                           *)
Abstract ==
  INSTANCE Allocator WITH
    inUse <- {[at |-> a, level |-> mem.head[a].level, size |-> held[a]] :
              a \in {x \in Addr : held[x] # 0}}

ImplementsAllocator == Abstract!AllocatorSpec
=============================================================================
