--------------------------------- MODULE Heap ---------------------------------
(***************************************************************************)
(* The allocators of assignments/ass2 under the loop of bench.c:           *)
(*   mylloc.c  takes everything from sbrk and ignores free;                *)
(*   mhysa.c   keeps freed chunks in a list, takes the first that is large *)
(*             enough, whole, and only then goes to sbrk;                  *)
(* over the sbrk of the C library or the one in sbrk.c.                    *)
(*                                                                         *)
(* The program has one thread.  The list is walked and changed within one  *)
(* call and is a sequence here.  An address is a distance from the start   *)
(* of the heap.                                                            *)
(***************************************************************************)
EXTENDS Integers, Sequences, FiniteSets, SequencesExt

CONSTANTS Positions,   \* of the buffer of bench.c
          Sizes,       \* what request() may return
          HEADER,      \* sizeof(struct chunk)
          MAX_HEAP,    \* where sbrk ends
          Allocators, Breaks   \* "mhysa", "mylloc"; "libc", "sbrk"

Empty == -1   \* the null pointer, in the buffer of bench.c

ASSUME HeapAssumption ==
  /\ Sizes \subseteq Nat \ {0}
  /\ HEADER \in Nat /\ MAX_HEAP \in Nat
  /\ Empty \notin Positions /\ IsFiniteSet(Positions)
  /\ Allocators \subseteq {"mhysa", "mylloc"} /\ Breaks \subseteq {"libc", "sbrk"}

VARIABLES allocator, break,   \* the program that was linked
          brkp,      \* the break
          size,      \* of every chunk, by its address
          flist,     \* freed chunks
          held,      \* buffer: a chunk or Empty at each position
          asked,     \* history: the size that was asked for
          index,     \* the position the loop is at, Empty between rounds
          outcome    \* "running", "ended", "failed" or "segv"

heap == <<allocator, break, brkp, size, flist, held, asked, index, outcome>>

HeapInit ==
  /\ allocator \in Allocators /\ break \in Breaks
  /\ brkp = 0 /\ size = <<>> /\ flist = <<>>
  /\ held = [p \in Positions |-> Empty]
  /\ asked = [p \in Positions |-> 0]
  /\ index = Empty
  /\ outcome = "running"
-----------------------------------------------------------------------------
Header == IF allocator = "mhysa" THEN HEADER ELSE 0

Chunks == DOMAIN size
End(c) == c + Header + size[c]

(* bench.c: a position is picked, and freed if it is taken.                *)
Pick(p) ==
  /\ outcome = "running" /\ index = Empty
  /\ index' = p
  /\ flist' = IF held[p] # Empty /\ allocator = "mhysa" THEN <<held[p]>> \o flist ELSE flist
  /\ UNCHANGED <<allocator, break, brkp, size, held, asked, outcome>>

(* malloc(n) returned c, which goes to the position.                       *)
Give(c, n) ==
  /\ held' = [held EXCEPT ![index] = c]
  /\ asked' = [asked EXCEPT ![index] = n]
  /\ index' = Empty

(* A plausible slip: the walk ends before the last chunk.                  *)
FitsAtButLast(n) == {k \in 1 .. Len(flist) - 1 : size[flist[k]] >= n}

(* Where in the list chunks are that are large enough.                     *)
FitsAt(n) == {k \in 1 .. Len(flist) : size[flist[k]] >= n}

(* A plausible slip: the size of the header is taken for usable.           *)
FirstFitGenerous(n) ==
  /\ outcome = "running" /\ index # Empty
  /\ \E k \in 1 .. Len(flist) :
       /\ size[flist[k]] + HEADER >= n
       /\ \A j \in 1 .. k - 1 : size[flist[j]] + HEADER < n
       /\ flist' = RemoveAt(flist, k)
       /\ Give(flist[k], n)
  /\ UNCHANGED <<allocator, break, brkp, size, outcome>>

(* mhysa.c: the first chunk of the list that is large enough is unlinked.  *)
FirstFit(n) ==
  /\ outcome = "running" /\ index # Empty
  /\ \E k \in FitsAt(n) :
       /\ \A j \in FitsAt(n) : k <= j
       /\ flist' = RemoveAt(flist, k)
       /\ Give(flist[k], n)
  /\ UNCHANGED <<allocator, break, brkp, size, outcome>>

(* No chunk will do: sbrk(n + Header) is called.                           *)
Extends(n) == outcome = "running" /\ index # Empty /\ FitsAt(n) = {}

Top(n) == brkp + Header + n

(* sbrk of sbrk.c wants room to spare, the C library does not.             *)
Granted(n) == IF break = "sbrk" THEN Top(n) < MAX_HEAP ELSE Top(n) <= MAX_HEAP

(* sbrk succeeds: a new chunk.                                             *)
Extend(n) ==
  /\ Extends(n) /\ Granted(n)
  /\ brkp' = Top(n)
  /\ size' = [c \in Chunks \cup {brkp} |-> IF c = brkp THEN n ELSE size[c]]
  /\ Give(brkp, n)
  /\ UNCHANGED <<allocator, break, flist, outcome>>

(* sbrk fails: the one of the C library with -1, the break unmoved; sbrk.c *)
(* with a null pointer, the break beyond the end.                          *)
MovedAnyway(n) == IF break = "sbrk" THEN Top(n) ELSE brkp

(* malloc returns a null pointer and bench.c gives up, unless it is mhysa  *)
(* that got a null pointer: it expects -1, and writes a header there.      *)
Refused == IF allocator = "mhysa" /\ break = "sbrk" THEN "segv" ELSE "failed"

Exhausted(n) ==
  /\ Extends(n) /\ ~Granted(n)
  /\ brkp' = MovedAnyway(n)
  /\ outcome' = Refused
  /\ UNCHANGED <<allocator, break, size, flist, held, asked, index>>

(* bench.c has done its rounds.                                            *)
EndRounds ==
  /\ outcome = "running" /\ index = Empty
  /\ outcome' = "ended"
  /\ UNCHANGED <<allocator, break, brkp, size, flist, held, asked, index>>

HeapStep ==
  \/ \E p \in Positions : Pick(p)
  \/ \E n \in Sizes : FirstFit(n) \/ Extend(n) \/ Exhausted(n)
  \/ EndRounds

HeapEnded == outcome # "running"

HeapNext == HeapStep \/ (HeapEnded /\ UNCHANGED heap)

HeapSpec == HeapInit /\ [][HeapNext]_heap
-----------------------------------------------------------------------------
(* The positions whose chunk bench.c may use: not the one just freed.      *)
InUse == {p \in Positions : held[p] # Empty /\ p # index}

Usable(p) == held[p] + Header .. held[p] + Header + asked[p] - 1

(* The bytes that bench.c was given at different positions are different,  *)
(* lie below the break and hold no header, no matter in what order chunks  *)
(* of different sizes were freed and found again.  Every chunk of mhysa.c  *)
(* is in use or in the list, once, and they lie one behind the other up to *)
(* the break: no memory is ever lost (malloc, free).                       *)
HeapIntact ==
  /\ \A p \in InUse :
       /\ held[p] + Header + asked[p] <= End(held[p]) /\ End(held[p]) <= MAX_HEAP
       /\ \A q \in InUse \ {p} : Usable(p) \cap Usable(q) = {}
       /\ \A c \in Chunks : Usable(p) \cap c .. c + Header - 1 = {}
  /\ allocator = "mhysa" =>
       /\ IsInjective(flist)
       /\ Chunks = ToSet(flist) \cup {held[p] : p \in InUse}
       /\ \A p \in InUse : ~Contains(flist, held[p])
       /\ outcome # "segv" => \A c \in Chunks : End(c) \in Chunks \cup {brkp}

(* mhysa.c never has more chunks of a size than bench.c has positions,     *)
(* because it makes one only when all of that size are in use; so the heap *)
(* stops growing (what the output of bench.c is there to show).            *)
GrowthBounded ==
  allocator = "mhysa" =>
    \A n \in Sizes : Cardinality({c \in Chunks : size[c] = n}) <= Cardinality(Positions)

(* bench.c:36: an allocation that fails is reported.                       *)
FailureReported == outcome # "segv"
=============================================================================
