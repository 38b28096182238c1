-------------------------------- MODULE Paging --------------------------------
(***************************************************************************)
(* The page replacement simulators of assignments/ass swap.  Each makes a  *)
(* sequence of references and replays it with more and more frames,        *)
(* counting the references that find their page present.  They differ in   *)
(* the page that has to go when every frame is taken:                      *)
(*   lru.c             the least recently used, found at the head of a     *)
(*                     doubly linked list;                                 *)
(*   optimal.c         the one whose next reference is farthest away;      *)
(*   sabinas/random.c  any;                                                *)
(*   random.c          any, too, but it is not evicted and the page that   *)
(*                     was asked for not brought in.                       *)
(***************************************************************************)
EXTENDS Integers, Sequences, FiniteSets

CONSTANTS Policies,    \* the simulators of this instance
          PAGES, REFS, SAMPLES,
          Referenced   \* the pages that references name in this instance

Pages == 0 .. PAGES - 1
NULL  == -1

ASSUME PagingAssumption ==
  /\ Policies \subseteq {"lru", "optimal", "sabina", "random"}
  /\ PAGES \in Nat /\ REFS \in Nat /\ SAMPLES \in Nat \ {0}
  /\ Referenced \subseteq Pages

incr == PAGES \div SAMPLES

VARIABLES policy,      \* the simulator that runs
          replaying,   \* whether it is in simulate
          seq,         \* the references
          frames, i, hits, allocated,   \* of simulate
          present,     \* pages whose entry says present
          first, last, nxt, prv,        \* the list of lru.c
          results      \* the hits that have been printed

list == <<first, last, nxt, prv>>
paging == <<policy, replaying, seq, frames, i, hits, allocated, present, list, results>>

NoLinks == [p \in Pages |-> NULL]

PagingInit ==
  /\ policy \in Policies /\ replaying = FALSE
  /\ seq = <<>> /\ frames = 0 /\ i = 0 /\ hits = 0 /\ allocated = 0
  /\ present = {} /\ first = NULL /\ last = NULL /\ nxt = NoLinks /\ prv = NoLinks
  /\ results = <<>>
-----------------------------------------------------------------------------
(* init of lru.c does not pick a page twice in a row.                      *)
Repeats(p) == policy = "lru" /\ seq # <<>> /\ seq[Len(seq)] = p

(* init: any page may be next.                                             *)
AddReference ==
  /\ Len(seq) < REFS
  /\ \E p \in Referenced : ~Repeats(p) /\ seq' = Append(seq, p)
  /\ UNCHANGED <<policy, replaying, frames, i, hits, allocated, present, list, results>>

(* clear_page_table of lru.c: no page is present, no link is left.         *)
ClearPageTable == present' = {} /\ nxt' = NoLinks /\ prv' = NoLinks

(* The loop of main goes on to more frames, and simulate begins.           *)
MoreFrames ==
  /\ Len(seq) = REFS /\ ~replaying /\ frames + incr <= PAGES
  /\ replaying' = TRUE
  /\ frames' = frames + incr
  /\ ClearPageTable
  /\ i' = 0 /\ hits' = 0 /\ allocated' = 0 /\ first' = NULL /\ last' = NULL
  /\ UNCHANGED <<policy, seq, results>>
-----------------------------------------------------------------------------
(* simulate has reference i before it.                                     *)
Simulating == replaying /\ Len(seq) = REFS /\ i < REFS

page == seq[i + 1]

Advance == i' = i + 1 /\ UNCHANGED <<policy, replaying, seq, frames, results>>

(* A plausible slip: the link back to the page before is not corrected.    *)
MoveLastOneWay ==
  /\ first' = IF first = page THEN nxt[page] ELSE first
  /\ last' = page
  /\ LET unlinked == IF first = page THEN nxt ELSE [nxt EXCEPT ![prv[page]] = nxt[page]]
     IN  nxt' = [unlinked EXCEPT ![page] = NULL, ![last] = page]
  /\ prv' = [prv EXCEPT ![page] = last]

(* simulate of lru.c: a page that is not last is unlinked and put last.    *)
MoveLast ==
  /\ first' = IF first = page THEN nxt[page] ELSE first
  /\ last' = page
  /\ LET unlinked == IF first = page THEN nxt ELSE [nxt EXCEPT ![prv[page]] = nxt[page]]
     IN  nxt' = [unlinked EXCEPT ![page] = NULL, ![last] = page]
  /\ prv' = [prv EXCEPT ![nxt[page]] = prv[page], ![page] = last]

(* The page is present.                                                    *)
Hit ==
  /\ Simulating /\ page \in present
  /\ hits' = hits + 1
  /\ IF policy = "lru" /\ nxt[page] # NULL THEN MoveLast ELSE UNCHANGED list
  /\ UNCHANGED <<allocated, present>> /\ Advance

(* lru.c: the page is linked in last, f being first in the list so far.    *)
PlaceLast(f) ==
  /\ first' = IF f = NULL THEN page ELSE f
  /\ last' = page
  /\ prv' = [prv EXCEPT ![page] = last]
  /\ nxt' = [[nxt EXCEPT ![page] = NULL] EXCEPT ![IF last # NULL THEN last ELSE page] =
                                                 IF last # NULL THEN page ELSE NULL]

(* There is a frame left.                                                  *)
Allocate ==
  /\ Simulating /\ page \notin present /\ allocated < frames
  /\ allocated' = allocated + 1
  /\ present' = present \cup {page}
  /\ IF policy = "lru" THEN PlaceLast(first) ELSE UNCHANGED list
  /\ UNCHANGED hits /\ Advance

MustEvict == Simulating /\ page \notin present /\ allocated = frames

Replace(evict) ==
  present' = (present \ {evict}) \cup {page} /\ UNCHANGED <<hits, allocated>> /\ Advance

EvictLru ==
  /\ policy = "lru" /\ MustEvict /\ first # NULL
  /\ Replace(first) /\ PlaceLast(nxt[first])

(* simulate of optimal.c: how far away the next reference to c is.  What   *)
(* it reads behind the end of seq does not matter: the loop ends there.    *)
Dist(c) ==
  LET next == {d \in 0 .. REFS - i - 1 : seq[i + d + 1] = c}
  IN  IF next = {} THEN REFS - i ELSE CHOOSE d \in next : \A e \in next : d <= e

(* A plausible slip: the nearest is taken for the farthest.                *)
CandidateNear ==
  LET near == {c \in present : \A d \in present : Dist(c) <= Dist(d)}
  IN  CHOOSE c \in near : \A d \in near : c <= d

(* optimal.c: the first page that is farther away than 0 and all before;   *)
(* without one the entry behind the table is cleared.                      *)
Candidate ==
  LET far == {c \in present : Dist(c) > 0 /\ \A d \in present : Dist(d) <= Dist(c)}
  IN  IF far = {} THEN PAGES ELSE CHOOSE c \in far : \A d \in far : c <= d

EvictOptimal ==
  /\ policy = "optimal" /\ MustEvict
  /\ Replace(Candidate) /\ UNCHANGED list

(* A plausible slip: the page comes in and none goes out.                  *)
EvictSabinaNone ==
  /\ policy = "sabina" /\ MustEvict
  /\ \E evict \in present : present' = present \cup {page}
  /\ UNCHANGED <<hits, allocated, list>> /\ Advance

(* sabinas/random.c: draw until a page is present, and replace it.         *)
EvictSabina ==
  /\ policy = "sabina" /\ MustEvict
  /\ \E evict \in present : Replace(evict)
  /\ UNCHANGED list

(* random.c: draw until a page is present.                                 *)
EvictRandom ==
  /\ policy = "random" /\ MustEvict
  /\ \E evict \in present : TRUE
  /\ UNCHANGED <<hits, allocated, present, list>> /\ Advance

(* simulate returns and main prints.                                       *)
Report ==
  /\ replaying /\ i = REFS
  /\ replaying' = FALSE
  /\ results' = Append(results, hits)
  /\ UNCHANGED <<policy, seq, frames, i, hits, allocated, present, list>>

PagingEnded == Len(seq) = REFS /\ ~replaying /\ frames + incr > PAGES

PagingStep ==
  \/ AddReference \/ MoreFrames
  \/ Hit \/ Allocate \/ EvictLru \/ EvictOptimal \/ EvictSabina \/ EvictRandom
  \/ Report

PagingNext == PagingStep \/ (PagingEnded /\ UNCHANGED paging)

PagingSpec == PagingInit /\ [][PagingNext]_paging
-----------------------------------------------------------------------------
(* When page p was last used, 0 when it was not.                           *)
LastUse(p) == LET uses == {k \in 1 .. i : seq[k] = p}
              IN  IF uses = {} THEN 0 ELSE CHOOSE k \in uses : \A j \in uses : j <= k

(* The list of lru.c holds the pages that are present in the order of      *)
(* their last use, and is linked in both directions behind its first page, *)
(* whatever stale links evicted pages have left (simulate).                *)
Recency ==
  policy = "lru" =>
    LET Older(p, q) == LastUse(p) < LastUse(q)
    IN  /\ present = {} <=> first = NULL
        /\ present = {} <=> last = NULL
        /\ first # NULL => first \in present /\ \A q \in present \ {first} : Older(first, q)
        /\ \A p \in present :
             LET later == {q \in present : Older(p, q)}
             IN  IF later = {} THEN p = last /\ nxt[p] = NULL
                 ELSE /\ nxt[p] \in later
                      /\ \A q \in later : nxt[p] = q \/ Older(nxt[p], q)
                      /\ prv[nxt[p]] = p

(* A page is present for each frame that was allocated, no more than there *)
(* are frames, and all frames are used before any page is replaced         *)
(* (allocated, entry->present and evict->present of simulate).             *)
FramesFilled ==
  /\ Cardinality(present) = allocated /\ allocated <= frames
  /\ \A k \in 1 .. i : allocated < frames => seq[k] \in present

(* Of all ways to serve the references from a set of pages and n frames,   *)
(* the most hits.                                                          *)
MostHits(n) ==
  LET Best[k \in 1 .. REFS + 1, s \in SUBSET Referenced] ==
        IF k > REFS THEN 0
        ELSE IF seq[k] \in s THEN 1 + Best[k + 1, s]
        ELSE IF Cardinality(s) < n THEN Best[k + 1, s \cup {seq[k]}]
        ELSE LET found == {Best[k + 1, (s \ {e}) \cup {seq[k]}] : e \in s}
             IN  CHOOSE h \in found : \A g \in found : g <= h
  IN  Best[1, {}]

(* optimal.c is optimal: no choice of pages to replace has more hits, and  *)
(* the page it looks for is always found (candidate in simulate).          *)
OptimalIsBest ==
  policy = "optimal" /\ results # <<>> /\ ~replaying =>
    results[Len(results)] = MostHits(frames)
=============================================================================
