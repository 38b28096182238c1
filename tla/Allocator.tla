----------------------------- MODULE Allocator -----------------------------
(***************************************************************************)
(* What an allocator of aligned blocks promises its client, with nothing   *)
(* of how it finds them: memory handed out is large enough, and is nobody  *)
(* else's and unchanged until it is given back.                            *)
(***************************************************************************)
EXTENDS BuddyAddress

VARIABLE inUse      \* what the client holds: where, what level, for what size

Grant == [at : Addr, level : Level, size : Sizes]

AllocatorInit == inUse = {}

Allocate(g) ==
  /\ Fits(g.size, g.level)
  /\ Aligned(g.at, g.level)
  /\ \A h \in inUse : ~ Overlap(g.at, g.level, h.at, h.level)
  /\ inUse' = inUse \cup {g}

Release(g) ==
  /\ g \in inUse
  /\ inUse' = inUse \ {g}

AllocatorNext == \E g \in Grant : Allocate(g) \/ Release(g)

AllocatorSpec == AllocatorInit /\ [][AllocatorNext]_inUse
=============================================================================
