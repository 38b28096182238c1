---------------------------- MODULE BuddyAddress ----------------------------
(***************************************************************************)
(* The addresses of seminars/sem2/buddy.c and its arithmetic on them.      *)
(*                                                                         *)
(* Memory comes in pages of 2^(LEVELS-1) smallest blocks.  The address of  *)
(* a smallest block is its page and the set of the bits that are one in    *)
(* its offset, bit 0 being the bit MIN of the machine's address.  The code *)
(* finds its way among blocks with exclusive or, or, and a mask; on sets   *)
(* of bits these are symmetric difference, union and set difference.       *)
(*                                                                         *)
(* A block of level l has 2^(MIN+l) bytes and starts where the l lowest    *)
(* bits are zero.                                                          *)
(***************************************************************************)
EXTENDS Integers

CONSTANTS Pages,    \* the pages that mmap can return
          LEVELS,   \* number of block sizes
          MIN,      \* 2^MIN bytes are the smallest block
          HEADER,   \* sizeof(struct head)
          Sizes     \* the sizes asked for

Level == 0 .. (LEVELS - 1)

Top == LEVELS - 1

BlockSize(l) == 2^(MIN + l)

(* A block of level l, less its header, holds size bytes.                  *)
Fits(size, l) == size + HEADER <= BlockSize(l)

ASSUME AddressAssumption ==
  /\ LEVELS \in Nat \ {0}
  /\ Sizes \subseteq Nat \ {0}

(* balloc looks for any size in flists without asking whether a page holds *)
(* it; its callers ask for 4000 bytes at most (rand.c:4, buddy.c:321).     *)
ASSUME SizesFit == \A size \in Sizes : \E l \in Level : Fits(size, l)

Addr == [page : Pages, bits : SUBSET (0 .. (LEVELS - 2))]

(* The first address of a page.                                            *)
PageStart(p) == [page |-> p, bits |-> {}]
-----------------------------------------------------------------------------
(* Level l has the block at a starting at a multiple of its size.          *)
Aligned(a, l) == \A i \in a.bits : i >= l

(* The address x lies in the block of level l at a.                        *)
Within(x, a, l) ==
  /\ x.page = a.page
  /\ {i \in x.bits : i >= l} = a.bits

Overlap(a, k, b, l) == \E x \in Addr : Within(x, a, k) /\ Within(x, b, l)
-----------------------------------------------------------------------------
(* buddy: the other half of the block of level l + 1 around the block at a. *)
Buddy(a, l) ==
  [a EXCEPT !.bits = IF l \in a.bits THEN a.bits \ {l} ELSE a.bits \cup {l}]

(* split: the second half of the block of level l at a.                    *)
Split(a, l) == [a EXCEPT !.bits = a.bits \cup {l - 1}]

(* primary: the first half of the block of level l + 1 around a.           *)
Primary(a, l) == [a EXCEPT !.bits = {i \in a.bits : i > l}]

(* Mutant: the header is forgotten.                                        *)
LevelOfBare(size) ==
  CHOOSE l \in Level :
    /\ size <= BlockSize(l)
    /\ \A k \in Level : k < l => size > BlockSize(k)

(* level: the first level whose blocks hold size and a header.             *)
LevelOf(size) ==
  CHOOSE l \in Level :
    /\ Fits(size, l)
    /\ \A k \in Level : k < l => ~ Fits(size, k)
=============================================================================
