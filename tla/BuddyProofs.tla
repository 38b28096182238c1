---------------------------- MODULE BuddyProofs ----------------------------
(***************************************************************************)
(* Theorems about the buddy allocator, for any number of pages and levels. *)
(* First the arithmetic of blocks, then the free lists, then the tiling of *)
(* the pages by the blocks, and the steps of the program at the end.       *)
(***************************************************************************)
EXTENDS Buddy, FiniteSetTheorems, WellFoundedInduction, TLAPS

-----------------------------------------------------------------------------
(* The arithmetic of blocks.                                               *)

(* An address is its page and its bits.                                    *)
LEMMA SameAddr ==
  ASSUME NEW a \in Addr, NEW b \in Addr, a.page = b.page, a.bits = b.bits
  PROVE  a = b
BY DEF Addr

(* A block contains the address where it starts.                           *)
LEMMA WithinSelf ==
  ASSUME NEW a \in Addr, NEW l \in Level, Aligned(a, l)
  PROVE  Within(a, a, l)
BY DEF Within, Aligned, Addr

Bits == 0 .. (LEVELS - 2)

(* Within, bit by bit.                                                     *)
LEMMA WithinBits ==
  ASSUME NEW x \in Addr, NEW a \in Addr, NEW l
  PROVE  Within(x, a, l) <=>
           /\ x.page = a.page
           /\ \A i \in Bits : i \in a.bits <=> i \in x.bits /\ i >= l
BY DEF Within, Addr, Bits

(* Where the buddy and the primary block of a block lie.                   *)
LEMMA BuddyType ==
  ASSUME NEW a \in Addr, NEW l \in Level, l # Top, Aligned(a, l)
  PROVE  /\ Buddy(a, l) \in Addr
         /\ Primary(a, l) \in Addr
         /\ Aligned(Buddy(a, l), l)
         /\ Aligned(Primary(a, l), l + 1)
         /\ Buddy(a, l) # a
         /\ Buddy(a, l).page = a.page
         /\ Primary(a, l).page = a.page
         /\ l + 1 \in Level
BY AddressAssumption DEF Buddy, Primary, Aligned, Addr, Level, Top

(* The primary block is one of the two buddies, and its buddy is the other. *)
LEMMA PrimaryIsEither ==
  ASSUME NEW a \in Addr, NEW l \in Level, l # Top, Aligned(a, l)
  PROVE  \/ Primary(a, l) = a /\ Buddy(Primary(a, l), l) = Buddy(a, l)
         \/ Primary(a, l) = Buddy(a, l) /\ Buddy(Primary(a, l), l) = a
<1>1. CASE l \in a.bits
  <2>1. Primary(a, l).bits = Buddy(a, l).bits
    BY <1>1, AddressAssumption DEF Buddy, Primary, Aligned, Addr, Level
  <2>2. Primary(a, l) = Buddy(a, l)
    BY <2>1, BuddyType, SameAddr
  <2>3. l \notin Primary(a, l).bits /\ Primary(a, l).bits \cup {l} = a.bits
    BY <1>1, <2>1 DEF Buddy, Addr
  <2>4. Buddy(Primary(a, l), l).bits = a.bits
    BY <2>3, BuddyType DEF Buddy, Addr
  <2>5. Buddy(Primary(a, l), l) \in Addr /\ Buddy(Primary(a, l), l).page = a.page
    BY <2>2, BuddyType
  <2> QED BY <2>2, <2>4, <2>5, SameAddr
<1>2. CASE l \notin a.bits
  <2>1. Primary(a, l).bits = a.bits
    BY <1>2, AddressAssumption DEF Primary, Aligned, Addr, Level
  <2>2. Primary(a, l) = a
    BY <2>1, BuddyType, SameAddr
  <2> QED BY <2>2
<1> QED BY <1>1, <1>2

(* The buddy of the buddy is the block itself.                             *)
LEMMA BuddyTwice ==
  ASSUME NEW a \in Addr, NEW l \in Level, l # Top, Aligned(a, l)
  PROVE  Buddy(Buddy(a, l), l) = a
<1>1. /\ Buddy(a, l) \in Addr /\ Aligned(Buddy(a, l), l) /\ Buddy(a, l).page = a.page
  BY BuddyType
<1>2. Buddy(a, l).bits = IF l \in a.bits THEN a.bits \ {l} ELSE a.bits \cup {l}
  BY DEF Buddy, Addr
<1>3. /\ Buddy(Buddy(a, l), l) \in Addr /\ Buddy(Buddy(a, l), l).page = a.page
  BY <1>1, BuddyType
<1>4. Buddy(Buddy(a, l), l).bits =
        IF l \in Buddy(a, l).bits THEN Buddy(a, l).bits \ {l} ELSE Buddy(a, l).bits \cup {l}
  BY <1>1 DEF Buddy, Addr
<1>5. Buddy(Buddy(a, l), l).bits = a.bits
  BY <1>2, <1>4
<1> QED BY <1>3, <1>5, SameAddr

(* Two buddies are the halves of the block around them.                    *)
LEMMA JoinHalves ==
  ASSUME NEW a \in Addr, NEW l \in Level, l # Top, Aligned(a, l), NEW x \in Addr
  PROVE  Within(x, Primary(a, l), l + 1) <=> Within(x, a, l) \/ Within(x, Buddy(a, l), l)
<1> DEFINE Above(y) == \A i \in Bits : i > l => (i \in a.bits <=> i \in y.bits)
<1>1. /\ Primary(a, l) \in Addr /\ Primary(a, l).page = a.page
      /\ Buddy(a, l) \in Addr /\ Buddy(a, l).page = a.page
      /\ l \in Bits /\ l \in Int
      /\ \A i \in Bits : i \in Int
  BY BuddyType, AddressAssumption DEF Bits, Level, Top
<1>2. \A i \in Bits : i \in a.bits => i >= l
  BY DEF Aligned
<1>3. \A i \in Bits : i \in Primary(a, l).bits <=> i \in a.bits /\ i > l
  BY <1>1 DEF Primary, Addr
<1>4. \A i \in Bits : i \in Buddy(a, l).bits <=> IF i = l THEN i \notin a.bits ELSE i \in a.bits
  BY <1>1 DEF Buddy, Addr
<1>5. Within(x, Primary(a, l), l + 1) <=> x.page = a.page /\ Above(x)
  <2>1. \A i \in Bits : i >= l + 1 <=> i > l
    BY <1>1
  <2>2. Within(x, Primary(a, l), l + 1) <=>
          x.page = a.page /\ \A i \in Bits : i \in Primary(a, l).bits <=> i \in x.bits /\ i > l
    BY <1>1, <2>1, WithinBits
  <2> QED BY <1>3, <2>2
<1>6. Within(x, a, l) <=> x.page = a.page /\ Above(x) /\ (l \in x.bits <=> l \in a.bits)
  BY <1>1, <1>2, WithinBits
<1>7. Within(x, Buddy(a, l), l) <=> x.page = a.page /\ Above(x) /\ (l \in x.bits <=> l \notin a.bits)
  BY <1>1, <1>2, <1>4, WithinBits
<1> QED BY <1>5, <1>6, <1>7

(* Where the second half of a block lies.                                  *)
LEMMA SplitType ==
  ASSUME NEW a \in Addr, NEW l \in Level, l # 0, Aligned(a, l)
  PROVE  /\ Split(a, l) \in Addr
         /\ Split(a, l) # a
         /\ Split(a, l).page = a.page
         /\ Aligned(Split(a, l), l - 1)
         /\ Aligned(a, l - 1)
         /\ l - 1 \in Level
         /\ Within(Split(a, l), a, l)
BY AddressAssumption DEF Split, Within, Aligned, Addr, Level

(* The halves of a block are buddies.                                      *)
LEMMA SplitBuddy ==
  ASSUME NEW a \in Addr, NEW l \in Level, l # 0, Aligned(a, l)
  PROVE  l - 1 # Top /\ Buddy(Split(a, l), l - 1) = a
<1>1. /\ Split(a, l) \in Addr /\ Split(a, l).page = a.page
      /\ Aligned(Split(a, l), l - 1) /\ l - 1 \in Level /\ l \in Int
  BY SplitType, AddressAssumption DEF Level
<1>2. l - 1 # Top
  BY AddressAssumption DEF Level, Top
<1>3. Split(a, l).bits = a.bits \cup {l - 1}
  BY DEF Split, Addr
<1>4. l - 1 \notin a.bits
  BY <1>1 DEF Aligned
<1>5. Buddy(Split(a, l), l - 1).bits = Split(a, l).bits \ {l - 1}
  BY <1>1, <1>3 DEF Buddy, Addr
<1>6. Buddy(Split(a, l), l - 1).bits = a.bits
  BY <1>3, <1>4, <1>5
<1>7. Buddy(Split(a, l), l - 1) \in Addr /\ Buddy(Split(a, l), l - 1).page = a.page
  BY <1>1, <1>2, BuddyType
<1> QED BY <1>2, <1>6, <1>7, SameAddr

(* Splitting divides a block into two that have nothing in common.         *)
LEMMA SplitHalves ==
  ASSUME NEW a \in Addr, NEW l \in Level, l # 0, Aligned(a, l), NEW x \in Addr
  PROVE  /\ Within(x, a, l) <=> Within(x, a, l - 1) \/ Within(x, Split(a, l), l - 1)
         /\ ~ (Within(x, a, l - 1) /\ Within(x, Split(a, l), l - 1))
<1> DEFINE Above(y) == \A i \in Bits : i >= l => (i \in a.bits <=> i \in y.bits)
<1>1. /\ Split(a, l) \in Addr /\ Split(a, l).page = a.page
      /\ l - 1 \in Bits /\ l \in Int
      /\ \A i \in Bits : i \in Int
  BY SplitType, AddressAssumption DEF Bits, Level
<1>2. \A i \in Bits : i \in a.bits => i >= l
  BY DEF Aligned
<1>3. \A i \in Bits : i \in Split(a, l).bits <=> i \in a.bits \/ i = l - 1
  BY <1>1 DEF Split, Addr
<1>4. Within(x, a, l) <=> x.page = a.page /\ Above(x)
  BY <1>1, <1>2, WithinBits
<1>5. Within(x, a, l - 1) <=> x.page = a.page /\ Above(x) /\ l - 1 \notin x.bits
  BY <1>1, <1>2, WithinBits
<1>6. Within(x, Split(a, l), l - 1) <=> x.page = a.page /\ Above(x) /\ l - 1 \in x.bits
  BY <1>1, <1>2, <1>3, WithinBits
<1> QED BY <1>4, <1>5, <1>6

(* The level that balloc looks for exists, and is large enough.            *)
LEMMA LevelOfFits ==
  ASSUME NEW size \in Sizes
  PROVE  LevelOf(size) \in Level /\ Fits(size, LevelOf(size))
<1> DEFINE T == {l \in Level : Fits(size, l)}
<1>1. T # {} /\ T \subseteq Nat /\ \A l \in Level : l \in Nat
  BY SizesFit, AddressAssumption DEF Level
<1>2. \E l \in T : \A k \in T : ~ (<<k, l>> \in OpToRel(<, Nat))
  BY <1>1, NatLessThanWellFounded, WFMin
<1>3. \A k, l \in Nat : <<k, l>> \in OpToRel(<, Nat) <=> k < l
  BY DEF OpToRel
<1>4. \E l \in Level : Fits(size, l) /\ \A k \in Level : k < l => ~ Fits(size, k)
  BY <1>1, <1>2, <1>3
<1> QED BY <1>4 DEF LevelOf

-----------------------------------------------------------------------------
(* The free lists.                                                         *)

(* Nothing but links differs.                                              *)
SameBlocks(m, n) ==
  \A a \in Addr : /\ n.head[a].status = m.head[a].status
                  /\ n.head[a].level = m.head[a].level

(* unlink_block takes one block off the lists and leaves the others linked. *)
LEMMA UnlinkLinks ==
  ASSUME NEW m \in Memory, NEW S \in SUBSET Addr, Linked(m, S), NEW b \in S
  PROVE  /\ Unlink(m, b) \in Memory
         /\ SameBlocks(m, Unlink(m, b))
         /\ Linked(Unlink(m, b), S \ {b})
<1> DEFINE u == Unlink(m, b)
           next == m.head[b].next
           prev == m.head[b].prev
<1>1. /\ m.head \in [Addr -> Header] /\ m.flists \in [Level -> Pointer]
      /\ b \in Addr /\ m.head[b] \in Header
      /\ next \in Pointer /\ prev \in Pointer /\ m.head[b].level \in Level
      /\ Null \notin Addr
  BY BuddyAssumption DEF Memory, Header
<1>2. /\ u.flists = IF prev = Null THEN [m.flists EXCEPT ![m.head[b].level] = next]
                                   ELSE m.flists
      /\ \A a \in Addr :
           /\ u.head[a].status = m.head[a].status
           /\ u.head[a].level = m.head[a].level
           /\ u.head[a].next = IF a = prev THEN next
                               ELSE IF a = b /\ prev = Null THEN Null ELSE m.head[a].next
           /\ u.head[a].prev = IF a = next THEN prev
                               ELSE IF a = b /\ next = Null THEN Null ELSE m.head[a].prev
  <2>1. u.flists = IF prev = Null THEN [m.flists EXCEPT ![m.head[b].level] = next]
                                  ELSE m.flists
    BY DEF Unlink
  <2>2. ASSUME NEW a \in Addr
        PROVE  u.head[a] = [m.head[a] EXCEPT
                 !.next = IF a = prev THEN next ELSE IF a = b /\ prev = Null THEN Null ELSE @,
                 !.prev = IF a = next THEN prev ELSE IF a = b /\ next = Null THEN Null ELSE @]
    BY DEF Unlink
  <2>3. ASSUME NEW a \in Addr
        PROVE  LET x == IF a = prev THEN next
                        ELSE IF a = b /\ prev = Null THEN Null ELSE m.head[a].next
                   y == IF a = next THEN prev
                        ELSE IF a = b /\ next = Null THEN Null ELSE m.head[a].prev
               IN  /\ u.head[a].status = m.head[a].status
                   /\ u.head[a].level = m.head[a].level
                   /\ u.head[a].next = x
                   /\ u.head[a].prev = y
    <3> DEFINE x == IF a = prev THEN next ELSE IF a = b /\ prev = Null THEN Null ELSE m.head[a].next
               y == IF a = next THEN prev ELSE IF a = b /\ next = Null THEN Null ELSE m.head[a].prev
    <3>1. m.head[a] \in Header
      BY <1>1
    <3>2. u.head[a] = [m.head[a] EXCEPT !.next = x, !.prev = y]
      BY <2>2
    <3> HIDE DEF u, x, y
    <3>3. /\ u.head[a].status = m.head[a].status /\ u.head[a].level = m.head[a].level
          /\ u.head[a].next = x /\ u.head[a].prev = y
      BY <3>1, <3>2 DEF Header
    <3> QED BY <3>3 DEF x, y
  <2> HIDE DEF u, next, prev
  <2> QED BY <2>1, <2>3
<1>3. u \in Memory
  <2>1. u.head \in [Addr -> Header]
    <3>1. ASSUME NEW a \in Addr
          PROVE  [m.head[a] EXCEPT
                    !.next = IF a = prev THEN next ELSE IF a = b /\ prev = Null THEN Null ELSE @,
                    !.prev = IF a = next THEN prev ELSE IF a = b /\ next = Null THEN Null ELSE @]
                  \in Header
      BY <1>1 DEF Header, Pointer
    <3> QED BY <3>1 DEF Unlink
  <2>2. u.flists \in [Level -> Pointer]
    BY <1>1, <1>2
  <2>3. u = [head |-> u.head, flists |-> u.flists]
    BY DEF Unlink
  <2> QED BY <2>1, <2>2, <2>3 DEF Memory
<1>4. SameBlocks(m, u)
  BY <1>2 DEF SameBlocks
<1>5. ASSUME NEW l \in Level, u.flists[l] # Null
      PROVE  /\ u.flists[l] \in S \ {b}
             /\ u.head[u.flists[l]].level = l
             /\ u.head[u.flists[l]].prev = Null
  <2> DEFINE f == m.flists[l]
  <2>1. f # Null => f \in S /\ f \in Addr /\ m.head[f].level = l /\ m.head[f].prev = Null
    BY DEF Linked
  <2>2. /\ next # Null => next \in S /\ m.head[next].level = m.head[b].level /\ m.head[next].prev = b
        /\ prev = Null => m.flists[m.head[b].level] = b
        /\ prev # Null => prev \in S
    BY DEF Linked
  <2>3. \A c \in S : c \in Addr /\ u.head[c].level = m.head[c].level
    BY <1>2
  <2>4. b # Null
    BY <1>1
  <2>5. m.head[b].prev = prev
    OBVIOUS
  <2>6. CASE prev = Null /\ l = m.head[b].level
    <3>1. u.flists[l] = next /\ next \in S /\ next # Null
      BY <1>1, <1>2, <1>5, <2>2, <2>6
    <3>2. next # b
      BY <2>2, <2>4, <2>5, <2>6, <3>1
    <3>3. u.head[next].prev = Null
      BY <1>2, <2>3, <2>6, <3>1
    <3> QED BY <2>2, <2>3, <2>6, <3>1, <3>2, <3>3
  <2>7. CASE ~(prev = Null /\ l = m.head[b].level)
    <3>1. u.flists[l] = f
      BY <1>1, <1>2, <2>7
    <3>2. f # b
      BY <1>5, <2>1, <2>5, <2>7, <3>1
    <3>3. u.head[f].prev = Null
      BY <1>2, <1>5, <2>1, <2>2, <2>4, <3>1, <3>2
    <3> QED BY <1>5, <2>1, <2>3, <3>1, <3>2, <3>3
  <2> QED BY <2>6, <2>7
<1>6. ASSUME NEW a \in S \ {b}
      PROVE  LET h == u.head[a] IN
             /\ h.next # Null => /\ h.next \in S \ {b}
                                 /\ u.head[h.next].level = h.level
                                 /\ u.head[h.next].prev = a
             /\ h.prev = Null => u.flists[h.level] = a
             /\ h.prev # Null => /\ h.prev \in S \ {b}
                                 /\ u.head[h.prev].level = h.level
                                 /\ u.head[h.prev].next = a
  <2> DEFINE g == m.head[a]
             h == u.head[a]
  <2>1. /\ a \in Addr /\ a \in S /\ a # b
        /\ g \in Header /\ g.next \in Pointer /\ g.prev \in Pointer /\ g.level \in Level
        /\ h.level = g.level
        /\ h.next = IF a = prev THEN next ELSE g.next
        /\ h.prev = IF a = next THEN prev ELSE g.prev
        /\ m.head[b].next = next /\ m.head[b].prev = prev
        /\ m.head[a] = g /\ u.head[a] = h /\ a # Null
    BY <1>1, <1>2, <1>6 DEF Header
  <2>2. /\ g.next # Null => g.next \in S /\ m.head[g.next].level = g.level /\ m.head[g.next].prev = a
        /\ g.prev = Null => m.flists[g.level] = a
        /\ g.prev # Null => g.prev \in S /\ m.head[g.prev].level = g.level /\ m.head[g.prev].next = a
    BY <2>1 DEF Linked
  <2>3. /\ next # Null => next \in S /\ m.head[next].level = m.head[b].level /\ m.head[next].prev = b
        /\ prev = Null => m.flists[m.head[b].level] = b
        /\ prev # Null => prev \in S /\ m.head[prev].level = m.head[b].level /\ m.head[prev].next = b
    BY DEF Linked
  <2>4. \A c \in S : u.head[c].level = m.head[c].level
    BY <1>2
  <2> HIDE DEF u, next, prev, g, h
  <2>5. h.next # Null => /\ h.next \in S \ {b}
                         /\ u.head[h.next].level = h.level
                         /\ u.head[h.next].prev = a
    <3>1. CASE a = prev /\ next # Null
      <4>1. h.next = next /\ next \in S /\ next \in Addr
        BY <2>1, <2>3, <3>1
      <4>2. u.head[next].level = m.head[b].level /\ m.head[b].level = g.level
        <5>1. u.head[next].level = m.head[b].level
          BY <2>3, <2>4, <4>1, <3>1
        <5>2. m.head[prev].level = m.head[b].level
          BY <2>1, <2>3, <3>1
        <5> QED BY <2>1, <3>1, <5>1, <5>2
      <4>3. next # b
        <5>1. m.head[next].prev = b /\ a # b /\ a = prev
          BY <2>1, <2>3, <3>1
        <5>2. m.head[b].prev = prev
          BY <2>1
        <5> QED BY <5>1, <5>2
      <4>4. u.head[next].prev = prev
        BY <1>2, <4>1
      <4> QED BY <2>1, <3>1, <4>1, <4>2, <4>3, <4>4
    <3>2. CASE a # prev /\ g.next # Null
      <4>1. h.next = g.next /\ g.next \in S /\ g.next \in Addr /\ g.next # next /\ g.next # b
        BY <1>1, <2>1, <2>2, <2>3, <3>2
      <4>2. u.head[g.next].prev = m.head[g.next].prev
        BY <1>2, <4>1
      <4> QED BY <2>1, <2>2, <2>4, <3>2, <4>1, <4>2
    <3> QED BY <2>1, <3>1, <3>2
  <2>6. h.prev = Null => u.flists[h.level] = a
    BY <1>1, <1>2, <2>1, <2>2, <2>3
  <2>7. h.prev # Null => /\ h.prev \in S \ {b}
                         /\ u.head[h.prev].level = h.level
                         /\ u.head[h.prev].next = a
    <3>1. CASE a = next /\ prev # Null
      <4>1. h.prev = prev /\ prev \in S /\ prev \in Addr
        BY <1>1, <2>1, <2>3, <3>1
      <4>2. u.head[prev].level = m.head[b].level /\ m.head[b].level = g.level
        BY <1>1, <2>1, <2>3, <2>4, <3>1
      <4>3. prev # b
        BY <2>1, <2>3, <3>1
      <4>4. u.head[prev].next = next
        BY <1>2, <4>1
      <4> QED BY <2>1, <3>1, <4>1, <4>2, <4>3, <4>4
    <3>2. CASE a # next /\ g.prev # Null
      <4>1. h.prev = g.prev /\ g.prev \in S /\ g.prev \in Addr /\ g.prev # prev /\ g.prev # b
        BY <1>1, <2>1, <2>2, <2>3, <3>2
      <4>2. u.head[g.prev].next = m.head[g.prev].next
        BY <1>2, <4>1
      <4> QED BY <2>1, <2>2, <2>4, <3>2, <4>1, <4>2
    <3> QED BY <2>1, <3>1, <3>2
  <2> QED BY <2>5, <2>6, <2>7 DEF h
<1> HIDE DEF u
<1>7. Linked(u, S \ {b})
  BY <1>5, <1>6 DEF Linked
<1> QED BY <1>3, <1>4, <1>7 DEF u

(* link_block puts one block on the list of its level.                     *)
LEMMA LinkLinks ==
  ASSUME NEW m \in Memory, NEW S \in SUBSET Addr, Linked(m, S), NEW b \in Addr \ S
  PROVE  /\ Link(m, b) \in Memory
         /\ SameBlocks(m, Link(m, b))
         /\ Linked(Link(m, b), S \cup {b})
         /\ Link(m, b).flists[m.head[b].level] = b
<1> DEFINE u == Link(m, b)
           first == m.flists[m.head[b].level]
<1>1. /\ m.head \in [Addr -> Header] /\ m.flists \in [Level -> Pointer]
      /\ b \in Addr /\ m.head[b] \in Header
      /\ first \in Pointer /\ m.head[b].level \in Level
      /\ Null \notin Addr
  BY BuddyAssumption DEF Memory, Header
<1>2. /\ u.flists = [m.flists EXCEPT ![m.head[b].level] = b]
      /\ \A a \in Addr :
           /\ u.head[a].status = m.head[a].status
           /\ u.head[a].level = m.head[a].level
           /\ u.head[a].next = IF a = b THEN first ELSE m.head[a].next
           /\ u.head[a].prev = IF a = b THEN Null
                               ELSE IF a = first THEN b ELSE m.head[a].prev
  <2>1. u.flists = [m.flists EXCEPT ![m.head[b].level] = b]
    BY DEF Link
  <2>2. ASSUME NEW a \in Addr
        PROVE  u.head[a] = [m.head[a] EXCEPT
                 !.next = IF a = b THEN first ELSE @,
                 !.prev = IF a = b THEN Null ELSE IF a = first THEN b ELSE @]
    BY DEF Link
  <2>3. ASSUME NEW a \in Addr
        PROVE  /\ u.head[a].status = m.head[a].status
               /\ u.head[a].level = m.head[a].level
               /\ u.head[a].next = IF a = b THEN first ELSE m.head[a].next
               /\ u.head[a].prev = IF a = b THEN Null ELSE IF a = first THEN b ELSE m.head[a].prev
    <3> DEFINE x == IF a = b THEN first ELSE m.head[a].next
               y == IF a = b THEN Null ELSE IF a = first THEN b ELSE m.head[a].prev
    <3>1. m.head[a] \in Header
      BY <1>1
    <3>2. u.head[a] = [m.head[a] EXCEPT !.next = x, !.prev = y]
      BY <2>2
    <3> HIDE DEF u, x, y
    <3>3. /\ u.head[a].status = m.head[a].status /\ u.head[a].level = m.head[a].level
          /\ u.head[a].next = x /\ u.head[a].prev = y
      BY <3>1, <3>2 DEF Header
    <3> QED BY <3>3 DEF x, y
  <2> HIDE DEF u, first
  <2> QED BY <2>1, <2>3
<1>3. u \in Memory
  <2>1. u.head \in [Addr -> Header]
    <3>1. ASSUME NEW a \in Addr
          PROVE  [m.head[a] EXCEPT
                    !.next = IF a = b THEN first ELSE @,
                    !.prev = IF a = b THEN Null ELSE IF a = first THEN b ELSE @]
                  \in Header
      BY <1>1 DEF Header, Pointer
    <3> QED BY <3>1 DEF Link
  <2>2. u.flists \in [Level -> Pointer]
    BY <1>1, <1>2 DEF Pointer
  <2>3. u = [head |-> u.head, flists |-> u.flists]
    BY DEF Link
  <2> QED BY <2>1, <2>2, <2>3 DEF Memory
<1>4. SameBlocks(m, u)
  BY <1>2 DEF SameBlocks
<1>5. ASSUME NEW l \in Level, u.flists[l] # Null
      PROVE  /\ u.flists[l] \in S \cup {b}
             /\ u.head[u.flists[l]].level = l
             /\ u.head[u.flists[l]].prev = Null
  <2>1. CASE l = m.head[b].level
    BY <1>1, <1>2, <2>1
  <2>2. CASE l # m.head[b].level
    <3> DEFINE f == m.flists[l]
    <3>1. u.flists[l] = f
      BY <1>1, <1>2, <2>2
    <3>2. /\ f \in S /\ f \in Addr /\ m.head[f].level = l /\ m.head[f].prev = Null
          /\ first # Null => m.head[first].level = m.head[b].level
      BY <1>1, <1>5, <3>1 DEF Linked
    <3>3. f # b /\ f # first
      <4>1. f # first
        <5>1. m.head[f].level # m.head[b].level /\ f # Null
          BY <1>5, <2>2, <3>1, <3>2
        <5> HIDE DEF f, first
        <5> QED BY <3>2, <5>1
      <4> QED BY <3>2, <4>1
    <3> HIDE DEF u, f, first
    <3> QED BY <1>2, <3>1, <3>2, <3>3
  <2> QED BY <2>1, <2>2
<1>6. ASSUME NEW a \in S \cup {b}
      PROVE  LET h == u.head[a] IN
             /\ h.next # Null => /\ h.next \in S \cup {b}
                                 /\ u.head[h.next].level = h.level
                                 /\ u.head[h.next].prev = a
             /\ h.prev = Null => u.flists[h.level] = a
             /\ h.prev # Null => /\ h.prev \in S \cup {b}
                                 /\ u.head[h.prev].level = h.level
                                 /\ u.head[h.prev].next = a
  <2> DEFINE g == m.head[a]
             h == u.head[a]
  <2>1. first # Null => first \in S /\ m.head[first].level = m.head[b].level /\ m.head[first].prev = Null
    BY <1>1 DEF Linked
  <2>2. m.flists[m.head[b].level] = first
    OBVIOUS
  <2>3. \A c \in S \cup {b} : c \in Addr /\ u.head[c].level = m.head[c].level
    BY <1>2
  <2>4. CASE a = b
    <3>1. h.next = first /\ h.prev = Null /\ h.level = m.head[b].level
      BY <1>1, <1>2, <2>4
    <3>2. first # Null => u.head[first].level = m.head[b].level /\ u.head[first].prev = b
      BY <1>2, <2>1, <2>3
    <3>3. u.flists[m.head[b].level] = b
      BY <1>1, <1>2
    <3> QED BY <2>1, <2>4, <3>1, <3>2, <3>3
  <2>5. CASE a # b
    <3>1. /\ a \in S /\ a \in Addr
          /\ h.level = g.level /\ h.next = g.next /\ h.prev = IF a = first THEN b ELSE g.prev
      BY <1>2, <1>6, <2>5
    <3>2. /\ g.next # Null => g.next \in S /\ m.head[g.next].level = g.level /\ m.head[g.next].prev = a
          /\ g.prev = Null => m.flists[g.level] = a
          /\ g.prev # Null => g.prev \in S /\ m.head[g.prev].level = g.level /\ m.head[g.prev].next = a
      BY <3>1 DEF Linked
    <3>3. a # Null
      BY <1>1, <3>1
    <3> HIDE DEF u, g, first
    <3>4. h.next # Null => /\ h.next \in S \cup {b}
                           /\ u.head[h.next].level = h.level
                           /\ u.head[h.next].prev = a
      <4> SUFFICES ASSUME g.next # Null
                   PROVE  /\ g.next \in S \cup {b}
                          /\ u.head[g.next].level = g.level
                          /\ u.head[g.next].prev = a
        BY <3>1
      <4>1. g.next # b /\ g.next # first
        BY <2>1, <3>2, <3>3
      <4> QED BY <1>2, <2>3, <3>2, <4>1
    <3>5. CASE a = first
      <4>1. h.prev = b /\ b # Null
        BY <1>1, <3>1, <3>5
      <4>2. u.head[b].level = g.level /\ u.head[b].next = a
        BY <1>2, <2>1, <2>3, <3>3, <3>5 DEF g
      <4> QED BY <3>1, <3>4, <4>1, <4>2
    <3>6. CASE a # first
      <4>1. h.prev = g.prev
        BY <3>1, <3>6
      <4>2. g.prev = Null => g.level # m.head[b].level
        BY <2>2, <3>2, <3>6
      <4>3. g.prev = Null => u.flists[g.level] = a
        BY <1>1, <1>2, <3>2, <4>2
      <4>4. g.prev # Null => g.prev # b /\ u.head[g.prev].next = a
        BY <1>2, <3>2
      <4> QED BY <2>3, <3>1, <3>2, <3>4, <4>1, <4>3, <4>4
    <3> QED BY <3>5, <3>6
  <2> QED BY <2>4, <2>5
<1>7. u.flists[m.head[b].level] = b
  BY <1>1, <1>2
<1> HIDE DEF u
<1>8. Linked(u, S \cup {b})
  BY <1>5, <1>6 DEF Linked
<1> QED BY <1>3, <1>4, <1>7, <1>8 DEF u

(* Headers that are not on a list do not matter to the lists.              *)
LEMMA OthersLinked ==
  ASSUME NEW m \in Memory, NEW n \in Memory, NEW S \in SUBSET Addr, Linked(m, S),
         n.flists = m.flists,
         \A a \in S : /\ n.head[a].level = m.head[a].level
                      /\ n.head[a].next = m.head[a].next
                      /\ n.head[a].prev = m.head[a].prev
  PROVE  Linked(n, S)
<1>1. ASSUME NEW l \in Level, n.flists[l] # Null
      PROVE  n.flists[l] \in S /\ n.head[n.flists[l]].level = l /\ n.head[n.flists[l]].prev = Null
  <2>1. m.flists[l] \in S /\ m.head[m.flists[l]].level = l /\ m.head[m.flists[l]].prev = Null
    BY <1>1 DEF Linked
  <2> QED BY <2>1
<1>2. ASSUME NEW a \in S
      PROVE  LET h == n.head[a] IN
             /\ h.next # Null => /\ h.next \in S
                                 /\ n.head[h.next].level = h.level
                                 /\ n.head[h.next].prev = a
             /\ h.prev = Null => n.flists[h.level] = a
             /\ h.prev # Null => /\ h.prev \in S
                                 /\ n.head[h.prev].level = h.level
                                 /\ n.head[h.prev].next = a
  <2> DEFINE g == m.head[a]
  <2>1. /\ g.next # Null => g.next \in S /\ m.head[g.next].level = g.level /\ m.head[g.next].prev = a
        /\ g.prev = Null => m.flists[g.level] = a
        /\ g.prev # Null => g.prev \in S /\ m.head[g.prev].level = g.level /\ m.head[g.prev].next = a
    BY DEF Linked
  <2>2. n.head[a].level = g.level /\ n.head[a].next = g.next /\ n.head[a].prev = g.prev
    OBVIOUS
  <2> HIDE DEF g
  <2> QED BY <2>1, <2>2
<1> QED BY <1>1, <1>2 DEF Linked

(* Every block of S can be found from the heads of the lists.              *)
Found(m, S) ==
  \A T \in SUBSET S :
    (/\ \A l \in Level : m.flists[l] \in T \cup {Null}
     /\ \A a \in T : m.head[a].next \in T \cup {Null})
    => T = S

(* A block is found without its neighbour b, if b is unlinked: who points  *)
(* to b points to what is behind it then.                                  *)
LEMMA UnlinkFinds ==
  ASSUME NEW m \in Memory, NEW S \in SUBSET Addr, Linked(m, S), Found(m, S), NEW b \in S
  PROVE  Found(Unlink(m, b), S \ {b})
<1> DEFINE u == Unlink(m, b)
           next == m.head[b].next
           prev == m.head[b].prev
<1> SUFFICES ASSUME NEW T \in SUBSET (S \ {b}),
                    \A l \in Level : u.flists[l] \in T \cup {Null},
                    \A a \in T : u.head[a].next \in T \cup {Null}
             PROVE  T = S \ {b}
  BY DEF Found
<1>1. /\ m.head \in [Addr -> Header] /\ m.flists \in [Level -> Pointer]
      /\ b \in Addr /\ m.head[b] \in Header
      /\ next \in Pointer /\ prev \in Pointer /\ m.head[b].level \in Level
      /\ Null \notin Addr
  BY BuddyAssumption DEF Memory, Header
<1>2. /\ u.flists = IF prev = Null THEN [m.flists EXCEPT ![m.head[b].level] = next] ELSE m.flists
      /\ \A a \in Addr :
           u.head[a].next = IF a = prev THEN next
                            ELSE IF a = b /\ prev = Null THEN Null ELSE m.head[a].next
  BY <1>1 DEF Unlink, Header
<1> HIDE DEF u
<1>3. /\ next \in S \cup {Null} /\ prev \in S \cup {Null}
      /\ prev # Null => m.head[prev].next = b
      /\ prev = Null => m.flists[m.head[b].level] = b
      /\ \A a \in S \ {prev} : m.head[a].next # b
      /\ \A l \in Level : m.flists[l] # Null => m.flists[l] \in S
      /\ \A l \in Level : m.flists[l] = b => prev = Null /\ l = m.head[b].level
      /\ \A a \in S : m.head[a].next \in S \cup {Null}
      /\ next = b => prev = b
  <2>1. \A l \in Level : m.flists[l] # Null =>
          m.flists[l] \in S /\ m.head[m.flists[l]].level = l /\ m.head[m.flists[l]].prev = Null
    BY DEF Linked
  <2>2. \A a \in S : m.head[a].next # Null =>
          m.head[a].next \in S /\ m.head[m.head[a].next].prev = a
    BY DEF Linked
  <2>3. /\ prev # Null => prev \in S /\ m.head[prev].next = b
        /\ prev = Null => m.flists[m.head[b].level] = b
    BY DEF Linked
  <2>4. b # Null
    BY <1>1
  <2> QED BY <2>1, <2>2, <2>3, <2>4
<1>4. prev # b /\ next # b
  <2> SUFFICES ASSUME prev = b PROVE FALSE
    BY <1>3
  <2>1. \A l \in Level : m.flists[l] \in (S \ {b}) \cup {Null}
    BY <1>1, <1>3
  <2>2. \A a \in S \ {b} : m.head[a].next \in (S \ {b}) \cup {Null}
    BY <1>3
  <2>3. S \ {b} = S
    BY <2>1, <2>2 DEF Found
  <2> QED BY <2>3
<1>5. CASE prev = Null
  <2> DEFINE U == T \cup {b}
  <2>1. next \in T \cup {Null}
    BY <1>1, <1>2, <1>5
  <2>2. \A l \in Level : m.flists[l] \in U \cup {Null}
    BY <1>1, <1>2, <1>3, <1>5
  <2>3. \A a \in U : m.head[a].next \in U \cup {Null}
    BY <1>1, <1>2, <1>3, <1>5, <1>4, <2>1
  <2>4. U \in SUBSET S
    OBVIOUS
  <2> HIDE DEF U
  <2>5. U = S
    BY <2>2, <2>3, <2>4 DEF Found
  <2> QED BY <2>5 DEF U
<1>6. CASE prev # Null /\ prev \in T
  <2> DEFINE U == T \cup {b}
  <2>1. next \in T \cup {Null}
    BY <1>1, <1>2, <1>3, <1>6, <1>4
  <2>2. \A l \in Level : m.flists[l] \in U \cup {Null}
    BY <1>2, <1>6
  <2>3. \A a \in U : m.head[a].next \in U \cup {Null}
    BY <1>1, <1>2, <1>3, <1>6, <1>4, <2>1
  <2>4. U \in SUBSET S
    OBVIOUS
  <2> HIDE DEF U
  <2>5. U = S
    BY <2>2, <2>3, <2>4 DEF Found
  <2> QED BY <2>5 DEF U
<1>7. CASE prev # Null /\ prev \notin T
  <2>1. \A l \in Level : m.flists[l] \in T \cup {Null}
    BY <1>2, <1>7
  <2>2. \A a \in T : m.head[a].next \in T \cup {Null}
    BY <1>1, <1>2, <1>7
  <2>3. T = S
    BY <2>1, <2>2 DEF Found
  <2> QED BY <1>3, <1>7, <2>3
<1> QED BY <1>5, <1>6, <1>7

(* A block that is linked in front is found, and leads to the others.      *)
LEMMA LinkFinds ==
  ASSUME NEW m \in Memory, NEW S \in SUBSET Addr, Linked(m, S), Found(m, S), NEW b \in Addr \ S
  PROVE  Found(Link(m, b), S \cup {b})
<1> DEFINE u == Link(m, b)
           first == m.flists[m.head[b].level]
<1> SUFFICES ASSUME NEW T \in SUBSET (S \cup {b}),
                    \A l \in Level : u.flists[l] \in T \cup {Null},
                    \A a \in T : u.head[a].next \in T \cup {Null}
             PROVE  T = S \cup {b}
  BY DEF Found
<1>1. /\ m.head \in [Addr -> Header] /\ m.flists \in [Level -> Pointer]
      /\ b \in Addr /\ m.head[b] \in Header /\ first \in Pointer /\ m.head[b].level \in Level
      /\ Null \notin Addr
  BY BuddyAssumption DEF Memory, Header
<1>2. /\ u.flists = [m.flists EXCEPT ![m.head[b].level] = b]
      /\ \A a \in Addr : u.head[a].next = IF a = b THEN first ELSE m.head[a].next
  BY <1>1 DEF Link, Header
<1> HIDE DEF u
<1>3. b \in T /\ first \in T \cup {Null}
  BY <1>1, <1>2
<1>4. \A l \in Level : m.flists[l] \in (T \ {b}) \cup {Null}
  BY <1>1, <1>2, <1>3 DEF Linked
<1>5. \A a \in T \ {b} : m.head[a].next \in (T \ {b}) \cup {Null}
  BY <1>1, <1>2 DEF Linked
<1>6. T \ {b} = S
  BY <1>4, <1>5 DEF Found
<1> QED BY <1>3, <1>6

(* The free lists as a whole.                                              *)
Lists(m, S) == Linked(m, S) /\ Found(m, S)

LEMMA UnlinkLists ==
  ASSUME NEW m \in Memory, NEW S \in SUBSET Addr, Lists(m, S), NEW b \in S
  PROVE  /\ Unlink(m, b) \in Memory
         /\ SameBlocks(m, Unlink(m, b))
         /\ Lists(Unlink(m, b), S \ {b})
BY UnlinkLinks, UnlinkFinds DEF Lists

LEMMA LinkLists ==
  ASSUME NEW m \in Memory, NEW S \in SUBSET Addr, Lists(m, S), NEW b \in Addr \ S
  PROVE  /\ Link(m, b) \in Memory
         /\ SameBlocks(m, Link(m, b))
         /\ Lists(Link(m, b), S \cup {b})
         /\ Link(m, b).flists[m.head[b].level] = b
BY LinkLinks, LinkFinds DEF Lists

LEMMA OthersUnlisted ==
  ASSUME NEW m \in Memory, NEW n \in Memory, NEW S \in SUBSET Addr, Lists(m, S),
         n.flists = m.flists,
         \A a \in S : /\ n.head[a].level = m.head[a].level
                      /\ n.head[a].next = m.head[a].next
                      /\ n.head[a].prev = m.head[a].prev
  PROVE  Lists(n, S)
BY OthersLinked DEF Lists, Found

-----------------------------------------------------------------------------
(* The tiling of the pages ps by the blocks of m.                          *)

BlocksOf(m) == {a \in Addr : m.head[a].status # "None"}

In(x, m, a) == Within(x, a, m.head[a].level)

Tiling(m, ps) ==
  /\ \A a \in BlocksOf(m) : a.page \in ps /\ Aligned(a, m.head[a].level)
  /\ \A x \in Addr : \A a, b \in BlocksOf(m) : In(x, m, a) /\ In(x, m, b) => a = b
  /\ \A x \in Addr : x.page \in ps => \E a \in BlocksOf(m) : In(x, m, a)

(* The tiling depends on which blocks there are and on their levels only.  *)
LEMMA TilingFrame ==
  ASSUME NEW m, NEW n, NEW ps, Tiling(m, ps),
         BlocksOf(n) = BlocksOf(m),
         \A a \in BlocksOf(m) : n.head[a].level = m.head[a].level
  PROVE  Tiling(n, ps)
BY DEF Tiling, In

(* No block starts in the middle of another.                               *)
LEMMA SplitIsNew ==
  ASSUME NEW m \in Memory, NEW ps, Tiling(m, ps), NEW b \in BlocksOf(m),
         NEW l \in Level, l = m.head[b].level, l # 0
  PROVE  Split(b, l) \notin BlocksOf(m)
<1>1. b \in Addr /\ Aligned(b, l)
  BY DEF Tiling, BlocksOf
<1>2. Split(b, l) \in Addr /\ Split(b, l) # b /\ In(Split(b, l), m, b)
  BY <1>1, SplitType DEF In
<1>3. ASSUME Split(b, l) \in BlocksOf(m) PROVE FALSE
  <2>1. m.head[Split(b, l)].level \in Level
    BY <1>2 DEF Memory, Header
  <2>2. In(Split(b, l), m, Split(b, l))
    BY <1>2, <1>3, <2>1, WithinSelf DEF Tiling, In
  <2> QED BY <1>2, <1>3, <2>2 DEF Tiling
<1> QED BY <1>3

(* split_up keeps the tiling.                                              *)
LEMMA SplitTiling ==
  ASSUME NEW m \in Memory, NEW n \in Memory, NEW ps, Tiling(m, ps),
         NEW b \in BlocksOf(m), NEW l \in Level, l = m.head[b].level, l # 0,
         BlocksOf(n) = BlocksOf(m) \cup {Split(b, l)},
         n.head[b].level = l - 1,
         n.head[Split(b, l)].level = l - 1,
         \A a \in BlocksOf(m) \ {b} : n.head[a].level = m.head[a].level
  PROVE  Tiling(n, ps)
<1> DEFINE s == Split(b, l)
<1>1. /\ b \in Addr /\ Aligned(b, l) /\ b.page \in ps
      /\ s \in Addr /\ s # b /\ s.page = b.page /\ s \notin BlocksOf(m)
      /\ Aligned(s, l - 1) /\ Aligned(b, l - 1)
  BY SplitType, SplitIsNew DEF Tiling, BlocksOf
<1>2. \A x \in Addr : /\ In(x, m, b) <=> In(x, n, b) \/ In(x, n, s)
                     /\ ~ (In(x, n, b) /\ In(x, n, s))
  BY <1>1, SplitHalves DEF In
<1> HIDE DEF s
<1>3. \A x \in Addr, a \in BlocksOf(m) \ {b} : In(x, n, a) <=> In(x, m, a)
  BY DEF In
<1>4. BlocksOf(n) = (BlocksOf(m) \ {b}) \cup {b, s}
  BY DEF s
<1>5. ASSUME NEW a \in BlocksOf(n) PROVE a.page \in ps /\ Aligned(a, n.head[a].level)
  BY <1>1, <1>4 DEF Tiling, s
<1>6. ASSUME NEW x \in Addr, NEW a \in BlocksOf(n), NEW c \in BlocksOf(n),
             In(x, n, a), In(x, n, c)
      PROVE  a = c
  BY <1>1, <1>2, <1>3, <1>4, <1>6 DEF Tiling
<1>7. ASSUME NEW x \in Addr, x.page \in ps PROVE \E a \in BlocksOf(n) : In(x, n, a)
  <2>1. PICK a \in BlocksOf(m) : In(x, m, a)
    BY <1>7 DEF Tiling
  <2> QED BY <1>2, <1>3, <1>4, <2>1
<1> QED BY <1>5, <1>6, <1>7 DEF Tiling

(* The buddy of a block that is not a page is the start of a block.        *)
LEMMA BuddyIsBlock ==
  ASSUME NEW m \in Memory, NEW ps, Tiling(m, ps), NEW a \in BlocksOf(m),
         NEW l \in Level, l = m.head[a].level, l # Top
  PROVE  Buddy(a, l) \in BlocksOf(m)
<1> DEFINE x == Buddy(a, l)
<1>1. /\ a \in Addr /\ Aligned(a, l) /\ a.page \in ps
      /\ x \in Addr /\ Aligned(x, l) /\ x.page = a.page
  BY BuddyType DEF Tiling, BlocksOf
<1>2. PICK c \in BlocksOf(m) : In(x, m, c)
  BY <1>1 DEF Tiling
<1> DEFINE k == m.head[c].level
<1>3. c \in Addr /\ k \in Level
  BY DEF BlocksOf, Memory, Header
<1>4. CASE k > l
  <2>1. \A i \in Bits : i >= k => (i \in x.bits <=> i \in a.bits)
    BY <1>1, <1>3, <1>4, AddressAssumption DEF Buddy, Addr, Level, Bits
  <2>2. Within(a, c, k)
    BY <1>1, <1>2, <1>3, <2>1, WithinBits DEF In
  <2>3. In(a, m, c) /\ In(a, m, a)
    BY <1>1, <2>2, WithinSelf DEF In
  <2>4. a = c
    BY <1>1, <2>3 DEF Tiling
  <2> QED BY <1>4, <2>4, AddressAssumption DEF Level
<1>5. CASE k <= l
  <2>1. \A i \in Bits : i \in x.bits => i >= k
    BY <1>1, <1>3, <1>5, AddressAssumption DEF Aligned, Level, Bits
  <2>2. c.page = x.page /\ \A i \in Bits : i \in c.bits <=> i \in x.bits
    BY <1>1, <1>2, <1>3, <2>1, WithinBits DEF In
  <2>3. c.bits = x.bits
    BY <1>1, <1>3, <2>2 DEF Addr, Bits
  <2>4. c = x
    BY <1>1, <1>3, <2>2, <2>3, SameAddr
  <2> QED BY <2>4
<1> QED BY <1>3, <1>4, <1>5, AddressAssumption DEF Level

(* merge keeps the tiling.                                                 *)
LEMMA JoinTiling ==
  ASSUME NEW m \in Memory, NEW n \in Memory, NEW ps, Tiling(m, ps),
         NEW b \in BlocksOf(m), NEW l \in Level, l = m.head[b].level, l # Top,
         Buddy(b, l) \in BlocksOf(m), m.head[Buddy(b, l)].level = l,
         BlocksOf(n) = BlocksOf(m) \ {Buddy(Primary(b, l), l)},
         n.head[Primary(b, l)].level = l + 1,
         \A a \in BlocksOf(n) \ {Primary(b, l)} : n.head[a].level = m.head[a].level
  PROVE  Tiling(n, ps)
<1> DEFINE o == Buddy(b, l)
           p == Primary(b, l)
           e == Buddy(p, l)
<1>1. /\ b \in Addr /\ o \in Addr /\ p \in Addr
      /\ Aligned(b, l) /\ b.page \in ps /\ o # b
      /\ Aligned(p, l + 1) /\ p.page = b.page
      /\ \/ p = b /\ e = o
         \/ p = o /\ e = b
  BY BuddyType, PrimaryIsEither DEF Tiling, BlocksOf
<1>2. \A x \in Addr : In(x, n, p) <=> In(x, m, b) \/ In(x, m, o)
  BY <1>1, JoinHalves DEF In
<1>3. /\ BlocksOf(n) = BlocksOf(m) \ {e}
      /\ b \in BlocksOf(m) /\ o \in BlocksOf(m)
      /\ n.head[p].level = l + 1
      /\ \A a \in BlocksOf(n) \ {p} : n.head[a].level = m.head[a].level
  OBVIOUS
<1> HIDE DEF o, p, e
<1>4. \A x \in Addr, a \in BlocksOf(n) \ {p} : In(x, n, a) <=> In(x, m, a)
  BY <1>3 DEF In
<1>5. ASSUME NEW a \in BlocksOf(n) PROVE a.page \in ps /\ Aligned(a, n.head[a].level)
  BY <1>1, <1>3 DEF Tiling
<1>6. ASSUME NEW x \in Addr, NEW a \in BlocksOf(n), NEW c \in BlocksOf(n),
             In(x, n, a), In(x, n, c)
      PROVE  a = c
  <2>1. \A d, f \in BlocksOf(m) : In(x, m, d) /\ In(x, m, f) => d = f
    BY DEF Tiling
  <2>2. a \in BlocksOf(m) /\ c \in BlocksOf(m) /\ a # e /\ c # e
    BY <1>3
  <2>3. \A d \in BlocksOf(n) \ {p} : In(x, n, d) => In(x, m, d)
    BY <1>4
  <2>4. In(x, n, p) => \E d \in {p, e} : d \in BlocksOf(m) /\ In(x, m, d)
    BY <1>1, <1>2, <1>3
  <2>5. CASE a # p /\ c # p
    BY <1>6, <2>1, <2>2, <2>3, <2>5
  <2>6. CASE a = p /\ c # p
    BY <1>6, <2>1, <2>2, <2>3, <2>4, <2>6
  <2>7. CASE a # p /\ c = p
    BY <1>6, <2>1, <2>2, <2>3, <2>4, <2>7
  <2> QED BY <2>5, <2>6, <2>7
<1>7. ASSUME NEW x \in Addr, x.page \in ps PROVE \E a \in BlocksOf(n) : In(x, n, a)
  <2>1. PICK a \in BlocksOf(m) : In(x, m, a)
    BY <1>7 DEF Tiling
  <2> QED BY <1>1, <1>2, <1>3, <1>4, <2>1
<1> QED BY <1>5, <1>6, <1>7 DEF Tiling

(* A block of the highest level is a page.                                 *)
LEMMA WholePage ==
  ASSUME NEW a \in Addr, Aligned(a, Top)
  PROVE  /\ a.bits = {}
         /\ \A x \in Addr : Within(x, a, Top) <=> x.page = a.page
BY AddressAssumption DEF Aligned, Within, Addr, Top

(* A new page is tiled by one block.                                       *)
LEMMA NewTiling ==
  ASSUME NEW m \in Memory, NEW n \in Memory, NEW ps \in SUBSET Pages, Tiling(m, ps),
         NEW p \in Pages \ ps,
         BlocksOf(n) = BlocksOf(m) \cup {PageStart(p)},
         n.head[PageStart(p)].level = Top,
         \A a \in BlocksOf(m) : n.head[a].level = m.head[a].level
  PROVE  Tiling(n, ps \cup {p})
<1> DEFINE s == PageStart(p)
<1>1. /\ s \in Addr /\ s.page = p /\ Aligned(s, Top) /\ s \notin BlocksOf(m)
  BY DEF PageStart, Addr, Aligned, Tiling
<1>2. \A x \in Addr : In(x, n, s) <=> x.page = p
  BY <1>1, WholePage DEF In
<1>3. BlocksOf(n) = BlocksOf(m) \cup {s} /\ n.head[s].level = Top
  OBVIOUS
<1> HIDE DEF s
<1>4. \A x \in Addr, a \in BlocksOf(m) : In(x, n, a) <=> In(x, m, a)
  BY DEF In
<1>5. ASSUME NEW x \in Addr, NEW a \in BlocksOf(m), In(x, m, a) PROVE x.page # p
  BY <1>5 DEF Tiling, In, Within
<1>6. ASSUME NEW a \in BlocksOf(n)
      PROVE  a.page \in ps \cup {p} /\ Aligned(a, n.head[a].level)
  BY <1>1, <1>3 DEF Tiling
<1>7. ASSUME NEW x \in Addr, NEW a \in BlocksOf(n), NEW c \in BlocksOf(n),
             In(x, n, a), In(x, n, c)
      PROVE  a = c
  BY <1>2, <1>3, <1>4, <1>5, <1>7 DEF Tiling
<1>8. ASSUME NEW x \in Addr, x.page \in ps \cup {p} PROVE \E a \in BlocksOf(n) : In(x, n, a)
  BY <1>2, <1>3, <1>4, <1>8 DEF Tiling
<1> QED BY <1>6, <1>7, <1>8 DEF Tiling

(* A page that is given back takes its only block with it.                 *)
LEMMA EraseTiling ==
  ASSUME NEW m \in Memory, NEW n \in Memory, NEW ps, Tiling(m, ps),
         NEW b \in BlocksOf(m), m.head[b].level = Top,
         BlocksOf(n) = BlocksOf(m) \ {b},
         \A a \in BlocksOf(n) : n.head[a].level = m.head[a].level
  PROVE  Tiling(n, ps \ {b.page})
<1>1. b \in Addr /\ \A x \in Addr : In(x, m, b) <=> x.page = b.page
  BY WholePage DEF Tiling, BlocksOf, In
<1>2. \A x \in Addr, a \in BlocksOf(n) : In(x, n, a) <=> In(x, m, a)
  BY DEF In
<1>3. ASSUME NEW a \in BlocksOf(n)
      PROVE  a.page \in ps \ {b.page} /\ Aligned(a, n.head[a].level)
  <2>1. a \in Addr /\ a \in BlocksOf(m) /\ a # b /\ Aligned(a, m.head[a].level) /\ a.page \in ps
    BY DEF Tiling, BlocksOf
  <2>2. m.head[a].level \in Level
    BY <2>1 DEF Memory, Header
  <2>3. In(a, m, a)
    BY <2>1, <2>2, WithinSelf DEF In
  <2>4. a.page # b.page
    BY <1>1, <2>1, <2>3 DEF Tiling
  <2> QED BY <2>1, <2>4
<1>4. ASSUME NEW x \in Addr, NEW a \in BlocksOf(n), NEW c \in BlocksOf(n),
             In(x, n, a), In(x, n, c)
      PROVE  a = c
  BY <1>2, <1>4 DEF Tiling
<1>5. ASSUME NEW x \in Addr, x.page \in ps \ {b.page} PROVE \E a \in BlocksOf(n) : In(x, n, a)
  BY <1>1, <1>2, <1>5 DEF Tiling
<1> QED BY <1>3, <1>4, <1>5 DEF Tiling

-----------------------------------------------------------------------------
(* The inductive invariant.  A call in progress has what its next step     *)
(* needs: a block to split, or a block that is on no list.                 *)

CallOK ==
  /\ call.op = "split" => /\ call.goal = LevelOf(call.size)
                          /\ call.goal <= call.level
                          /\ mem.flists[call.level] # Null
  /\ call.op = "merge" => call.block \in Blocks /\ held[call.block] = 0

IInv ==
  /\ TypeOK
  /\ Tiling(mem, mapped)
  /\ HeldIntact
  /\ ListsLinked
  /\ NothingLost
  /\ CallOK

(* A step does not touch the level of a block that stays with the client.  *)
HeldKept ==
  \A a \in Addr : held[a] # 0 /\ held'[a] # 0 => mem'.head[a].level = mem.head[a].level

(* A listed block that stays listed keeps its status and its level.        *)
Same(a) == mem'.head[a].status = mem.head[a].status /\ mem'.head[a].level = mem.head[a].level

(* A step takes blocks off the lists, or none; the block that was to be    *)
(* split goes with them.                                                   *)
Leave ==
  /\ Listed' \subseteq Listed
  /\ \A a \in Listed' : Same(a)
  /\ call.op = "split" => mem.flists[call.level] \notin Listed'
  /\ NUM_ALLOC_PAGES' <= NUM_ALLOC_PAGES

(* A step puts b on its list: its buddy is not free there, and a page is   *)
(* the only one there unless there are few.                                *)
Come(b) ==
  /\ b \notin Listed /\ Listed' = Listed \cup {b}
  /\ \A a \in Listed : Same(a)
  /\ call.op # "split"
  /\ LET l == mem'.head[b].level
         o == mem.head[Buddy(b, l)]
     IN  IF l = Top THEN mem.flists[Top] = Null \/ NUM_ALLOC_PAGES' <= MAX_PAGES
         ELSE /\ Buddy(b, l) \in Listed => o.status # "Free" \/ o.level # l
              /\ NUM_ALLOC_PAGES' <= NUM_ALLOC_PAGES

(* A step splits the first block of a list.                                *)
Halve ==
  LET l == call.level
      b == mem.flists[l]
      s == Split(b, l)
  IN  /\ call.op = "split" /\ call'.op = "split" /\ call'.level = l - 1
      /\ l \in Level /\ l # 0 /\ b \in Listed /\ Aligned(b, l)
      /\ Listed' = Listed \cup {s}
      /\ \A a \in Listed \ {b} : Same(a)
      /\ mem'.head[b].level = l - 1 /\ mem'.head[s].level = l - 1
      /\ mem'.flists[l - 1] = b
      /\ NUM_ALLOC_PAGES' <= NUM_ALLOC_PAGES

CountsPages ==
  \/ mapped' = mapped /\ NUM_ALLOC_PAGES' = NUM_ALLOC_PAGES
  \/ \E p \in Pages \ mapped :
       mapped' = mapped \cup {p} /\ NUM_ALLOC_PAGES' = NUM_ALLOC_PAGES + 1
  \/ \E p \in mapped : mapped' = mapped \ {p} /\ NUM_ALLOC_PAGES' = NUM_ALLOC_PAGES - 1

(* What a step does to the lists and to the pages.                         *)
Effect ==
  /\ Leave \/ (\E b \in Addr : Come(b)) \/ Halve \/ UNCHANGED vars
  /\ CountsPages

(* The blocks of the program, as a function of its memory.                 *)
LEMMA BlocksAreBlocksOf == Blocks = BlocksOf(mem) /\ Blocks' = BlocksOf(mem')
BY DEF Blocks, BlocksOf

(* What follows from the types, once and for all.                          *)
LEMMA Basics ==
  ASSUME IInv
  PROVE  /\ mem \in Memory /\ mem.head \in [Addr -> Header] /\ mem.flists \in [Level -> Pointer]
         /\ \A a \in Addr : /\ mem.head[a] \in Header
                            /\ mem.head[a].level \in Level
                            /\ held[a] \in Sizes \cup {0}
         /\ Null \notin Addr
         /\ Listed \subseteq Blocks /\ Blocks \subseteq Addr /\ InHand \subseteq Addr
         /\ Lists(mem, Listed) /\ Linked(mem, Listed)
         /\ Top \in Level /\ Level \subseteq Nat
         /\ 0 \notin Sizes
         /\ \A a \in Addr : held[a] # 0 => a \in Blocks /\ a \notin Listed
<1>1. /\ mem \in Memory /\ mem.head \in [Addr -> Header] /\ mem.flists \in [Level -> Pointer]
      /\ \A a \in Addr : /\ mem.head[a] \in Header
                         /\ mem.head[a].level \in Level
                         /\ held[a] \in Sizes \cup {0}
  BY DEF IInv, TypeOK, Memory, Header
<1>2. InHand \subseteq Addr
  BY DEF IInv, CallOK, InHand, Blocks
<1>3. Top \in Level /\ Level \subseteq Nat /\ 0 \notin Sizes /\ Null \notin Addr
  BY AddressAssumption, BuddyAssumption DEF Top, Level
<1>4. Listed \subseteq Blocks /\ Blocks \subseteq Addr /\ Lists(mem, Listed)
  BY DEF IInv, Listed, Blocks, ListsLinked, NothingLost, Lists, Found
<1>5. \A a \in Addr : held[a] # 0 => a \in Blocks /\ a \notin Listed
  BY DEF IInv, HeldIntact, Listed, Blocks
<1> QED BY <1>1, <1>2, <1>3, <1>4, <1>5 DEF Lists

(* The block b, on no list, is freed if it was held, changes its status    *)
(* perhaps, and is put on its list.                                        *)
LEMMA LinkStep ==
  ASSUME IInv,
         NEW b \in Blocks, b \notin Listed, InHand \subseteq {b},
         NEW m \in Memory,
         m.flists = mem.flists,
         \A a \in Addr \ {b} : m.head[a] = mem.head[a],
         m.head[b].level = mem.head[b].level,
         m.head[b].status # "None",
         mem' = Link(m, b), mapped' = mapped, NUM_ALLOC_PAGES' = NUM_ALLOC_PAGES,
         held' = [held EXCEPT ![b] = 0], call' = Idle, call.op # "split",
         LET l == mem.head[b].level
         IN  IF l = Top THEN mem.flists[Top] = Null \/ NUM_ALLOC_PAGES <= MAX_PAGES
             ELSE mem.head[Buddy(b, l)].status # "Free" \/ mem.head[Buddy(b, l)].level # l
  PROVE  IInv' /\ HeldKept /\ Effect
<1>1. b \in Addr /\ b \notin Listed /\ Listed \in SUBSET Addr
  BY Basics
<1>2. Lists(m, Listed)
  BY <1>1, Basics, OthersUnlisted
<1>3. /\ mem' \in Memory /\ SameBlocks(m, mem') /\ Lists(mem', Listed \cup {b})
  BY <1>1, <1>2, LinkLists
<1>4. BlocksOf(mem') = BlocksOf(mem)
  BY <1>1, <1>3, Basics, BlocksAreBlocksOf DEF SameBlocks, BlocksOf
<1>5. Listed' = Listed \cup {b}
  BY <1>1, <1>4, BlocksAreBlocksOf DEF Listed, InHand, Idle, IInv, TypeOK
<1>6. Tiling(mem', mapped')
  BY <1>1, <1>3, <1>4, TilingFrame DEF IInv, SameBlocks, BlocksOf
<1>7. HeldIntact'
  BY <1>1, <1>3 DEF IInv, TypeOK, HeldIntact, SameBlocks
<1>8. TypeOK'
  BY <1>1, <1>3 DEF IInv, TypeOK
<1>9. CallOK'
  BY DEF CallOK, Idle
<1>10. HeldKept
  BY <1>1, <1>3 DEF HeldKept, SameBlocks, IInv, TypeOK
<1>11. Effect
  <2>1. mem'.head[b].level = mem.head[b].level /\ \A a \in Listed : Same(a)
    BY <1>1, <1>3 DEF SameBlocks, Same
  <2>2. Come(b)
    BY <1>1, <1>5, <2>1 DEF Come, IInv, TypeOK
  <2> QED BY <1>1, <2>2 DEF Effect, CountsPages
<1> QED BY <1>3, <1>5, <1>6, <1>7, <1>8, <1>9, <1>10, <1>11
       DEF IInv, ListsLinked, NothingLost, Lists, Found

(* The header of no block has the type of a header.                        *)
LEMMA NoHeaderType == NoHeader \in Header
BY AddressAssumption DEF NoHeader, Header, Pointer, Level

(* A header with another status, and nothing else of the memory changed.   *)
LEMMA SetStatusType ==
  ASSUME NEW m \in Memory, NEW b \in Addr, NEW s \in {"Free", "Taken", "None"}
  PROVE  LET n == SetStatus(m, b, s) IN
         /\ n \in Memory /\ n.flists = m.flists
         /\ n.head[b].status = s /\ n.head[b].level = m.head[b].level
         /\ \A a \in Addr \ {b} : n.head[a] = m.head[a]
<1> DEFINE h == [m.head[b] EXCEPT !.status = s]
           n == SetStatus(m, b, s)
<1>1. m.head \in [Addr -> Header] /\ m.flists \in [Level -> Pointer] /\ m.head[b] \in Header
  BY DEF Memory
<1>2. h \in Header /\ h.status = s /\ h.level = m.head[b].level
  BY <1>1 DEF Header
<1> HIDE DEF h
<1>3. n.head = [m.head EXCEPT ![b] = h] /\ n.flists = m.flists
      /\ n = [head |-> n.head, flists |-> n.flists]
  <2>1. n = [m EXCEPT !.head = [m.head EXCEPT ![b] = h]]
    BY DEF SetStatus, h
  <2> HIDE DEF n
  <2> QED BY <2>1 DEF Memory
<1> HIDE DEF n
<1>4. n.head \in [Addr -> Header] /\ n.head[b] = h /\ \A a \in Addr \ {b} : n.head[a] = m.head[a]
  BY <1>1, <1>2, <1>3
<1>5. n \in Memory
  BY <1>1, <1>3, <1>4 DEF Memory
<1> QED BY <1>2, <1>3, <1>4, <1>5 DEF h, n

(* Erasing a header leaves the others alone.                               *)
LEMMA EraseType ==
  ASSUME NEW m \in Memory, NEW b \in Addr
  PROVE  /\ Erase(m, b) \in Memory
         /\ Erase(m, b).flists = m.flists
         /\ Erase(m, b).head[b] = NoHeader
         /\ \A a \in Addr \ {b} : Erase(m, b).head[a] = m.head[a]
BY NoHeaderType DEF Erase, Memory

(* The block b, on no list, is a page and is given back.                   *)
LEMMA ReclaimStep ==
  ASSUME IInv,
         NEW b \in Blocks, b \notin Listed, InHand \subseteq {b},
         mem.head[b].level = Top,
         NUM_ALLOC_PAGES > MAX_PAGES,
         Reclaim(mem, b, mapped, NUM_ALLOC_PAGES),
         held' = [held EXCEPT ![b] = 0], call' = Idle, call.op # "split"
  PROVE  IInv' /\ HeldKept /\ Effect
<1>1. b \in Addr /\ Listed \in SUBSET Addr
  BY Basics
<1>2. /\ mem' \in Memory /\ mem'.flists = mem.flists
      /\ mem'.head[b] = NoHeader
      /\ \A a \in Addr \ {b} : mem'.head[a] = mem.head[a]
  BY <1>1, Basics, EraseType DEF Reclaim
<1>3. BlocksOf(mem') = BlocksOf(mem) \ {b}
  BY <1>1, <1>2 DEF BlocksOf, NoHeader
<1>4. Listed' = Listed
  BY <1>1, <1>3, BlocksAreBlocksOf DEF Listed, InHand, Idle, IInv, TypeOK
<1>5. Lists(mem', Listed)
  BY <1>1, <1>2, Basics, OthersUnlisted
<1>6. Tiling(mem', mapped')
  BY <1>1, <1>2, <1>3, Basics, BlocksAreBlocksOf, EraseTiling DEF IInv, Reclaim, BlocksOf
<1>7. HeldIntact'
  BY <1>1, <1>2 DEF IInv, TypeOK, HeldIntact
<1>8. TypeOK'
  BY <1>1, <1>2, BuddyAssumption DEF IInv, TypeOK, Reclaim
<1>9. CallOK'
  BY DEF CallOK, Idle
<1>10. HeldKept
  BY <1>1, <1>2 DEF HeldKept, IInv, TypeOK
<1>11. Effect
  <2>1. Leave
    BY <1>1, <1>2, <1>4 DEF Leave, Same, Reclaim, IInv, TypeOK
  <2>2. b.page \in mapped
    BY BlocksAreBlocksOf DEF IInv, Tiling
  <2> QED BY <2>1, <2>2 DEF Effect, CountsPages, Reclaim
<1> QED BY <1>4, <1>5, <1>6, <1>7, <1>8, <1>9, <1>10, <1>11
       DEF IInv, ListsLinked, NothingLost, Lists, Found

(* A list that is not empty gives up its first block.                      *)
LEMMA TakeStep ==
  ASSUME IInv, NEW l \in Level, NEW size \in Sizes, Fits(size, l),
         mem.flists[l] # Null, InHand = {}, Take(l, size),
         call.op = "split" => call.level = l
  PROVE  IInv' /\ HeldKept /\ Effect
<1> DEFINE b == mem.flists[l]
           u == Unlink(mem, b)
<1>1. b \in Listed /\ b \in Blocks /\ b \in Addr /\ mem.head[b].level = l /\ Listed \in SUBSET Addr
  BY Basics DEF Linked
<1>2. u \in Memory /\ SameBlocks(mem, u) /\ Lists(u, Listed \ {b})
  BY <1>1, Basics, UnlinkLists
<1>3. mem' = SetStatus(u, b, "Taken") /\ held' = [held EXCEPT ![b] = size]
      /\ call' = Idle /\ mapped' = mapped /\ NUM_ALLOC_PAGES' = NUM_ALLOC_PAGES
  BY DEF Take
<1> HIDE DEF b, u
<1>4. /\ mem' \in Memory /\ mem'.flists = u.flists
      /\ mem'.head[b].status = "Taken" /\ mem'.head[b].level = u.head[b].level
      /\ \A a \in Addr \ {b} : mem'.head[a] = u.head[a]
  <2>1. "Taken" \in {"Free", "Taken", "None"} /\ b \in Addr /\ u \in Memory
    BY <1>1, <1>2
  <2>2. LET n == SetStatus(u, b, "Taken") IN
        /\ n \in Memory /\ n.flists = u.flists
        /\ n.head[b].status = "Taken" /\ n.head[b].level = u.head[b].level
        /\ \A a \in Addr \ {b} : n.head[a] = u.head[a]
    BY ONLY <2>1, SetStatusType
  <2> QED BY ONLY <1>3, <2>2
<1>5. \A a \in Addr : /\ mem'.head[a].level = mem.head[a].level
                     /\ mem'.head[a].status = IF a = b THEN "Taken" ELSE mem.head[a].status
  BY <1>1, <1>2, <1>4 DEF SameBlocks
<1>6. BlocksOf(mem') = BlocksOf(mem)
  BY <1>1, <1>5 DEF BlocksOf, Blocks
<1>7. Listed' = Listed \ {b}
  BY <1>1, <1>3, <1>6, Basics, BlocksAreBlocksOf DEF Listed, InHand, Idle, IInv, TypeOK
<1>8. Lists(mem', Listed \ {b})
  <2>1. Listed \ {b} \in SUBSET Addr /\ \A a \in Listed \ {b} : mem'.head[a] = u.head[a]
    BY <1>1, <1>4
  <2> QED BY <1>2, <1>4, <2>1, OthersUnlisted
<1>9. Tiling(mem', mapped')
  BY <1>3, <1>5, <1>6, TilingFrame DEF IInv, BlocksOf
<1>10. HeldIntact'
  BY <1>1, <1>3, <1>5 DEF IInv, TypeOK, HeldIntact
<1>11. TypeOK'
  BY <1>1, <1>3, <1>4 DEF IInv, TypeOK
<1>12. CallOK'
  BY <1>3 DEF CallOK, Idle
<1>13. HeldKept
  BY <1>5 DEF HeldKept
<1>14. Effect
  <2>1. Leave
    BY <1>1, <1>3, <1>5, <1>7 DEF Leave, Same, IInv, TypeOK, b
  <2> QED BY <1>3, <2>1 DEF Effect, CountsPages
<1> QED BY <1>7, <1>8, <1>9, <1>10, <1>11, <1>12, <1>13, <1>14
       DEF IInv, ListsLinked, NothingLost, Lists, Found

(* A new page is put on the list of pages, or given back at once.          *)
LEMMA InsertNewStep ==
  ASSUME IInv, call = Idle, NEW p \in Pages \ mapped, InsertNew(p), held' = held,
         call' \in {Idle} \cup Splitting,
         call'.op = "split" => /\ call'.goal = LevelOf(call'.size)
                               /\ call'.level = Top
                               /\ mem.flists[Top] = Null
  PROVE  IInv' /\ HeldKept /\ Effect
<1> DEFINE b == PageStart(p)
           h == [NoHeader EXCEPT !.status = "Free", !.level = Top]
           m == [mem EXCEPT !.head[b] = h]
           n == SetStatus(m, b, "Free")
<1>1. b \in Addr /\ b.page = p
  BY DEF PageStart, Addr
<1>2. b \notin Blocks /\ b \notin Listed /\ held[b] = 0 /\ Listed \in SUBSET Addr
  BY <1>1, Basics, BlocksAreBlocksOf DEF IInv, Tiling
<1>3. h \in Header /\ h.status = "Free" /\ h.level = Top
  BY Basics, NoHeaderType DEF Header, NoHeader
<1> HIDE DEF h
<1>4. /\ m \in Memory /\ m.flists = mem.flists /\ m.head[b] = h
      /\ \A a \in Addr \ {b} : m.head[a] = mem.head[a]
  BY <1>1, <1>3, Basics DEF Memory
<1>5. InsertPage(m, b, mapped \cup {p}, NUM_ALLOC_PAGES + 1)
  BY DEF InsertNew, h
<1> HIDE DEF m
<1>6. /\ n \in Memory /\ n.flists = mem.flists
      /\ n.head[b].status = "Free" /\ n.head[b].level = Top
      /\ \A a \in Addr \ {b} : n.head[a] = mem.head[a]
  BY <1>1, <1>3, <1>4 DEF SetStatus, Memory, Header
<1> HIDE DEF b, n
<1>7. InHand = {} /\ InHand' = {} /\ (call'.op = "split" \/ call' = Idle) /\ call'.op # "merge"
  BY DEF InHand, Idle, Splitting
<1>8. mapped \cup {p} \subseteq Pages
  BY DEF IInv, TypeOK
<1>9. CASE mem.flists[Top] = Null \/ NUM_ALLOC_PAGES + 1 <= MAX_PAGES
  <2>1. /\ mem' = Link(n, b) /\ mapped' = mapped \cup {p}
        /\ NUM_ALLOC_PAGES' = NUM_ALLOC_PAGES + 1
    BY <1>4, <1>5, <1>9 DEF InsertPage, Keep, n
  <2>2. Lists(n, Listed)
    BY <1>2, <1>6, Basics, OthersUnlisted
  <2>3. /\ mem' \in Memory /\ SameBlocks(n, mem') /\ Lists(mem', Listed \cup {b})
        /\ mem'.flists[Top] = b
    BY <1>1, <1>2, <1>6, <2>1, <2>2, LinkLists
  <2>4. BlocksOf(mem') = BlocksOf(mem) \cup {b}
    BY <1>1, <1>6, <2>3 DEF SameBlocks, BlocksOf
  <2>5. Listed' = Listed \cup {b}
    BY <1>2, <1>7, <2>4, BlocksAreBlocksOf DEF Listed
  <2>6. Tiling(mem', mapped')
    <3>1. /\ BlocksOf(mem') = BlocksOf(mem) \cup {PageStart(p)}
          /\ mem'.head[PageStart(p)].level = Top
          /\ \A a \in BlocksOf(mem) : mem'.head[a].level = mem.head[a].level
      BY <1>1, <1>2, <1>6, <2>3, <2>4, BlocksAreBlocksOf DEF SameBlocks, BlocksOf, b
    <3> QED BY <2>1, <2>3, <3>1, NewTiling DEF IInv, TypeOK
  <2>7. HeldIntact'
    BY <1>1, <1>2, <1>6, <2>3 DEF IInv, HeldIntact, SameBlocks
  <2>8. TypeOK'
    BY <1>8, <2>1, <2>3 DEF IInv, TypeOK
  <2>9. CallOK'
    BY <1>1, <1>7, <2>3, Basics DEF CallOK, Idle, Splitting, Level, Top
  <2>10. HeldKept
    BY <1>2, <1>6, <2>3 DEF HeldKept, SameBlocks
  <2>11. Effect
    <3>1. mem'.head[b].level = Top /\ \A a \in Listed : Same(a)
      BY <1>1, <1>2, <1>6, <2>3 DEF SameBlocks, Same
    <3>2. Come(b)
      BY <1>2, <1>9, <2>1, <2>5, <3>1 DEF Come, Idle
    <3> QED BY <1>1, <2>1, <3>2 DEF Effect, CountsPages
  <2> QED BY <2>3, <2>5, <2>6, <2>7, <2>8, <2>9, <2>10, <2>11
         DEF IInv, ListsLinked, NothingLost, Lists, Found
<1>10. CASE ~ (mem.flists[Top] = Null \/ NUM_ALLOC_PAGES + 1 <= MAX_PAGES)
  <2>1. /\ mem' = Erase(m, b) /\ mapped' = mapped /\ NUM_ALLOC_PAGES' = NUM_ALLOC_PAGES
        /\ call' = Idle
    <3>1. Reclaim(m, b, mapped \cup {p}, NUM_ALLOC_PAGES + 1) /\ NUM_ALLOC_PAGES + 1 > MAX_PAGES
      BY <1>4, <1>5, <1>10, BuddyAssumption DEF InsertPage, IInv, TypeOK
    <3>2. (mapped \cup {p}) \ {b.page} = mapped
      BY <1>1
    <3>3. NUM_ALLOC_PAGES \in Nat /\ NUM_ALLOC_PAGES + 1 - 1 = NUM_ALLOC_PAGES
      BY DEF IInv, TypeOK
    <3>4. call' = Idle
      BY <1>7, <1>10
    <3> QED BY <3>1, <3>2, <3>3, <3>4 DEF Reclaim
  <2>2. /\ mem' \in Memory /\ mem'.flists = mem.flists /\ mem'.head[b] = NoHeader
        /\ \A a \in Addr \ {b} : mem'.head[a] = mem.head[a]
    BY <1>1, <1>4, <2>1, EraseType
  <2>3. BlocksOf(mem') = BlocksOf(mem)
    BY <1>1, <1>2, <2>2, BlocksAreBlocksOf DEF BlocksOf, NoHeader
  <2>4. Listed' = Listed
    BY <1>7, <2>3, BlocksAreBlocksOf DEF Listed
  <2>5. Lists(mem', Listed)
    BY <1>2, <2>2, Basics, OthersUnlisted
  <2>6. Tiling(mem', mapped')
    BY <1>2, <2>1, <2>2, <2>3, BlocksAreBlocksOf, TilingFrame DEF IInv, BlocksOf
  <2>7. HeldIntact'
    BY <1>2, <2>2 DEF IInv, HeldIntact
  <2>8. TypeOK' /\ CallOK'
    BY <2>1, <2>2 DEF IInv, TypeOK, CallOK, Idle
  <2>9. HeldKept
    BY <1>2, <2>2 DEF HeldKept
  <2>10. Effect
    <3>1. Leave
      BY <1>2, <2>1, <2>2, <2>4 DEF Leave, Same, Idle, IInv, TypeOK
    <3> QED BY <2>1, <3>1 DEF Effect, CountsPages
  <2> QED BY <2>4, <2>5, <2>6, <2>7, <2>8, <2>9, <2>10
         DEF IInv, ListsLinked, NothingLost, Lists, Found
<1> QED BY <1>9, <1>10

(* A listed block is replaced by its two halves, on the list below.        *)
LEMMA SplitUpStep == ASSUME IInv, SplitUp PROVE IInv' /\ HeldKept /\ Effect
<1> DEFINE l    == call.level
           b    == mem.flists[l]
           u    == Unlink(mem, b)
           supl == Split(b, l)
           h    == [NoHeader EXCEPT !.status = "Free", !.level = l - 1]
           n    == [u EXCEPT !.head[supl] = h, !.head[b].level = l - 1]
           k    == Link(n, supl)
<1>1. /\ call \in Splitting /\ l \in Level /\ call.goal \in Level /\ l # 0 /\ l - 1 \in Level
      /\ call.goal <= l - 1 /\ call.goal = LevelOf(call.size) /\ mem.flists[l] # Null
      /\ InHand = {}
  <2>1. call \in Splitting /\ call.level # call.goal
    <3>1. call \in {Idle, Exit} \/ call \in Splitting \/ call \in Merging
      BY DEF IInv, TypeOK
    <3>2. call.op = "split" /\ call.level # call.goal
      BY DEF SplitUp
    <3>3. call \notin {Idle, Exit} /\ call \notin Merging
      BY <3>2 DEF Idle, Exit, Merging
    <3> QED BY <3>1, <3>2, <3>3
  <2>2. /\ l \in Level /\ call.goal \in Level /\ call.goal = LevelOf(call.size)
        /\ call.goal <= l /\ mem.flists[l] # Null
    BY <2>1 DEF IInv, CallOK, Splitting
  <2>3. l # 0 /\ l - 1 \in Level /\ call.goal <= l - 1
    BY <2>1, <2>2, AddressAssumption DEF Level
  <2>4. InHand = {}
    BY <2>1 DEF InHand, Splitting
  <2> QED BY <2>1, <2>2, <2>3, <2>4
<1>2. b \in Listed /\ b \in Blocks /\ b \in Addr /\ mem.head[b].level = l /\ Listed \in SUBSET Addr
  BY <1>1, Basics DEF Linked
<1>3. u \in Memory /\ SameBlocks(mem, u) /\ Lists(u, Listed \ {b}) /\ u.head[b].level = l
  <2>1. u \in Memory /\ SameBlocks(mem, u) /\ Lists(u, Listed \ {b})
    BY <1>2, Basics, UnlinkLists
  <2> HIDE DEF u
  <2> QED BY <1>2, <2>1 DEF SameBlocks
<1>4. Aligned(b, l)
  BY <1>2, BlocksAreBlocksOf DEF IInv, Tiling
<1>5. supl \in Addr /\ supl # b /\ supl \notin Blocks
  BY <1>1, <1>2, <1>4, SplitType, SplitIsNew, Basics, BlocksAreBlocksOf DEF IInv
<1>6. h \in Header /\ h.status = "Free" /\ h.level = l - 1
  BY <1>1, NoHeaderType DEF Header, NoHeader
<1>7. mem' = Link(k, b) /\ call' = [call EXCEPT !.level = l - 1]
      /\ held' = held /\ mapped' = mapped /\ NUM_ALLOC_PAGES' = NUM_ALLOC_PAGES
  BY <1>3 DEF SplitUp
<1> HIDE DEF b, u, supl, h
<1>8. /\ n \in Memory /\ n.flists = u.flists
      /\ n.head[supl] = h /\ n.head[b].level = l - 1 /\ n.head[b].status = mem.head[b].status
      /\ \A a \in Addr \ {b, supl} : n.head[a] = u.head[a]
  <2> DEFINE g == [u.head[b] EXCEPT !.level = l - 1]
  <2>1. /\ u \in Memory /\ u.head \in [Addr -> Header] /\ u.flists \in [Level -> Pointer]
        /\ u.head[b] \in Header /\ u.head[b].status = mem.head[b].status
    BY <1>2, <1>3 DEF Memory, SameBlocks
  <2>2. g \in Header /\ g.level = l - 1 /\ g.status = u.head[b].status
    BY <1>1, <2>1 DEF Header
  <2>3. /\ n.head = [u.head EXCEPT ![supl] = h, ![b] = g]
        /\ n.flists = u.flists /\ n = [head |-> n.head, flists |-> n.flists]
    <3>1. [u.head EXCEPT ![supl] = h][b] = u.head[b]
      BY <1>2, <1>5, <2>1
    <3>2. n = [u EXCEPT !.head = [u.head EXCEPT ![supl] = h, ![b] = g]]
      BY <3>1
    <3> HIDE DEF n, g
    <3> QED BY <2>1, <3>2 DEF Memory
  <2> HIDE DEF n, g
  <2>4. n.head \in [Addr -> Header] /\ n.head[supl] = h /\ n.head[b] = g
    BY <1>2, <1>5, <1>6, <2>1, <2>2, <2>3
  <2>5. \A a \in Addr \ {b, supl} : n.head[a] = u.head[a]
    BY <2>1, <2>3
  <2>6. n \in Memory
    BY <2>1, <2>3, <2>4 DEF Memory
  <2> QED BY <2>1, <2>2, <2>3, <2>4, <2>5, <2>6
<1> HIDE DEF n
<1>9. Lists(n, Listed \ {b})
  <2>1. Listed \ {b} \in SUBSET Addr /\ \A a \in Listed \ {b} : n.head[a] = u.head[a]
    BY <1>2, <1>5, <1>8, Basics
  <2> QED BY <1>3, <1>8, <2>1, OthersUnlisted
<1>10. k \in Memory /\ SameBlocks(n, k) /\ Lists(k, (Listed \ {b}) \cup {supl})
  <2>1. Listed \ {b} \in SUBSET Addr /\ supl \in Addr \ (Listed \ {b})
    BY <1>2, <1>5, Basics
  <2> QED BY <1>8, <1>9, <2>1, LinkLists
<1> HIDE DEF k
<1>11. /\ mem' \in Memory /\ SameBlocks(k, mem') /\ Lists(mem', ((Listed \ {b}) \cup {supl}) \cup {b})
       /\ mem'.flists[k.head[b].level] = b
  <2>1. (Listed \ {b}) \cup {supl} \in SUBSET Addr /\ b \in Addr \ ((Listed \ {b}) \cup {supl})
    BY <1>2, <1>5
  <2> QED BY <1>7, <1>10, <2>1, LinkLists
<1>12. /\ mem'.head[supl].level = l - 1 /\ mem'.head[supl].status = "Free"
       /\ mem'.head[b].level = l - 1 /\ mem'.head[b].status = mem.head[b].status
       /\ \A a \in Addr \ {b, supl} : /\ mem'.head[a].level = mem.head[a].level
                                       /\ mem'.head[a].status = mem.head[a].status
  BY <1>2, <1>3, <1>5, <1>6, <1>8, <1>10, <1>11 DEF SameBlocks
<1>13. mem'.flists[l - 1] = b
  BY <1>2, <1>8, <1>10, <1>11 DEF SameBlocks
<1>14. BlocksOf(mem') = BlocksOf(mem) \cup {supl}
  BY <1>2, <1>5, <1>12, BlocksAreBlocksOf DEF BlocksOf
<1>15. call' \in Splitting /\ call'.level = l - 1 /\ call'.goal = call.goal /\ call'.size = call.size
  BY <1>1, <1>7 DEF Splitting
<1>16. Listed' = ((Listed \ {b}) \cup {supl}) \cup {b}
  <2>1. held[supl] = 0 /\ InHand' = {}
    BY <1>5, <1>15, Basics DEF InHand, Splitting
  <2> QED BY <1>1, <1>2, <1>7, <1>14, <2>1, BlocksAreBlocksOf DEF Listed
<1>17. Tiling(mem', mapped')
  <2>1. BlocksOf(mem') = BlocksOf(mem) \cup {Split(b, l)} /\ mem'.head[Split(b, l)].level = l - 1
    BY <1>12, <1>14 DEF supl
  <2>2. /\ b \in BlocksOf(mem) /\ l = mem.head[b].level
        /\ \A a \in BlocksOf(mem) \ {b} : mem'.head[a].level = mem.head[a].level
    BY <1>2, <1>5, <1>12, BlocksAreBlocksOf DEF BlocksOf
  <2> HIDE DEF l
  <2>3. Tiling(mem', mapped)
    BY <1>1, <1>11, <1>12, <2>1, <2>2, Basics, SplitTiling DEF IInv
  <2> QED BY <1>7, <2>3
<1>18. HeldIntact'
  <2>1. \A a \in Addr : held[a] # 0 => a # b /\ a # supl
    BY <1>2, <1>5, Basics
  <2> QED BY <1>7, <1>12, <2>1 DEF IInv, HeldIntact
<1>19. TypeOK'
  BY <1>7, <1>11, <1>15 DEF IInv, TypeOK
<1>20. CallOK'
  BY <1>1, <1>2, <1>13, <1>15, Basics DEF CallOK, Splitting
<1>21. HeldKept
  <2>1. \A a \in Addr : held[a] # 0 => a # b /\ a # supl
    BY <1>2, <1>5, Basics
  <2> QED BY <1>12, <2>1 DEF HeldKept
<1>22. Effect
  <2>1. \A a \in Listed \ {b} : Same(a)
    BY <1>2, <1>5, <1>12, Basics DEF Same
  <2>2. Listed' = Listed \cup {supl}
    BY <1>2, <1>16
  <2>3. /\ call.op = "split" /\ call'.op = "split" /\ call'.level = l - 1
        /\ NUM_ALLOC_PAGES' <= NUM_ALLOC_PAGES
    BY <1>1, <1>7, <1>15 DEF Splitting, IInv, TypeOK
  <2> HIDE DEF l
  <2>4. Halve
    BY <1>1, <1>2, <1>4, <1>12, <1>13, <2>1, <2>2, <2>3 DEF Halve, b, supl, l
  <2> QED BY <1>7, <2>4 DEF Effect, CountsPages
<1> QED BY <1>11, <1>16, <1>17, <1>18, <1>19, <1>20, <1>21, <1>22
       DEF IInv, ListsLinked, NothingLost, Lists, Found

(* bfree, down to the end of insert or to merge.                           *)
LEMMA BfreeStep == ASSUME IInv, NEW b \in Addr, Bfree(b) PROVE IInv' /\ HeldKept /\ Effect
<1> DEFINE l == mem.head[b].level
           m == SetStatus(mem, b, "Free")
<1>1. /\ b \in Blocks /\ b \notin Listed /\ InHand = {} /\ l \in Level
      /\ held' = [held EXCEPT ![b] = 0]
  BY Basics DEF Bfree, InHand, Idle
<1>2. /\ m \in Memory /\ m.flists = mem.flists
      /\ \A a \in Addr \ {b} : m.head[a] = mem.head[a]
      /\ m.head[b].level = mem.head[b].level /\ m.head[b].status = "Free"
  <2>1. b \in Addr /\ mem \in Memory
    BY <1>1, Basics
  <2> QED BY <2>1, SetStatusType
<1>3. ASSUME mem' = Link(m, b), mapped' = mapped, NUM_ALLOC_PAGES' = NUM_ALLOC_PAGES, call' = Idle,
             IF l = Top THEN mem.flists[Top] = Null \/ NUM_ALLOC_PAGES <= MAX_PAGES
             ELSE mem.head[Buddy(b, l)].status = "Taken"
      PROVE  IInv' /\ HeldKept /\ Effect
  <2>1. call.op # "split"
    BY DEF Bfree, Idle
  <2>2. IF l = Top THEN mem.flists[Top] = Null \/ NUM_ALLOC_PAGES <= MAX_PAGES
        ELSE mem.head[Buddy(b, l)].status # "Free" \/ mem.head[Buddy(b, l)].level # l
    BY <1>3
  <2> HIDE DEF m
  <2> QED BY <1>1, <1>2, <1>3, <2>1, <2>2, LinkStep
<1>4. CASE l = Top /\ InsertPage(mem, b, mapped, NUM_ALLOC_PAGES) /\ call' = Idle
  <2>1. CASE mem.flists[Top] = Null \/ NUM_ALLOC_PAGES <= MAX_PAGES
    BY <1>3, <1>4, <2>1 DEF InsertPage, Keep
  <2>2. CASE ~ (mem.flists[Top] = Null \/ NUM_ALLOC_PAGES <= MAX_PAGES)
    <3>1. Reclaim(mem, b, mapped, NUM_ALLOC_PAGES) /\ NUM_ALLOC_PAGES > MAX_PAGES
      BY <1>4, <2>2, BuddyAssumption DEF InsertPage, IInv, TypeOK
    <3>2. call.op # "split"
      BY DEF Bfree, Idle
    <3> QED BY <1>1, <1>4, <3>1, <3>2, ReclaimStep
  <2> QED BY <2>1, <2>2
<1>5. CASE /\ l # Top /\ mem.head[Buddy(b, l)].status = "Taken"
           /\ Keep(Link(m, b), mapped, NUM_ALLOC_PAGES) /\ call' = Idle
  BY <1>3, <1>5 DEF Keep
<1>6. CASE Keep(mem, mapped, NUM_ALLOC_PAGES) /\ call' = [op |-> "merge", block |-> b]
  <2>1. mem' = mem /\ mapped' = mapped /\ NUM_ALLOC_PAGES' = NUM_ALLOC_PAGES
    BY <1>6 DEF Keep
  <2>2. Blocks' = Blocks /\ InHand' = {b}
    BY <1>6, <2>1 DEF Blocks, InHand
  <2>3. \A a \in Addr : held'[a] = IF a = b THEN 0 ELSE held[a]
    BY <1>1 DEF IInv, TypeOK
  <2>4. Listed' = Listed
    BY <1>1, <2>2, <2>3, Basics DEF Listed
  <2>5. HeldIntact'
    BY <2>1, <2>3 DEF IInv, HeldIntact
  <2>6. TypeOK'
    BY <1>1, <1>6, <2>1 DEF IInv, TypeOK, Merging
  <2>7. CallOK'
    BY <1>1, <1>6, <2>2, <2>3 DEF CallOK
  <2>8. HeldKept
    BY <2>1 DEF HeldKept
  <2>9. Effect
    <3>1. Leave
      BY <2>1, <2>4 DEF Leave, Same, Bfree, Idle, IInv, TypeOK
    <3> QED BY <2>1, <3>1 DEF Effect, CountsPages
  <2> QED BY <2>1, <2>4, <2>5, <2>6, <2>7, <2>8, <2>9
         DEF IInv, ListsLinked, NothingLost, Lists, Found
<1> QED BY <1>4, <1>5, <1>6 DEF Bfree, Insert

(* The block in hand and its free buddy become one block in hand.          *)
LEMMA MergeJoinStep == ASSUME IInv, MergeJoin PROVE IInv' /\ HeldKept /\ Effect
<1> DEFINE b == call.block
           l == mem.head[b].level
           o == Buddy(b, l)
           p == Primary(b, l)
           e == Buddy(p, l)
           u == Unlink(mem, o)
           q == [u EXCEPT !.head[p].level = @ + 1, !.head[p].status = "Free"]
<1>1. /\ call \in Merging /\ b \in Blocks /\ b \in Addr /\ held[b] = 0 /\ InHand = {b}
      /\ l \in Level /\ l # Top
      /\ mem.head[o].status = "Free" /\ mem.head[o].level = l
  <2>1. call.op = "merge" /\ Joinable(b)
    BY DEF MergeJoin
  <2>2. call \in Merging /\ InHand = {b} /\ b \in Blocks /\ held[b] = 0
    BY <2>1 DEF IInv, TypeOK, CallOK, Splitting, Merging, Idle, Exit, InHand
  <2>3. l # Top /\ mem.head[o].status = "Free" /\ mem.head[o].level = l
    BY <2>1 DEF Joinable
  <2> QED BY <2>2, <2>3, Basics
<1>2. Aligned(b, l)
  BY <1>1, BlocksAreBlocksOf DEF IInv, Tiling
<1>3. /\ o \in Addr /\ p \in Addr /\ o # b /\ l + 1 \in Level
      /\ \/ p = b /\ e = o
         \/ p = o /\ e = b
  BY <1>1, <1>2, BuddyType, PrimaryIsEither
<1>4. o \in Blocks /\ held[o] = 0 /\ o \in Listed /\ b \notin Listed /\ Listed \in SUBSET Addr
  BY <1>1, <1>3, Basics DEF Listed, Blocks, IInv, HeldIntact
<1>5. u \in Memory /\ SameBlocks(mem, u) /\ Lists(u, Listed \ {o})
  BY <1>4, Basics, UnlinkLists
<1>6. /\ mem' = Erase(q, e) /\ call' = [call EXCEPT !.block = p]
      /\ held' = held /\ mapped' = mapped /\ NUM_ALLOC_PAGES' = NUM_ALLOC_PAGES
  BY DEF MergeJoin
<1> HIDE DEF u
<1>7. u.head[p].level = l
  BY <1>1, <1>3, <1>5 DEF SameBlocks
<1> HIDE DEF b, l, o, p, e
<1>8. /\ q \in Memory /\ q.flists = u.flists
      /\ q.head[p].level = l + 1 /\ q.head[p].status = "Free"
      /\ \A a \in Addr \ {p} : q.head[a] = u.head[a]
  <2> DEFINE g == [u.head[p] EXCEPT !.level = @ + 1, !.status = "Free"]
  <2>1. /\ u.head \in [Addr -> Header] /\ u.flists \in [Level -> Pointer] /\ u.head[p] \in Header
    BY <1>3, <1>5 DEF Memory
  <2>2. g \in Header /\ g.level = l + 1 /\ g.status = "Free"
    BY <1>3, <1>7, <2>1 DEF Header
  <2>3. /\ q.head = [u.head EXCEPT ![p] = g]
        /\ q.flists = u.flists /\ q = [head |-> q.head, flists |-> q.flists]
    <3>1. q = [u EXCEPT !.head = [u.head EXCEPT ![p] = g]]
      OBVIOUS
    <3> HIDE DEF q, g
    <3> QED BY <1>5, <3>1 DEF Memory
  <2> HIDE DEF q, g
  <2>4. q.head \in [Addr -> Header] /\ q.head[p] = g /\ \A a \in Addr \ {p} : q.head[a] = u.head[a]
    BY <1>3, <2>1, <2>2, <2>3
  <2>5. q \in Memory
    BY <2>1, <2>3, <2>4 DEF Memory
  <2> QED BY <2>2, <2>3, <2>4, <2>5
<1> HIDE DEF q
<1>9. /\ mem' \in Memory /\ mem'.flists = u.flists /\ mem'.head[e] = NoHeader
      /\ mem'.head[p].level = l + 1 /\ mem'.head[p].status = "Free"
      /\ \A a \in Addr \ {p, e} : mem'.head[a] = u.head[a]
  <2>1. e \in Addr /\ p # e
    BY <1>1, <1>3
  <2>2. /\ mem' \in Memory /\ mem'.flists = q.flists /\ mem'.head[e] = NoHeader
        /\ \A a \in Addr \ {e} : mem'.head[a] = q.head[a]
    BY <1>6, <1>8, <2>1, EraseType
  <2> QED BY <1>3, <1>8, <2>1, <2>2
<1>10. \A a \in Addr \ {p, e} : /\ mem'.head[a].level = mem.head[a].level
                                /\ mem'.head[a].status = mem.head[a].status
  BY <1>5, <1>9 DEF SameBlocks
<1>11. BlocksOf(mem') = BlocksOf(mem) \ {e}
  BY <1>1, <1>3, <1>4, <1>9, <1>10, BlocksAreBlocksOf DEF BlocksOf, NoHeader
<1>12. call' \in Merging /\ call'.op = "merge" /\ call'.block = p
  BY <1>1, <1>3, <1>6 DEF Merging
<1>13. Listed' = Listed \ {o}
  <2>1. InHand' = {p}
    BY <1>12 DEF InHand
  <2> QED BY <1>1, <1>3, <1>4, <1>6, <1>11, <2>1, BlocksAreBlocksOf DEF Listed
<1>14. Lists(mem', Listed \ {o})
  <2>1. Listed \ {o} \in SUBSET Addr /\ \A a \in Listed \ {o} : mem'.head[a] = u.head[a]
    BY <1>3, <1>4, <1>9
  <2> QED BY <1>5, <1>9, <2>1, OthersUnlisted
<1>15. Tiling(mem', mapped')
  <2>1. /\ BlocksOf(mem') = BlocksOf(mem) \ {Buddy(Primary(b, l), l)}
        /\ mem'.head[Primary(b, l)].level = l + 1
        /\ \A a \in BlocksOf(mem') \ {Primary(b, l)} : mem'.head[a].level = mem.head[a].level
    BY <1>9, <1>10, <1>11 DEF BlocksOf, p, e
  <2>2. /\ b \in BlocksOf(mem) /\ l = mem.head[b].level
        /\ Buddy(b, l) \in BlocksOf(mem) /\ mem.head[Buddy(b, l)].level = l
    BY <1>1, <1>4, BlocksAreBlocksOf DEF l, o
  <2>3. Tiling(mem', mapped)
    BY <1>1, <1>9, <2>1, <2>2, Basics, JoinTiling DEF IInv
  <2> QED BY <1>6, <2>3
<1>16. HeldIntact'
  <2>1. \A a \in Addr : held[a] # 0 => a # p /\ a # e
    BY <1>1, <1>3, <1>4
  <2> QED BY <1>6, <1>10, <2>1 DEF IInv, HeldIntact
<1>17. TypeOK'
  BY <1>6, <1>9, <1>12 DEF IInv, TypeOK
<1>18. CallOK'
  BY <1>1, <1>3, <1>4, <1>6, <1>9, <1>12 DEF CallOK, Blocks
<1>19. HeldKept
  <2>1. \A a \in Addr : held[a] # 0 => a # p /\ a # e
    BY <1>1, <1>3, <1>4
  <2> QED BY <1>10, <2>1 DEF HeldKept
<1>20. Effect
  <2>1. \A a \in Listed \ {o} : a \in Addr \ {p, e}
    BY <1>1, <1>3, <1>4, Basics DEF Listed
  <2>2. Leave
    BY <1>1, <1>6, <1>10, <1>13, <2>1 DEF Leave, Same, Merging, IInv, TypeOK
  <2> QED BY <1>6, <2>2 DEF Effect, CountsPages
<1> QED BY <1>13, <1>14, <1>15, <1>16, <1>17, <1>18, <1>19, <1>20
       DEF IInv, ListsLinked, NothingLost, Lists, Found

(* The last activation of merge.                                           *)
LEMMA MergeLinkStep == ASSUME IInv, MergeLink PROVE IInv' /\ HeldKept /\ Effect
<1> DEFINE b == call.block
<1>1. /\ b \in Blocks /\ b \in Addr /\ held[b] = 0 /\ InHand = {b} /\ b \notin Listed
      /\ call' = Idle
  BY Basics DEF IInv, CallOK, MergeLink, InHand, Listed
<1>2. held' = [held EXCEPT ![b] = 0] /\ call.op # "split"
  BY <1>1 DEF MergeLink, IInv, TypeOK
<1>3. CASE mem.head[b].level = Top /\ NUM_ALLOC_PAGES > MAX_PAGES
  <2>1. Reclaim(mem, b, mapped, NUM_ALLOC_PAGES)
    BY <1>3 DEF MergeLink
  <2> HIDE DEF b
  <2> QED BY <1>1, <1>2, <1>3, <2>1, ReclaimStep
<1>4. CASE ~ (mem.head[b].level = Top /\ NUM_ALLOC_PAGES > MAX_PAGES)
  <2>1. mem' = Link(mem, b) /\ mapped' = mapped /\ NUM_ALLOC_PAGES' = NUM_ALLOC_PAGES
    BY <1>4 DEF MergeLink, Keep
  <2>2. mem.head[b].status # "None"
    BY <1>1 DEF Blocks
  <2>3. LET l == mem.head[b].level
        IN  IF l = Top THEN mem.flists[Top] = Null \/ NUM_ALLOC_PAGES <= MAX_PAGES
            ELSE mem.head[Buddy(b, l)].status # "Free" \/ mem.head[Buddy(b, l)].level # l
    BY <1>4, BuddyAssumption DEF MergeLink, Joinable, IInv, TypeOK
  <2> HIDE DEF b
  <2> QED BY <1>1, <1>2, <2>1, <2>2, <2>3, Basics, LinkStep
<1> QED BY <1>3, <1>4

-----------------------------------------------------------------------------
(* The theorems.                                                           *)

(* The invariant holds before the first call.                              *)
LEMMA InitOK == Init => IInv
<1> SUFFICES ASSUME Init PROVE IInv
  OBVIOUS
<1>1. TypeOK
  BY NoHeaderType DEF Init, TypeOK, Memory, Pointer
<1>2. BlocksOf(mem) = {} /\ Listed = {}
  BY DEF Init, BlocksOf, Listed, Blocks, NoHeader
<1>3. Tiling(mem, mapped)
  BY <1>2 DEF Init, Tiling, Addr
<1>4. HeldIntact /\ CallOK
  BY DEF Init, HeldIntact, CallOK, Idle
<1>5. ListsLinked
  BY <1>2 DEF Init, ListsLinked, Linked
<1>6. NothingLost
  BY <1>2 DEF NothingLost
<1> QED BY <1>1, <1>3, <1>4, <1>5, <1>6 DEF IInv

(* Nothing but the call changes, and it stays clear of any block.          *)
LEMMA CallStep ==
  ASSUME IInv, UNCHANGED <<mem, mapped, NUM_ALLOC_PAGES, held>>, call = Idle,
         call' \in {Idle, Exit} \cup Splitting, CallOK'
  PROVE  IInv' /\ HeldKept /\ Effect
<1>1. InHand = {} /\ InHand' = {} /\ Blocks' = Blocks
  BY DEF InHand, Idle, Exit, Splitting, Blocks
<1>2. Listed' = Listed
  BY <1>1 DEF Listed
<1>3. Effect
  BY <1>2 DEF Effect, Leave, Same, CountsPages, Idle, IInv, TypeOK
<1> QED BY <1>2, <1>3 DEF IInv, TypeOK, HeldIntact, ListsLinked, NothingLost, HeldKept

(* Every step keeps the invariant, and the levels of held blocks.          *)
LEMMA StepOK == IInv /\ [Next]_vars => IInv' /\ HeldKept /\ Effect
<1> SUFFICES ASSUME IInv, [Next]_vars PROVE IInv' /\ HeldKept /\ Effect
  OBVIOUS
<1>1. call = Idle => InHand = {}
  BY DEF InHand, Idle
<1>2. ASSUME NEW size \in Sizes, BallocFound(size) PROVE IInv' /\ HeldKept /\ Effect
  BY <1>1, <1>2, LevelOfFits, TakeStep DEF BallocFound, Idle
<1>3. ASSUME NEW size \in Sizes, BallocSplit(size) PROVE IInv' /\ HeldKept /\ Effect
  <2>1. PICK k \in Larger(LevelOf(size)) :
          call' = [op |-> "split", level |-> k, goal |-> LevelOf(size), size |-> size]
    BY <1>3 DEF BallocSplit
  <2>2. k \in Level /\ k > LevelOf(size) /\ mem.flists[k] # Null /\ LevelOf(size) \in Level
    BY LevelOfFits DEF Larger
  <2>3. call' \in Splitting
    BY <2>1, <2>2 DEF Splitting
  <2>4. CallOK'
    BY <1>3, <2>1, <2>2, Basics DEF CallOK, BallocSplit
  <2> QED BY <1>3, <2>3, <2>4, CallStep DEF BallocSplit
<1>4. ASSUME NEW size \in Sizes, BallocNew(size) PROVE IInv' /\ HeldKept /\ Effect
  <2>1. PICK p \in Pages \ mapped : InsertNew(p)
    BY <1>4 DEF BallocNew
  <2>2. LevelOf(size) \in Level /\ Top \in Level /\ \A k \in Level : k <= Top
    BY LevelOfFits, AddressAssumption DEF Level, Top
  <2>3. mem.flists[Top] = Null
    <3>1. CASE LevelOf(size) = Top
      BY <1>4, <3>1 DEF BallocNew
    <3>2. CASE LevelOf(size) # Top
      <4>1. Top > LevelOf(size)
        BY <2>2, <3>2, Basics
      <4> QED BY <1>4, <2>2, <4>1 DEF BallocNew, Larger
    <3> QED BY <3>1, <3>2
  <2>4. /\ call' \in Splitting /\ call'.goal = LevelOf(call'.size) /\ call'.level = Top
        /\ held' = held /\ call = Idle
    BY <1>4, <2>2 DEF BallocNew, Splitting
  <2> QED BY <2>1, <2>3, <2>4, InsertNewStep
<1>5. ASSUME MmapFails PROVE IInv' /\ HeldKept /\ Effect
  BY <1>5, CallStep DEF MmapFails, CallOK, Exit
<1>6. ASSUME Prepare PROVE IInv' /\ HeldKept /\ Effect
  <2>1. PICK p \in Pages \ mapped : InsertNew(p)
    BY <1>6 DEF Prepare
  <2>2. call' = Idle /\ call = Idle /\ held' = held
    BY <1>6 DEF Prepare
  <2> QED BY <2>1, <2>2, InsertNewStep DEF Idle
<1>7. ASSUME SplitDone PROVE IInv' /\ HeldKept /\ Effect
  <2>1. /\ call \in Splitting /\ call.goal \in Level /\ call.size \in Sizes /\ InHand = {}
    BY <1>7 DEF SplitDone, IInv, TypeOK, Splitting, Merging, Idle, Exit, InHand
  <2>2. Fits(call.size, call.goal) /\ mem.flists[call.goal] # Null
    BY <1>7, <2>1, LevelOfFits DEF SplitDone, IInv, CallOK
  <2> QED BY <1>7, <2>1, <2>2, TakeStep DEF SplitDone
<1>8. ASSUME UNCHANGED vars PROVE IInv' /\ HeldKept /\ Effect
  <2>1. Listed' = Listed
    BY <1>8 DEF vars, Listed, InHand, Blocks
  <2>2. Effect
    BY <1>8 DEF Effect, vars, CountsPages
  <2> QED BY <1>8, <2>1, <2>2 DEF IInv, vars, TypeOK, HeldIntact, ListsLinked, NothingLost, CallOK,
                          Blocks, HeldKept
<1> QED
  BY <1>2, <1>3, <1>4, <1>5, <1>6, <1>7, <1>8, SplitUpStep, BfreeStep, MergeJoinStep, MergeLinkStep
     DEF Next, Exited

(* The inductive invariant holds.                                          *)
LEMMA Invariance == Spec => []IInv
BY InitOK, StepOK, PTL DEF Spec

(* The types of the variables are those that TypeOK gives, for any number  *)
(* of pages, levels and sizes.                                             *)
THEOREM TypeCorrect == Spec => []TypeOK
<1>1. IInv => TypeOK
  BY DEF IInv
<1> QED BY <1>1, Invariance, PTL

(* Splitting, merging and the exchange of pages never lose memory and never *)
(* count it twice: the blocks tile the pages.                              *)
THEOREM PagesTiled == Spec => []Tiled
<1>1. IInv => Tiled
  <2> SUFFICES ASSUME IInv, NEW x \in Addr
               PROVE  LET around == {a \in Blocks : Within(x, a, mem.head[a].level)}
                      IN  IF x.page \in mapped THEN \E a \in Addr : around = {a}
                                                ELSE around = {}
    BY DEF Tiled
  <2> DEFINE around == {a \in Blocks : Within(x, a, mem.head[a].level)}
  <2>1. CASE x.page \in mapped
    <3>1. PICK a \in Blocks : a \in around
      BY <2>1, BlocksAreBlocksOf DEF IInv, Tiling, In
    <3>2. \A c \in around : c = a
      BY <3>1, BlocksAreBlocksOf DEF IInv, Tiling, In
    <3>3. around = {a} /\ a \in Addr
      BY <3>1, <3>2 DEF Blocks
    <3> QED BY <2>1, <3>3
  <2>2. CASE x.page \notin mapped
    <3>1. around = {}
      BY <2>2, BlocksAreBlocksOf DEF IInv, Tiling, Within
    <3> QED BY <2>2, <3>1
  <2> QED BY <2>1, <2>2
<1> QED BY <1>1, Invariance, PTL

(* merge and insert always read the header of a block behind buddy(block). *)
THEOREM BuddiesHaveHeaders == Spec => []BuddyHasHeader
<1>1. IInv => BuddyHasHeader
  BY Basics, BlocksAreBlocksOf, BuddyIsBlock DEF IInv, BuddyHasHeader
<1> QED BY <1>1, Invariance, PTL

(* A client's block stays marked Taken and large enough until it is given  *)
(* back.                                                                   *)
THEOREM HeldBlocksIntact == Spec => []HeldIntact
<1>1. IInv => HeldIntact
  BY DEF IInv
<1> QED BY <1>1, Invariance, PTL

(* The free lists are doubly linked and hold free blocks of their level.   *)
THEOREM ListsCorrect == Spec => []ListsLinked
<1>1. IInv => ListsLinked
  BY DEF IInv
<1> QED BY <1>1, Invariance, PTL

(* Every free block can be found from the heads of the lists: no list ends *)
(* early or turns back on itself (link_block, unlink_block).               *)
THEOREM NoBlockLost == Spec => []NothingLost
<1>1. IInv => NothingLost
  BY DEF IInv
<1> QED BY <1>1, Invariance, PTL

(* a is on the lists with its buddy, and both are marked Free.             *)
Unjoined(a) ==
  LET l == mem.head[a].level
      o == Buddy(a, l)
  IN  /\ l # Top
      /\ o \in Listed
      /\ mem.head[o].level = l
      /\ mem.head[a].status = "Free"
      /\ mem.head[o].status = "Free"

(* Such buddies are the halves that split_up has just made, and the next   *)
(* step takes the first of them.                                           *)
JoinedInv ==
  \A a \in Listed : Unjoined(a) =>
    /\ call.op = "split"
    /\ mem.flists[call.level] \in {a, Buddy(a, mem.head[a].level)}

LEMMA JoinedLeave == ASSUME IInv, JoinedInv, Leave PROVE JoinedInv'
<1> SUFFICES ASSUME NEW a \in Listed', Unjoined(a)' PROVE FALSE
  BY DEF JoinedInv
<1> DEFINE o == Buddy(a, mem.head[a].level)
<1>1. a \in Listed /\ Same(a)
  BY DEF Leave
<1>2. mem'.head[a].level = mem.head[a].level /\ mem'.head[a].status = mem.head[a].status
  BY <1>1 DEF Same
<1>3. o \in Listed'
  BY <1>2 DEF Unjoined
<1>4. /\ o \in Listed
      /\ mem'.head[o].level = mem.head[o].level /\ mem'.head[o].status = mem.head[o].status
  BY <1>3 DEF Leave, Same
<1>5. Unjoined(a)
  BY <1>2, <1>4 DEF Unjoined
<1> QED BY <1>1, <1>3, <1>5 DEF JoinedInv, Leave

LEMMA JoinedCome ==
  ASSUME IInv, IInv', JoinedInv, NEW b \in Addr, Come(b)
  PROVE  JoinedInv'
<1> SUFFICES ASSUME NEW a \in Listed', Unjoined(a)' PROVE FALSE
  BY DEF JoinedInv
<1> DEFINE l == mem'.head[a].level
           o == Buddy(a, l)
<1>1. /\ a \in Listed \cup {b} /\ o \in Listed \cup {b} /\ l # Top
      /\ mem'.head[o].level = l /\ mem'.head[a].status = "Free" /\ mem'.head[o].status = "Free"
      /\ call.op # "split" /\ b \notin Listed
  BY DEF Come, Unjoined
<1>2. \A c \in Listed : /\ mem'.head[c].level = mem.head[c].level
                        /\ mem'.head[c].status = mem.head[c].status
  BY DEF Come, Same
<1>3. a \in Addr /\ a \in Blocks' /\ l \in Level /\ Aligned(a, l)
  <2>1. Listed \subseteq Addr /\ Blocks' = BlocksOf(mem') /\ Listed' \subseteq Blocks'
    BY Basics, BlocksAreBlocksOf DEF Listed
  <2>2. a \in Addr
    BY <1>1, <2>1
  <2>3. l \in Level
    BY <2>2 DEF IInv, TypeOK, Memory, Header
  <2> QED BY <2>1, <2>2, <2>3 DEF IInv, Tiling
<1>4. o \in Addr /\ o # a /\ Buddy(o, l) = a
  BY <1>1, <1>3, BuddyType, BuddyTwice
<1>5. CASE a \in Listed /\ o \in Listed
  <2>1. Unjoined(a)
    BY <1>1, <1>2, <1>5 DEF Unjoined
  <2> QED BY <1>1, <1>5, <2>1 DEF JoinedInv
<1>6. CASE a = b
  <2>1. o \in Listed /\ Buddy(b, mem'.head[b].level) = o /\ mem'.head[b].level # Top
    BY <1>1, <1>4, <1>6
  <2>2. mem.head[o].status # "Free" \/ mem.head[o].level # mem'.head[b].level
    BY <2>1 DEF Come
  <2> QED BY <1>1, <1>2, <1>6, <2>1, <2>2
<1>7. CASE o = b
  <2>1. a \in Listed /\ mem'.head[b].level = l
    BY <1>1, <1>4, <1>7
  <2>2. Buddy(b, mem'.head[b].level) = a
    BY <1>4, <1>7, <2>1
  <2>3. mem.head[a].status # "Free" \/ mem.head[a].level # l
    BY <1>1, <2>1, <2>2 DEF Come
  <2> QED BY <1>1, <1>2, <2>1, <2>3
<1> QED BY <1>1, <1>5, <1>6, <1>7

LEMMA JoinedHalve == ASSUME IInv, IInv', JoinedInv, Halve PROVE JoinedInv'
<1> DEFINE l == call.level
           b == mem.flists[l]
           s == Split(b, l)
<1>1. /\ call.op = "split" /\ call'.op = "split" /\ call'.level = l - 1
      /\ l \in Level /\ l # 0 /\ b \in Listed /\ Aligned(b, l)
      /\ Listed' = Listed \cup {s}
      /\ \A a \in Listed \ {b} : /\ mem'.head[a].level = mem.head[a].level
                                 /\ mem'.head[a].status = mem.head[a].status
      /\ mem'.head[b].level = l - 1 /\ mem'.head[s].level = l - 1
      /\ mem'.flists[l - 1] = b
  BY DEF Halve, Same
<1>2. b \in Addr /\ s \in Addr /\ Buddy(s, l - 1) = b /\ Listed \subseteq Addr
  BY <1>1, Basics, SplitType, SplitBuddy
<1> HIDE DEF b, s, l
<1> SUFFICES ASSUME NEW a \in Listed', Unjoined(a)'
             PROVE  mem'.flists[call'.level] \in {a, Buddy(a, mem'.head[a].level)}
  BY <1>1 DEF JoinedInv
<1> DEFINE k == mem'.head[a].level
           o == Buddy(a, k)
<1>3. /\ o \in Listed' /\ k # Top /\ mem'.head[o].level = k
      /\ mem'.head[a].status = "Free" /\ mem'.head[o].status = "Free"
  BY DEF Unjoined
<1>4. a \in Addr /\ k \in Level /\ Aligned(a, k)
  <2>1. Blocks' = BlocksOf(mem') /\ Listed' \subseteq Blocks'
    BY BlocksAreBlocksOf DEF Listed
  <2>2. a \in Addr
    BY <1>1, <1>2
  <2>3. k \in Level
    BY <2>2 DEF IInv, TypeOK, Memory, Header
  <2> QED BY <2>1, <2>2, <2>3 DEF IInv, Tiling
<1>5. Buddy(o, k) = a
  BY <1>3, <1>4, BuddyTwice
<1> HIDE DEF k, o
<1>6. CASE a = b \/ o = b
  BY <1>1, <1>6 DEF k, o
<1>7. CASE a = s \/ o = s
  <2>1. k = l - 1
    BY <1>1, <1>3, <1>7 DEF k
  <2>2. CASE a = s
    BY <1>1, <1>2, <2>1, <2>2 DEF k
  <2>3. CASE o = s
    BY <1>1, <1>2, <1>5, <2>1, <2>3
  <2> QED BY <1>7, <2>2, <2>3
<1>8. CASE a \notin {b, s} /\ o \notin {b, s}
  <2>1. a \in Listed \ {b} /\ o \in Listed \ {b}
    BY <1>1, <1>3, <1>8
  <2>2. k = mem.head[a].level
    BY <1>1, <2>1 DEF k
  <2>3. Unjoined(a)
    BY <1>1, <1>3, <2>1, <2>2 DEF Unjoined, o
  <2>4. b \in {a, o}
    BY <2>1, <2>2, <2>3 DEF JoinedInv, b, l, o
  <2> QED BY <1>8, <2>4
<1> QED BY <1>6, <1>7, <1>8

(* Two buddies that are both free and whole never lie on the lists side by *)
(* side between two calls: merge has joined them (bfree, merge).           *)
THEOREM BuddiesAreJoined == Spec => []MarkedBuddiesJoined
<1>1. Init => JoinedInv
  BY DEF Init, JoinedInv, Listed, Blocks, NoHeader
<1>2. IInv /\ JoinedInv /\ [Next]_vars => JoinedInv'
  <2> SUFFICES ASSUME IInv, JoinedInv, [Next]_vars PROVE JoinedInv'
    OBVIOUS
  <2>1. IInv' /\ (Leave \/ (\E b \in Addr : Come(b)) \/ Halve \/ UNCHANGED vars)
    BY StepOK DEF Effect
  <2>2. CASE UNCHANGED vars
    BY <2>2 DEF vars, JoinedInv, Unjoined, Listed, Blocks, InHand
  <2> QED BY <2>1, <2>2, JoinedLeave, JoinedCome, JoinedHalve
<1>3. JoinedInv => MarkedBuddiesJoined
  BY DEF JoinedInv, Unjoined, MarkedBuddiesJoined
<1> QED BY <1>1, <1>2, <1>3, Invariance, PTL DEF Spec

(* A list without a first block has no blocks.                             *)
LEMMA EmptyLevel ==
  ASSUME IInv, NEW l \in Level, mem.flists[l] = Null, NEW a \in Listed
  PROVE  mem.head[a].level # l
<1> DEFINE T == {c \in Listed : mem.head[c].level # l}
<1>1. \A k \in Level : mem.flists[k] \in T \cup {Null}
  BY DEF IInv, ListsLinked, Linked
<1>2. \A c \in T : mem.head[c].next \in T \cup {Null}
  BY DEF IInv, ListsLinked, Linked
<1>3. T \in SUBSET Listed
  OBVIOUS
<1> HIDE DEF T
<1>4. T = Listed
  BY <1>1, <1>2, <1>3 DEF IInv, NothingLost
<1> QED BY <1>4 DEF T

(* The pages that lie idle are one at most when there are many.            *)
PagesInv ==
  /\ IsFiniteSet(mapped) /\ NUM_ALLOC_PAGES = Cardinality(mapped)
  /\ NUM_ALLOC_PAGES > MAX_PAGES =>
       \A a, b \in Listed : mem.head[a].level = Top /\ mem.head[b].level = Top => a = b

LEMMA PagesCounted == ASSUME IInv, PagesInv, CountsPages
                      PROVE  IsFiniteSet(mapped)' /\ NUM_ALLOC_PAGES' = Cardinality(mapped)'
<1>1. ASSUME NEW p \in Pages \ mapped, mapped' = mapped \cup {p}
      PROVE  IsFiniteSet(mapped') /\ Cardinality(mapped') = Cardinality(mapped) + 1
  BY <1>1, FS_AddElement DEF PagesInv
<1>2. ASSUME NEW p \in mapped, mapped' = mapped \ {p}
      PROVE  IsFiniteSet(mapped') /\ Cardinality(mapped') = Cardinality(mapped) - 1
  BY <1>2, FS_RemoveElement DEF PagesInv
<1> QED BY <1>1, <1>2 DEF CountsPages, PagesInv

LEMMA PagesIdle ==
  ASSUME IInv, IInv', PagesInv, Effect, NUM_ALLOC_PAGES' > MAX_PAGES,
         NEW a \in Listed', NEW b \in Listed',
         mem'.head[a].level = Top, mem'.head[b].level = Top
  PROVE  a = b
<1>1. NUM_ALLOC_PAGES \in Nat /\ NUM_ALLOC_PAGES' \in Nat /\ MAX_PAGES \in Nat
  BY BuddyAssumption DEF IInv, TypeOK
<1>2. CASE Leave
  BY <1>1, <1>2 DEF Leave, Same, PagesInv
<1>3. ASSUME NEW c \in Addr, Come(c) PROVE a = b
  <2>1. \A d \in Listed : mem'.head[d].level = mem.head[d].level
    BY <1>3 DEF Come, Same
  <2>2. a \in Listed \cup {c} /\ b \in Listed \cup {c}
    BY <1>3 DEF Come
  <2>3. CASE mem'.head[c].level = Top
    <3>1. mem.flists[Top] = Null
      BY <1>1, <1>3, <2>3 DEF Come
    <3>2. \A d \in Listed : mem.head[d].level # Top
      BY <3>1, EmptyLevel, Basics
    <3> QED BY <2>1, <2>2, <3>2
  <2>4. CASE mem'.head[c].level # Top
    <3>1. a \in Listed /\ b \in Listed /\ NUM_ALLOC_PAGES' <= NUM_ALLOC_PAGES
      BY <1>3, <2>2, <2>4 DEF Come
    <3> QED BY <1>1, <2>1, <3>1 DEF PagesInv
  <2> QED BY <2>3, <2>4
<1>4. CASE Halve
  <2> DEFINE h == mem.flists[call.level]
             s == Split(h, call.level)
  <2>1. /\ h \in Listed /\ Listed' = Listed \cup {s} /\ NUM_ALLOC_PAGES' <= NUM_ALLOC_PAGES
        /\ \A d \in Listed \ {h} : mem'.head[d].level = mem.head[d].level
        /\ mem'.head[h].level = call.level - 1 /\ mem'.head[s].level = call.level - 1
        /\ call.level \in Level /\ call.level # 0
    BY <1>4 DEF Halve, Same
  <2>2. call.level - 1 # Top
    BY <2>1, AddressAssumption DEF Level, Top
  <2> HIDE DEF h, s
  <2>3. a \in Listed \ {h} /\ b \in Listed \ {h}
    BY <2>1, <2>2
  <2> QED BY <1>1, <2>1, <2>3 DEF PagesInv
<1>5. CASE UNCHANGED vars
  <2>1. Listed' = Listed
    BY <1>5 DEF vars, Listed, Blocks, InHand
  <2> QED BY <1>5, <2>1 DEF vars, PagesInv
<1> QED BY <1>2, <1>3, <1>4, <1>5 DEF Effect

(* NUM_ALLOC_PAGES counts the pages of the process, and beyond MAX_PAGES   *)
(* one page at most lies idle: the others were given back (insert, merge). *)
THEOREM IdlePagesReturned == Spec => []PagesKept
<1>1. Init => PagesInv
  BY FS_EmptySet, BuddyAssumption DEF Init, PagesInv, Listed, Blocks, NoHeader
<1>2. IInv /\ PagesInv /\ [Next]_vars => PagesInv'
  <2> SUFFICES ASSUME IInv, PagesInv, [Next]_vars PROVE PagesInv'
    OBVIOUS
  <2>1. IInv' /\ Effect /\ CountsPages
    BY StepOK DEF Effect
  <2> QED BY <2>1, PagesCounted, PagesIdle DEF PagesInv
<1>3. PagesInv => PagesKept
  <2> SUFFICES ASSUME PagesInv, NUM_ALLOC_PAGES > MAX_PAGES
               PROVE  Cardinality({a \in Listed : mem.head[a].level = Top}) <= 1
    BY DEF PagesInv, PagesKept
  <2> DEFINE I == {a \in Listed : mem.head[a].level = Top}
  <2>1. \A a, b \in I : a = b
    BY DEF PagesInv
  <2> HIDE DEF I
  <2>2. CASE I = {}
    BY <2>2, FS_EmptySet DEF I
  <2>3. CASE I # {}
    <3>1. PICK a \in I : TRUE
      BY <2>3
    <3>2. I = {a}
      BY <2>1, <3>1
    <3>3. Cardinality(I) = 1
      BY <3>2, FS_Singleton
    <3> QED BY <3>3 DEF I
  <2> QED BY <2>2, <2>3
<1> QED BY <1>1, <1>2, <1>3, Invariance, PTL DEF Spec

(* The program does for its client what Allocator promises: every block it *)
(* hands out is large enough, overlaps nothing that is in use, and stays   *)
(* as it is until the client gives it back.                                *)
InUse == {[at |-> a, level |-> mem.head[a].level, size |-> held[a]] :
          a \in {x \in Addr : held[x] # 0}}

(* The abstract definitions of the addresses are those of the program.     *)
LEMMA SameAddresses ==
  /\ Abstract!Addr = Addr /\ Abstract!Level = Level
  /\ \A size, l : Abstract!Fits(size, l) <=> Fits(size, l)
  /\ \A a, l : Abstract!Aligned(a, l) <=> Aligned(a, l)
  /\ \A a, k, b, l : Abstract!Overlap(a, k, b, l) <=> Overlap(a, k, b, l)
BY DEF Abstract!Addr, Addr, Abstract!Level, Level, Abstract!Fits, Fits, Abstract!BlockSize,
       BlockSize, Abstract!Aligned, Aligned, Abstract!Overlap, Overlap, Abstract!Within, Within

(* The last lines of find are an allocation of the abstract allocator.     *)
LEMMA TakeAllocates ==
  ASSUME IInv, HeldKept, NEW l \in Level, NEW size \in Sizes, Fits(size, l),
         mem.flists[l] # Null, Take(l, size)
  PROVE  Abstract!AllocatorNext
<1> DEFINE b == mem.flists[l]
           g == [at |-> b, level |-> l, size |-> size]
<1>1. b \in Listed /\ b \in Blocks /\ b \in Addr /\ mem.head[b].level = l /\ held[b] = 0
  BY Basics DEF Linked
<1>2. mem'.head[b].level = l
  <2>1. Unlink(mem, b) \in Memory /\ SameBlocks(mem, Unlink(mem, b))
    BY <1>1, Basics, UnlinkLists
  <2>2. mem' = SetStatus(Unlink(mem, b), b, "Taken")
    BY DEF Take
  <2> QED BY <1>1, <2>1, <2>2 DEF SetStatus, Memory, Header, SameBlocks
<1>3. \A a \in Addr : held'[a] = IF a = b THEN size ELSE held[a]
  BY <1>1 DEF Take, IInv, TypeOK
<1>4. size # 0
  BY Basics
<1> HIDE DEF b
<1>5. InUse' = InUse \cup {g}
  BY <1>1, <1>2, <1>3, <1>4 DEF InUse, HeldKept
<1>6. Aligned(b, l)
  BY <1>1, BlocksAreBlocksOf DEF IInv, Tiling
<1>7. ASSUME NEW h \in InUse PROVE ~ Overlap(b, l, h.at, h.level)
  <2>1. PICK a \in Addr : /\ held[a] # 0
                          /\ h = [at |-> a, level |-> mem.head[a].level, size |-> held[a]]
    BY DEF InUse
  <2>2. a \in Blocks /\ a # b
    BY <1>1, <2>1, Basics
  <2>3. ASSUME NEW x \in Addr, Within(x, b, l), Within(x, a, mem.head[a].level) PROVE FALSE
    BY <1>1, <2>2, <2>3, BlocksAreBlocksOf DEF IInv, Tiling, In
  <2> QED BY <2>1, <2>3 DEF Overlap
<1>8. g \in Abstract!Grant
  BY <1>1, SameAddresses DEF Abstract!Grant
<1>9. PICK c \in Abstract!Grant : c = g
  BY <1>8
<1>10. Abstract!Allocate(c)
  <2>1. /\ Abstract!Fits(g.size, g.level) /\ Abstract!Aligned(g.at, g.level)
        /\ \A h \in InUse : ~ Abstract!Overlap(g.at, g.level, h.at, h.level)
    BY <1>6, <1>7, SameAddresses
  <2> QED BY <1>5, <1>9, <2>1 DEF Abstract!Allocate, InUse
<1> QED BY <1>10 DEF Abstract!AllocatorNext

(* bfree is a release of the abstract allocator.                           *)
LEMMA BfreeReleases ==
  ASSUME IInv, HeldKept, NEW b \in Addr, Bfree(b)
  PROVE  Abstract!AllocatorNext
<1> DEFINE g == [at |-> b, level |-> mem.head[b].level, size |-> held[b]]
<1>1. held[b] # 0 /\ \A a \in Addr : held'[a] = IF a = b THEN 0 ELSE held[a]
  BY DEF Bfree, IInv, TypeOK
<1>2. g \in InUse /\ InUse' = InUse \ {g}
  BY <1>1 DEF InUse, HeldKept
<1>3. g \in Abstract!Grant
  BY <1>1, Basics, SameAddresses DEF Abstract!Grant
<1>4. PICK c \in Abstract!Grant : c = g
  BY <1>3
<1>5. Abstract!Release(c)
  BY <1>2, <1>4 DEF Abstract!Release, InUse
<1> QED BY <1>5 DEF Abstract!AllocatorNext

(* What leaves the held blocks alone is no step of the abstract allocator. *)
LEMMA OthersStutter ==
  ASSUME IInv, HeldKept, held' = held
  PROVE  InUse' = InUse
BY DEF InUse, HeldKept

(* Every step is one of the abstract allocator, or none.                   *)
LEMMA StepSimulates ==
  ASSUME IInv, HeldKept, [Next]_vars
  PROVE  Abstract!AllocatorNext \/ InUse' = InUse
<1>1. ASSUME NEW size \in Sizes, BallocFound(size) PROVE Abstract!AllocatorNext
  BY <1>1, LevelOfFits, TakeAllocates DEF BallocFound
<1>2. ASSUME SplitDone PROVE Abstract!AllocatorNext
  <2>1. call \in Splitting /\ call.goal \in Level /\ call.size \in Sizes
    BY <1>2 DEF SplitDone, IInv, TypeOK, Splitting, Merging, Idle, Exit
  <2>2. Fits(call.size, call.goal) /\ mem.flists[call.goal] # Null
    BY <1>2, <2>1, LevelOfFits DEF SplitDone, IInv, CallOK
  <2> QED BY <1>2, <2>1, <2>2, TakeAllocates DEF SplitDone
<1>3. ASSUME NEW b \in Addr, Bfree(b) PROVE Abstract!AllocatorNext
  BY <1>3, BfreeReleases
<1>4. ASSUME NEW size \in Sizes, BallocSplit(size) \/ BallocNew(size) PROVE InUse' = InUse
  BY <1>4, OthersStutter DEF BallocSplit, BallocNew
<1>5. ASSUME MmapFails \/ Prepare \/ SplitUp \/ MergeJoin \/ MergeLink \/ UNCHANGED vars
      PROVE  InUse' = InUse
  BY <1>5, OthersStutter DEF MmapFails, Prepare, SplitUp, MergeJoin, MergeLink, vars
<1> QED BY <1>1, <1>2, <1>3, <1>4, <1>5 DEF Next, Exited

THEOREM Implements == Spec => ImplementsAllocator
<1>1. Init => Abstract!AllocatorInit
  BY DEF Init, Abstract!AllocatorInit
<1>2. IInv /\ [Next]_vars => [Abstract!AllocatorNext]_InUse
  BY StepOK, StepSimulates
<1> QED BY <1>1, <1>2, Invariance, PTL DEF Spec, ImplementsAllocator, Abstract!AllocatorSpec, InUse
=============================================================================
