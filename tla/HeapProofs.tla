------------------------------ MODULE HeapProofs ------------------------------
(***************************************************************************)
(* Proofs about Heap, for every buffer, every set of sizes, every header   *)
(* and every end of the heap, for both allocators over both breaks: the    *)
(* memory that bench.c was given is its own (HeapIntact), and the heap of  *)
(* mhysa.c stops growing (GrowthBounded).                                  *)
(***************************************************************************)
EXTENDS Heap, FiniteSetTheorems, SequenceTheorems, TLAPS

(* The chunks lie one behind the other, each of a size that was asked for  *)
(* once, below the break and below the end of the heap.                    *)
Laid ==
  /\ brkp \in Nat /\ Chunks \subseteq Nat
  /\ \A c \in Chunks : size[c] \in Sizes /\ End(c) <= brkp /\ End(c) <= MAX_HEAP
  /\ \A c, d \in Chunks : c < d => End(c) <= d

(* A position in use has a chunk of its own, large enough.                 *)
Served ==
  /\ held \in [Positions -> Int] /\ asked \in [Positions -> Nat]
  /\ index \in Positions \cup {Empty}
  /\ \A p \in InUse : held[p] \in Chunks /\ asked[p] <= size[held[p]]
  /\ \A p, q \in InUse : held[p] = held[q] => p = q

(* The chunks that are in use.                                             *)
Holding == {held[p] : p \in InUse}

(* mhysa.c: a chunk is held by a position or is in the list, once.         *)
Kept ==
  allocator = "mhysa" =>
    /\ \A j, k \in 1 .. Len(flist) : flist[j] = flist[k] => j = k
    /\ \A k \in 1 .. Len(flist) : flist[k] \in Chunks /\ flist[k] \notin Holding
    /\ \A c \in Chunks : c \in Holding \/ (\E k \in 1 .. Len(flist) : flist[k] = c)
    /\ outcome # "segv" => \A c \in Chunks : End(c) \in Chunks \cup {brkp}

Listing ==
  /\ flist \in Seq(Int)
  /\ allocator # "mhysa" => flist = <<>>

HeapInv == Laid /\ Served /\ Listing /\ Kept

(* The chunks of one size.                                                 *)
Sized(n) == {c \in Chunks : size[c] = n}

GrowthInv ==
  allocator = "mhysa" =>
    \A n \in Sizes : /\ IsFiniteSet(Sized(n))
                     /\ Cardinality(Sized(n)) <= Cardinality(Positions)
-----------------------------------------------------------------------------
(* What unlinking one chunk of a list does to it.                          *)
LEMMA RemoveAtFacts ==
  ASSUME NEW s \in Seq(Int), NEW k \in 1 .. Len(s)
  PROVE  /\ RemoveAt(s, k) \in Seq(Int)
         /\ Len(RemoveAt(s, k)) = Len(s) - 1
         /\ \A j \in 1 .. Len(s) - 1 : RemoveAt(s, k)[j] = IF j < k THEN s[j] ELSE s[j + 1]
  <1> DEFINE a == SubSeq(s, 1, k - 1)
             b == SubSeq(s, k + 1, Len(s))
  <1>1. Len(s) \in Nat /\ k \in Int /\ 1 \in Int /\ k - 1 \in Int /\ k + 1 \in Int /\ Len(s) \in Int
    BY LenProperties
  <1>2. \A i \in 1 .. Len(s) : s[i] \in Int
    BY ElementOfSeq
  <1>3. \A i \in 1 .. k - 1 : s[i] \in Int
    BY <1>1, <1>2
  <1>4. \A i \in k + 1 .. Len(s) : s[i] \in Int
    BY <1>1, <1>2
  <1>5. /\ a \in Seq(Int) /\ Len(a) = k - 1
        /\ \A i \in 1 .. k - 1 : a[i] = s[i]
    <2>1. /\ a \in Seq(Int)
          /\ Len(a) = IF 1 <= k - 1 THEN k - 1 - 1 + 1 ELSE 0
          /\ \A i \in 1 .. k - 1 - 1 + 1 : a[i] = s[1 + i - 1]
      BY <1>1, <1>3, SubSeqProperties
    <2> HIDE DEF a
    <2>2. Len(a) = k - 1
      BY ONLY <1>1, <2>1
    <2>3. ASSUME NEW i \in 1 .. k - 1 PROVE a[i] = s[i]
      <3>1. i \in 1 .. k - 1 - 1 + 1 /\ 1 + i - 1 = i
        BY ONLY <1>1, i \in 1 .. k - 1
      <3> QED
        BY <2>1, <3>1
    <2> QED
      BY <2>1, <2>2, <2>3
  <1>6. /\ b \in Seq(Int) /\ Len(b) = Len(s) - k
        /\ \A i \in 1 .. Len(s) - k : b[i] = s[k + i]
    <2>1. /\ b \in Seq(Int)
          /\ Len(b) = IF k + 1 <= Len(s) THEN Len(s) - (k + 1) + 1 ELSE 0
          /\ \A i \in 1 .. Len(s) - (k + 1) + 1 : b[i] = s[k + 1 + i - 1]
      BY <1>1, <1>4, SubSeqProperties
    <2> HIDE DEF b
    <2> QED
      BY <1>1, <2>1
  <1>7. RemoveAt(s, k) = a \o b
    BY DEF RemoveAt
  <1> HIDE DEF a, b
  <1>8. /\ a \o b \in Seq(Int)
        /\ Len(a \o b) = Len(a) + Len(b)
        /\ \A i \in 1 .. Len(a) + Len(b) : (a \o b)[i] = IF i <= Len(a) THEN a[i] ELSE b[i - Len(a)]
    BY <1>5, <1>6, ConcatProperties
  <1>10. Len(a) + Len(b) = Len(s) - 1
    BY <1>1, <1>5, <1>6
  <1>9. ASSUME NEW j \in 1 .. Len(s) - 1
        PROVE  (a \o b)[j] = IF j < k THEN s[j] ELSE s[j + 1]
    <2>1. CASE j < k
      BY <1>1, <1>5, <1>6, <1>8, <1>10, <2>1
    <2>2. CASE ~(j < k)
      <3>1. j - (k - 1) \in 1 .. Len(s) - k /\ k + (j - (k - 1)) = j + 1 /\ ~(j <= k - 1) /\ ~(j < k)
        BY <1>1, <2>2
      <3>2. (a \o b)[j] = b[j - (k - 1)]
        BY <1>5, <1>8, <1>10, <3>1
      <3> QED
        BY <1>1, <1>6, <2>2, <3>1, <3>2
    <2> QED
      BY <1>1, <2>1, <2>2
  <1> QED
    BY <1>1, <1>7, <1>8, <1>9, <1>10

(* What freeing a chunk does to the list.                                  *)
LEMMA PrependFacts ==
  ASSUME NEW s \in Seq(Int), NEW c \in Int
  PROVE  /\ <<c>> \o s \in Seq(Int)
         /\ Len(<<c>> \o s) = Len(s) + 1
         /\ (<<c>> \o s)[1] = c
         /\ \A j \in 2 .. Len(s) + 1 : (<<c>> \o s)[j] = s[j - 1]
  <1>1. <<c>> \in Seq(Int) /\ Len(<<c>>) = 1 /\ <<c>>[1] = c /\ Len(s) \in Nat
    BY LenProperties
  <1> QED
    BY <1>1, ConcatProperties

LEMMA HeapInitially == HeapInit => HeapInv
  <1> SUFFICES ASSUME HeapInit PROVE HeapInv
    OBVIOUS
  <1> USE HeapAssumption DEF HeapInit
  <1>1. Chunks = {}
    BY DEF Chunks
  <1>2. InUse = {}
    BY DEF InUse
  <1> QED
    BY <1>1, <1>2 DEF HeapInv, Laid, Served, Listing, Kept, Empty

-----------------------------------------------------------------------------
(* bench.c frees what it had at the position it picked.                    *)
LEMMA PickKeeps ==
  ASSUME HeapInv, NEW p \in Positions, Pick(p)
  PROVE  HeapInv'
  <1> USE HeapAssumption DEF Pick
  <1>1. Chunks' = Chunks /\ Header' = Header /\ \A c \in Chunks : End(c)' = End(c)
    BY DEF Chunks, Header, End
  <1>2. InUse = {q \in Positions : held[q] # Empty} /\ InUse' = InUse \ {p}
    BY DEF InUse, Empty
  <1>3. Laid'
    BY <1>1 DEF HeapInv, Laid
  <1>4. Served'
    BY <1>1, <1>2 DEF HeapInv, Served
  <1>5. Listing' /\ Kept'
    <2>1. CASE held[p] # Empty /\ allocator = "mhysa"
      <3> DEFINE c == held[p]
      <3>1. p \in InUse /\ c \in Chunks /\ c \in Int /\ flist' = <<c>> \o flist
        BY <1>2, <2>1 DEF HeapInv, Served
      <3>2. flist \in Seq(Int) /\ Len(flist) \in Nat
        BY LenProperties DEF HeapInv, Listing
      <3>3. /\ flist' \in Seq(Int) /\ Len(flist') = Len(flist) + 1 /\ flist'[1] = c
            /\ \A j \in 2 .. Len(flist) + 1 : flist'[j] = flist[j - 1]
        BY <3>1, <3>2, PrependFacts
      <3>4. c \in Holding
        BY <3>1 DEF Holding
      <3>5. \A k \in 1 .. Len(flist) : flist[k] # c
        BY <2>1, <3>4 DEF HeapInv, Kept
      <3>6. Holding' = Holding \ {c}
        BY <1>2, <3>1 DEF Holding, HeapInv, Served
      <3> HIDE DEF c
      <3>7. \A k \in 1 .. Len(flist') : k = 1 \/ (k \in 2 .. Len(flist) + 1 /\ k - 1 \in 1 .. Len(flist))
        BY <3>2, <3>3
      <3>8. \A k \in 1 .. Len(flist) : k + 1 \in 2 .. Len(flist) + 1 /\ k + 1 \in 1 .. Len(flist') /\ flist'[k + 1] = flist[k]
        BY <3>2, <3>3
      <3>9. 1 \in 1 .. Len(flist')
        BY <3>2, <3>3
      <3>10. ASSUME NEW j \in 1 .. Len(flist'), NEW k \in 1 .. Len(flist'), flist'[j] = flist'[k]
             PROVE  j = k
        <4>1. \A a \in 2 .. Len(flist) + 1 : flist'[a] # c
          BY <3>2, <3>3, <3>5
        <4>2. CASE j = 1 \/ k = 1
          BY <3>3, <3>7, <3>10, <4>1, <4>2
        <4>3. CASE j # 1 /\ k # 1
          <5>1. j - 1 \in 1 .. Len(flist) /\ k - 1 \in 1 .. Len(flist)
            BY <3>7, <4>3
          <5>2. flist[j - 1] = flist[k - 1]
            BY <3>3, <3>7, <3>10, <4>3
          <5>3. j - 1 = k - 1
            BY <2>1, <5>1, <5>2 DEF HeapInv, Kept
          <5> QED
            BY <3>2, <3>3, <5>3
        <4> QED
          BY <4>2, <4>3
      <3>11. \A k \in 1 .. Len(flist') : flist'[k] \in Chunks /\ flist'[k] \notin Holding'
        BY <2>1, <3>1, <3>3, <3>5, <3>6, <3>7 DEF HeapInv, Kept
      <3>12. \A d \in Chunks : d \in Holding' \/ (\E k \in 1 .. Len(flist') : flist'[k] = d)
        BY <2>1, <3>3, <3>6, <3>8, <3>9 DEF HeapInv, Kept
      <3> QED
        BY <1>1, <2>1, <3>3, <3>10, <3>11, <3>12 DEF HeapInv, Kept, Listing
    <2>2. CASE held[p] = Empty /\ allocator = "mhysa"
      <3>1. InUse' = InUse /\ Holding' = Holding
        BY <1>2, <2>2 DEF Holding
      <3> QED
        BY <1>1, <2>2, <3>1 DEF HeapInv, Kept, Listing
    <2>3. CASE allocator # "mhysa"
      BY <2>3 DEF HeapInv, Kept, Listing
    <2> QED
      BY <2>1, <2>2, <2>3
  <1> QED
    BY <1>3, <1>4, <1>5 DEF HeapInv

(* A chunk that the caller did not have goes to the position it is at.     *)
LEMMA GivePlaces ==
  ASSUME HeapInv, index # Empty, NEW c \in Nat, NEW n \in Nat, Give(c, n),
         c \notin Holding
  PROVE  /\ held' \in [Positions -> Int] /\ asked' \in [Positions -> Nat]
         /\ index' = Empty /\ index \in Positions
         /\ InUse' = InUse \cup {index} /\ Holding' = Holding \cup {c}
         /\ \A p \in InUse : held'[p] = held[p] /\ asked'[p] = asked[p]
         /\ held'[index] = c /\ asked'[index] = n
         /\ \A p, q \in InUse' : held'[p] = held'[q] => p = q
  <1> USE HeapAssumption DEF Give
  <1>1. /\ index \in Positions /\ held \in [Positions -> Int] /\ asked \in [Positions -> Nat]
        /\ \A p, q \in InUse : held[p] = held[q] => p = q
    BY DEF HeapInv, Served
  <1>2. /\ held' \in [Positions -> Int] /\ asked' \in [Positions -> Nat] /\ index' = Empty
        /\ held'[index] = c /\ asked'[index] = n
        /\ \A p \in Positions : p # index => held'[p] = held[p] /\ asked'[p] = asked[p]
    BY <1>1
  <1>3. InUse \subseteq Positions /\ index \notin InUse
    BY DEF InUse
  <1>4. InUse' = InUse \cup {index}
    <2>1. InUse' = {p \in Positions : held'[p] # Empty /\ p # Empty}
      BY <1>2 DEF InUse
    <2>2. c # Empty
      BY DEF Empty
    <2> QED
      BY <1>1, <1>2, <2>1, <2>2 DEF InUse
  <1>5. Holding' = Holding \cup {c}
    BY <1>2, <1>3, <1>4 DEF Holding
  <1>6. \A p \in InUse : held[p] # c
    BY DEF Holding
  <1> QED
    BY <1>1, <1>2, <1>3, <1>4, <1>5, <1>6

(* mhysa.c finds a chunk in its list.                                      *)
LEMMA FirstFitKeeps ==
  ASSUME HeapInv, NEW n \in Sizes, FirstFit(n)
  PROVE  HeapInv'
  <1> USE HeapAssumption
  <1>1. PICK k \in FitsAt(n) : flist' = RemoveAt(flist, k) /\ Give(flist[k], n)
    BY DEF FirstFit
  <1> DEFINE c == flist[k]
  <1>2. /\ outcome = "running" /\ index # Empty
        /\ UNCHANGED <<allocator, break, brkp, size, outcome>>
    BY DEF FirstFit
  <1>3. flist \in Seq(Int) /\ Len(flist) \in Nat /\ k \in 1 .. Len(flist) /\ size[c] >= n
    BY LenProperties DEF HeapInv, Listing, FitsAt
  <1>4. allocator = "mhysa"
    BY <1>3, EmptySeq DEF HeapInv, Listing
  <1>5. /\ c \in Chunks /\ c \notin Holding /\ c \in Nat /\ n \in Nat
        /\ \A i, j \in 1 .. Len(flist) : flist[i] = flist[j] => i = j
        /\ \A j \in 1 .. Len(flist) : flist[j] \in Chunks /\ flist[j] \notin Holding
        /\ \A d \in Chunks : d \in Holding \/ (\E j \in 1 .. Len(flist) : flist[j] = d)
        /\ \A d \in Chunks : End(d) \in Chunks \cup {brkp}
    BY <1>2, <1>3, <1>4 DEF HeapInv, Laid, Kept
  <1>6. Chunks' = Chunks /\ Header' = Header /\ \A d \in Chunks : End(d)' = End(d)
    BY <1>2 DEF Chunks, Header, End
  <1>7. /\ flist' \in Seq(Int) /\ Len(flist') = Len(flist) - 1
        /\ \A j \in 1 .. Len(flist) - 1 : flist'[j] = IF j < k THEN flist[j] ELSE flist[j + 1]
    BY <1>1, <1>3, RemoveAtFacts
  <1>8. /\ held' \in [Positions -> Int] /\ asked' \in [Positions -> Nat]
        /\ index' = Empty /\ index \in Positions
        /\ InUse' = InUse \cup {index} /\ Holding' = Holding \cup {c}
        /\ \A p \in InUse : held'[p] = held[p] /\ asked'[p] = asked[p]
        /\ held'[index] = c /\ asked'[index] = n
        /\ \A p, q \in InUse' : held'[p] = held'[q] => p = q
    BY <1>1, <1>2, <1>5, GivePlaces
  <1> HIDE DEF c
  <1>9. Laid'
    BY <1>2, <1>6 DEF HeapInv, Laid
  <1>10. Served'
    BY <1>2, <1>3, <1>5, <1>6, <1>8 DEF HeapInv, Served
  <1>11. Listing'
    BY <1>2, <1>4, <1>7 DEF Listing
  <1>12. Kept'
    <2>1. \A j \in 1 .. Len(flist') :
            \E i \in 1 .. Len(flist) : flist'[j] = flist[i] /\ i # k /\ i = IF j < k THEN j ELSE j + 1
      <3> TAKE j \in 1 .. Len(flist')
      <3>1. CASE j < k
        <4>1. j \in 1 .. Len(flist) /\ j # k /\ flist'[j] = flist[j]
          BY <1>3, <1>7, <3>1
        <4> QED
          BY <3>1, <4>1
      <3>2. CASE ~(j < k)
        <4>1. j + 1 \in 1 .. Len(flist) /\ j + 1 # k
          BY <1>3, <1>7, <3>2
        <4>2. flist'[j] = flist[j + 1]
          BY <1>3, <1>7, <3>2
        <4> QED
          BY <3>2, <4>1, <4>2
      <3> QED
        BY <3>1, <3>2
    <2>2. \A i \in 1 .. Len(flist) : i # k =>
            \E j \in 1 .. Len(flist') : flist'[j] = flist[i]
      <3> TAKE i \in 1 .. Len(flist)
      <3>1. CASE i < k
        <4>1. i \in 1 .. Len(flist')
          BY <1>3, <1>7, <3>1
        <4> QED
          BY <1>7, <3>1, <4>1
      <3>2. CASE i > k
        <4>1. i - 1 \in 1 .. Len(flist') /\ ~(i - 1 < k) /\ i - 1 + 1 = i
          BY <1>3, <1>7, <3>2
        <4> QED
          BY <1>7, <4>1
      <3> QED
        BY <1>3, <3>1, <3>2
    <2>3. ASSUME NEW a \in 1 .. Len(flist'), NEW b \in 1 .. Len(flist'), flist'[a] = flist'[b]
          PROVE  a = b
      <3>1. PICK i \in 1 .. Len(flist) : flist'[a] = flist[i] /\ i = IF a < k THEN a ELSE a + 1
        BY <2>1
      <3>2. PICK j \in 1 .. Len(flist) : flist'[b] = flist[j] /\ j = IF b < k THEN b ELSE b + 1
        BY <2>1
      <3>3. i = j
        BY <1>5, <2>3, <3>1, <3>2
      <3>4. a \in Int /\ b \in Int /\ k \in Int
        BY <1>3, <1>7
      <3> QED
        BY ONLY <3>1, <3>2, <3>3, <3>4
    <2>4. \A j \in 1 .. Len(flist') : flist'[j] \in Chunks /\ flist'[j] \notin Holding'
      <3> TAKE j \in 1 .. Len(flist')
      <3>1. PICK i \in 1 .. Len(flist) : flist'[j] = flist[i] /\ i # k
        BY <2>1
      <3>2. flist[i] # c
        BY <1>3, <1>5, <3>1 DEF c
      <3> QED
        BY <1>5, <1>8, <3>1, <3>2
    <2>5. \A d \in Chunks : d \in Holding' \/ (\E j \in 1 .. Len(flist') : flist'[j] = d)
      BY <1>5, <1>8, <2>2 DEF c
    <2>6. \A d \in Chunks' : End(d)' \in Chunks' \cup {brkp'}
      BY <1>2, <1>5, <1>6
    <2> QED
      BY <1>6, <2>3, <2>4, <2>5, <2>6 DEF Kept
  <1> QED
    BY <1>9, <1>10, <1>11, <1>12 DEF HeapInv

(* The heap grows by a chunk.                                              *)
LEMMA ExtendKeeps ==
  ASSUME HeapInv, NEW n \in Sizes, Extend(n)
  PROVE  HeapInv'
  <1> USE HeapAssumption
  <1>1. /\ outcome = "running" /\ index # Empty /\ Granted(n)
        /\ brkp' = brkp + Header + n /\ Give(brkp, n)
        /\ size' = [c \in Chunks \cup {brkp} |-> IF c = brkp THEN n ELSE size[c]]
        /\ UNCHANGED <<allocator, break, flist, outcome>>
    BY DEF Extend, Extends, Top
  <1>2. Header' = Header /\ Header \in Nat /\ n \in Nat \ {0} /\ brkp \in Nat /\ n \in Nat
    BY <1>1 DEF Header, HeapInv, Laid
  <1>3. \A c \in Chunks : c \in Nat /\ size[c] \in Nat \ {0} /\ End(c) <= brkp /\ End(c) \in Nat /\ c < End(c)
    <2> SUFFICES ASSUME NEW c \in Chunks
                 PROVE  c \in Nat /\ size[c] \in Nat \ {0} /\ End(c) <= brkp /\ End(c) \in Nat /\ c < End(c)
      OBVIOUS
    <2>1. c \in Nat /\ size[c] \in Nat \ {0} /\ End(c) <= brkp
      BY DEF HeapInv, Laid
    <2> QED
      BY <1>2, <2>1 DEF End
  <1>4. brkp \notin Chunks
    BY <1>2, <1>3
  <1>5. brkp \notin Holding
    BY <1>4 DEF HeapInv, Served, Holding
  <1>6. /\ Chunks' = Chunks \cup {brkp} /\ size'[brkp] = n
        /\ \A c \in Chunks : size'[c] = size[c] /\ End(c)' = End(c)
        /\ \A c : c = brkp => End(c)' = brkp'
    <2>1. Chunks' = Chunks \cup {brkp} /\ size'[brkp] = n /\ \A c \in Chunks : size'[c] = size[c]
      BY <1>1, <1>4 DEF Chunks
    <2>2. \A c : End(c)' = c + Header + size'[c]
      BY <1>2 DEF End
    <2> QED
      BY <1>1, <2>1, <2>2 DEF End
  <1>7. /\ held' \in [Positions -> Int] /\ asked' \in [Positions -> Nat]
        /\ index' = Empty /\ index \in Positions
        /\ InUse' = InUse \cup {index} /\ Holding' = Holding \cup {brkp}
        /\ \A p \in InUse : held'[p] = held[p] /\ asked'[p] = asked[p]
        /\ held'[index] = brkp /\ asked'[index] = n
        /\ \A p, q \in InUse' : held'[p] = held'[q] => p = q
    BY <1>1, <1>2, <1>5, GivePlaces
  <1>8. brkp' \in Nat /\ brkp < brkp' /\ brkp' <= MAX_HEAP
    BY <1>1, <1>2 DEF Granted, Top
  <1>9. Laid'
    <2>1. brkp' \in Nat /\ Chunks' \subseteq Nat
      BY <1>2, <1>3, <1>6, <1>8
    <2>2. \A c \in Chunks' : size'[c] \in Sizes /\ End(c)' <= brkp' /\ End(c)' <= MAX_HEAP
      BY <1>3, <1>2, <1>6, <1>8 DEF HeapInv, Laid
    <2>3. \A c, d \in Chunks' : c < d => End(c)' <= d
      BY <1>2, <1>3, <1>6, <1>8 DEF HeapInv, Laid
    <2> QED
      BY <2>1, <2>2, <2>3 DEF Laid
  <1>10. Served'
    BY <1>2, <1>6, <1>7 DEF HeapInv, Served
  <1>11. Listing'
    BY <1>1 DEF HeapInv, Listing
  <1>12. Kept'
    <2> SUFFICES ASSUME allocator = "mhysa" PROVE Kept'
      BY <1>1 DEF Kept
    <2>1. /\ \A i, j \in 1 .. Len(flist) : flist[i] = flist[j] => i = j
          /\ \A j \in 1 .. Len(flist) : flist[j] \in Chunks /\ flist[j] \notin Holding
          /\ \A d \in Chunks : d \in Holding \/ (\E j \in 1 .. Len(flist) : flist[j] = d)
          /\ \A d \in Chunks : End(d) \in Chunks \cup {brkp}
      BY <1>1 DEF HeapInv, Kept
    <2>2. \A j \in 1 .. Len(flist) : flist[j] \in Chunks' /\ flist[j] \notin Holding'
      BY <1>4, <1>6, <1>7, <2>1
    <2>3. \A d \in Chunks' : d \in Holding' \/ (\E j \in 1 .. Len(flist) : flist[j] = d)
      BY <1>6, <1>7, <2>1
    <2>4. \A d \in Chunks' : End(d)' \in Chunks' \cup {brkp'}
      BY <1>6, <2>1
    <2> QED
      BY <1>1, <2>1, <2>2, <2>3, <2>4 DEF Kept
  <1> QED
    BY <1>9, <1>10, <1>11, <1>12 DEF HeapInv

(* The heap cannot grow.                                                   *)
LEMMA ExhaustedKeeps ==
  ASSUME HeapInv, NEW n \in Sizes, Exhausted(n)
  PROVE  HeapInv'
  <1> USE HeapAssumption
  <1>1. /\ outcome = "running" /\ brkp' = MovedAnyway(n)
        /\ outcome' = IF allocator = "mhysa" /\ break = "sbrk" THEN "segv" ELSE "failed"
        /\ UNCHANGED <<allocator, break, size, flist, held, asked, index>>
    BY DEF Exhausted, Extends, Refused
  <1>2. Header \in Nat /\ n \in Nat /\ brkp \in Nat
    BY DEF Header, HeapInv, Laid
  <1>3. brkp' \in Nat /\ brkp <= brkp' /\ (outcome' = "segv" \/ allocator # "mhysa" \/ brkp' = brkp)
    BY <1>1, <1>2 DEF MovedAnyway, Top
  <1>4. /\ Chunks' = Chunks /\ Header' = Header /\ InUse' = InUse /\ Holding' = Holding
        /\ \A d \in Chunks : End(d)' = End(d)
    BY <1>1 DEF Chunks, Header, End, InUse, Holding
  <1>5. \A c \in Chunks : End(c) \in Nat
    <2> SUFFICES ASSUME NEW c \in Chunks PROVE End(c) \in Nat
      OBVIOUS
    <2>1. c \in Nat /\ size[c] \in Nat
      BY DEF HeapInv, Laid
    <2> QED
      BY <1>2, <2>1 DEF End
  <1>6. Laid'
    BY <1>1, <1>2, <1>3, <1>4, <1>5 DEF HeapInv, Laid
  <1>7. Served' /\ Listing'
    BY <1>1, <1>4 DEF HeapInv, Served, Listing
  <1>8. Kept'
    BY <1>1, <1>3, <1>4 DEF HeapInv, Kept
  <1> QED
    BY <1>6, <1>7, <1>8 DEF HeapInv

LEMMA HeapKeeps == HeapInv /\ [HeapNext]_heap => HeapInv'
  <1> SUFFICES ASSUME HeapInv, [HeapNext]_heap PROVE HeapInv'
    OBVIOUS
  <1>1. CASE \E p \in Positions : Pick(p)
    BY <1>1, PickKeeps
  <1>2. CASE \E n \in Sizes : FirstFit(n)
    BY <1>2, FirstFitKeeps
  <1>3. CASE \E n \in Sizes : Extend(n)
    BY <1>3, ExtendKeeps
  <1>4. CASE \E n \in Sizes : Exhausted(n)
    BY <1>4, ExhaustedKeeps
  <1>5. CASE EndRounds
    BY <1>5 DEF EndRounds, HeapInv, Laid, Served, Listing, Kept, Holding, InUse, Chunks, End, Header
  <1>6. CASE UNCHANGED heap
    BY <1>6 DEF heap, HeapInv, Laid, Served, Listing, Kept, Holding, InUse, Chunks, End, Header
  <1> QED
    BY <1>1, <1>2, <1>3, <1>4, <1>5, <1>6 DEF HeapNext, HeapStep
-----------------------------------------------------------------------------
(* What lies at different places of the heap does not overlap.             *)
LEMMA IntactFollows == HeapInv => HeapIntact
  <1> SUFFICES ASSUME HeapInv PROVE HeapIntact
    OBVIOUS
  <1> USE HeapAssumption
  <1>1. Header \in Nat
    BY DEF Header
  <1>2. \A c \in Chunks : c \in Nat /\ size[c] \in Nat /\ End(c) = c + Header + size[c] /\ End(c) <= MAX_HEAP
    BY DEF HeapInv, Laid, End
  <1>3. \A c, d \in Chunks : c < d => End(c) <= d
    BY DEF HeapInv, Laid
  <1>4. \A p \in InUse : held[p] \in Chunks /\ asked[p] \in Nat /\ asked[p] <= size[held[p]]
    BY DEF HeapInv, Served, InUse
  <1>5. ASSUME NEW p \in InUse
        PROVE  held[p] + Header + asked[p] <= End(held[p]) /\ End(held[p]) <= MAX_HEAP
    <2>1. held[p] \in Chunks /\ asked[p] \in Nat /\ asked[p] <= size[held[p]]
      BY <1>4
    <2>2. /\ held[p] \in Nat /\ size[held[p]] \in Nat
          /\ End(held[p]) = held[p] + Header + size[held[p]] /\ End(held[p]) <= MAX_HEAP
      BY <1>2, <2>1
    <2> QED
      BY <1>1, <2>1, <2>2
  <1>6. ASSUME NEW p \in InUse, NEW q \in InUse \ {p}
        PROVE  Usable(p) \cap Usable(q) = {}
    <2>1. held[p] # held[q]
      BY DEF HeapInv, Served
    <2>2. /\ held[p] \in Nat /\ held[q] \in Nat /\ asked[p] \in Nat /\ asked[q] \in Nat
          /\ held[p] < held[q] => End(held[p]) <= held[q]
          /\ held[q] < held[p] => End(held[q]) <= held[p]
      BY <1>2, <1>3, <1>4
    <2>3. held[p] + Header + asked[p] <= End(held[p]) /\ held[q] + Header + asked[q] <= End(held[q])
      BY <1>5
    <2>4. End(held[p]) \in Int /\ End(held[q]) \in Int
      BY <1>1, <1>2, <1>4
    <2> QED
      BY <1>1, <2>1, <2>2, <2>3, <2>4 DEF Usable
  <1>7. ASSUME NEW p \in InUse, NEW c \in Chunks
        PROVE  Usable(p) \cap c .. c + Header - 1 = {}
    <2>1. /\ held[p] \in Nat /\ asked[p] \in Nat /\ c \in Nat
          /\ held[p] < c => End(held[p]) <= c
          /\ c < held[p] => End(c) <= held[p]
      BY <1>2, <1>3, <1>4
    <2>2. held[p] + Header + asked[p] <= End(held[p]) /\ c + Header <= End(c)
      BY <1>1, <1>2, <1>5
    <2>3. End(held[p]) \in Int /\ End(c) \in Int
      BY <1>1, <1>2, <1>4
    <2> QED
      BY <1>1, <2>1, <2>2, <2>3 DEF Usable
  <1>8. ASSUME allocator = "mhysa"
        PROVE  /\ IsInjective(flist)
               /\ Chunks = ToSet(flist) \cup {held[p] : p \in InUse}
               /\ \A p \in InUse : ~Contains(flist, held[p])
               /\ outcome # "segv" => \A c \in Chunks : End(c) \in Chunks \cup {brkp}
    <2>1. DOMAIN flist = 1 .. Len(flist)
      BY LenProperties DEF HeapInv, Listing
    <2>2. /\ \A j, k \in 1 .. Len(flist) : flist[j] = flist[k] => j = k
          /\ \A k \in 1 .. Len(flist) : flist[k] \in Chunks /\ flist[k] \notin Holding
          /\ \A c \in Chunks : c \in Holding \/ (\E k \in 1 .. Len(flist) : flist[k] = c)
          /\ outcome # "segv" => \A c \in Chunks : End(c) \in Chunks \cup {brkp}
      BY <1>8 DEF HeapInv, Kept
    <2>3. Holding \subseteq Chunks
      BY <1>4 DEF Holding
    <2> QED
      BY <2>1, <2>2, <2>3 DEF IsInjective, ToSet, Contains, Holding
  <1> QED
    BY <1>5, <1>6, <1>7, <1>8 DEF HeapIntact

(* HeapIntact, for every buffer, set of sizes, header and end of the heap  *)
(* (malloc and free of mylloc.c and mhysa.c, sbrk of sbrk.c): the bytes    *)
(* given to bench.c at different positions are different and hold no       *)
(* header, and no chunk of mhysa.c is lost.                                *)
THEOREM MemoryIsIntact == HeapSpec => []HeapIntact
  <1>1. HeapSpec => []HeapInv
    BY HeapInitially, HeapKeeps, PTL DEF HeapSpec
  <1> QED
    BY <1>1, IntactFollows, PTL
-----------------------------------------------------------------------------
LEMMA GrowthInitially == HeapInit => GrowthInv
  <1> SUFFICES ASSUME HeapInit PROVE GrowthInv
    OBVIOUS
  <1>1. \A n \in Sizes : Sized(n) = {}
    BY DEF Sized, Chunks, HeapInit
  <1>2. Cardinality(Positions) \in Nat
    BY HeapAssumption, FS_CardinalityType
  <1> QED
    BY <1>1, <1>2, FS_EmptySet DEF GrowthInv

(* A chunk of size n is made when each of the others is held by a position *)
(* that is not the one the new chunk is for.                               *)
LEMMA GrowthWhenAllInUse ==
  ASSUME HeapInv, allocator = "mhysa", NEW n \in Sizes, index \in Positions, FitsAt(n) = {}
  PROVE  /\ IsFiniteSet(Sized(n))
         /\ Cardinality(Sized(n)) < Cardinality(Positions)
  <1> USE HeapAssumption
  <1> DEFINE P == Positions \ {index}
             Owner == [c \in Sized(n) |-> CHOOSE p \in InUse : held[p] = c]
  <1>1. \A c \in Sized(n) : c \in Holding
    <2> SUFFICES ASSUME NEW c \in Sized(n), c \notin Holding PROVE FALSE
      OBVIOUS
    <2>1. PICK k \in 1 .. Len(flist) : flist[k] = c
      BY DEF HeapInv, Kept, Sized
    <2>2. size[c] >= n
      BY DEF Sized
    <2> QED
      BY <2>1, <2>2 DEF FitsAt
  <1>2. \A c \in Sized(n) : Owner[c] \in InUse /\ held[Owner[c]] = c
    BY <1>1 DEF Holding
  <1>3. InUse \subseteq P
    BY DEF InUse
  <1>4. Owner \in [Sized(n) -> P] /\ \A c, d \in Sized(n) : Owner[c] = Owner[d] => c = d
    BY <1>2, <1>3
  <1> HIDE DEF Owner
  <1>5. Owner \in Injection(Sized(n), P)
    BY <1>4 DEF Injection, IsInjective
  <1>6. /\ IsFiniteSet(P) /\ Cardinality(Positions) \in Nat
        /\ Cardinality(P) = Cardinality(Positions) - 1
    BY FS_RemoveElement, FS_CardinalityType
  <1>7. IsFiniteSet(Sized(n)) /\ Cardinality(Sized(n)) <= Cardinality(P)
    BY <1>5, <1>6, FS_Injection
  <1>8. Cardinality(Sized(n)) \in Nat
    BY <1>7, FS_CardinalityType
  <1> QED
    BY <1>6, <1>7, <1>8

LEMMA GrowthKeeps == HeapInv /\ GrowthInv /\ [HeapNext]_heap => GrowthInv'
  <1> SUFFICES ASSUME HeapInv, GrowthInv, [HeapNext]_heap PROVE GrowthInv'
    OBVIOUS
  <1> USE HeapAssumption
  <1>1. ASSUME UNCHANGED <<size, allocator>>
        PROVE  GrowthInv'
    BY <1>1 DEF GrowthInv, Sized, Chunks
  <1>2. ASSUME NEW n \in Sizes, Extend(n)
        PROVE  GrowthInv'
    <2>1. /\ index # Empty /\ FitsAt(n) = {} /\ allocator' = allocator
          /\ size' = [c \in Chunks \cup {brkp} |-> IF c = brkp THEN n ELSE size[c]]
      BY <1>2 DEF Extend, Extends
    <2>2. brkp \notin Chunks
      <3>1. /\ brkp \in Nat /\ Header \in Nat
            /\ \A c \in Chunks : c \in Nat /\ size[c] \in Nat \ {0} /\ c + Header + size[c] <= brkp
        BY DEF HeapInv, Laid, Header, End
      <3> QED
        BY <3>1
    <2>3. /\ Sized(n)' = Sized(n) \cup {brkp} /\ brkp \notin Sized(n)
          /\ \A m \in Sizes : m # n => Sized(m)' = Sized(m)
      BY <2>1, <2>2 DEF Sized, Chunks
    <2> SUFFICES ASSUME allocator = "mhysa", NEW m \in Sizes
                 PROVE  /\ IsFiniteSet(Sized(m)')
                        /\ Cardinality(Sized(m)') <= Cardinality(Positions)
      BY <2>1 DEF GrowthInv
    <2>4. CASE m = n
      <3>1. IsFiniteSet(Sized(n)) /\ Cardinality(Sized(n)) < Cardinality(Positions)
        BY <2>1, GrowthWhenAllInUse DEF HeapInv, Served
      <3>2. /\ IsFiniteSet(Sized(n) \cup {brkp})
            /\ Cardinality(Sized(n) \cup {brkp}) = Cardinality(Sized(n)) + 1
        BY <2>3, <3>1, FS_AddElement
      <3>3. Cardinality(Sized(n)) \in Nat /\ Cardinality(Positions) \in Nat
        BY <3>1, FS_CardinalityType
      <3> QED
        BY <2>3, <2>4, <3>1, <3>2, <3>3
    <2>5. CASE m # n
      BY <2>3, <2>5 DEF GrowthInv
    <2> QED
      BY <2>4, <2>5
  <1>3. CASE \E p \in Positions : Pick(p)
    BY <1>1, <1>3 DEF Pick
  <1>4. CASE \E n \in Sizes : FirstFit(n)
    BY <1>1, <1>4 DEF FirstFit
  <1>5. CASE \E n \in Sizes : Exhausted(n)
    BY <1>1, <1>5 DEF Exhausted
  <1>6. CASE EndRounds \/ UNCHANGED heap
    BY <1>1, <1>6 DEF EndRounds, heap
  <1> QED
    BY <1>2, <1>3, <1>4, <1>5, <1>6 DEF HeapNext, HeapStep

(* GrowthBounded, for every buffer, set of sizes and end of the heap       *)
(* (malloc and free of mhysa.c under bench.c): there are never more chunks *)
(* of a size than there are positions.                                     *)
THEOREM HeapStopsGrowing == HeapSpec => []GrowthBounded
  <1>1. HeapSpec => [](HeapInv /\ GrowthInv)
    BY HeapInitially, HeapKeeps, GrowthInitially, GrowthKeeps, PTL DEF HeapSpec
  <1>2. GrowthInv => GrowthBounded
    BY DEF GrowthInv, GrowthBounded, Sized
  <1> QED
    BY <1>1, <1>2, PTL
=============================================================================
