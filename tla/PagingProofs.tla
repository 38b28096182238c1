----------------------------- MODULE PagingProofs -----------------------------
(***************************************************************************)
(* Proofs about Paging, for every number of pages, references and samples: *)
(* the list of lru.c is in the order of last use (Recency), and frames are *)
(* filled before pages are replaced (FramesFilled).                        *)
(***************************************************************************)
EXTENDS Paging, FiniteSetTheorems, SequenceTheorems, WellFoundedInduction, TLAPS

(* When each page was last used.                                           *)
Age == [p \in Pages |-> LastUse(p)]

(* The references, and how far they have been replayed.                    *)
Replay ==
  /\ policy \in Policies /\ seq \in Seq(Referenced) /\ i \in 0 .. REFS
  /\ frames \in Nat /\ present \subseteq Pages
  /\ nxt \in [Pages -> Pages \cup {NULL}] /\ prv \in [Pages -> Pages \cup {NULL}]
  /\ first \in Pages \cup {NULL} /\ last \in Pages \cup {NULL}
  /\ replaying \/ i > 0 => Len(seq) = REFS
  /\ i = 0 => present = {} /\ first = NULL /\ last = NULL

(* The list of lru.c in the terms of its code.                             *)
Chained ==
  /\ IF present = {} THEN first = NULL /\ last = NULL
     ELSE first \in present /\ last \in present /\ nxt[last] = NULL
  /\ \A p \in present : Age[p] \in 1 .. i /\ seq[Age[p]] = p
  /\ \A p \in present \ {first} : Age[first] < Age[p]
  /\ \A p \in present \ {last} :
       /\ Age[p] < Age[last]
       /\ nxt[p] \in present /\ prv[nxt[p]] = p /\ Age[p] < Age[nxt[p]]
       /\ \A q \in present : Age[q] <= Age[p] \/ Age[nxt[p]] <= Age[q]

LruInv == policy = "lru" => Chained

(* The frames are taken by different pages.                                *)
Filled ==
  /\ allocated \in 0 .. frames
  /\ IsFiniteSet(present) /\ Cardinality(present) = allocated
  /\ replaying => frames > 0
  /\ allocated < frames => \A k \in 1 .. i : seq[k] \in present
-----------------------------------------------------------------------------
(* A set of natural numbers that is not empty has a least element.         *)
LEMMA LeastNatural ==
  ASSUME NEW T, T \subseteq Nat, T # {}
  PROVE  \E l \in T : \A k \in T : l <= k
  <1>1. \E l \in T : \A k \in T : ~ (<<k, l>> \in OpToRel(<, Nat))
    BY NatLessThanWellFounded, WFMin
  <1>2. \A k, l \in Nat : <<k, l>> \in OpToRel(<, Nat) <=> k < l
    BY DEF OpToRel
  <1>3. PICK l \in T : \A k \in T : ~ (k < l)
    BY <1>1, <1>2
  <1>4. \A k \in T : k \in Nat /\ l \in Nat
    OBVIOUS
  <1> QED
    BY <1>3, <1>4

(* A bounded set of natural numbers that is not empty has a greatest one.  *)
LEMMA GreatestNatural ==
  ASSUME NEW T, T \subseteq Nat, T # {}, NEW n \in Nat, \A k \in T : k <= n
  PROVE  \E g \in T : \A k \in T : k <= g
  <1> DEFINE M == {n - k : k \in T}
  <1>1. \A k \in T : k \in Nat /\ n - k \in Nat
    OBVIOUS
  <1>2. M \subseteq Nat /\ M # {}
    BY <1>1
  <1> HIDE DEF M
  <1>3. PICK l \in M : \A k \in M : l <= k
    BY <1>2, LeastNatural
  <1>4. PICK g \in T : l = n - g
    BY DEF M
  <1>5. \A k \in T : n - k \in M
    BY DEF M
  <1> QED
    BY <1>1, <1>3, <1>4, <1>5

(* The reference that is replayed makes its page the youngest.             *)
LEMMA AgeAdvances ==
  ASSUME i \in Nat, i' = i + 1, seq' = seq, NEW g \in Pages, seq[i + 1] = g
  PROVE  Age' = [Age EXCEPT ![g] = i + 1]
  <1>1. \A p \in Pages \ {g} : LastUse(p)' = LastUse(p)
    <2> TAKE p \in Pages \ {g}
    <2>3. 1 .. i + 1 = (1 .. i) \cup {i + 1}
      OBVIOUS
    <2>1. {k \in 1 .. i' : seq'[k] = p} = {k \in 1 .. i : seq[k] = p}
      BY <2>3
    <2>2. \A U, V : U = V => (IF U = {} THEN 0 ELSE CHOOSE k \in U : \A j \in U : j <= k) =
                            (IF V = {} THEN 0 ELSE CHOOSE k \in V : \A j \in V : j <= k)
      OBVIOUS
    <2> QED
      BY <2>1, <2>2 DEF LastUse
  <1>2. LastUse(g)' = i + 1
    <2> DEFINE uses == {j \in 1 .. i + 1 : seq[j] = g}
    <2>1. i + 1 \in uses /\ \A j \in uses : j <= i + 1
      OBVIOUS
    <2>2. LastUse(g)' = CHOOSE m \in uses : \A j \in uses : j <= m
      BY <2>1 DEF LastUse
    <2>3. LastUse(g)' \in uses /\ \A j \in uses : j <= LastUse(g)'
      BY <2>1, <2>2
    <2>4. LastUse(g)' \in Int /\ LastUse(g)' <= i + 1 /\ i + 1 <= LastUse(g)'
      BY <2>1, <2>3
    <2> QED
      BY <2>4
  <1> QED
    BY <1>1, <1>2 DEF Age
-----------------------------------------------------------------------------
LEMMA PageIs ==
  ASSUME Replay, Simulating
  PROVE  page \in Pages /\ i \in Nat /\ i + 1 \in 1 .. REFS
  <1>1. i \in Nat /\ i + 1 \in 1 .. Len(seq) /\ seq \in Seq(Referenced) /\ Len(seq) = REFS
    BY PagingAssumption DEF Replay, Simulating
  <1> QED
    BY <1>1, PagingAssumption, ElementOfSeq DEF page

(* Different pages were last used at different times.                      *)
LEMMA AgesDiffer ==
  ASSUME Chained, NEW p \in present, NEW q \in present, Age[p] = Age[q]
  PROVE  p = q
  BY DEF Chained

(* The list has a page before each but the first.                          *)
LEMMA PageBefore ==
  ASSUME Replay, Chained, NEW g \in present, g # first
  PROVE  prv[g] \in present \ {last, g} /\ nxt[prv[g]] = g
  <1> DEFINE B == {p \in present : Age[p] < Age[g]}
             T == {Age[p] : p \in B}
  <1>1. \A p \in present : Age[p] \in 1 .. i
    BY DEF Chained
  <1>2. i \in Nat /\ first \in B
    BY DEF Chained, Replay
  <1>3. T \subseteq Nat /\ T # {} /\ \A k \in T : k <= i
    BY <1>1, <1>2
  <1> HIDE DEF T
  <1>4. PICK k \in T : \A j \in T : j <= k
    BY <1>2, <1>3, GreatestNatural
  <1>5. PICK b \in B : k = Age[b]
    BY DEF T
  <1>6. \A p \in B : Age[p] <= Age[b]
    BY <1>4, <1>5 DEF T
  <1>7. b # last /\ b # g
    BY <1>1, <1>5 DEF Chained
  <1>8. /\ nxt[b] \in present /\ prv[nxt[b]] = b /\ Age[b] < Age[nxt[b]]
        /\ Age[g] <= Age[b] \/ Age[nxt[b]] <= Age[g]
    BY <1>7 DEF Chained
  <1>9. Age[nxt[b]] = Age[g]
    <2>1. ~(Age[nxt[b]] < Age[g])
      BY <1>1, <1>6, <1>8
    <2> QED
      BY <1>1, <1>5, <1>8, <2>1
  <1>10. nxt[b] = g
    BY <1>8, <1>9, AgesDiffer
  <1> QED
    BY <1>7, <1>8, <1>10

(* The page before is the only one whose link leads to a page.             *)
LEMMA OnlyPageBefore ==
  ASSUME Replay, Chained, NEW p \in present \ {last}
  PROVE  nxt[p] # first /\ nxt[p] # p /\ prv[nxt[p]] = p
  <1>1. /\ nxt[p] \in present /\ prv[nxt[p]] = p /\ Age[p] < Age[nxt[p]]
        /\ Age[p] \in Int /\ Age[first] \in Int
        /\ p # first => Age[first] < Age[p]
    BY DEF Chained
  <1> QED
    BY <1>1

(* A page that is not last is unlinked and put last.                       *)
LEMMA MoveLastKeeps ==
  ASSUME Replay, Chained, Simulating, page \in present, nxt[page] # NULL,
         MoveLast, present' = present, i' = i + 1, seq' = seq
  PROVE  Chained'
  <1>1. PICK g \in present : g = page
    OBVIOUS
  <1> DEFINE n == nxt[g]
             b == prv[g]
  <1>2. i \in Nat /\ g \in Pages /\ present \subseteq Pages
    BY PageIs DEF Replay
  <1>3. Age' = [Age EXCEPT ![g] = i + 1]
    BY <1>1, <1>2, AgeAdvances DEF page
  <1>4. Age'[g] = i + 1 /\ \A p \in present \ {g} : Age'[p] = Age[p]
    BY <1>2, <1>3 DEF Age
  <1>5. \A p \in present : Age[p] \in 1 .. i /\ seq[Age[p]] = p
    BY DEF Chained
  <1>6. /\ first \in present /\ last \in present /\ g # last
        /\ \A p \in present \ {first} : Age[first] < Age[p]
        /\ \A p \in present \ {last} :
             /\ Age[p] < Age[last]
             /\ nxt[p] \in present /\ prv[nxt[p]] = p /\ Age[p] < Age[nxt[p]]
             /\ \A q \in present : Age[q] <= Age[p] \/ Age[nxt[p]] <= Age[q]
    BY <1>1 DEF Chained
  <1>7. n \in present /\ n # g /\ prv[n] = g /\ Age[g] < Age[n]
    BY <1>5, <1>6
  <1>8. first # g => b \in present \ {last, g} /\ nxt[b] = g
    BY PageBefore
  <1>9. /\ nxt'[g] = NULL /\ nxt'[last] = g
        /\ \A p \in present \ {g, last} : nxt'[p] = IF first # g /\ p = b THEN n ELSE nxt[p]
    BY <1>1, <1>2, <1>6, <1>8 DEF MoveLast, Replay
  <1>10. /\ prv'[g] = last /\ prv'[n] = b
         /\ \A p \in present \ {g, n} : prv'[p] = prv[p]
    BY <1>1, <1>2, <1>6, <1>7 DEF MoveLast, Replay
  <1>11. first' = (IF first = g THEN n ELSE first) /\ last' = g
    BY <1>1 DEF MoveLast
  <1> HIDE DEF n, b
  <1>12. \A p \in present : Age'[p] \in 1 .. i + 1 /\ seq[Age'[p]] = p
    BY <1>1, <1>2, <1>4, <1>5 DEF page
  <1>13. first' \in present /\ \A p \in present \ {first'} : Age'[first'] < Age'[p]
    <2>1. CASE first = g
      <3>1. \A q \in present \ {g} : Age[n] <= Age[q]
        BY <1>5, <1>6, <2>1 DEF n
      <3>2. \A q \in present \ {g, n} : Age[n] # Age[q]
        BY <1>7, AgesDiffer
      <3> QED
        BY <1>2, <1>4, <1>5, <1>7, <1>11, <2>1, <3>1, <3>2
    <2>2. CASE first # g
      BY <1>2, <1>4, <1>5, <1>6, <1>11, <2>2
    <2> QED
      BY <2>1, <2>2
  <1>14. ASSUME NEW p \in present \ {g}
         PROVE  /\ Age'[p] < Age'[g]
                /\ nxt'[p] \in present /\ prv'[nxt'[p]] = p /\ Age'[p] < Age'[nxt'[p]]
                /\ \A q \in present : Age'[q] <= Age'[p] \/ Age'[nxt'[p]] <= Age'[q]
    <2>1. Age'[p] = Age[p] /\ Age[p] \in 1 .. i /\ Age[p] < i + 1
      BY <1>2, <1>4, <1>5
    <2>2. CASE p = last
      <3>1. \A q \in present \ {g} : Age'[q] <= Age'[last]
        BY <1>4, <1>5, <1>6
      <3> QED
        BY <1>2, <1>4, <1>6, <1>9, <1>10, <2>1, <2>2, <3>1
    <2>3. CASE first # g /\ p = b
      <3>1. p \in present \ {last, g} /\ nxt[p] = g /\ nxt'[p] = n
        BY <1>8, <1>9, <2>3
      <3>2. Age[p] < Age[g] /\ \A q \in present : Age[q] <= Age[p] \/ Age[g] <= Age[q]
        BY <1>6, <3>1
      <3>3. \A q \in present : Age[q] <= Age[g] \/ Age[n] <= Age[q]
        BY <1>6 DEF n
      <3>4. \A q \in present \ {g} : Age[q] # Age[g]
        BY AgesDiffer
      <3>5. \A q \in present \ {g} : Age[q] <= Age[p] \/ Age[n] <= Age[q]
        BY <1>5, <1>7, <3>2, <3>3, <3>4
      <3>6. Age'[n] = Age[n] /\ Age[n] \in 1 .. i
        BY <1>4, <1>5, <1>7
      <3>7. prv'[nxt'[p]] = p
        BY <1>10, <2>3, <3>1
      <3>8. Age'[p] < Age'[n]
        BY <1>5, <1>7, <2>1, <3>2, <3>6
      <3>9. \A q \in present : Age'[q] <= Age'[p] \/ Age'[n] <= Age'[q]
        BY <1>2, <1>4, <2>1, <3>5, <3>6
      <3> QED
        BY <1>2, <1>4, <1>7, <2>1, <3>1, <3>7, <3>8, <3>9
    <2>4. CASE p # last /\ ~(first # g /\ p = b)
      <3>1. nxt'[p] = nxt[p]
        BY <1>9, <2>4
      <3>2. /\ nxt[p] \in present /\ prv[nxt[p]] = p /\ Age[p] < Age[nxt[p]]
            /\ \A q \in present : Age[q] <= Age[p] \/ Age[nxt[p]] <= Age[q]
        BY <1>6, <2>4
      <3>3. nxt[p] # g
        BY <2>4, OnlyPageBefore DEF b
      <3>4. nxt[p] # n
        BY <1>7, <3>2
      <3>5. prv'[nxt[p]] = p /\ Age'[nxt[p]] = Age[nxt[p]] /\ Age[nxt[p]] \in 1 .. i
        BY <1>4, <1>5, <1>10, <3>2, <3>3, <3>4
      <3>6. \A q \in present : Age'[q] <= Age'[p] \/ Age'[nxt[p]] <= Age'[q]
        BY <1>2, <1>4, <2>1, <3>2, <3>5
      <3> QED
        BY <1>2, <1>4, <2>1, <3>1, <3>2, <3>5, <3>6
    <2> QED
      BY <2>2, <2>3, <2>4
  <1> QED
    BY <1>1, <1>9, <1>11, <1>12, <1>13, <1>14 DEF Chained

(* The page is last already.                                               *)
LEMMA HitLastKeeps ==
  ASSUME Replay, Chained, Simulating, page \in present, nxt[page] = NULL,
         UNCHANGED list, present' = present, i' = i + 1, seq' = seq
  PROVE  Chained'
  <1>1. PICK g \in present : g = page
    OBVIOUS
  <1>2. i \in Nat /\ g \in Pages /\ present \subseteq Pages
    BY PageIs DEF Replay
  <1>3. Age' = [Age EXCEPT ![g] = i + 1]
    BY <1>1, <1>2, AgeAdvances DEF page
  <1>4. Age'[g] = i + 1 /\ \A p \in present \ {g} : Age'[p] = Age[p]
    BY <1>2, <1>3 DEF Age
  <1>5. g = last
    BY <1>1, <1>2 DEF Chained, NULL, Pages
  <1>6. \A p \in present : Age[p] \in 1 .. i /\ seq[Age[p]] = p
    BY DEF Chained
  <1>7. /\ first \in present /\ nxt[last] = NULL
        /\ \A p \in present \ {first} : Age[first] < Age[p]
        /\ \A p \in present \ {last} :
             /\ Age[p] < Age[last]
             /\ nxt[p] \in present /\ prv[nxt[p]] = p /\ Age[p] < Age[nxt[p]]
             /\ \A q \in present : Age[q] <= Age[p] \/ Age[nxt[p]] <= Age[q]
    BY <1>1 DEF Chained
  <1>8. first' = first /\ last' = last /\ nxt' = nxt /\ prv' = prv
    BY DEF list
  <1>9. \A p \in present : Age'[p] \in 1 .. i + 1 /\ seq[Age'[p]] = p /\ Age[p] <= Age'[p]
    BY <1>1, <1>2, <1>4, <1>6 DEF page
  <1>10. \A p \in present \ {first} : Age'[first] < Age'[p]
    <2>1. CASE first = g
      <3>1. \A p \in present : p = first
        BY <1>5, <1>6, <1>7, <2>1
      <3> QED
        BY <3>1
    <2>2. CASE first # g
      BY <1>2, <1>4, <1>6, <1>7, <2>2
    <2> QED
      BY <2>1, <2>2
  <1>11. ASSUME NEW p \in present \ {g}
         PROVE  /\ Age'[p] < Age'[g] /\ Age'[p] < Age'[nxt[p]]
                /\ \A q \in present : Age'[q] <= Age'[p] \/ Age'[nxt[p]] <= Age'[q]
    <2>1. Age'[p] = Age[p] /\ Age[p] \in 1 .. i
      BY <1>4, <1>6
    <2>2. nxt[p] \in present /\ Age[p] < Age[nxt[p]] /\ Age[nxt[p]] \in Int /\ Age'[nxt[p]] \in Int
      BY <1>5, <1>6, <1>7, <1>9
    <2>3. CASE nxt[p] = g
      <3>1. \A q \in present \ {g} : Age[q] <= Age[p]
        BY <1>5, <1>6, <1>7, <2>3
      <3> QED
        BY <1>2, <1>4, <2>1, <2>3, <3>1
    <2>4. CASE nxt[p] # g
      <3>1. Age'[nxt[p]] = Age[nxt[p]] /\ Age[nxt[p]] \in 1 .. i
        BY <1>4, <1>6, <2>2, <2>4
      <3>2. \A q \in present : Age[q] <= Age[p] \/ Age[nxt[p]] <= Age[q]
        BY <1>5, <1>7
      <3> QED
        BY <1>2, <1>4, <2>1, <2>2, <3>1, <3>2
    <2> QED
      BY <2>3, <2>4
  <1> QED
    BY <1>1, <1>5, <1>7, <1>8, <1>9, <1>10, <1>11 DEF Chained

(* A page that was not present is linked in behind the pages that stay.    *)
LEMMA PlaceLastKeeps ==
  ASSUME Replay, Simulating, i' = i + 1, seq' = seq,
         NEW R, R \subseteq present, page \notin present, present' = R \cup {page},
         NEW f, PlaceLast(f), last # page,
         IF R = {} THEN f = NULL
         ELSE /\ f \in R /\ last \in R /\ nxt[last] = NULL
              /\ \A p \in R \ {f} : Age[f] < Age[p],
         \A p \in R : Age[p] \in 1 .. i /\ seq[Age[p]] = p,
         \A p \in R \ {last} :
              /\ Age[p] < Age[last]
              /\ nxt[p] \in R /\ prv[nxt[p]] = p /\ Age[p] < Age[nxt[p]]
              /\ \A q \in R : Age[q] <= Age[p] \/ Age[nxt[p]] <= Age[q]
  PROVE  Chained'
  <1>1. PICK g \in Pages : g = page
    BY PageIs
  <1>2. i \in Nat /\ R \subseteq Pages /\ g \notin R /\ NULL \notin Pages
    BY <1>1, PageIs DEF Replay, NULL, Pages
  <1>3. Age' = [Age EXCEPT ![g] = i + 1]
    BY <1>1, <1>2, AgeAdvances DEF page
  <1>4. Age'[g] = i + 1 /\ \A p \in R : Age'[p] = Age[p]
    BY <1>1, <1>2, <1>3 DEF Age
  <1>5. \A p \in R \cup {g} : Age'[p] \in 1 .. i + 1 /\ seq[Age'[p]] = p
    BY <1>1, <1>2, <1>4 DEF page
  <1>6. last' = g /\ first' = (IF f = NULL THEN g ELSE f)
    BY <1>1 DEF PlaceLast
  <1>7. nxt'[g] = NULL /\ (last \in R => nxt'[last] = g) /\ \A p \in R \ {last} : nxt'[p] = nxt[p]
    <2>1. CASE last # NULL
      <3>1. nxt' = [[nxt EXCEPT ![g] = NULL] EXCEPT ![last] = g]
        BY <1>1, <2>1 DEF PlaceLast
      <3>2. last # g
        BY <1>1
      <3> QED
        BY <1>1, <1>2, <3>1, <3>2 DEF Replay
    <2>2. CASE last = NULL
      <3>1. nxt' = [[nxt EXCEPT ![g] = NULL] EXCEPT ![g] = NULL]
        BY <1>1, <2>2 DEF PlaceLast
      <3> QED
        BY <1>1, <1>2, <2>2, <3>1 DEF Replay
    <2> QED
      BY <2>1, <2>2
  <1>8. prv'[g] = last /\ \A p \in R : prv'[p] = prv[p]
    BY <1>1, <1>2 DEF PlaceLast, Replay
  <1>9. CASE R = {}
    <2>1. present' = {g} /\ first' = g
      BY <1>1, <1>6, <1>9
    <2> QED
      BY <1>2, <1>5, <1>6, <1>7, <2>1 DEF Chained
  <1>10. CASE R # {}
    <2>1. f \in R /\ last \in R /\ first' = f
      BY <1>2, <1>6, <1>10
    <2>2. \A p \in (R \cup {g}) \ {f} : Age'[f] < Age'[p]
      BY <1>2, <1>4, <1>10, <2>1
    <2>3. ASSUME NEW p \in R
          PROVE  /\ Age'[p] < Age'[g]
                 /\ nxt'[p] \in R \cup {g} /\ prv'[nxt'[p]] = p /\ Age'[p] < Age'[nxt'[p]]
                 /\ \A q \in R \cup {g} : Age'[q] <= Age'[p] \/ Age'[nxt'[p]] <= Age'[q]
      <3>1. Age'[p] = Age[p] /\ Age[p] \in 1 .. i
        BY <1>4
      <3>2. CASE p = last
        <4>1. nxt'[p] = g /\ prv'[g] = p
          BY <1>7, <1>8, <2>1, <3>2
        <4>2. \A q \in R : Age'[q] <= Age'[p]
          BY <1>4, <3>1, <3>2
        <4> QED
          BY <1>2, <1>4, <3>1, <4>1, <4>2
      <3>3. CASE p # last
        <4>1. nxt'[p] = nxt[p] /\ nxt[p] \in R /\ prv'[nxt[p]] = p
          BY <1>7, <1>8, <3>3
        <4>2. Age'[nxt[p]] = Age[nxt[p]] /\ Age[nxt[p]] \in 1 .. i /\ Age[p] < Age[nxt[p]]
          BY <1>4, <3>3, <4>1
        <4>3. \A q \in R : Age'[q] <= Age'[p] \/ Age'[nxt[p]] <= Age'[q]
          BY <1>4, <3>1, <3>3, <4>2
        <4> QED
          BY <1>2, <1>4, <3>1, <4>1, <4>2, <4>3
      <3> QED
        BY <3>2, <3>3
    <2> QED
      BY <1>1, <1>5, <1>6, <1>7, <2>1, <2>2, <2>3 DEF Chained
  <1> QED
    BY <1>9, <1>10
-----------------------------------------------------------------------------
LEMMA IncrIsNatural == incr \in Nat /\ (PAGES >= SAMPLES => incr > 0)
  <1>1. PAGES \in Nat /\ SAMPLES \in Nat /\ SAMPLES > 0
    BY PagingAssumption
  <1> QED
    BY <1>1 DEF incr

LEMMA ReplayInitially == PagingInit => Replay
  BY PagingAssumption DEF PagingInit, Replay, Pages, NoLinks

LEMMA ReplayKeeps ==
  ASSUME Replay, [PagingNext]_paging
  PROVE  Replay'
  <1> USE PagingAssumption
  <1>1. CASE AddReference
    <2>1. PICK p \in Referenced : seq' = Append(seq, p)
      BY <1>1 DEF AddReference
    <2>2. seq' \in Seq(Referenced) /\ Len(seq) # REFS
      BY <1>1, <2>1, AppendProperties, LenProperties DEF AddReference, Replay
    <2> QED
      BY <1>1, <2>2 DEF AddReference, Replay, list
  <1>2. CASE MoreFrames
    <2>1. frames' \in Nat
      BY <1>2, IncrIsNatural DEF MoreFrames, Replay
    <2> QED
      BY <1>2, <2>1 DEF MoreFrames, ClearPageTable, NoLinks, Replay
  <1>3. CASE Hit
    <2>1. page \in Pages /\ i' \in 0 .. REFS /\ i' # 0
      BY <1>3, PageIs DEF Hit, Advance
    <2>2. ASSUME MoveLast
          PROVE  /\ nxt' \in [Pages -> Pages \cup {NULL}] /\ prv' \in [Pages -> Pages \cup {NULL}]
                 /\ first' \in Pages \cup {NULL} /\ last' \in Pages \cup {NULL}
      BY <2>1, <2>2 DEF MoveLast, Replay
    <2> QED
      BY <1>3, <2>1, <2>2 DEF Hit, Advance, Replay, list, Simulating
  <1>4. ASSUME Simulating, NEW f \in Pages \cup {NULL}, PlaceLast(f)
        PROVE  /\ nxt' \in [Pages -> Pages \cup {NULL}] /\ prv' \in [Pages -> Pages \cup {NULL}]
               /\ first' \in Pages \cup {NULL} /\ last' \in Pages \cup {NULL}
    BY <1>4, PageIs DEF PlaceLast, Replay
  <1>5. CASE Allocate
    <2>1. page \in Pages /\ i' \in 0 .. REFS /\ i' # 0
      BY <1>5, PageIs DEF Allocate, Advance
    <2>2. present' \subseteq Pages
      BY <1>5, <2>1 DEF Allocate, Replay
    <2>3. CASE policy = "lru"
      <3>1. Simulating /\ first \in Pages \cup {NULL} /\ PlaceLast(first)
        BY <1>5, <2>3 DEF Allocate, Replay
      <3> QED
        BY <1>4, <1>5, <2>1, <2>2, <3>1 DEF Allocate, Advance, Replay, Simulating
    <2>4. CASE policy # "lru"
      BY <1>5, <2>1, <2>2, <2>4 DEF Allocate, Advance, Replay, Simulating, list
    <2> QED
      BY <2>3, <2>4
  <1>6. CASE EvictLru
    <2>1. page \in Pages /\ i' \in 0 .. REFS /\ i' # 0
      BY <1>6, PageIs DEF EvictLru, MustEvict, Replace, Advance
    <2>2. first \in Pages /\ nxt[first] \in Pages \cup {NULL} /\ Simulating
      BY <1>6 DEF EvictLru, MustEvict, Replay
    <2> QED
      BY <1>4, <1>6, <2>1, <2>2 DEF EvictLru, Replace, Advance, Replay, Simulating
  <1>7. CASE EvictOptimal \/ EvictSabina \/ EvictRandom
    <2>1. page \in Pages /\ i' \in 0 .. REFS /\ i' # 0 /\ Simulating
      BY <1>7, PageIs DEF EvictOptimal, EvictSabina, EvictRandom, MustEvict, Replace, Advance
    <2>2. present' \subseteq present \cup {page}
      BY <1>7 DEF EvictOptimal, EvictSabina, EvictRandom, Replace
    <2> QED
      BY <1>7, <2>1, <2>2
         DEF EvictOptimal, EvictSabina, EvictRandom, Replace, Advance, Replay, Simulating, list
  <1>8. CASE Report \/ UNCHANGED paging
    BY <1>8 DEF Report, paging, list, Replay
  <1> QED
    BY <1>1, <1>2, <1>3, <1>5, <1>6, <1>7, <1>8 DEF PagingNext, PagingStep

LEMMA LruKeeps ==
  ASSUME Replay, LruInv, [PagingNext]_paging
  PROVE  LruInv'
  <1> USE PagingAssumption
  <1>0. policy' = policy
    BY DEF PagingNext, PagingStep, AddReference, MoreFrames, Hit, Allocate, EvictLru, EvictOptimal,
           EvictSabina, EvictRandom, Replace, Advance, Report, paging
  <1> SUFFICES ASSUME policy = "lru", Chained PROVE Chained'
    BY <1>0 DEF LruInv
  <1>1. ASSUME UNCHANGED <<seq, i, present, list>>
        PROVE  Chained'
    <2>1. Age' = Age
      BY <1>1 DEF Age, LastUse
    <2> QED
      BY <1>1, <2>1 DEF Chained, list
  <1>2. CASE AddReference
    <2>1. i = 0 /\ present = {} /\ first = NULL /\ last = NULL
      BY <1>2 DEF AddReference, Replay
    <2> QED
      BY <1>2, <2>1 DEF AddReference, Chained, list
  <1>3. CASE MoreFrames
    BY <1>3 DEF MoreFrames, ClearPageTable, Chained
  <1>4. CASE Hit
    BY <1>4, MoveLastKeeps, HitLastKeeps DEF Hit, Advance
  <1>5. /\ NULL \notin Pages /\ present \subseteq Pages
        /\ \A p \in present : Age[p] \in 1 .. i /\ seq[Age[p]] = p
        /\ present = {} => first = NULL /\ last = NULL
        /\ present # {} => first \in present /\ last \in present /\ nxt[last] = NULL
        /\ \A p \in present \ {first} : Age[first] < Age[p]
        /\ \A p \in present \ {last} :
             /\ Age[p] < Age[last]
             /\ nxt[p] \in present /\ prv[nxt[p]] = p /\ Age[p] < Age[nxt[p]]
             /\ \A q \in present : Age[q] <= Age[p] \/ Age[nxt[p]] <= Age[q]
    <2>1. NULL \notin Pages /\ present \subseteq Pages
      BY DEF Replay, NULL, Pages
    <2> QED
      BY <2>1 DEF Chained
  <1>6. ASSUME Simulating, page \notin present PROVE last # page
    BY <1>5, <1>6, PageIs
  <1>7. CASE Allocate
    <2>1. /\ Simulating /\ i' = i + 1 /\ seq' = seq /\ page \notin present
          /\ present' = present \cup {page} /\ PlaceLast(first)
      BY <1>7 DEF Allocate, Advance
    <2> QED
      BY <1>5, <1>6, <2>1, PlaceLastKeeps
  <1>8. CASE EvictLru
    <2> DEFINE R == present \ {first}
               f == nxt[first]
    <2>1. /\ Simulating /\ i' = i + 1 /\ seq' = seq /\ page \notin present
          /\ present' = R \cup {page} /\ PlaceLast(f) /\ first # NULL /\ last # page
      BY <1>6, <1>8 DEF EvictLru, MustEvict, Replace, Advance
    <2>2. first \in present /\ last \in present /\ nxt[last] = NULL
      BY <1>5, <2>1
    <2>3. CASE first = last
      <3>1. R = {}
        BY <1>5, <2>2, <2>3
      <3> QED
        BY <2>1, <2>2, <2>3, <3>1, PlaceLastKeeps
    <2>4. CASE first # last
      <3>1. /\ f \in present /\ Age[first] < Age[f]
            /\ \A q \in present : Age[q] <= Age[first] \/ Age[f] <= Age[q]
        BY <1>5, <2>2, <2>4
      <3>2. f # first
        BY <1>5, <3>1
      <3>3. \A q \in R : Age[f] <= Age[q]
        BY <1>5, <2>2, <3>1
      <3>4. \A q \in R \ {f} : Age[f] < Age[q]
        BY <1>5, <3>1, <3>3, AgesDiffer
      <3>5. \A p \in R \ {last} : nxt[p] \in R
        BY <1>5, OnlyPageBefore
      <3>6. R \subseteq present /\ f \in R /\ last \in R /\ R # {}
        BY <2>2, <2>4, <3>1, <3>2
      <3> HIDE DEF R, f
      <3>7. \A p \in R \ {last} :
              /\ Age[p] < Age[last]
              /\ nxt[p] \in R /\ prv[nxt[p]] = p /\ Age[p] < Age[nxt[p]]
              /\ \A q \in R : Age[q] <= Age[p] \/ Age[nxt[p]] <= Age[q]
        BY <1>5, <3>5, <3>6
      <3>8. \A p \in R : Age[p] \in 1 .. i /\ seq[Age[p]] = p
        BY <1>5, <3>6
      <3> QED
        BY <2>1, <2>2, <3>4, <3>6, <3>7, <3>8, PlaceLastKeeps
    <2> QED
      BY <2>3, <2>4
  <1>9. CASE EvictOptimal \/ EvictSabina \/ EvictRandom
    BY <1>9 DEF EvictOptimal, EvictSabina, EvictRandom
  <1>10. CASE Report \/ UNCHANGED paging
    BY <1>1, <1>10 DEF Report, paging
  <1> QED
    BY <1>2, <1>3, <1>4, <1>7, <1>8, <1>9, <1>10 DEF PagingNext, PagingStep

LEMMA RecencyFollows == Replay /\ LruInv => Recency
  <1> SUFFICES ASSUME Replay, policy = "lru", Chained PROVE Recency
    BY DEF LruInv, Recency
  <1> DEFINE Older(p, q) == LastUse(p) < LastUse(q)
  <1>1. \A p \in present : LastUse(p) = Age[p] /\ Age[p] \in Int
    <2>1. \A p \in present : LastUse(p) = Age[p]
      BY DEF Age, Replay
    <2>2. \A p \in present : Age[p] \in 1 .. i
      BY DEF Chained
    <2> QED
      BY <2>1, <2>2
  <1>2. \A p, q \in present : Older(p, q) <=> Age[p] < Age[q]
    BY <1>1
  <1>3. NULL \notin present
    BY PagingAssumption DEF Replay, Pages, NULL
  <1>4. (present = {} <=> first = NULL) /\ (present = {} <=> last = NULL)
    BY <1>3 DEF Chained
  <1>5. first # NULL => first \in present /\ \A q \in present \ {first} : Older(first, q)
    BY <1>2, <1>4 DEF Chained
  <1> HIDE DEF Older
  <1>6. ASSUME NEW p \in present
        PROVE  LET later == {q \in present : Older(p, q)}
               IN  IF later = {} THEN p = last /\ nxt[p] = NULL
                   ELSE /\ nxt[p] \in later
                        /\ \A q \in later : nxt[p] = q \/ Older(nxt[p], q)
                        /\ prv[nxt[p]] = p
    <2>1. CASE p = last
      <3>1. \A q \in present : ~ Older(p, q)
        BY <1>1, <1>2, <2>1 DEF Chained
      <3>2. nxt[p] = NULL
        BY <2>1 DEF Chained
      <3> QED
        BY <2>1, <3>1, <3>2
    <2>2. CASE p # last
      <3>1. /\ nxt[p] \in present /\ prv[nxt[p]] = p /\ Age[p] < Age[nxt[p]]
            /\ \A q \in present : Age[q] <= Age[p] \/ Age[nxt[p]] <= Age[q]
        BY <2>2 DEF Chained
      <3>2. Older(p, nxt[p])
        BY <1>2, <3>1
      <3>3. ASSUME NEW q \in present, Older(p, q)
            PROVE  nxt[p] = q \/ Older(nxt[p], q)
        <4>1. Age[nxt[p]] <= Age[q] /\ Age[nxt[p]] \in Int /\ Age[q] \in Int
          BY <1>1, <1>2, <3>1, <3>3
        <4>2. CASE Age[nxt[p]] = Age[q]
          BY <3>1, <4>2, AgesDiffer
        <4>3. CASE Age[nxt[p]] < Age[q]
          BY <1>2, <3>1, <4>3
        <4> QED
          BY <4>1, <4>2, <4>3
      <3> QED
        BY <3>1, <3>2, <3>3
    <2> QED
      BY <2>1, <2>2
  <1> QED
    BY <1>4, <1>5, <1>6 DEF Recency, Older

(* Recency, for every number of pages, references and samples (simulate of *)
(* lru.c): the list holds the pages that are present in the order of their *)
(* last use, linked in both directions.                                    *)
THEOREM ListInOrderOfUse == PagingSpec => []Recency
  <1>1. PagingInit => LruInv
    BY DEF PagingInit, LruInv, Chained
  <1> QED
    BY <1>1, ReplayInitially, ReplayKeeps, LruKeeps, RecencyFollows, PTL DEF PagingSpec
-----------------------------------------------------------------------------
(* How far away a page is that is not the one asked for.                   *)
LEMMA DistIs ==
  ASSUME Replay, Simulating, NEW c, c # page
  PROVE  Dist(c) \in Nat /\ 0 < Dist(c) /\ Dist(c) <= REFS - i
  <1> DEFINE next == {d \in 0 .. REFS - i - 1 : seq[i + d + 1] = c}
  <1>1. i \in Nat /\ REFS - i \in Nat /\ 0 < REFS - i
    BY PagingAssumption DEF Replay, Simulating
  <1>2. next \subseteq Nat /\ 0 \notin next /\ \A d \in next : d <= REFS - i
    BY <1>1 DEF page
  <1>3. Dist(c) = IF next = {} THEN REFS - i ELSE CHOOSE d \in next : \A e \in next : d <= e
    BY DEF Dist
  <1>4. CASE next = {}
    BY <1>1, <1>3, <1>4
  <1>5. CASE next # {}
    <2> HIDE DEF next
    <2>1. \E d \in next : \A e \in next : d <= e
      BY <1>2, <1>5, LeastNatural
    <2>2. Dist(c) \in next
      BY <1>3, <1>5, <2>1
    <2>3. Dist(c) # 0 /\ Dist(c) \in Nat /\ Dist(c) <= REFS - i
      BY <1>2, <2>2
    <2> QED
      BY <2>3
  <1> QED
    BY <1>4, <1>5

(* optimal.c finds a page to replace when there is one.                    *)
LEMMA CandidateIsPresent ==
  ASSUME Replay, Simulating, page \notin present, present # {}
  PROVE  Candidate \in present
  <1> DEFINE T == {Dist(c) : c \in present}
             far == {c \in present : Dist(c) > 0 /\ \A d \in present : Dist(d) <= Dist(c)}
  <1>1. REFS - i \in Nat /\ \A c \in present : Dist(c) \in Nat /\ Dist(c) > 0 /\ Dist(c) <= REFS - i
    BY DistIs, PagingAssumption DEF Replay, Simulating
  <1>2. T \subseteq Nat /\ T # {} /\ \A k \in T : k <= REFS - i
    BY <1>1
  <1>3. \E g \in T : \A k \in T : k <= g
    BY <1>1, <1>2, GreatestNatural
  <1>4. PICK c \in present : \A d \in present : Dist(d) <= Dist(c)
    BY <1>3
  <1>5. far # {} /\ far \subseteq Nat /\ far \subseteq present
    <2>1. present \subseteq Nat
      BY PagingAssumption DEF Replay, Pages
    <2>2. c \in far
      BY <1>1, <1>4
    <2> QED
      BY <2>1, <2>2
  <1>6. Candidate = IF far = {} THEN PAGES ELSE CHOOSE a \in far : \A d \in far : a <= d
    BY DEF Candidate
  <1> HIDE DEF far
  <1>7. \E a \in far : \A d \in far : a <= d
    BY <1>5, LeastNatural
  <1> QED
    BY <1>5, <1>6, <1>7

(* One page comes for another.                                             *)
LEMMA ReplaceFills ==
  ASSUME Replay, Filled, Simulating, page \notin present, allocated = frames,
         NEW evict \in present, Replace(evict)
  PROVE  Filled'
  <1>1. IsFiniteSet(present) /\ Cardinality(present) = allocated /\ allocated \in Nat
    BY DEF Filled, Replay
  <1>2. /\ IsFiniteSet(present \ {evict})
        /\ Cardinality(present \ {evict}) = allocated - 1
    BY <1>1, FS_RemoveElement
  <1>3. /\ IsFiniteSet((present \ {evict}) \cup {page})
        /\ Cardinality((present \ {evict}) \cup {page}) = allocated - 1 + 1
    BY <1>2, FS_AddElement
  <1>4. /\ present' = (present \ {evict}) \cup {page} /\ allocated' = allocated
        /\ UNCHANGED <<frames, replaying>>
    BY DEF Replace, Advance
  <1> QED
    BY <1>1, <1>3, <1>4 DEF Filled

LEMMA FilledKeeps ==
  ASSUME PAGES >= SAMPLES, Replay, LruInv, Filled, [PagingNext]_paging
  PROVE  Filled'
  <1> USE PagingAssumption
  <1>1. CASE AddReference
    <2>1. i = 0 /\ ~replaying
      BY <1>1 DEF AddReference, Replay
    <2> QED
      BY <1>1, <2>1 DEF AddReference, Filled
  <1>2. CASE MoreFrames
    <2>1. frames' \in Nat /\ frames' > 0 /\ present' = {} /\ allocated' = 0 /\ i' = 0
      BY <1>2, IncrIsNatural DEF MoreFrames, ClearPageTable, Replay
    <2> QED
      BY <2>1, FS_EmptySet DEF Filled
  <1>3. ASSUME Simulating, i' = i + 1, UNCHANGED <<allocated, frames, seq, replaying, present>>,
               page \in present \/ allocated = frames
        PROVE  Filled'
    <2>1. i \in Nat /\ allocated \in Nat /\ frames \in Nat
      BY <1>3, PageIs DEF Replay, Filled
    <2>2. allocated < frames => \A k \in 1 .. i + 1 : seq[k] \in present
      BY <1>3, <2>1 DEF Filled, page
    <2> QED
      BY <1>3, <2>2 DEF Filled
  <1>4. CASE Hit
    BY <1>3, <1>4 DEF Hit, Advance
  <1>5. CASE Allocate
    <2>1. /\ Simulating /\ page \notin present /\ allocated < frames /\ i' = i + 1
          /\ allocated' = allocated + 1 /\ present' = present \cup {page}
          /\ UNCHANGED <<frames, seq, replaying>>
      BY <1>5 DEF Allocate, Advance
    <2>2. i \in Nat /\ allocated \in Nat /\ frames \in Nat /\ allocated + 1 \in 0 .. frames
      BY <2>1, PageIs DEF Replay, Filled
    <2>3. /\ IsFiniteSet(present \cup {page})
          /\ Cardinality(present \cup {page}) = allocated + 1
      BY <2>1, FS_AddElement DEF Filled
    <2>4. \A k \in 1 .. i + 1 : seq[k] \in present \cup {page}
      BY <2>1, <2>2 DEF Filled, page
    <2> QED
      BY <2>1, <2>2, <2>3, <2>4 DEF Filled
  <1>6. CASE EvictLru
    <2>1. first \in present
      BY <1>6 DEF EvictLru, LruInv, Chained
    <2> QED
      BY <1>6, <2>1, ReplaceFills DEF EvictLru, MustEvict
  <1>7. CASE EvictOptimal
    <2>1. allocated = frames /\ frames > 0 /\ page \notin present /\ Simulating
      BY <1>7 DEF EvictOptimal, MustEvict, Simulating, Filled
    <2>2. present # {}
      BY <2>1, FS_EmptySet DEF Filled
    <2> QED
      BY <1>7, <2>1, <2>2, CandidateIsPresent, ReplaceFills DEF EvictOptimal
  <1>8. CASE EvictSabina
    BY <1>8, ReplaceFills DEF EvictSabina, MustEvict
  <1>9. CASE EvictRandom
    BY <1>3, <1>9 DEF EvictRandom, MustEvict, Advance
  <1>10. CASE Report \/ UNCHANGED paging
    BY <1>10 DEF Report, paging, Filled
  <1> QED
    BY <1>1, <1>2, <1>4, <1>5, <1>6, <1>7, <1>8, <1>9, <1>10 DEF PagingNext, PagingStep

(* FramesFilled, for all numbers of pages, references and samples with at  *)
(* least as many pages as samples, as in main of each program (simulate of *)
(* lru.c, optimal.c and both random.c): a frame is one present page, and   *)
(* all frames are filled before a page is replaced.                        *)
THEOREM FramesAreFilled ==
  ASSUME PAGES >= SAMPLES
  PROVE  PagingSpec => []FramesFilled
  <1>1. PagingInit => LruInv /\ Filled
    BY FS_EmptySet DEF PagingInit, LruInv, Chained, Filled
  <1>2. Replay /\ LruInv /\ Filled /\ [PagingNext]_paging => Replay' /\ LruInv' /\ Filled'
    BY ReplayKeeps, LruKeeps, FilledKeeps
  <1>3. Filled => FramesFilled
    BY DEF Filled, FramesFilled
  <1> QED
    BY <1>1, <1>2, <1>3, ReplayInitially, PTL DEF PagingSpec
=============================================================================
