---------------------------- MODULE CFGStoreProofs ----------------------------
(***************************************************************************)
(* Proofs that CFGStore keeps its reference counts exact and its lists       *)
(* linked, for every pool, every set of handles and generators, every set of *)
(* right hand sides and every hash; and that a production does not change    *)
(* under a holder.                                                           *)
(*                                                                         *)
(* A heap is looked at together with the references it is owed: n[c] is the *)
(* number of references to production c from outside the lists, those of     *)
(* temporaries in the middle of an operation included.  Each heap operation  *)
(* takes a good heap for n to a good heap for the n it leaves behind, so the *)
(* effect of an action is the composition of the lemmas of its calls.        *)
(***************************************************************************)
EXTENDS CFGStore, FiniteSetTheorems, WellFoundedInduction, TLAPS

Exact(h, n) ==
    \A c \in Cells :
        IF c \in h.alloc
        THEN /\ h.ref[c] > 0
             /\ h.ref[c] = n[c] + (IF c \in Live(h) THEN 1 ELSE 0)
        ELSE n[c] = 0 /\ ~h.del[c]

Good(h, n) == h \in Heap /\ LinksOK(h) /\ Exact(h, n)

Inc(n, c) == IF c = NoCell THEN n ELSE [n EXCEPT ![c] = @ + 1]
Dec(n, c) == IF c = NoCell THEN n ELSE [n EXCEPT ![c] = @ - 1]

-----------------------------------------------------------------------------
(* The references held by the clients.                                      *)

Count(p) == [c \in Cells |-> Cardinality({x \in Holders : p[x] = c})]

\* The number of holders of a production is a natural number.
LEMMA CountType ==
    ASSUME NEW p
    PROVE  Count(p) \in [Cells -> Nat]
<1>1. IsFiniteSet(Holders)
  BY FS_Union, SetsAssumption DEF Holders
<1>2. \A c : Cardinality({x \in Holders : p[x] = c}) \in Nat
  <2> TAKE c
  <2>1. {x \in Holders : p[x] = c} \in SUBSET Holders
    OBVIOUS
  <2> QED  BY <1>1, <2>1, FS_Subset, FS_CardinalityType
<1> QED  BY <1>2 DEF Count

\* A production that somebody points to has a positive count.
LEMMA CountPositive ==
    ASSUME NEW p, NEW x \in Holders, p[x] \in Cells
    PROVE  Count(p)[p[x]] > 0
<1> DEFINE S == {y \in Holders : p[y] = p[x]}
<1>1. IsFiniteSet(S)
  <2>1. S \in SUBSET Holders
    OBVIOUS
  <2>2. IsFiniteSet(Holders)
    BY FS_Union, SetsAssumption DEF Holders
  <2> QED  BY <2>1, <2>2, FS_Subset
<1>2. S # {}
  OBVIOUS
<1>3. Cardinality(S) # 0
  BY <1>1, <1>2, FS_EmptySet
<1>4. Cardinality(S) \in Nat
  BY <1>1, FS_CardinalityType
<1>5. Count(p)[p[x]] = Cardinality(S)
  BY DEF Count
<1> QED  BY <1>3, <1>4, <1>5

\* Moving one holder moves one reference.
LEMMA CountMove ==
    ASSUME NEW p \in [Holders -> CellOrNull], NEW x \in Holders,
           NEW d \in CellOrNull
    PROVE  Count([p EXCEPT ![x] = d]) = Inc(Dec(Count(p), p[x]), d)
<1> DEFINE q == [p EXCEPT ![x] = d]
           At(f, c) == {y \in Holders : f[y] = c}
           R == Inc(Dec(Count(p), p[x]), d)
<1>1. IsFiniteSet(Holders)
  BY FS_Union, SetsAssumption DEF Holders
<1>2. \A c : IsFiniteSet(At(p, c)) /\ IsFiniteSet(At(q, c))
  <2> TAKE c
  <2>1. At(p, c) \in SUBSET Holders /\ At(q, c) \in SUBSET Holders
    OBVIOUS
  <2> QED  BY <1>1, <2>1, FS_Subset
<1>3. \A c : Cardinality(At(p, c)) \in Nat /\ Cardinality(At(q, c)) \in Nat
  BY <1>2, FS_CardinalityType
<1>4. ASSUME NEW c \in Cells
      PROVE  Cardinality(At(q, c)) = R[c]
  <2> DEFINE P == At(p, c)
             Q == At(q, c)
  <2> SUFFICES Cardinality(Q) = R[c]
    OBVIOUS
  <2>1. IsFiniteSet(P) /\ Cardinality(P) \in Nat
    BY <1>2, <1>3
  <2>2. Count(p)[c] = Cardinality(P)
    BY DEF Count
  <2>3. R[c] = Count(p)[c] - (IF p[x] = c THEN 1 ELSE 0)
                           + (IF d = c THEN 1 ELSE 0)
    <3> HIDE DEF q, At
    <3> QED  BY <2>1, <2>2, CountType, NullsAssumption DEF Inc, Dec, CellOrNull
  <2>4. CASE p[x] = c /\ d = c
    <3>1. Q = P
      BY <2>4
    <3> HIDE DEF P, Q, R
    <3> QED  BY <2>1, <2>2, <2>3, <2>4, <3>1
  <2>5. CASE p[x] # c /\ d # c
    <3>1. Q = P
      BY <2>5
    <3> HIDE DEF P, Q, R
    <3> QED  BY <2>1, <2>2, <2>3, <2>5, <3>1
  <2>6. CASE p[x] = c /\ d # c
    <3>1. Q = P \ {x} /\ x \in P
      BY <2>6
    <3> HIDE DEF P, Q, R
    <3>2. Cardinality(Q) = Cardinality(P) - 1
      BY <2>1, <3>1, FS_RemoveElement
    <3> QED  BY <2>1, <2>2, <2>3, <2>6, <3>2
  <2>7. CASE p[x] # c /\ d = c
    <3>1. Q = P \cup {x} /\ x \notin P
      BY <2>7
    <3> HIDE DEF P, Q, R
    <3>2. Cardinality(Q) = Cardinality(P) + 1
      BY <2>1, <3>1, FS_AddElement
    <3> QED  BY <2>1, <2>2, <2>3, <2>7, <3>2
  <2> QED  BY <2>4, <2>5, <2>6, <2>7
<1>5. R \in [Cells -> Int]
  BY CountType DEF Inc, Dec, CellOrNull
<1>6. Count(q) = [c \in Cells |-> Cardinality(At(q, c))]
  BY DEF Count
<1> QED  BY <1>4, <1>5, <1>6

-----------------------------------------------------------------------------
(* hold() and release().                                                    *)

\* What two heaps have in common when they differ in reference counts only.
SameLists(h, k) ==
    /\ k.alloc = h.alloc /\ k.del = h.del /\ k.var = h.var /\ k.rhs = h.rhs
    /\ k.prev = h.prev /\ k.next = h.next /\ k.first = h.first

\* LinksOK does not depend on the reference counts.
LEMMA SameListsLinks ==
    ASSUME NEW h \in Heap, NEW k \in Heap, SameLists(h, k), LinksOK(h)
    PROVE  LinksOK(k) /\ Live(k) = Live(h)
<1>1. \A v : OfVar(k, v) = OfVar(h, v)
  BY DEF SameLists, OfVar
<1>2. Live(k) = Live(h)
  BY DEF SameLists, Live
<1>3. LinksOK(k)
  BY <1>1 DEF SameLists, LinksOK
<1> QED  BY <1>2, <1>3

\* Taking a reference to an allocated production.
LEMMA HoldGood ==
    ASSUME NEW h, NEW n \in [Cells -> Nat], Good(h, n), NEW c \in h.alloc
    PROVE  /\ Good(Hold(h, c), Inc(n, c))
           /\ SameLists(h, Hold(h, c))
           /\ Live(Hold(h, c)) = Live(h)
<1> DEFINE k == Hold(h, c)
<1>1. h \in Heap /\ LinksOK(h) /\ c \in Cells
  BY DEF Good, Heap
<1>2. k \in Heap
  BY <1>1 DEF Hold, Heap
<1>3. SameLists(h, k) /\ k.ref = [h.ref EXCEPT ![c] = @ + 1]
  BY <1>1 DEF Hold, SameLists, Heap
<1> HIDE DEF k
<1>4. LinksOK(k) /\ Live(k) = Live(h)
  BY <1>1, <1>2, <1>3, SameListsLinks
<1>5. Inc(n, c) = [n EXCEPT ![c] = @ + 1]
  BY <1>1, NullsAssumption DEF Inc
<1>6. Exact(k, Inc(n, c))
  <2>1. Exact(h, n) /\ h.ref \in [Cells -> Nat]
    BY <1>1 DEF Good, Heap
  <2>2. k.alloc = h.alloc /\ k.del = h.del
    BY <1>3 DEF SameLists
  <2> QED  BY <1>1, <1>3, <1>4, <1>5, <2>1, <2>2 DEF Exact
<1>7. Good(k, Inc(n, c))
  BY <1>2, <1>4, <1>6 DEF Good
<1> QED  BY <1>3, <1>4, <1>7 DEF k

\* Freeing a production that is not live keeps the lists linked.
LEMMA FreeLinks ==
    ASSUME NEW h \in Heap, LinksOK(h), NEW c \in h.alloc
    PROVE  Free(h, c) \in Heap /\ LinksOK(Free(h, c))
<1> DEFINE k == Free(h, c)
           p == h.prev[c]
           q == h.next[c]
           v == h.var[c]
<1>1. c \in Cells
  BY DEF Heap
<1>2. k \in Heap
  BY <1>1, SetsAssumption DEF Free, Heap, CellOrNull
<1>3. /\ k.alloc = h.alloc \ {c}
      /\ k.var = [h.var EXCEPT ![c] = 0]
      /\ k.prev = [x \in Cells |->
                     CASE x = c                     -> NoCell
                       [] x # c /\ x = q /\ h.var[x] # 0 -> p
                       [] OTHER                     -> h.prev[x]]
      /\ k.next = [x \in Cells |->
                     CASE x = c                     -> NoCell
                       [] x # c /\ x = p /\ v # 0   -> q
                       [] OTHER                     -> h.next[x]]
      /\ k.first = [w \in VarIds |->
                     IF w = v /\ p = NoCell THEN q ELSE h.first[w]]
  BY DEF Free
<1> HIDE DEF k
<1>4. \A w : OfVar(k, w) = OfVar(h, w) \ {c}
  <2> TAKE w
  <2> QED  BY <1>1, <1>3 DEF OfVar, Heap
<1>5. LinksOK(k)
  <2>1. ASSUME NEW x \in k.alloc, k.next[x] # NoCell
        PROVE  /\ k.var[x] # 0
               /\ k.next[x] \in OfVar(k, k.var[x])
               /\ k.prev[k.next[x]] = x
    <3>1. /\ x \in h.alloc /\ x \in Cells /\ x # c /\ NoCell \notin Cells
          /\ k.var[x] = h.var[x] /\ 0 \notin VarIds /\ h.var[x] \in VarIds \cup {0}
      BY <1>1, <1>3, <2>1, NullsAssumption DEF Heap, CellOrNull, VarIds
    <3>2. CASE x = p /\ v # 0
      <4>1. k.next[x] = q /\ q # NoCell
        BY <1>3, <2>1, <3>1, <3>2
      <4>2. q \in OfVar(h, v) /\ h.prev[q] = c
        BY <4>1 DEF LinksOK
      <4>3. p \in OfVar(h, v) /\ h.next[p] = c
        BY <3>1, <3>2 DEF LinksOK
      <4>4. q # c
        <5> SUFFICES ASSUME q = c PROVE FALSE
          OBVIOUS
        <5> QED  BY <3>1, <3>2, <4>2
      <4>5. k.prev[q] = p
        <5>1. q \in Cells /\ h.var[q] = v
          BY <4>2 DEF OfVar, Heap
        <5> QED  BY <1>3, <3>2, <4>4, <5>1
      <4>6. h.var[x] = v
        BY <3>2, <4>3 DEF OfVar
      <4> QED  BY <1>4, <3>1, <3>2, <4>1, <4>2, <4>4, <4>5, <4>6
    <3>3. CASE ~(x = p /\ v # 0)
      <4> DEFINE y == h.next[x]
      <4>1. k.next[x] = y
        BY <1>3, <3>1, <3>3
      <4>2. h.var[x] # 0 /\ y \in OfVar(h, h.var[x]) /\ h.prev[y] = x
        BY <2>1, <3>1, <4>1 DEF LinksOK
      <4>3. y # c
        BY <3>3, <4>2 DEF OfVar
      <4>4. y # q
        <5> SUFFICES ASSUME y = q PROVE FALSE
          OBVIOUS
        <5>1. q # NoCell
          BY <2>1, <4>1
        <5>2. h.prev[q] = c
          BY <5>1 DEF LinksOK
        <5> QED  BY <3>1, <4>2, <5>2
      <4>5. y \in Cells
        BY <4>2 DEF OfVar, Heap
      <4>6. k.prev[y] = x
        BY <1>3, <4>2, <4>3, <4>4, <4>5
      <4> QED  BY <1>4, <3>1, <4>1, <4>2, <4>3, <4>6
    <3> QED  BY <3>2, <3>3
  <2>2. ASSUME NEW x \in k.alloc, k.var[x] # 0
        PROVE  \/ k.prev[x] = NoCell /\ k.first[k.var[x]] = x
               \/ /\ k.prev[x] \in OfVar(k, k.var[x])
                  /\ k.next[k.prev[x]] = x
    <3>1. /\ x \in h.alloc /\ x \in Cells /\ x # c /\ x # NoCell
          /\ k.var[x] = h.var[x] /\ h.var[x] \in VarIds /\ h.var[x] # 0
          /\ c # NoCell
      BY <1>1, <1>3, <2>2, NullsAssumption DEF Heap, CellOrNull
    <3>2. CASE h.prev[x] = NoCell
      <4>1. h.first[h.var[x]] = x
        BY <3>1, <3>2, NullsAssumption DEF LinksOK, OfVar, Heap
      <4>2. x # q
        BY <1>1, <3>1, <3>2 DEF LinksOK
      <4>3. ~(h.var[x] = v /\ p = NoCell)
        BY <3>1, <4>1, <1>1, NullsAssumption DEF LinksOK, OfVar, Heap
      <4> QED  BY <1>3, <3>1, <3>2, <4>1, <4>2, <4>3
    <3>3. CASE h.prev[x] = c
      <4>1. x = q /\ v = h.var[x] /\ h.next[c] = x
        BY <3>1, <3>3 DEF LinksOK, OfVar
      <4>2. k.prev[x] = p
        BY <1>3, <3>1, <4>1, NullsAssumption, SetsAssumption DEF VarIds
      <4>3. CASE p = NoCell
        <5>1. k.first[v] = q
          BY <1>3, <3>1, <4>1, <4>3
        <5> QED  BY <3>1, <4>1, <4>2, <4>3, <5>1
      <4>4. CASE p # NoCell
        <5>1. p \in OfVar(h, v) /\ h.next[p] = c
          BY <3>1, <4>1, <4>4, SetsAssumption DEF LinksOK, VarIds
        <5>2. p # c /\ p \in Cells
          BY <3>1, <4>1, <5>1 DEF OfVar, Heap
        <5>3. k.next[p] = x
          BY <1>3, <3>1, <4>1, <5>2, SetsAssumption DEF VarIds
        <5> QED  BY <1>4, <3>1, <4>1, <4>2, <5>1, <5>2, <5>3
      <4> QED  BY <4>3, <4>4
    <3>4. CASE h.prev[x] # NoCell /\ h.prev[x] # c
      <4> DEFINE y == h.prev[x]
      <4>1. y \in OfVar(h, h.var[x]) /\ h.next[y] = x
        BY <3>1, <3>4, SetsAssumption DEF LinksOK, VarIds
      <4>2. y \in Cells
        BY <4>1 DEF OfVar, Heap
      <4>3. x # q
        BY <3>1, <3>4, <1>1 DEF LinksOK
      <4>4. ~(y = p /\ v # 0)
        BY <3>1, <4>1, <3>4 DEF LinksOK, OfVar
      <4>5. k.prev[x] = y /\ k.next[y] = x
        BY <1>3, <3>1, <3>4, <4>1, <4>2, <4>3, <4>4
      <4> QED  BY <1>4, <3>1, <3>4, <4>1, <4>5
    <3> QED  BY <3>2, <3>3, <3>4
  <2>3. ASSUME NEW x \in k.alloc, k.var[x] = 0
        PROVE  k.prev[x] \in VarIds \cup {NoCell}
    BY <1>1, <1>3, <2>3, <1>4, NullsAssumption DEF Heap, LinksOK, OfVar, CellOrNull
  <2>4. ASSUME NEW w \in VarIds, k.first[w] # NoCell
        PROVE  k.first[w] \in OfVar(k, w) /\ k.prev[k.first[w]] = NoCell
    BY <1>1, <1>3, <2>4, <1>4, NullsAssumption DEF Heap, LinksOK, OfVar, CellOrNull
  <2> QED  BY <2>1, <2>2, <2>3, <2>4 DEF LinksOK
<1> QED  BY <1>2, <1>5 DEF k

\* Giving back a reference that is owed.
LEMMA ReleaseGood ==
    ASSUME NEW h, NEW n \in [Cells -> Nat], Good(h, n), NEW c \in Cells, n[c] > 0
    PROVE  /\ Good(Release(h, c), Dec(n, c))
           /\ Dec(n, c) \in [Cells -> Nat]
           /\ Live(Release(h, c)) = Live(h)
<1> DEFINE m == [n EXCEPT ![c] = @ - 1]
<1>1. h \in Heap /\ LinksOK(h) /\ Exact(h, n) /\ h.ref \in [Cells -> Nat]
  BY DEF Good, Heap
<1>2. c \in h.alloc
  BY <1>1 DEF Exact
<1>3. Dec(n, c) = m /\ m \in [Cells -> Nat]
  BY NullsAssumption DEF Dec
<1>4. CASE h.ref[c] > 1
  <2> DEFINE k == [h EXCEPT !.ref[c] = @ - 1]
  <2>1. k \in Heap /\ SameLists(h, k) /\ k.ref = [h.ref EXCEPT ![c] = @ - 1]
    BY <1>1, <1>4 DEF Heap, SameLists
  <2>2. Release(h, c) = k
    BY <1>4 DEF Release
  <2> HIDE DEF k
  <2>3. LinksOK(k) /\ Live(k) = Live(h)
    BY <1>1, <2>1, SameListsLinks
  <2>4. k.alloc = h.alloc /\ k.del = h.del
    BY <2>1 DEF SameLists
  <2>5. Exact(k, m)
    BY <1>1, <1>2, <1>4, <2>1, <2>3, <2>4 DEF Exact
  <2> QED  BY <1>3, <2>1, <2>2, <2>3, <2>5 DEF Good
<1>5. CASE h.ref[c] <= 1
  <2> DEFINE k == Free(h, c)
  <2>1. k \in Heap /\ LinksOK(k)
    BY <1>1, <1>2, FreeLinks
  <2>2. n[c] = 1 /\ c \notin Live(h)
    BY <1>1, <1>2, <1>5 DEF Exact
  <2>3. /\ k.alloc = h.alloc \ {c} /\ k.ref = [h.ref EXCEPT ![c] = 0]
        /\ k.del = [h.del EXCEPT ![c] = FALSE]
        /\ k.var = [h.var EXCEPT ![c] = 0]
    BY DEF Free
  <2>4. Release(h, c) = k
    BY <1>1, <1>2, <1>5, <2>2 DEF Release, Exact
  <2> HIDE DEF k
  <2>5. Live(k) = Live(h)
    BY <1>1, <2>2, <2>3 DEF Live, Heap
  <2>6. Exact(k, m)
    BY <1>1, <1>2, <2>2, <2>3, <2>5 DEF Exact, Heap
  <2> QED  BY <1>3, <2>1, <2>4, <2>5, <2>6 DEF Good
<1> QED  BY <1>1, <1>4, <1>5

\* The two for a pointer that may be null.
LEMMA HoldIfGood ==
    ASSUME NEW h, NEW n \in [Cells -> Nat], Good(h, n),
           NEW c \in h.alloc \cup {NoCell}
    PROVE  /\ Good(HoldIf(h, c), Inc(n, c))
           /\ Inc(n, c) \in [Cells -> Nat]
           /\ Live(HoldIf(h, c)) = Live(h)
<1>1. CASE c = NoCell
  BY <1>1 DEF HoldIf, Inc
<1>2. CASE c # NoCell
  <2>1. c \in h.alloc /\ HoldIf(h, c) = Hold(h, c)
    BY <1>2 DEF HoldIf
  <2>2. Inc(n, c) \in [Cells -> Nat]
    BY <1>2, <2>1 DEF Inc, Good, Heap
  <2> QED  BY <2>1, <2>2, HoldGood
<1> QED  BY <1>1, <1>2

\* Releasing a pointer that may be null.
LEMMA ReleaseIfGood ==
    ASSUME NEW h, NEW n \in [Cells -> Nat], Good(h, n),
           NEW c \in CellOrNull, c # NoCell => n[c] > 0
    PROVE  /\ Good(ReleaseIf(h, c), Dec(n, c))
           /\ Dec(n, c) \in [Cells -> Nat]
           /\ Live(ReleaseIf(h, c)) = Live(h)
<1>1. CASE c = NoCell
  BY <1>1 DEF ReleaseIf, Dec
<1>2. CASE c # NoCell
  BY <1>2, ReleaseGood DEF ReleaseIf, CellOrNull
<1> QED  BY <1>1, <1>2

\* A production that is live, or that is owed a reference, is allocated.
LEMMA Allocated ==
    ASSUME NEW h, NEW n \in [Cells -> Nat], Good(h, n), NEW c \in CellOrNull,
           c # NoCell => (c \in Live(h) \/ n[c] > 0)
    PROVE  c \in h.alloc \cup {NoCell}
<1> QED  BY DEF Good, Exact, Live, CellOrNull

\* Assigning a handle: its old reference goes and a new one is taken.
LEMMA AssignGood ==
    ASSUME NEW h, NEW n \in [Cells -> Nat], Good(h, n),
           NEW old \in CellOrNull, old # NoCell => n[old] > 0,
           NEW new \in CellOrNull, new # NoCell => (new \in Live(h) \/ n[new] > 0)
    PROVE  /\ Good(Assign(h, old, new), Inc(Dec(n, old), new))
           /\ Inc(Dec(n, old), new) \in [Cells -> Nat]
           /\ Live(Assign(h, old, new)) = Live(h)
<1> DEFINE k == ReleaseIf(h, old)
           m == Dec(n, old)
<1>1. CASE old = new
  <2>1. Inc(Dec(n, old), new) = n
    <3> DEFINE d == [n EXCEPT ![old] = @ - 1]
               i == [d EXCEPT ![old] = @ + 1]
    <3>1. CASE old = NoCell
      BY <1>1, <3>1 DEF Inc, Dec
    <3>2. CASE old # NoCell
      <4>1. old \in Cells /\ d \in [Cells -> Int]
        BY <3>2 DEF CellOrNull
      <4>2. i \in [Cells -> Int] /\ \A x \in Cells : i[x] = n[x]
        BY <4>1
      <4> HIDE DEF i
      <4>3. i = n
        BY <4>2
      <4> QED  BY <1>1, <3>2, <4>3 DEF Inc, Dec, i
    <3> QED  BY <3>1, <3>2
  <2> QED  BY <1>1, <2>1 DEF Assign
<1>2. CASE old # new
  <2>1. Good(k, m) /\ m \in [Cells -> Nat] /\ Live(k) = Live(h)
    BY ReleaseIfGood
  <2>2. new # NoCell => (new \in Live(k) \/ m[new] > 0)
    BY <1>2, <2>1 DEF Dec, CellOrNull
  <2>3. Assign(h, old, new) = HoldIf(k, new)
    BY <1>2 DEF Assign
  <2> HIDE DEF k, m
  <2>4. new \in k.alloc \cup {NoCell}
    BY <2>1, <2>2, Allocated
  <2> QED  BY <2>1, <2>3, <2>4, HoldIfGood DEF m
<1> QED  BY <1>1, <1>2

-----------------------------------------------------------------------------
(* The edits of the lists.                                                  *)

\* A production put between two neighbours of a list, or at an end of it.
LEMMA InsertGood ==
    ASSUME NEW h, NEW n \in [Cells -> Nat], Good(h, n),
           NEW c \in Cells \ h.alloc, NEW v \in VarIds, NEW s \in Strings,
           NEW p \in CellOrNull, NEW q \in CellOrNull,
           p = NoCell => h.first[v] = q,
           p # NoCell => p \in OfVar(h, v) /\ h.next[p] = q,
           q # NoCell => q \in OfVar(h, v) /\ h.prev[q] = p
    PROVE  /\ Good(Insert(h, c, v, s, p, q), n)
           /\ Live(Insert(h, c, v, s, p, q)) = Live(h) \cup {c}
<1> DEFINE k == Insert(h, c, v, s, p, q)
<1>1. h \in Heap /\ LinksOK(h) /\ Exact(h, n) /\ ~h.del[c] /\ v # 0
  BY SetsAssumption DEF Good, Exact, VarIds
<1>2. k \in Heap
  BY <1>1 DEF Insert, Heap, CellOrNull
<1>3. /\ k.alloc = h.alloc \cup {c}
      /\ k.ref = [h.ref EXCEPT ![c] = 1]
      /\ k.del = h.del
      /\ k.var = [h.var EXCEPT ![c] = v]
      /\ k.prev = [x \in Cells |-> CASE x = c          -> p
                                  [] x # c /\ x = q -> c
                                  [] OTHER          -> h.prev[x]]
      /\ k.next = [x \in Cells |-> CASE x = c          -> q
                                  [] x # c /\ x = p -> c
                                  [] OTHER          -> h.next[x]]
      /\ k.first = [w \in VarIds |-> IF w = v /\ p = NoCell THEN c
                                                            ELSE h.first[w]]
  BY DEF Insert
<1> HIDE DEF k
<1>4. Live(k) = Live(h) \cup {c}
  BY <1>1, <1>3 DEF Live, Heap
<1>5. \A w : OfVar(k, w) = IF w = v THEN OfVar(h, w) \cup {c} ELSE OfVar(h, w)
  <2> TAKE w
  <2> QED  BY <1>1, <1>3 DEF OfVar, Heap
<1>6. LinksOK(k)
  <2>1. ASSUME NEW x \in k.alloc, k.next[x] # NoCell
        PROVE  /\ k.var[x] # 0
               /\ k.next[x] \in OfVar(k, k.var[x])
               /\ k.prev[k.next[x]] = x
    BY <1>1, <1>3, <2>1, <1>5, NullsAssumption DEF Heap, LinksOK, OfVar, CellOrNull
  <2>2. ASSUME NEW x \in k.alloc, k.var[x] # 0
        PROVE  \/ k.prev[x] = NoCell /\ k.first[k.var[x]] = x
               \/ /\ k.prev[x] \in OfVar(k, k.var[x])
                  /\ k.next[k.prev[x]] = x
    BY <1>1, <1>3, <2>2, <1>5, NullsAssumption DEF Heap, LinksOK, OfVar, CellOrNull
  <2>3. ASSUME NEW x \in k.alloc, k.var[x] = 0
        PROVE  k.prev[x] \in VarIds \cup {NoCell}
    BY <1>1, <1>3, <2>3, <1>5, NullsAssumption DEF Heap, LinksOK, OfVar, CellOrNull
  <2>4. ASSUME NEW w \in VarIds, k.first[w] # NoCell
        PROVE  k.first[w] \in OfVar(k, w) /\ k.prev[k.first[w]] = NoCell
    BY <1>1, <1>3, <2>4, <1>5, NullsAssumption DEF Heap, LinksOK, OfVar, CellOrNull
  <2> QED  BY <2>1, <2>2, <2>3, <2>4 DEF LinksOK
<1>7. Exact(k, n)
  BY <1>1, <1>3, <1>4 DEF Exact, Heap
<1> QED  BY <1>2, <1>4, <1>6, <1>7 DEF Good, k

\* Bringing back a removed production that somebody holds.
LEMMA UndeleteGood ==
    ASSUME NEW h, NEW n \in [Cells -> Nat], Good(h, n),
           NEW c \in h.alloc, h.del[c], h.var[c] # 0
    PROVE  LET k == Hold([h EXCEPT !.del[c] = FALSE], c)
           IN  Good(k, n) /\ Live(k) = Live(h) \cup {c}
<1> DEFINE k == Hold([h EXCEPT !.del[c] = FALSE], c)
<1>1. h \in Heap /\ LinksOK(h) /\ Exact(h, n) /\ c \in Cells
  BY DEF Good, Heap
<1>2. k \in Heap
  <2> DEFINE j == [h EXCEPT !.del[c] = FALSE]
  <2>1. j \in Heap
    BY <1>1 DEF Heap
  <2> HIDE DEF j
  <2>2. Hold(j, c) \in Heap
    BY SMTT(40), <1>1, <2>1 DEF Hold, Heap
  <2> QED  BY <2>2 DEF j
<1>3. /\ k.alloc = h.alloc /\ k.ref = [h.ref EXCEPT ![c] = @ + 1]
      /\ k.del = [h.del EXCEPT ![c] = FALSE]
      /\ k.var = h.var /\ k.prev = h.prev /\ k.next = h.next /\ k.first = h.first
  BY <1>1 DEF Hold, Heap
<1> HIDE DEF k
<1>4. Live(k) = Live(h) \cup {c}
  BY <1>1, <1>3 DEF Live, Heap
<1>5. \A v : OfVar(k, v) = OfVar(h, v)
  BY <1>3 DEF OfVar
<1>6. LinksOK(k)
  BY <1>1, <1>3, <1>5 DEF LinksOK
<1>7. c \notin Live(h)
  BY DEF Live
<1>8. Exact(k, n)
  BY <1>1, <1>3, <1>4, <1>7 DEF Exact, Heap
<1> QED  BY <1>2, <1>4, <1>6, <1>8 DEF Good, k

\* Marking a live production as removed: the list's reference is now owed.
LEMMA DeleteGood ==
    ASSUME NEW h, NEW n \in [Cells -> Nat], Good(h, n), NEW c \in Live(h)
    PROVE  LET k == [h EXCEPT !.del[c] = TRUE]
           IN  /\ Good(k, Inc(n, c))
               /\ Inc(n, c) \in [Cells -> Nat]
               /\ Live(k) = Live(h) \ {c}
<1> DEFINE k == [h EXCEPT !.del[c] = TRUE]
<1>1. h \in Heap /\ LinksOK(h) /\ Exact(h, n) /\ c \in Cells /\ c \in h.alloc
  BY DEF Good, Heap, Live
<1>2. k \in Heap
  BY <1>1 DEF Heap
<1>3. /\ k.alloc = h.alloc /\ k.ref = h.ref
      /\ k.del = [h.del EXCEPT ![c] = TRUE]
      /\ k.var = h.var /\ k.prev = h.prev /\ k.next = h.next /\ k.first = h.first
  BY <1>1 DEF Heap
<1> HIDE DEF k
<1>4. Live(k) = Live(h) \ {c}
  BY <1>1, <1>3 DEF Live, Heap
<1>5. \A v : OfVar(k, v) = OfVar(h, v)
  BY <1>3 DEF OfVar
<1>6. LinksOK(k)
  BY <1>1, <1>3, <1>5 DEF LinksOK
<1>7. Inc(n, c) = [n EXCEPT ![c] = @ + 1] /\ Inc(n, c) \in [Cells -> Nat]
  BY <1>1, NullsAssumption DEF Inc
<1>8. Exact(k, Inc(n, c))
  BY <1>1, <1>3, <1>4, <1>7 DEF Exact, Heap
<1> QED  BY <1>2, <1>4, <1>6, <1>7, <1>8 DEF Good, k

\* Removing all the productions of some variables at once.
LEMMA OrphanGood ==
    ASSUME NEW h, NEW n \in [Cells -> Nat], Good(h, n), NEW V \in SUBSET VarIds,
           NEW tag \in VarIds \cup {NoCell}, NEW mark \in BOOLEAN
    PROVE  /\ Good(Orphan(h, V, tag, mark), n)
           /\ \A c : c \in Live(Orphan(h, V, tag, mark))
                      <=> c \in Live(h) /\ h.var[c] \notin V
<1> DEFINE k    == Orphan(h, V, tag, mark)
           C    == {c \in h.alloc : h.var[c] \in V}
           gone == {c \in C : ~h.del[c] /\ h.ref[c] = 1}
<1>1. h \in Heap /\ LinksOK(h) /\ Exact(h, n) /\ 0 \notin VarIds
  BY DEF Good, VarIds
<1>2. /\ k.alloc = h.alloc \ gone
      /\ k.ref = [c \in Cells |-> IF c \in C /\ ~h.del[c] THEN h.ref[c] - 1
                                  ELSE h.ref[c]]
      /\ k.del = [c \in Cells |-> CASE c \in gone -> FALSE
                                    [] c \in C \ gone -> h.del[c] \/ mark
                                    [] OTHER      -> h.del[c]]
      /\ k.var = [c \in Cells |-> IF c \in C THEN 0 ELSE h.var[c]]
      /\ k.prev = [c \in Cells |-> CASE c \in gone -> NoCell
                                     [] c \in C \ gone -> tag
                                     [] OTHER      -> h.prev[c]]
      /\ k.next = [c \in Cells |-> IF c \in C THEN NoCell ELSE h.next[c]]
      /\ k.first = [v \in VarIds |-> IF v \in V THEN NoCell ELSE h.first[v]]
  BY DEF Orphan
<1>3. k \in Heap
  <2>1. \A c \in Cells : c \in C => h.ref[c] > 0
    BY <1>1 DEF Exact
  <2>2. k.ref \in [Cells -> Nat]
    BY <1>1, <1>2, <2>1 DEF Heap
  <2> QED  BY <1>1, <1>2, <2>2, SetsAssumption DEF Orphan, Heap, CellOrNull
<1> HIDE DEF k
<1>4. Live(k) = {c \in Live(h) : h.var[c] \notin V}
  <2>1. h.alloc \subseteq Cells /\ k.alloc = h.alloc \ gone
    BY <1>1, <1>2 DEF Heap
  <2>2. \A c \in Cells : /\ k.var[c] = IF c \in C THEN 0 ELSE h.var[c]
                         /\ c \notin C => k.del[c] = h.del[c]
    BY <1>2 DEF gone
  <2>3. ASSUME NEW c PROVE c \in Live(k) <=> c \in Live(h) /\ h.var[c] \notin V
    BY <1>1, <2>1, <2>2 DEF Live, C, gone
  <2> QED  BY <2>3
<1>5. \A v \in VarIds \ V : OfVar(k, v) = OfVar(h, v)
  BY <1>1, <1>2 DEF OfVar, Heap
<1>6. LinksOK(k)
  <2> HIDE DEF C, gone
  <2>0. /\ \A x \in k.alloc : x \in h.alloc /\ x \in Cells
        /\ \A x \in Cells : x \in C <=> x \in h.alloc /\ h.var[x] \in V
    BY <1>1, <1>2 DEF Heap, C
  <2>1. ASSUME NEW x \in k.alloc, k.next[x] # NoCell
        PROVE  /\ k.var[x] # 0
               /\ k.next[x] \in OfVar(k, k.var[x])
               /\ k.prev[k.next[x]] = x
    <3> DEFINE y == h.next[x]
    <3>1. x \notin C /\ k.next[x] = y /\ k.var[x] = h.var[x] /\ x \in h.alloc
      BY <1>2, <2>0, <2>1
    <3>2. y \in OfVar(h, h.var[x]) /\ h.prev[y] = x /\ h.var[x] \in VarIds \ V
      BY <1>1, <2>0, <2>1, <3>1 DEF LinksOK, Heap
    <3>3. y \in Cells /\ y \notin C /\ gone \subseteq C
      BY <1>1, <2>0, <3>2 DEF OfVar, Heap, gone
    <3>4. k.prev[y] = x
      BY <1>2, <3>2, <3>3
    <3> QED  BY <1>1, <1>5, <3>1, <3>2, <3>4
  <2>2. ASSUME NEW x \in k.alloc, k.var[x] # 0
        PROVE  \/ k.prev[x] = NoCell /\ k.first[k.var[x]] = x
               \/ /\ k.prev[x] \in OfVar(k, k.var[x])
                  /\ k.next[k.prev[x]] = x
    <3> DEFINE y == h.prev[x]
    <3>1. x \notin C /\ k.var[x] = h.var[x] /\ x \in h.alloc /\ gone \subseteq C
      BY <1>2, <2>0, <2>2 DEF gone
    <3>2. h.var[x] \in VarIds \ V /\ k.prev[x] = y
      BY <1>1, <1>2, <2>0, <2>2, <3>1 DEF Heap
    <3>3. CASE y = NoCell /\ h.first[h.var[x]] = x
      BY <1>2, <3>1, <3>2, <3>3
    <3>4. CASE y \in OfVar(h, h.var[x]) /\ h.next[y] = x
      <4>1. y \in Cells /\ y \notin C
        BY <1>1, <2>0, <3>2, <3>4 DEF OfVar, Heap
      <4>2. k.next[y] = x
        BY <1>2, <3>4, <4>1
      <4> QED  BY <1>5, <3>1, <3>2, <3>4, <4>2
    <3> QED  BY <1>1, <2>2, <3>1, <3>3, <3>4 DEF LinksOK
  <2>3. ASSUME NEW x \in k.alloc, k.var[x] = 0
        PROVE  k.prev[x] \in VarIds \cup {NoCell}
    <3>1. CASE x \in C
      BY <1>2, <2>0, <2>3, <3>1
    <3>2. CASE x \notin C
      <4>1. k.var[x] = h.var[x] /\ x \notin gone /\ x \in h.alloc
        BY <1>2, <2>0, <3>2 DEF gone
      <4>2. k.prev[x] = h.prev[x]
        BY <1>2, <2>0, <3>2, <4>1
      <4> QED  BY <1>1, <2>3, <4>1, <4>2 DEF LinksOK
    <3> QED  BY <3>1, <3>2
  <2>4. ASSUME NEW w \in VarIds, k.first[w] # NoCell
        PROVE  k.first[w] \in OfVar(k, w) /\ k.prev[k.first[w]] = NoCell
    <3> DEFINE x == h.first[w]
    <3>1. w \notin V /\ k.first[w] = x
      BY <1>2, <2>4
    <3>2. x \in OfVar(h, w) /\ h.prev[x] = NoCell
      BY <1>1, <2>4, <3>1 DEF LinksOK
    <3>3. x \in Cells /\ x \notin C /\ x \notin gone
      BY <1>1, <2>0, <3>1, <3>2 DEF OfVar, Heap, gone
    <3> QED  BY <1>2, <1>5, <3>1, <3>2, <3>3
  <2> QED  BY <2>1, <2>2, <2>3, <2>4 DEF LinksOK
<1>7. Exact(k, n)
  <2>1. /\ h.alloc \subseteq Cells /\ k.alloc = h.alloc \ gone
        /\ h.ref \in [Cells -> Nat] /\ gone \subseteq C
    BY <1>1, <1>2 DEF Heap
  <2>2. ASSUME NEW c \in Cells
        PROVE  /\ k.ref[c] = IF c \in C /\ ~h.del[c] THEN h.ref[c] - 1 ELSE h.ref[c]
               /\ c \notin C => k.del[c] = h.del[c]
               /\ c \in gone => ~k.del[c]
               /\ c \in C <=> c \in h.alloc /\ h.var[c] \in V
    <3>1. c \in C <=> c \in h.alloc /\ h.var[c] \in V
      OBVIOUS
    <3> HIDE DEF C, gone
    <3>2. k.ref[c] = IF c \in C /\ ~h.del[c] THEN h.ref[c] - 1 ELSE h.ref[c]
      BY <1>2
    <3>3. k.del[c] = CASE c \in gone -> FALSE
                       [] c \in C \ gone -> h.del[c] \/ mark
                       [] OTHER -> h.del[c]
      BY <1>2
    <3>4. c \in gone => ~k.del[c]
      BY <3>3
    <3>5. c \notin C => k.del[c] = h.del[c]
      BY <2>1, <3>3
    <3> QED  BY <3>1, <3>2, <3>4, <3>5
  <2>3. ASSUME NEW c \in Cells PROVE c \in Live(k) <=> c \in Live(h) /\ h.var[c] \notin V
    BY <1>4
  <2>4. ASSUME NEW c \in C, ~h.del[c] PROVE c \in Live(h)
    BY <1>1, <2>1, <2>4 DEF Live
  <2>5. ASSUME NEW c \in Cells
        PROVE  IF c \in h.alloc
               THEN h.ref[c] > 0 /\ h.ref[c] = n[c] + (IF c \in Live(h) THEN 1 ELSE 0)
               ELSE n[c] = 0 /\ ~h.del[c]
    BY <1>1 DEF Exact
  <2>6. ASSUME NEW c \in Cells
        PROVE  IF c \in k.alloc
               THEN k.ref[c] > 0 /\ k.ref[c] = n[c] + (IF c \in Live(k) THEN 1 ELSE 0)
               ELSE n[c] = 0 /\ ~k.del[c]
    <3> USE <2>1, <2>2, <2>3, <2>5
    <3>0. h.ref[c] \in Nat /\ (c \in gone <=> c \in C /\ ~h.del[c] /\ h.ref[c] = 1)
      OBVIOUS
    <3>1. CASE c \in gone
      BY <2>4, <3>0, <3>1
    <3>2. CASE c \in C /\ c \notin gone /\ ~h.del[c]
      <4>1. c \in Live(h) /\ c \notin Live(k) /\ c \in k.alloc
        BY <2>4, <3>2
      <4> QED  BY <3>0, <3>2, <4>1
    <3>3. CASE c \in C /\ h.del[c]
      <4>1. c \notin Live(h) /\ c \notin Live(k) /\ c \in k.alloc
        BY <3>0, <3>3 DEF Live
      <4> QED  BY <3>0, <3>3, <4>1
    <3>4. CASE c \in h.alloc /\ c \notin C
      <4>1. (c \in Live(h) <=> c \in Live(k)) /\ c \in k.alloc
        BY <3>4
      <4> QED  BY <3>0, <3>4, <4>1
    <3>5. CASE c \notin h.alloc
      BY <3>0, <3>5
    <3> QED  BY <3>1, <3>2, <3>3, <3>4, <3>5
  <2> QED  BY <2>6 DEF Exact
<1> QED  BY <1>3, <1>4, <1>6, <1>7 DEF Good, k

-----------------------------------------------------------------------------
(* The operations of handles and cursors, over the pointers p they change.  *)

Held(h, p) == p \in [Holders -> CellOrNull] /\ Good(h, Count(p))

\* References are counted, so the order in which they come and go is
\* immaterial, and one that comes and goes leaves nothing.
LEMMA IncDec ==
    ASSUME NEW n \in [Cells -> Nat], NEW c \in CellOrNull, NEW d \in CellOrNull
    PROVE  /\ Dec(Inc(n, c), d) = Inc(Dec(n, d), c)
           /\ Dec(Inc(n, c), c) = n
           /\ Inc(n, c) \in [Cells -> Nat]
<1> USE NullsAssumption
<1>1. /\ Inc(n, c) \in [Cells -> Nat]
      /\ Dec(n, d) \in [Cells -> Int]
  BY DEF Inc, Dec, CellOrNull
<1>2. /\ Dec(Inc(n, c), d) \in [Cells -> Int]
      /\ Dec(Inc(n, c), c) \in [Cells -> Int]
      /\ Inc(Dec(n, d), c) \in [Cells -> Int]
  BY <1>1 DEF Inc, Dec, CellOrNull
<1>3. \A x \in Cells : /\ Dec(Inc(n, c), d)[x] = Inc(Dec(n, d), c)[x]
                       /\ Dec(Inc(n, c), c)[x] = n[x]
  BY DEF Inc, Dec, CellOrNull
<1> HIDE DEF Inc, Dec
<1>4. Dec(Inc(n, c), d) = Inc(Dec(n, d), c)
  BY <1>2, <1>3
<1>5. Dec(Inc(n, c), c) = n
  BY <1>2, <1>3
<1> QED  BY <1>1, <1>4, <1>5

\* What a holder points to is owed a reference.
LEMMA HeldPointer ==
    ASSUME NEW h, NEW p, Held(h, p), NEW x \in Holders
    PROVE  /\ p[x] \in CellOrNull
           /\ Count(p) \in [Cells -> Nat]
           /\ p[x] # NoCell => Count(p)[p[x]] > 0
           /\ p[x] \in h.alloc \cup {NoCell}
<1>1. p[x] \in CellOrNull /\ Count(p) \in [Cells -> Nat] /\ Good(h, Count(p))
  BY CountType DEF Held
<1>2. p[x] # NoCell => Count(p)[p[x]] > 0
  BY <1>1, CountPositive DEF CellOrNull
<1> QED  BY <1>1, <1>2, Allocated

\* assign(): the holder moves from where it is to a live production, to one
\* that another holder has, or to nothing.
LEMMA HeldAssign ==
    ASSUME NEW h, NEW p, Held(h, p), NEW x \in Holders, NEW d \in CellOrNull,
           d # NoCell => (d \in Live(h) \/ Count(p)[d] > 0)
    PROVE  /\ Held(Assign(h, p[x], d), [p EXCEPT ![x] = d])
           /\ Live(Assign(h, p[x], d)) = Live(h)
<1>1. /\ p[x] \in CellOrNull /\ Count(p) \in [Cells -> Nat]
      /\ p[x] # NoCell => Count(p)[p[x]] > 0
  BY HeldPointer
<1>2. Good(h, Count(p)) /\ p \in [Holders -> CellOrNull]
  BY DEF Held
<1>3. /\ Good(Assign(h, p[x], d), Inc(Dec(Count(p), p[x]), d))
      /\ Live(Assign(h, p[x], d)) = Live(h)
  BY <1>1, <1>2, AssignGood
<1>4. Count([p EXCEPT ![x] = d]) = Inc(Dec(Count(p), p[x]), d)
  BY <1>2, CountMove
<1> QED  BY <1>2, <1>3, <1>4 DEF Held

\* release() of what a holder points to, if anything.
LEMMA HeldRelease ==
    ASSUME NEW h, NEW p, Held(h, p), NEW x \in Holders
    PROVE  /\ Held(ReleaseIf(h, p[x]), [p EXCEPT ![x] = NoCell])
           /\ Live(ReleaseIf(h, p[x])) = Live(h)
<1>1. /\ p[x] \in CellOrNull /\ Count(p) \in [Cells -> Nat]
      /\ p[x] # NoCell => Count(p)[p[x]] > 0
  BY HeldPointer
<1>2. Good(h, Count(p)) /\ p \in [Holders -> CellOrNull]
  BY DEF Held
<1>3. /\ Good(ReleaseIf(h, p[x]), Dec(Count(p), p[x]))
      /\ Live(ReleaseIf(h, p[x])) = Live(h)
  BY <1>1, <1>2, ReleaseIfGood
<1>4. Count([p EXCEPT ![x] = NoCell]) = Dec(Count(p), p[x])
  BY <1>2, CountMove DEF Inc, CellOrNull
<1> QED  BY <1>2, <1>3, <1>4 DEF Held, CellOrNull

\* hold() of an allocated production by a holder that points to nothing.
LEMMA HeldTake ==
    ASSUME NEW h, NEW p, Held(h, p), NEW x \in Holders, p[x] = NoCell,
           NEW d \in h.alloc \cup {NoCell}
    PROVE  /\ Held(HoldIf(h, d), [p EXCEPT ![x] = d])
           /\ Live(HoldIf(h, d)) = Live(h)
<1>1. /\ Good(h, Count(p)) /\ p \in [Holders -> CellOrNull]
      /\ Count(p) \in [Cells -> Nat]
  BY CountType DEF Held
<1>2. d \in CellOrNull
  BY <1>1 DEF Good, Heap, CellOrNull
<1>3. Good(HoldIf(h, d), Inc(Count(p), d)) /\ Live(HoldIf(h, d)) = Live(h)
  BY <1>1, HoldIfGood
<1>4. Count([p EXCEPT ![x] = d]) = Inc(Count(p), d)
  BY <1>1, <1>2, CountMove DEF Dec
<1> QED  BY <1>1, <1>2, <1>3, <1>4 DEF Held

\* The holder moves, holding where it goes before it releases where it was.
LEMMA HeldSwap ==
    ASSUME NEW h, NEW p, Held(h, p), NEW x \in Holders, p[x] \in Cells,
           NEW d \in Live(h) \cup {NoCell}
    PROVE  /\ Held(Release(HoldIf(h, d), p[x]), [p EXCEPT ![x] = d])
           /\ Live(Release(HoldIf(h, d), p[x])) = Live(h)
<1> DEFINE n == Count(p)
<1>1. /\ p[x] \in CellOrNull /\ n \in [Cells -> Nat] /\ n[p[x]] > 0
      /\ Good(h, n) /\ p \in [Holders -> CellOrNull]
  BY HeldPointer, NullsAssumption DEF Held
<1>2. d \in CellOrNull /\ d \in h.alloc \cup {NoCell}
  BY <1>1 DEF Good, Heap, Live, CellOrNull
<1>3. Count([p EXCEPT ![x] = d]) = Inc(Dec(n, p[x]), d)
  BY <1>1, <1>2, CountMove
<1> HIDE DEF n
<1>4. /\ Good(HoldIf(h, d), Inc(n, d)) /\ Inc(n, d) \in [Cells -> Nat]
      /\ Live(HoldIf(h, d)) = Live(h)
  BY <1>1, <1>2, HoldIfGood
<1>5. Inc(n, d)[p[x]] > 0
  BY <1>1, <1>2 DEF Inc, CellOrNull
<1>6. /\ Good(Release(HoldIf(h, d), p[x]), Dec(Inc(n, d), p[x]))
      /\ Live(Release(HoldIf(h, d), p[x])) = Live(h)
  BY <1>4, <1>5, ReleaseGood
<1>7. Dec(Inc(n, d), p[x]) = Inc(Dec(n, p[x]), d)
  BY <1>1, <1>2, IncDec
<1> QED  BY <1>1, <1>2, <1>3, <1>6, <1>7 DEF Held

-----------------------------------------------------------------------------
(* The inductive invariant.  Exact counts need linked lists, because the     *)
(* heads and cursors that are held are read from the links; linked lists      *)
(* need exact counts, because release() unlinks exactly what nobody holds;    *)
(* and a generator may start only if first_production is a live production.   *)

StoreTypes ==
    /\ variable_map \in SUBSET VarIds
    /\ next_variable_id \in 1..MaxVars + 1
    /\ unused_variables \in VarIds \cup {0}
    /\ var_next \in [VarIds -> VarIds \cup {0}]
    /\ var_prev \in [VarIds -> VarIds \cup {0}]
    /\ var_count \in [VarIds -> Int]
    /\ num_productions_ \in Int
    /\ num_variables_ \in Int
    /\ start_variable \in VarIds \cup {0}
    /\ used \in [Gens -> BOOLEAN]
    /\ alive \in BOOLEAN

FirstLive(h, f) == f \in Live(h) \cup {NoCell}

IInv == StoreTypes /\ Held(heap, ptr) /\ FirstLive(heap, first_production)

\* The store starts empty.
LEMMA InitInv == Init => IInv
<1> SUFFICES ASSUME Init PROVE IInv
  OBVIOUS
<1>1. StoreTypes
  BY SetsAssumption DEF Init, StoreTypes, VarIds
<1>2. Held(heap, ptr)
  <2>1. ptr \in [Holders -> CellOrNull] /\ \A x \in Holders : ptr[x] = NoCell
    BY DEF Init, CellOrNull
  <2>2. \A c \in Cells : Count(ptr)[c] = 0
    <3> TAKE c \in Cells
    <3>1. {x \in Holders : ptr[x] = c} = {}
      BY <2>1, NullsAssumption
    <3> QED  BY <3>1, FS_EmptySet DEF Count
  <2>3. heap = EmptyHeap
    BY DEF Init
  <2>4. heap \in Heap /\ heap.alloc = {} /\ (\A c \in Cells : ~heap.del[c])
        /\ (\A v \in VarIds : heap.first[v] = NoCell)
    BY <2>3, SetsAssumption DEF EmptyHeap, Heap, CellOrNull
  <2>5. LinksOK(heap) /\ Exact(heap, Count(ptr))
    BY <2>2, <2>4 DEF LinksOK, Exact
  <2> QED  BY <2>1, <2>4, <2>5 DEF Held, Good
<1>3. FirstLive(heap, first_production)
  BY DEF Init, FirstLive
<1> QED  BY <1>1, <1>2, <1>3 DEF IInv

\* A set of naturals that is not empty has a least element.
LEMMA LeastNat ==
    ASSUME NEW S \in SUBSET Nat, S # {}
    PROVE  \E m \in S : \A k \in S : m <= k
<1> DEFINE R == OpToRel(<, Nat)
<1>1. IsWellFoundedOn(R, Nat)
  BY NatLessThanWellFounded, Zenon
<1> HIDE DEF R
<1>2. PICK m \in S : \A k \in S : ~ (<<k, m>> \in R)
  BY <1>1, WFMin, Zenon
<1>3. \A k \in S : k < m => <<k, m>> \in R
  BY DEF R, OpToRel
<1>4. \A k \in S : ~(k < m)
  BY <1>2, <1>3
<1>5. ASSUME NEW k \in S PROVE m <= k
  <2>1. k \in Nat /\ m \in Nat /\ ~(k < m)
    BY <1>4
  <2> QED  BY <2>1
<1> QED  BY <1>5

\* The neighbours of a variable are variables or null.
LEMMA NeighbourType ==
    ASSUME StoreTypes, NEW id \in VarIds
    PROVE  VarBefore(id) \in VarIds \cup {0} /\ VarAfter(id) \in VarIds \cup {0}
<1>0. /\ variable_map \subseteq VarIds
      /\ \A v \in VarIds : v \in Nat /\ MaxVars - v \in Nat
      /\ MaxVars \in Nat
  BY SetsAssumption DEF StoreTypes, VarIds
<1>1. VarAfter(id) \in VarIds \cup {0}
  <2> DEFINE S == {v \in variable_map : v > id}
  <2>1. CASE S = {}
    BY <2>1 DEF VarAfter
  <2>2. CASE S # {}
    <3>1. S \in SUBSET Nat /\ S \subseteq VarIds
      BY <1>0
    <3>2. \E v \in S : \A w \in S : v <= w
      BY <2>2, <3>1, LeastNat
    <3>3. LeastVar(S) \in S
      BY <3>2 DEF LeastVar
    <3> QED  BY <2>2, <3>1, <3>3 DEF VarAfter
  <2> QED  BY <2>1, <2>2
<1>2. VarBefore(id) \in VarIds \cup {0}
  <2> DEFINE S == {v \in variable_map : v < id}
             T == {MaxVars - v : v \in S}
  <2>1. CASE S = {}
    BY <2>1 DEF VarBefore
  <2>2. CASE S # {}
    <3>1. S \subseteq VarIds /\ T \in SUBSET Nat /\ T # {}
      BY <1>0, <2>2
    <3>2. PICK m \in T : \A w \in T : m <= w
      BY <3>1, LeastNat
    <3>3. PICK v \in S : m = MaxVars - v
      BY <3>2
    <3>4. \A w \in S : v >= w
      <4> TAKE w \in S
      <4>1. MaxVars - v <= MaxVars - w
        BY <3>2, <3>3
      <4> QED  BY <3>1, <4>1, SetsAssumption DEF VarIds
    <3>5. GreatestVar(S) \in S
      BY <3>4 DEF GreatestVar
    <3> QED  BY <2>2, <3>1, <3>5 DEF VarBefore
  <2> QED  BY <2>1, <2>2
<1> QED  BY <1>1, <1>2

\* A step that does not touch the productions, nor who holds them.
LEMMA SameHeapInv ==
    ASSUME IInv, StoreTypes', UNCHANGED <<heap, ptr, first_production>>
    PROVE  IInv'
<1> QED  BY DEF IInv, Held, FirstLive, Count, Good, Exact, Live, LinksOK, OfVar

\* A new variable has no productions: the heap and its holders stay.
LEMMA AddVariableInv == IInv /\ AddVariable => IInv'
<1> SUFFICES ASSUME IInv, AddVariable PROVE IInv'
  OBVIOUS
<1>1. StoreTypes
  BY DEF IInv
<1>2. StoreTypes'
  <2>1. PICK id \in VarIds :
          /\ \/ /\ unused_variables = 0
                /\ id = next_variable_id
                /\ next_variable_id' = id + 1
                /\ UNCHANGED unused_variables
             \/ /\ unused_variables # 0
                /\ id = unused_variables
                /\ unused_variables' = var_next[id]
                /\ UNCHANGED next_variable_id
          /\ LinkVariable(id)
          /\ variable_map' = variable_map \cup {id}
          /\ var_count' = [var_count EXCEPT ![id] = 0]
          /\ start_variable' = IF start_variable = 0 THEN id ELSE start_variable
    BY DEF AddVariable
  <2>2. VarBefore(id) \in VarIds \cup {0} /\ VarAfter(id) \in VarIds \cup {0}
    BY <1>1, NeighbourType
  <2>3. /\ var_next' \in [VarIds -> VarIds \cup {0}]
        /\ var_prev' \in [VarIds -> VarIds \cup {0}]
    BY <1>1, <2>1, <2>2 DEF LinkVariable, StoreTypes
  <2>4. next_variable_id' \in 1..MaxVars + 1
    BY <1>1, <2>1, SetsAssumption DEF StoreTypes, VarIds
  <2>5. /\ num_variables_' = num_variables_ + 1 /\ UNCHANGED num_productions_
        /\ UNCHANGED used /\ UNCHANGED alive
    BY DEF AddVariable
  <2>6. /\ variable_map' \in SUBSET VarIds
        /\ unused_variables' \in VarIds \cup {0}
        /\ var_count' \in [VarIds -> Int]
        /\ start_variable' \in VarIds \cup {0}
    BY <1>1, <2>1 DEF StoreTypes
  <2>7. /\ num_variables_' \in Int /\ num_productions_' \in Int
        /\ used' \in [Gens -> BOOLEAN] /\ alive' \in BOOLEAN
    BY <1>1, <2>5 DEF StoreTypes
  <2> QED  BY <2>3, <2>4, <2>6, <2>7 DEF StoreTypes
<1> QED  BY <1>2, SameHeapInv DEF AddVariable

\* The start variable is part of no invariant but its type.
LEMMA SetStartVariableInv ==
    ASSUME IInv, NEW v \in VarIds, SetStartVariable(v)
    PROVE  IInv'
<1>1. StoreTypes'
  BY DEF IInv, StoreTypes, SetStartVariable, countvars
<1> QED  BY <1>1, SameHeapInv DEF SetStartVariable

\* Assigning one handle to another moves a reference between two productions.
LEMMA CopyHandleInv ==
    ASSUME IInv, NEW d \in Handles, NEW e \in Handles, CopyHandle(d, e)
    PROVE  IInv' /\ Live(heap') = Live(heap)
<1>1. Held(heap, ptr) /\ StoreTypes /\ FirstLive(heap, first_production)
  BY DEF IInv
<1>2. d \in Holders /\ e \in Holders
  BY DEF Holders
<1>3. ptr[e] \in CellOrNull /\ (ptr[e] # NoCell => Count(ptr)[ptr[e]] > 0)
  BY <1>1, <1>2, HeldPointer
<1>4. /\ heap' = Assign(heap, ptr[d], ptr[e])
      /\ ptr' = [ptr EXCEPT ![d] = ptr[e]]
  BY DEF CopyHandle
<1>5. Held(heap', ptr') /\ Live(heap') = Live(heap)
  BY <1>1, <1>2, <1>3, <1>4, HeldAssign
<1>6. StoreTypes' /\ UNCHANGED first_production
  BY <1>1 DEF CopyHandle, StoreTypes, varvars, countvars
<1> QED  BY <1>1, <1>5, <1>6 DEF IInv, FirstLive

\* Letting go: the steps that only release what one holder points to.
LEMMA LetGoInv ==
    ASSUME IInv, StoreTypes', NEW x \in Holders,
           heap' = ReleaseIf(heap, ptr[x]),
           ptr' = [ptr EXCEPT ![x] = NoCell],
           UNCHANGED first_production
    PROVE  IInv' /\ Live(heap') = Live(heap)
<1>1. Held(heap, ptr) /\ FirstLive(heap, first_production)
  BY DEF IInv
<1>2. Held(heap', ptr') /\ Live(heap') = Live(heap)
  BY <1>1, HeldRelease
<1> QED  BY <1>1, <1>2 DEF IInv, FirstLive

\* A handle that goes out of scope gives its reference back.
LEMMA ClearHandleInv ==
    ASSUME IInv, NEW d \in Handles, ClearHandle(d)
    PROVE  IInv' /\ Live(heap') = Live(heap)
<1>1. StoreTypes' /\ UNCHANGED first_production
  BY DEF IInv, ClearHandle, StoreTypes, varvars, countvars
<1>2. heap' = ReleaseIf(heap, ptr[d]) /\ ptr' = [ptr EXCEPT ![d] = NoCell]
  BY DEF ClearHandle, ReleaseIf
<1> QED  BY <1>1, <1>2, LetGoInv DEF Holders

\* A generator that goes out of scope gives the reference of its cursor back.
LEMMA FreeGeneratorInv ==
    ASSUME IInv, NEW g \in Gens, FreeGenerator(g)
    PROVE  IInv' /\ Live(heap') = Live(heap)
<1>1. StoreTypes' /\ UNCHANGED first_production
  BY DEF IInv, FreeGenerator, StoreTypes, varvars, countvars
<1>2. heap' = ReleaseIf(heap, ptr[g]) /\ ptr' = [ptr EXCEPT ![g] = NoCell]
  BY DEF FreeGenerator
<1> QED  BY <1>1, <1>2, LetGoInv DEF Holders

\* The reset function leaves the cursor on an allocated production, or none.
LEMMA ResetHeld ==
    ASSUME IInv, NEW g \in Gens
    PROVE  /\ Held(ResetHeap(g), [ptr EXCEPT ![g] = ResetCursor(g)])
           /\ Live(ResetHeap(g)) = Live(heap)
<1> DEFINE h == ReleaseIf(heap, ptr[g])
           q == [ptr EXCEPT ![g] = NoCell]
           s == StartOf(h, g)
<1>1. Held(heap, ptr) /\ FirstLive(heap, first_production) /\ g \in Holders
  BY DEF IInv, Holders
<1>2. Held(h, q) /\ Live(h) = Live(heap)
  BY <1>1, HeldRelease
<1>3. q[g] = NoCell /\ [q EXCEPT ![g] = s] = [ptr EXCEPT ![g] = s]
  BY <1>1 DEF Held
<1>4. ResetHeap(g) = HoldIf(h, s) /\ ResetCursor(g) = s
  BY DEF ResetHeap, ResetCursor
<1> HIDE DEF h, q
<1>5. s \in h.alloc \cup {NoCell}
  <2>1. LinksOK(h)
    BY <1>2 DEF Held, Good
  <2>2. Bound[g] \in VarIds \cup {0}
    BY GensAssumption
  <2>3. CASE Bound[g] = 0
    BY <1>1, <1>2, <2>3 DEF StartOf, FirstLive, Live
  <2>4. CASE Bound[g] # 0
    BY <2>1, <2>2, <2>4 DEF StartOf, LinksOK, OfVar
  <2> QED  BY <2>3, <2>4
<1> HIDE DEF s
<1>6. Held(HoldIf(h, s), [q EXCEPT ![g] = s]) /\ Live(HoldIf(h, s)) = Live(h)
  BY <1>1, <1>2, <1>3, <1>5, HeldTake
<1> QED  BY <1>2, <1>3, <1>4, <1>6

\* A reset gives the cursor's reference back before it takes the new one.
LEMMA RewindInv ==
    ASSUME IInv, NEW g \in Gens, Rewind(g)
    PROVE  IInv' /\ Live(heap') = Live(heap)
<1>1. StoreTypes' /\ UNCHANGED first_production
  BY DEF IInv, Rewind, StoreTypes, varvars, countvars
<1>2. heap' = ResetHeap(g) /\ ptr' = [ptr EXCEPT ![g] = ResetCursor(g)]
  BY DEF Rewind
<1>3. Held(heap', ptr') /\ Live(heap') = Live(heap)
  BY <1>2, ResetHeld
<1> QED  BY <1>1, <1>3 DEF IInv, FirstLive

\* Where match_next() finds the generator, the first call's reset included.
LEMMA AskedHeld ==
    ASSUME IInv, NEW g \in Gens
    PROVE  /\ Held(HeapAt(g), [ptr EXCEPT ![g] = CursorOf(g)])
           /\ Live(HeapAt(g)) = Live(heap)
<1>1. CASE used[g]
  <2>1. ptr = [ptr EXCEPT ![g] = CursorOf(g)]
    BY <1>1 DEF CursorOf, IInv, Held
  <2> QED  BY <1>1, <2>1 DEF HeapAt, IInv
<1>2. CASE ~used[g]
  BY <1>2, ResetHeld DEF HeapAt, CursorOf
<1> QED  BY <1>1, <1>2

\* match_next() of a generator with nothing left.
LEMMA MatchEndHeld ==
    ASSUME IInv, NEW g \in Gens, MatchEnd(g)
    PROVE  Held(heap', ptr') /\ Live(heap') = Live(heap)
<1> DEFINE b  == Binder[g]
           p0 == [ptr EXCEPT ![g] = CursorOf(g)]
           h  == ReleaseIf(HeapAt(g), CursorOf(g))
           p1 == [ptr EXCEPT ![g] = NoCell]
<1>1. Held(HeapAt(g), p0) /\ Live(HeapAt(g)) = Live(heap)
  BY AskedHeld
<1>2. g \in Holders /\ ptr \in [Holders -> CellOrNull]
  BY DEF Holders, IInv, Held
<1>3. p0[g] = CursorOf(g) /\ [p0 EXCEPT ![g] = NoCell] = p1
  BY <1>2
<1> HIDE DEF p0
<1>4. Held(h, p1) /\ Live(h) = Live(heap)
  BY <1>1, <1>2, <1>3, HeldRelease
<1>5. CASE b = NoHandle
  BY <1>4, <1>5 DEF MatchEnd
<1>6. CASE b # NoHandle
  <2>1. b \in Handles /\ b \in Holders /\ b # g
    BY <1>6, GensAssumption DEF Holders
  <2>2. p1[b] = ptr[b]
    BY <1>2, <2>1
  <2>3. ptr' = [p1 EXCEPT ![b] = NoCell] /\ heap' = ReleaseIf(h, ptr[b])
    BY <1>6 DEF MatchEnd
  <2> HIDE DEF h, p1, b
  <2>4. /\ Held(ReleaseIf(h, p1[b]), [p1 EXCEPT ![b] = NoCell])
        /\ Live(ReleaseIf(h, p1[b])) = Live(h)
    BY <1>4, <2>1, HeldRelease
  <2> QED  BY <1>4, <2>2, <2>3, <2>4
<1> QED  BY <1>5, <1>6

\* The local handle takes the production found over from the cursor: while
\* match_next() runs, it is the one that stands for the generator.
LEMMA CurrentHeld ==
    ASSUME IInv, NEW g \in Gens, NEW curr \in Live(HeapAt(g)),
           curr = FindCurrent(HeapAt(g), CursorOf(g))
    PROVE  LET h == Release(Hold(HeapAt(g), curr), CursorOf(g))
           IN  Held(h, [ptr EXCEPT ![g] = curr]) /\ Live(h) = Live(heap)
<1> DEFINE p0 == [ptr EXCEPT ![g] = CursorOf(g)]
           H  == HeapAt(g)
<1>1. Held(H, p0) /\ Live(H) = Live(heap)
  BY AskedHeld
<1>2. g \in Holders /\ ptr \in [Holders -> CellOrNull]
  BY DEF Holders, IInv, Held
<1>3. p0[g] = CursorOf(g) /\ [p0 EXCEPT ![g] = curr] = [ptr EXCEPT ![g] = curr]
  BY <1>2
<1> HIDE DEF p0, H
<1>4. p0[g] \in CellOrNull /\ H.alloc \subseteq Cells
  BY <1>1, <1>2, HeldPointer DEF Held, Good, Heap
<1>5. curr \in Cells /\ curr # NoCell
  BY <1>4, NullsAssumption DEF Live, H
<1>6. CursorOf(g) # NoCell
  BY <1>5 DEF FindCurrent
<1>7. Hold(H, curr) = HoldIf(H, curr)
  BY <1>5 DEF HoldIf
<1>8. p0[g] \in Cells
  BY <1>3, <1>4, <1>6 DEF CellOrNull
<1>9. curr \in Live(H)
  BY DEF H
<1>10. /\ Held(Release(HoldIf(H, curr), p0[g]), [p0 EXCEPT ![g] = curr])
       /\ Live(Release(HoldIf(H, curr), p0[g])) = Live(H)
  BY <1>1, <1>2, <1>8, <1>9, HeldSwap
<1> QED  BY <1>1, <1>3, <1>7, <1>10 DEF H

\* match_next() when what is left does not match.
LEMMA MatchNoneHeld ==
    ASSUME IInv, NEW g \in Gens, MatchNone(g)
    PROVE  Held(heap', ptr') /\ Live(heap') = Live(heap)
<1>1. PICK curr \in Live(HeapAt(g)) :
        /\ curr = FindCurrent(HeapAt(g), CursorOf(g))
        /\ heap' = Release(Release(Hold(HeapAt(g), curr), CursorOf(g)), curr)
        /\ ptr' = [ptr EXCEPT ![g] = NoCell]
  BY DEF MatchNone
<1> DEFINE h == Release(Hold(HeapAt(g), curr), CursorOf(g))
           q == [ptr EXCEPT ![g] = curr]
<1>2. Held(h, q) /\ Live(h) = Live(heap)
  BY <1>1, CurrentHeld
<1>3. g \in Holders /\ ptr \in [Holders -> CellOrNull]
  BY DEF Holders, IInv, Held
<1>4. q[g] = curr /\ [q EXCEPT ![g] = NoCell] = [ptr EXCEPT ![g] = NoCell]
  BY <1>3
<1>5. heap' = Release(h, curr)
  BY <1>1
<1>6. curr # NoCell
  BY AskedHeld, NullsAssumption DEF Held, Good, Heap, Live
<1> HIDE DEF h, q
<1>7. ReleaseIf(h, q[g]) = Release(h, curr)
  BY <1>4, <1>6 DEF ReleaseIf
<1> QED  BY <1>1, <1>2, <1>3, <1>4, <1>5, <1>7, HeldRelease

\* The heap when match_next() has taken production c over from the cursor, and
\* when it has bound production m.
TakenAt(g, c) == Release(Hold(HeapAt(g), c), CursorOf(g))
BoundAt(g, c, m) ==
    LET h == Assign(TakenAt(g, c), c, m)
    IN  IF Binder[g] = NoHandle THEN h ELSE Assign(h, ptr[Binder[g]], m)
BoundPtr(g, m) == IF Binder[g] = NoHandle THEN ptr ELSE [ptr EXCEPT ![Binder[g]] = m]

LEMMA BoundHeld ==
    ASSUME IInv, NEW g \in Gens, NEW curr \in Live(HeapAt(g)),
           curr = FindCurrent(HeapAt(g), CursorOf(g)),
           NEW m \in Cells, m \in Live(TakenAt(g, curr))
    PROVE  /\ Live(TakenAt(g, curr)) = Live(heap)
           /\ Held(BoundAt(g, curr, m), [BoundPtr(g, m) EXCEPT ![g] = m])
           /\ Live(BoundAt(g, curr, m)) = Live(heap)
<1> DEFINE b == Binder[g]
           k1 == TakenAt(g, curr)
           k2 == Assign(k1, curr, m)
           k3 == BoundAt(g, curr, m)
           p  == BoundPtr(g, m)
           q1 == [ptr EXCEPT ![g] = curr]
           q2 == [ptr EXCEPT ![g] = m]
           q3 == [p EXCEPT ![g] = m]
<1>3. Held(k1, q1) /\ Live(k1) = Live(heap)
  BY CurrentHeld DEF TakenAt
<1>4. g \in Holders /\ ptr \in [Holders -> CellOrNull] /\ m \in CellOrNull
  BY DEF Holders, IInv, Held, CellOrNull
<1>5. Held(k2, q2) /\ Live(k2) = Live(heap)
  <2>1. q1[g] = curr /\ [q1 EXCEPT ![g] = m] = q2 /\ m \in Live(k1)
    BY <1>4
  <2>2. k2 = Assign(k1, curr, m)
    OBVIOUS
  <2> HIDE DEF k1, k2, q1, q2
  <2> QED  BY <1>3, <1>4, <2>1, <2>2, HeldAssign
<1>6. Held(k3, q3) /\ Live(k3) = Live(heap)
  <2>1. CASE b = NoHandle
    <3>1. k3 = k2 /\ q3 = q2
      BY <2>1 DEF BoundAt, BoundPtr
    <3> HIDE DEF k2, k3, q2, q3
    <3> QED  BY <1>5, <3>1
  <2>2. CASE b # NoHandle
    <3>1. b \in Handles /\ b \in Holders /\ b # g
      BY <2>2, GensAssumption DEF Holders
    <3>2. q2[b] = ptr[b] /\ [q2 EXCEPT ![b] = m] = q3
      BY <1>4, <2>2, <3>1 DEF BoundPtr
    <3>3. k3 = Assign(k2, ptr[b], m)
      BY <2>2 DEF BoundAt
    <3>4. m \in Live(k2)
      BY <1>3, <1>5
    <3> HIDE DEF k1, k2, k3, q2, q3
    <3> QED  BY <1>4, <1>5, <3>1, <3>2, <3>3, <3>4, HeldAssign
  <2> QED  BY <2>1, <2>2
<1> QED  BY <1>3, <1>6

\* What match_next() does when it binds production m.
LEMMA FoundParts ==
    ASSUME NEW g \in Gens, NEW m, MatchFound(g, m)
    PROVE  \E curr \in Live(HeapAt(g)) :
             /\ curr = FindCurrent(HeapAt(g), CursorOf(g))
             /\ m \in Live(TakenAt(g, curr))
             /\ m = Seek(TakenAt(g, curr), g, curr)
             /\ \E n \in Live(BoundAt(g, curr, m)) \cup {NoCell} :
                  /\ n = FindNext(BoundAt(g, curr, m), m)
                  /\ heap' = Release(HoldIf(BoundAt(g, curr, m), n), m)
                  /\ ptr' = [BoundPtr(g, m) EXCEPT ![g] = n]
BY Zenon DEF MatchFound, TakenAt, BoundAt, BoundPtr

LEMMA MatchFoundHeld ==
    ASSUME IInv, NEW g \in Gens, NEW m \in Cells, MatchFound(g, m)
    PROVE  Held(heap', ptr') /\ Live(heap') = Live(heap)
<1>1. PICK curr \in Live(HeapAt(g)) :
        /\ curr = FindCurrent(HeapAt(g), CursorOf(g))
        /\ m \in Live(TakenAt(g, curr))
        /\ \E n \in Live(BoundAt(g, curr, m)) \cup {NoCell} :
             /\ heap' = Release(HoldIf(BoundAt(g, curr, m), n), m)
             /\ ptr' = [BoundPtr(g, m) EXCEPT ![g] = n]
  BY FoundParts
<1> DEFINE k == BoundAt(g, curr, m)
           p == BoundPtr(g, m)
           q == [p EXCEPT ![g] = m]
<1>2. PICK n \in Live(k) \cup {NoCell} :
             /\ heap' = Release(HoldIf(k, n), m)
             /\ ptr' = [p EXCEPT ![g] = n]
  BY <1>1
<1>3. Held(k, q) /\ Live(k) = Live(heap)
  BY <1>1, BoundHeld
<1>4. g \in Holders /\ p \in [Holders -> CellOrNull]
  BY DEF Holders, IInv, Held, CellOrNull, BoundPtr
<1> HIDE DEF k, p
<1>5. q[g] = m /\ [q EXCEPT ![g] = n] = [p EXCEPT ![g] = n]
  BY <1>4
<1> HIDE DEF q
<1>6. /\ Held(Release(HoldIf(k, n), q[g]), [q EXCEPT ![g] = n])
      /\ Live(Release(HoldIf(k, n), q[g])) = Live(k)
  BY <1>3, <1>4, <1>5, HeldSwap
<1> QED  BY <1>2, <1>3, <1>5, <1>6

\* The three outcomes of match_next.
LEMMA MatchNextInv ==
    ASSUME IInv, NEW g \in Gens, MatchNext(g)
    PROVE  IInv' /\ Live(heap') = Live(heap)
<1>1. StoreTypes' /\ UNCHANGED first_production
  BY DEF IInv, MatchNext, Asked, StoreTypes, varvars, countvars
<1>2. Held(heap', ptr') /\ Live(heap') = Live(heap)
  BY MatchEndHeld, MatchNoneHeld, MatchFoundHeld DEF MatchNext
<1> QED  BY <1>1, <1>2 DEF IInv, FirstLive

\* A removed production loses the reference of the list, and the caller's handle
\* keeps it alive.
LEMMA RemoveProductionInv ==
    ASSUME IInv, NEW d \in Handles, RemoveProduction(d)
    PROVE  IInv' /\ Live(heap') = Live(heap) \ {ptr[d]}
<1> DEFINE c == ptr[d]
           h == [heap EXCEPT !.del[c] = TRUE]
           n == Count(ptr)
<1>1. /\ Held(heap, ptr) /\ Good(heap, n) /\ n \in [Cells -> Nat]
      /\ heap \in Heap /\ c \in Live(heap) /\ c \in Cells /\ c # NoCell
      /\ FirstLive(heap, first_production) /\ StoreTypes
  BY CountType, NullsAssumption DEF IInv, Held, Good, RemoveProduction, Live, Heap
<1>2. /\ heap' = Release(h, c) /\ ptr' = ptr
      /\ IF first_production = c
         THEN SetNextProduction(h, heap.var[c]) ELSE UNCHANGED first_production
      /\ Counted(heap.var[c], -1)
      /\ UNCHANGED <<varvars, used, alive>>
  BY DEF RemoveProduction
<1> HIDE DEF h, c, n
<1>3. /\ Good(h, Inc(n, c)) /\ Inc(n, c) \in [Cells -> Nat]
      /\ Live(h) = Live(heap) \ {c}
  BY <1>1, DeleteGood DEF h
<1>4. Inc(n, c)[c] > 0
  BY <1>1 DEF Inc
<1>5. /\ Good(heap', Dec(Inc(n, c), c)) /\ Live(heap') = Live(h)
  BY <1>1, <1>2, <1>3, <1>4, ReleaseGood
<1>6. Dec(Inc(n, c), c) = n
  BY <1>1, IncDec DEF CellOrNull
<1>7. Held(heap', ptr')
  BY <1>1, <1>2, <1>5, <1>6 DEF Held, n
<1>8. FirstLive(heap', first_production')
  BY <1>1, <1>2, <1>3, <1>5 DEF FirstLive, SetNextProduction, LiveFrom
<1>9. StoreTypes'
  <2>1. heap.var[c] \in VarIds
    BY <1>1 DEF Heap, Live
  <2> QED  BY <1>1, <1>2, <2>1 DEF StoreTypes, Counted, varvars
<1>10. Live(heap') = Live(heap) \ {ptr[d]}
  BY <1>3, <1>5 DEF c
<1> QED  BY <1>7, <1>8, <1>9, <1>10 DEF IInv

\* The end of add_production, for a list that already has the production.
LEMMA AddedHeld ==
    ASSUME IInv, NEW k, Good(k, Count(ptr)), NEW c \in Live(k),
           Live(heap) \subseteq Live(k), NEW v, NEW d \in Handles \cup {NoHandle},
           Added(k, c, v, d)
    PROVE  /\ Held(heap', ptr') /\ FirstLive(heap', first_production')
           /\ Live(heap') = Live(k)
<1> DEFINE n == Count(ptr)
<1>1. /\ ptr \in [Holders -> CellOrNull] /\ n \in [Cells -> Nat]
      /\ c \in k.alloc /\ c \in Cells /\ c # NoCell
      /\ FirstLive(heap, first_production)
  BY CountType, NullsAssumption DEF IInv, Held, Good, Live, Heap
<1>2. FirstLive(k, first_production')
  BY <1>1 DEF Added, FirstLive
<1>3. CASE d = NoHandle
  BY <1>1, <1>2, <1>3 DEF Added, Held
<1>4. CASE d # NoHandle
  <2> DEFINE old == ptr[d]
             n1 == Inc(n, c)
             k1 == Hold(k, c)
             n2 == Inc(Dec(n1, old), c)
             k2 == Assign(k1, old, c)
             m  == Inc(Dec(n, old), c)
  <2>1. d \in Holders /\ old \in CellOrNull /\ (old # NoCell => n[old] > 0)
    BY <1>1, <1>4, HeldPointer DEF Holders, IInv
  <2>2. heap' = Release(k2, c) /\ ptr' = [ptr EXCEPT ![d] = c]
    BY <1>4 DEF Added
  <2>3. Count([ptr EXCEPT ![d] = c]) = m /\ m \in [Cells -> Nat]
    <3>1. c \in CellOrNull
      BY <1>1 DEF CellOrNull
    <3>2. Count([ptr EXCEPT ![d] = c]) = m
      BY <1>1, <2>1, <3>1, CountMove
    <3> HIDE DEF m
    <3>3. Count([ptr EXCEPT ![d] = c]) \in [Cells -> Nat]
      BY CountType
    <3> QED  BY <3>2, <3>3
  <2>4. Good(k, n)
    OBVIOUS
  <2> HIDE DEF n, old
  <2>5. n1 \in [Cells -> Nat] /\ Dec(n1, old) = m /\ Dec(n2, c) = m
    <3>1. n1 \in [Cells -> Nat] /\ Dec(n1, old) = m
      BY <1>1, <2>1, IncDec DEF CellOrNull
    <3>2. Dec(Inc(m, c), c) = m
      BY <1>1, <2>3, IncDec DEF CellOrNull
    <3> QED  BY <3>1, <3>2
  <2>6. Good(k1, n1) /\ Live(k1) = Live(k)
    BY <1>1, <2>4, HoldGood
  <2>7. old # NoCell => n1[old] > 0
    BY <1>1, <2>1 DEF Inc, CellOrNull
  <2> HIDE DEF n1, k1
  <2>8. Good(k2, n2) /\ n2 \in [Cells -> Nat] /\ Live(k2) = Live(k1)
    BY <1>1, <2>1, <2>5, <2>6, <2>7, AssignGood DEF CellOrNull
  <2>9. n2[c] > 0
    <3>1. n2 = Inc(m, c)
      BY <2>5
    <3> HIDE DEF m, n2
    <3> QED  BY <1>1, <2>3, <3>1 DEF Inc
  <2> HIDE DEF k2, n2, m
  <2>10. Good(heap', m) /\ Live(heap') = Live(k)
    BY <1>1, <2>2, <2>5, <2>6, <2>8, <2>9, ReleaseGood
  <2>11. ptr' \in [Holders -> CellOrNull] /\ Count(ptr') = m
    BY <1>1, <2>1, <2>2, <2>3 DEF CellOrNull
  <2> QED  BY <1>2, <2>10, <2>11 DEF Held, FirstLive
<1> QED  BY <1>3, <1>4

\* add_production of a new right hand side, at each place of the list.
LEMMA AddNewHeld ==
    ASSUME IInv, NEW v \in VarIds, NEW s \in Strings,
           NEW d \in Handles \cup {NoHandle}, AddNew(v, s, d)
    PROVE  Held(heap', ptr') /\ FirstLive(heap', first_production')
<1>1. /\ Good(heap, Count(ptr)) /\ Count(ptr) \in [Cells -> Nat]
      /\ LinksOK(heap) /\ heap \in Heap /\ v # 0
  BY CountType, SetsAssumption DEF IInv, Held, Good, VarIds
<1>2. ASSUME NEW c \in Cells \ heap.alloc, NEW p \in CellOrNull, NEW q \in CellOrNull,
             p = NoCell => heap.first[v] = q,
             p # NoCell => p \in OfVar(heap, v) /\ heap.next[p] = q,
             q # NoCell => q \in OfVar(heap, v) /\ heap.prev[q] = p,
             Added(Insert(heap, c, v, s, p, q), c, v, d)
      PROVE  Held(heap', ptr') /\ FirstLive(heap', first_production')
  <2> DEFINE k == Insert(heap, c, v, s, p, q)
  <2>1. Good(k, Count(ptr)) /\ Live(k) = Live(heap) \cup {c}
    BY <1>1, <1>2, InsertGood
  <2>2. Added(k, c, v, d)
    BY <1>2
  <2> HIDE DEF k
  <2> QED  BY <2>1, <2>2, AddedHeld
<1>3. PICK c \in Cells \ heap.alloc :
        \/ /\ heap.first[v] = NoCell
           /\ Added(Insert(heap, c, v, s, NoCell, NoCell), c, v, d)
        \/ /\ Spot(heap, v, s) \in OfVar(heap, v)
           /\ LET q == Spot(heap, v, s)
              IN  Added(Insert(heap, c, v, s, heap.prev[q], q), c, v, d)
        \/ \E p \in OfVar(heap, v) :
             /\ heap.next[p] = NoCell
             /\ Added(Insert(heap, c, v, s, p, NoCell), c, v, d)
  BY DEF AddNew
<1>4. CASE /\ heap.first[v] = NoCell
           /\ Added(Insert(heap, c, v, s, NoCell, NoCell), c, v, d)
  BY <1>2, <1>4 DEF CellOrNull
<1>5. CASE /\ Spot(heap, v, s) \in OfVar(heap, v)
           /\ LET q == Spot(heap, v, s)
              IN  Added(Insert(heap, c, v, s, heap.prev[q], q), c, v, d)
  <2> DEFINE q == Spot(heap, v, s)
             p == heap.prev[q]
  <2>1. q \in heap.alloc /\ heap.var[q] = v /\ q \in CellOrNull
    BY <1>1, <1>5 DEF OfVar, Heap, CellOrNull
  <2>2. \/ p = NoCell /\ heap.first[v] = q
        \/ p \in OfVar(heap, v) /\ heap.next[p] = q
    BY <1>1, <2>1 DEF LinksOK
  <2>3. p \in CellOrNull /\ (\A x \in OfVar(heap, v) : x # NoCell)
    BY <1>1, <2>2, NullsAssumption DEF OfVar, Heap, CellOrNull
  <2>4. Added(Insert(heap, c, v, s, p, q), c, v, d) /\ q \in OfVar(heap, v)
    BY <1>5
  <2> HIDE DEF q
  <2> QED  BY <1>2, <2>1, <2>2, <2>3, <2>4
<1>6. CASE \E p \in OfVar(heap, v) :
             /\ heap.next[p] = NoCell
             /\ Added(Insert(heap, c, v, s, p, NoCell), c, v, d)
  <2>1. PICK p \in OfVar(heap, v) :
             /\ heap.next[p] = NoCell
             /\ Added(Insert(heap, c, v, s, p, NoCell), c, v, d)
    BY <1>6
  <2>2. p \in CellOrNull /\ p # NoCell
    BY <1>1, NullsAssumption DEF OfVar, Heap, CellOrNull
  <2> QED  BY <1>2, <2>1, <2>2 DEF CellOrNull
<1> QED  BY <1>3, <1>4, <1>5, <1>6

\* A duplicate: the new production goes, and the old one is held, or revived.
LEMMA AddDuplicateHeld ==
    ASSUME IInv, NEW v \in VarIds, NEW s \in Strings,
           NEW d \in Handles \cup {NoHandle}, AddDuplicate(v, s, d)
    PROVE  /\ Held(heap', ptr') /\ FirstLive(heap', first_production')
           /\ Live(heap') = Live(heap) \cup {Spot(heap, v, s)}
<1>1. /\ Good(heap, Count(ptr)) /\ Count(ptr) \in [Cells -> Nat] /\ v # 0
  BY CountType, SetsAssumption DEF IInv, Held, VarIds
<1>2. PICK c \in OfVar(heap, v) :
     /\ c = Spot(heap, v, s)
     /\ \/ /\ heap.del[c]
           /\ Added(Hold([heap EXCEPT !.del[c] = FALSE], c), c, v, d)
        \/ ~heap.del[c] /\ Added(heap, c, v, d)
  BY DEF AddDuplicate
<1>3. c \in heap.alloc /\ heap.var[c] # 0
  BY <1>1 DEF OfVar
<1>4. CASE /\ heap.del[c]
           /\ Added(Hold([heap EXCEPT !.del[c] = FALSE], c), c, v, d)
  <2> DEFINE k == Hold([heap EXCEPT !.del[c] = FALSE], c)
  <2>1. Good(k, Count(ptr)) /\ Live(k) = Live(heap) \cup {c}
    BY <1>1, <1>3, <1>4, UndeleteGood
  <2>2. Added(k, c, v, d)
    BY <1>4
  <2> HIDE DEF k
  <2> QED  BY <1>2, <2>1, <2>2, AddedHeld
<1>5. CASE ~heap.del[c] /\ Added(heap, c, v, d)
  <2>1. c \in Live(heap)
    BY <1>3, <1>5 DEF Live
  <2> QED  BY <1>1, <1>2, <1>5, <2>1, AddedHeld
<1> QED  BY <1>2, <1>4, <1>5

\* A new production or a duplicate.
LEMMA AddProductionInv ==
    ASSUME IInv, NEW v \in VarIds, NEW s \in Strings,
           NEW d \in Handles \cup {NoHandle}, AddProduction(v, s, d)
    PROVE  IInv'
<1>1. Held(heap', ptr') /\ FirstLive(heap', first_production')
  BY AddNewHeld, AddDuplicateHeld DEF AddProduction
<1>2. \E n \in {0, 1} : Counted(v, n)
  BY DEF AddProduction, AddNew, AddDuplicate
<1>3. StoreTypes'
  BY <1>2 DEF IInv, StoreTypes, AddProduction, Counted, varvars
<1> QED  BY <1>1, <1>3 DEF IInv

\* The productions of a removed variable become orphans that only holders keep.
LEMMA UnsafeRemoveVariableInv ==
    ASSUME IInv, NEW v \in VarIds, UnsafeRemoveVariable(v)
    PROVE  IInv' /\ \A c : c \in Live(heap') <=> c \in Live(heap) /\ heap.var[c] # v
<1> DEFINE k == Orphan(heap, {v}, v, TRUE)
<1>1. /\ Held(heap, ptr) /\ Good(heap, Count(ptr)) /\ Count(ptr) \in [Cells -> Nat]
      /\ FirstLive(heap, first_production) /\ StoreTypes
  BY CountType DEF IInv, Held
<1>2. /\ Good(k, Count(ptr))
      /\ \A c : c \in Live(k) <=> c \in Live(heap) /\ heap.var[c] \notin {v}
  <2>1. {v} \in SUBSET VarIds /\ v \in VarIds \cup {NoCell} /\ TRUE \in BOOLEAN
    OBVIOUS
  <2> QED  BY <1>1, <2>1, OrphanGood
<1>3. heap' = k /\ ptr' = ptr
  BY DEF UnsafeRemoveVariable
<1> HIDE DEF k
<1>4. Held(heap', ptr')
  BY <1>1, <1>2, <1>3 DEF Held
<1>5. FirstLive(heap', first_production')
  <2>1. CASE first_production # NoCell /\ heap.var[first_production] = v
    <3>1. PICK c \in LiveFrom(heap, v + 1) \cup {NoCell} : first_production' = c
      BY <2>1 DEF UnsafeRemoveVariable, SetNextProduction
    <3>2. c # NoCell => heap.var[c] # v
      BY SetsAssumption DEF LiveFrom, VarIds
    <3> QED  BY <1>2, <1>3, <3>1, <3>2 DEF FirstLive, LiveFrom
  <2>2. CASE ~(first_production # NoCell /\ heap.var[first_production] = v)
    BY <1>1, <1>2, <1>3, <2>2 DEF UnsafeRemoveVariable, FirstLive
  <2> QED  BY <2>1, <2>2
<1>6. StoreTypes'
  <2>1. Cardinality(OfVar(heap, v) \cap Live(heap)) \in Nat
    <3>1. OfVar(heap, v) \cap Live(heap) \in SUBSET Cells
      BY <1>1 DEF Good, Heap, Live
    <3> QED  BY <3>1, SetsAssumption, FS_Subset, FS_CardinalityType
  <2>2. /\ var_next' \in [VarIds -> VarIds \cup {0}]
        /\ var_prev' \in [VarIds -> VarIds \cup {0}]
    BY <1>1 DEF StoreTypes, UnsafeRemoveVariable
  <2>3. num_productions_' \in Int /\ num_variables_' \in Int
    BY <1>1, <2>1 DEF StoreTypes, UnsafeRemoveVariable
  <2>4. /\ variable_map' \in SUBSET VarIds /\ unused_variables' \in VarIds \cup {0}
        /\ var_count' \in [VarIds -> Int]
    BY <1>1 DEF StoreTypes, UnsafeRemoveVariable
  <2>5. UNCHANGED <<next_variable_id, start_variable, used, alive>>
    BY DEF UnsafeRemoveVariable
  <2> QED  BY <1>1, <2>2, <2>3, <2>4, <2>5 DEF StoreTypes
<1> QED  BY <1>2, <1>3, <1>4, <1>5, <1>6 DEF IInv

\* The end of the grammar orphans every production.
LEMMA DestroyInv ==
    ASSUME IInv, Destroy
    PROVE  IInv' /\ Live(heap') = {}
<1> DEFINE k == Orphan(heap, VarIds, NoCell, FALSE)
<1>1. /\ Held(heap, ptr) /\ Good(heap, Count(ptr)) /\ Count(ptr) \in [Cells -> Nat]
      /\ StoreTypes
  BY CountType DEF IInv, Held
<1>2. Good(k, Count(ptr)) /\ \A c : c \in Live(k) <=> c \in Live(heap) /\ heap.var[c] \notin VarIds
  BY <1>1, OrphanGood
<1>3. heap' = k /\ ptr' = ptr /\ first_production' = NoCell
  BY DEF Destroy
<1> HIDE DEF k
<1>4. Held(heap', ptr') /\ FirstLive(heap', first_production')
  BY <1>1, <1>2, <1>3 DEF Held, FirstLive
<1>5. StoreTypes'
  <2>1. /\ variable_map' \in SUBSET VarIds /\ unused_variables' \in VarIds \cup {0}
        /\ var_count' \in [VarIds -> Int] /\ num_productions_' \in Int
    BY DEF Destroy
  <2>2. /\ UNCHANGED <<next_variable_id, var_next, var_prev, num_variables_,
                       start_variable, used>>
        /\ alive' = FALSE
    BY DEF Destroy
  <2> QED  BY <1>1, <2>1, <2>2 DEF StoreTypes
<1>6. Live(heap') = {}
  <2>1. \A c \in Live(heap) : heap.var[c] \in VarIds
    BY <1>1 DEF Good, Heap, Live
  <2> QED  BY <1>2, <1>3, <2>1
<1> QED  BY <1>4, <1>5, <1>6 DEF IInv

\* Every step preserves the invariant.
LEMMA NextInv == IInv /\ [Next]_vars => IInv'
<1> SUFFICES ASSUME IInv, [Next]_vars PROVE IInv'
  OBVIOUS
<1>1. CASE UNCHANGED vars
  <2>1. StoreTypes'
    BY <1>1 DEF IInv, StoreTypes, vars, varvars, countvars
  <2> QED  BY <1>1, <2>1, SameHeapInv DEF vars
<1>2. CASE AddVariable
  BY <1>2, AddVariableInv
<1>3. ASSUME NEW v \in VarIds, SetStartVariable(v) PROVE IInv'
  BY <1>3, SetStartVariableInv
<1>4. ASSUME NEW v \in VarIds, UnsafeRemoveVariable(v) PROVE IInv'
  BY <1>4, UnsafeRemoveVariableInv
<1>5. ASSUME NEW v \in VarIds, NEW s \in Strings,
             NEW d \in Handles \cup {NoHandle}, AddProduction(v, s, d)
      PROVE  IInv'
  BY <1>5, AddProductionInv
<1>6. ASSUME NEW d \in Handles, RemoveProduction(d) PROVE IInv'
  BY <1>6, RemoveProductionInv
<1>7. ASSUME NEW d \in Handles, NEW e \in Handles, CopyHandle(d, e) PROVE IInv'
  BY <1>7, CopyHandleInv
<1>8. ASSUME NEW d \in Handles, ClearHandle(d) PROVE IInv'
  BY <1>8, ClearHandleInv
<1>9. ASSUME NEW g \in Gens, Rewind(g) \/ MatchNext(g) \/ FreeGenerator(g)
      PROVE  IInv'
  BY <1>9, RewindInv, MatchNextInv, FreeGeneratorInv
<1>10. CASE Destroy
  BY <1>10, DestroyInv
<1> QED  BY <1>1, <1>2, <1>3, <1>4, <1>5, <1>6, <1>7, <1>8, <1>9, <1>10 DEF Next

-----------------------------------------------------------------------------
(* The theorems.                                                            *)

\* The invariant holds in every reachable state of the store.
THEOREM Invariance == Spec => []IInv
<1>1. Init => IInv
  BY InitInv
<1>2. IInv /\ [Next]_vars => IInv'
  BY NextInv
<1> QED  BY <1>1, <1>2, PTL DEF Spec

\* Every variable of the store always has its type: no count goes below zero
\* and no pointer is anything but null or a slot of the pool.
THEOREM TypeCorrect == Spec => []TypeOK
<1>1. IInv => TypeOK
  <2> SUFFICES ASSUME IInv PROVE TypeOK
    OBVIOUS
  <2>1. heap \in Heap /\ ptr \in [Holders -> CellOrNull] /\ StoreTypes
    BY DEF IInv, Held, Good
  <2>2. first_production \in CellOrNull
    BY <2>1 DEF IInv, FirstLive, Live, Heap, CellOrNull
  <2> QED  BY <2>1, <2>2 DEF TypeOK, StoreTypes
<1> QED  BY <1>1, Invariance, PTL

\* The reference count of a production is exactly the number of the handles
\* and generators on it, plus one while it is live: no production is freed
\* under a holder, none is leaked, and no release() trips an assertion.
THEOREM CountsExact == Spec => []RefExact
<1>1. IInv => RefExact
  <2> SUFFICES ASSUME IInv PROVE RefExact
    OBVIOUS
  <2>1. Held(heap, ptr) /\ Exact(heap, Count(ptr)) /\ heap \in Heap
    BY DEF IInv, Held, Good
  <2>2. \A c \in heap.alloc : c \in Cells
    BY <2>1 DEF Heap
  <2>3. \A c \in Cells : Count(ptr)[c] = Cardinality(HoldersOf(c))
    BY DEF Count, HoldersOf
  <2>4. \A x \in Holders : ptr[x] \in heap.alloc \cup {NoCell}
    BY <2>1, HeldPointer
  <2> QED  BY <2>1, <2>2, <2>3, <2>4 DEF RefExact, Exact
<1> QED  BY <1>1, Invariance, PTL

\* The lists of productions are always closed and doubly linked, through every
\* removal, revival, orphaning and release.
THEOREM ListsLinked == Spec => []Linked
<1>1. IInv => Linked
  BY DEF IInv, Held, Good, Linked
<1> QED  BY <1>1, Invariance, PTL

-----------------------------------------------------------------------------
(* What each operation on the heap leaves alone.  It leaves the right hand    *)
(* side of what stays allocated, and its variable too but for orphaning;      *)
(* nothing is allocated after something was freed in the same step, so what   *)
(* is allocated before and after a step was so all the time; and by the exact *)
(* counts what is held is allocated: a production does not change under a     *)
(* holder.                                                                   *)

\* A heap but for the sign of its counts, which a step of an operation may
\* change before it is clear that they are exact.
LooseHeap == [alloc : SUBSET Cells,
              ref   : [Cells -> Int],
              del   : [Cells -> BOOLEAN],
              var   : [Cells -> VarIds \cup {0}],
              rhs   : [Cells -> Strings],
              prev  : [Cells -> CellOrNull \cup VarIds],
              next  : [Cells -> CellOrNull],
              first : [VarIds -> CellOrNull]]

-----------------------------------------------------------------------------
(* Tidy lists, apart from who holds what.  A slot that is in no list has no   *)
(* variable; the lists are linked both ways; they have no cycle; they are in  *)
(* the order of the hash, without duplicates.  Every operation on the heap    *)
(* keeps them so, whatever the counts.                                       *)

Threads(h) ==
    /\ \A c \in Cells \ h.alloc : h.var[c] = 0
    /\ \A c \in Cells : h.next[c] # NoCell =>
         /\ h.var[c] # 0
         /\ h.var[h.next[c]] = h.var[c]
         /\ h.prev[h.next[c]] = c
    /\ \A c \in Cells : h.var[c] # 0 =>
         \/ h.prev[c] = NoCell /\ h.first[h.var[c]] = c
         \/ /\ h.prev[c] \in Cells
            /\ h.var[h.prev[c]] = h.var[c]
            /\ h.next[h.prev[c]] = c
    /\ \A v \in VarIds : h.first[v] # NoCell =>
         h.var[h.first[v]] = v /\ h.prev[h.first[v]] = NoCell

\* The places pos, none after top, grow along every list.
Rises(h, pos, top) ==
    /\ \A c \in Cells : pos[c] <= top
    /\ \A c \in Cells : h.next[c] # NoCell => pos[c] < pos[h.next[c]]

Rising(h) == \E pos \in [Cells -> Nat], top \in Nat : Rises(h, pos, top)

InOrder(h) ==
    \A c \in Cells : h.next[c] # NoCell => Key[h.rhs[c]] <= Key[h.rhs[h.next[c]]]

NoDuplicates(h) ==
    \A c, e \in Cells : h.var[c] # 0 /\ h.var[c] = h.var[e] /\ h.rhs[c] = h.rhs[e] => c = e

Tidy(h) == Threads(h) /\ Rising(h) /\ InOrder(h) /\ NoDuplicates(h)

\* The lists of k are no less tidy than those of h, and in the same order.
Tidier(h, k) ==
    Tidy(h) => /\ Tidy(k)
               /\ \A pos \in [Cells -> Nat], top \in Nat : Rises(h, pos, top) => Rises(k, pos, top)

\* Tidiness depends on the links, the variables and the right hand sides only.
LEMMA SameListsTidy ==
    ASSUME NEW h, NEW k, k.alloc = h.alloc, k.var = h.var, k.rhs = h.rhs, k.prev = h.prev,
           k.next = h.next, k.first = h.first
    PROVE  Tidier(h, k)
<1> SUFFICES ASSUME Tidy(h)
             PROVE  /\ Tidy(k)
                    /\ \A pos \in [Cells -> Nat], top \in Nat :
                          Rises(h, pos, top) => Rises(k, pos, top)
  BY DEF Tidier
<1>1. Threads(k)
  BY DEF Tidy, Threads
<1>2. Rising(k)
  BY DEF Tidy, Rising, Rises
<1>3. InOrder(k) /\ NoDuplicates(k)
  BY DEF Tidy, InOrder, NoDuplicates
<1>4. \A pos \in [Cells -> Nat], top \in Nat : Rises(h, pos, top) => Rises(k, pos, top)
  BY DEF Rises
<1> QED  BY <1>1, <1>2, <1>3, <1>4 DEF Tidy

\* Taking a production out of its list.
LEMMA FreeTidy ==
    ASSUME NEW h \in LooseHeap, NEW c \in Cells
    PROVE  Tidier(h, Free(h, c))
<1> SUFFICES ASSUME Tidy(h)
             PROVE  /\ Tidy(Free(h, c))
                    /\ \A pos \in [Cells -> Nat], top \in Nat :
                          Rises(h, pos, top) => Rises(Free(h, c), pos, top)
  BY DEF Tidier
<1> DEFINE k == Free(h, c)
           p == h.prev[c]
           q == h.next[c]
           v == h.var[c]
<1>1. /\ k.alloc = h.alloc \ {c}
      /\ k.var = [h.var EXCEPT ![c] = 0]
      /\ k.rhs = [h.rhs EXCEPT ![c] = Epsilon]
      /\ k.prev = [x \in Cells |->
                     CASE x = c                     -> NoCell
                       [] x # c /\ x = q /\ h.var[x] # 0 -> p
                       [] OTHER                     -> h.prev[x]]
      /\ k.next = [x \in Cells |->
                     CASE x = c                     -> NoCell
                       [] x # c /\ x = p /\ v # 0   -> q
                       [] OTHER                     -> h.next[x]]
      /\ k.first = [w \in VarIds |->
                     IF w = v /\ p = NoCell THEN q ELSE h.first[w]]
  BY DEF Free
<1>2. /\ Threads(h) /\ InOrder(h) /\ NoDuplicates(h) /\ Rising(h)
      /\ NoCell \notin Cells /\ 0 \notin VarIds /\ NoCell \notin VarIds
  BY NullsAssumption DEF Tidy, VarIds, CellOrNull
<1>3. /\ h.alloc \subseteq Cells
      /\ h.var \in [Cells -> VarIds \cup {0}] /\ h.rhs \in [Cells -> Strings]
      /\ h.next \in [Cells -> Cells \cup {NoCell}] /\ h.first \in [VarIds -> Cells \cup {NoCell}]
      /\ h.prev \in [Cells -> Cells \cup {NoCell} \cup VarIds]
  BY DEF LooseHeap, CellOrNull
<1> HIDE DEF k
<1>20. \A x \in Cells \ {c} : x # q => k.prev[x] = h.prev[x]
  BY <1>1
<1>21. q \in Cells /\ q # c /\ h.var[q] # 0 => k.prev[q] = p
  BY <1>1
<1>22. \A w \in VarIds : k.first[w] = IF w = v /\ p = NoCell THEN q ELSE h.first[w]
  BY <1>1
<1>4. \A x \in Cells \ {c} : k.var[x] = h.var[x] /\ k.rhs[x] = h.rhs[x]
  BY <1>1, <1>3
<1>5. k.var[c] = 0 /\ k.next[c] = NoCell /\ k.prev[c] = NoCell
  BY <1>1, <1>3
\* Nothing leads to c any more.
<1>6. ASSUME NEW x \in Cells, k.next[x] # NoCell
      PROVE  /\ x # c /\ k.next[x] \in Cells \ {c}
             /\ h.next[x] = k.next[x] \/ (x = p /\ h.next[x] = c /\ k.next[x] = q /\ v # 0)
  <2>1. x # c
    BY <1>5, <1>6
  <2>2. CASE x = p /\ v # 0
    <3>1. k.next[x] = q /\ q \in Cells
      BY <1>1, <1>3, <1>6, <2>1, <2>2
    <3>2. h.next[x] = c
      BY <1>2, <2>2 DEF Threads
    <3>3. q # c
      <4> SUFFICES ASSUME q = c PROVE FALSE
        OBVIOUS
      <4>1. h.prev[c] = c /\ p = c
        BY <1>2, <3>1 DEF Threads
      <4> QED  BY <2>1, <2>2, <4>1
    <3> QED  BY <2>1, <2>2, <3>1, <3>2, <3>3
  <2>3. CASE ~(x = p /\ v # 0)
    <3>1. k.next[x] = h.next[x] /\ h.next[x] \in Cells
      BY <1>1, <1>3, <1>6, <2>1, <2>3
    <3>2. h.next[x] # c
      BY <1>2, <1>6, <2>3, <3>1 DEF Threads
    <3> QED  BY <2>1, <3>1, <3>2
  <2> QED  BY <2>2, <2>3
<1>7. ASSUME NEW pos \in [Cells -> Nat], NEW top \in Nat, Rises(h, pos, top)
      PROVE  Rises(k, pos, top)
  <2>1. Rises(h, pos, top)
    BY <1>7
  <2>2. ASSUME NEW x \in Cells, k.next[x] # NoCell PROVE pos[x] < pos[k.next[x]]
    <3>1. CASE h.next[x] = k.next[x]
      BY <2>1, <2>2, <3>1 DEF Rises
    <3>2. CASE x = p /\ h.next[x] = c /\ k.next[x] = q
      <4>1. pos[x] < pos[c] /\ pos[c] < pos[q]
        BY <1>2, <2>1, <2>2, <3>2 DEF Rises
      <4>2. q \in Cells
        BY <1>3, <2>2, <3>2
      <4> QED  BY <3>2, <4>1, <4>2
    <3> QED  BY <1>6, <2>2, <3>1, <3>2
  <2> QED  BY <2>1, <2>2 DEF Rises
<1>12. Rising(k)
  BY <1>2, <1>7 DEF Rising
<1>8. InOrder(k)
  <2>1. ASSUME NEW x \in Cells, k.next[x] # NoCell
        PROVE  Key[k.rhs[x]] <= Key[k.rhs[k.next[x]]]
    <3>1. k.rhs[x] = h.rhs[x] /\ k.rhs[k.next[x]] = h.rhs[k.next[x]]
      BY <1>4, <1>6, <2>1
    <3>2. CASE h.next[x] = k.next[x]
      BY <1>2, <2>1, <3>1, <3>2 DEF InOrder
    <3>3. CASE x = p /\ h.next[x] = c /\ k.next[x] = q
      <4>1. Key[h.rhs[x]] <= Key[h.rhs[c]] /\ Key[h.rhs[c]] <= Key[h.rhs[q]]
        BY <1>2, <2>1, <3>3 DEF InOrder
      <4>2. Key[h.rhs[x]] \in Int /\ Key[h.rhs[c]] \in Int /\ Key[h.rhs[q]] \in Int
        BY <1>3, <2>1, <3>3, KeyAssumption
      <4> QED  BY <3>1, <3>3, <4>1, <4>2
    <3> QED  BY <1>6, <2>1, <3>2, <3>3
  <2> QED  BY <2>1 DEF InOrder
<1>9. NoDuplicates(k)
  BY <1>2, <1>4, <1>5 DEF NoDuplicates
<1>10. Threads(k)
  <2>1. \A x \in Cells \ k.alloc : k.var[x] = 0
    BY <1>1, <1>2, <1>4, <1>5 DEF Threads
  <2>2. ASSUME NEW x \in Cells, k.next[x] # NoCell
        PROVE  k.var[x] # 0 /\ k.var[k.next[x]] = k.var[x] /\ k.prev[k.next[x]] = x
    <3>1. k.var[x] = h.var[x] /\ k.var[k.next[x]] = h.var[k.next[x]]
      BY <1>4, <1>6, <2>2
    <3>2. CASE h.next[x] = k.next[x] /\ k.next[x] # q
      <4>1. h.var[x] # 0 /\ h.var[h.next[x]] = h.var[x] /\ h.prev[h.next[x]] = x
        BY <1>2, <2>2, <3>2 DEF Threads
      <4>2. k.prev[k.next[x]] = h.prev[k.next[x]]
        BY <1>6, <1>20, <2>2, <3>2
      <4> QED  BY <3>1, <3>2, <4>1, <4>2
    <3>3. CASE h.next[x] = k.next[x] /\ k.next[x] = q
      <4>1. h.prev[q] = x /\ h.prev[q] = c
        BY <1>2, <2>2, <3>3 DEF Threads
      <4> QED  BY <1>6, <2>2, <4>1
    <3>4. CASE x = p /\ h.next[x] = c /\ k.next[x] = q /\ v # 0
      <4>1. h.var[x] = v /\ h.var[q] = v
        BY <1>2, <2>2, <3>4 DEF Threads
      <4>2. k.prev[q] = p
        BY <1>1, <1>6, <2>2, <3>4, <4>1
      <4> QED  BY <3>1, <3>4, <4>1, <4>2
    <3> QED  BY <1>6, <2>2, <3>2, <3>3, <3>4
  <2>3. ASSUME NEW x \in Cells, k.var[x] # 0
        PROVE  \/ k.prev[x] = NoCell /\ k.first[k.var[x]] = x
               \/ /\ k.prev[x] \in Cells
                  /\ k.var[k.prev[x]] = k.var[x]
                  /\ k.next[k.prev[x]] = x
    <3>1. x # c /\ k.var[x] = h.var[x] /\ h.var[x] \in VarIds /\ h.var[x] # 0
      BY <1>3, <1>4, <1>5, <2>3
    <3>2. CASE x = q
      <4>1. v = h.var[x] /\ h.prev[x] = c /\ k.prev[x] = p /\ v # 0
        BY <1>1, <1>2, <3>1, <3>2 DEF Threads
      <4>2. CASE p = NoCell
        BY <1>22, <3>1, <3>2, <4>1, <4>2
      <4>3. CASE p # NoCell
        <5>1. p \in Cells /\ h.var[p] = v /\ h.next[p] = c
          BY <1>2, <4>1, <4>3 DEF Threads
        <5>2. p # c
          BY <3>1, <3>2, <5>1
        <5>3. k.next[p] = q /\ k.var[p] = v
          BY <1>1, <1>4, <4>1, <5>1, <5>2
        <5> QED  BY <3>1, <3>2, <4>1, <5>1, <5>3
      <4> QED  BY <4>2, <4>3
    <3>3. CASE x # q
      <4>1. k.prev[x] = h.prev[x]
        BY <1>1, <3>1, <3>3
      <4>2. CASE h.prev[x] = NoCell /\ h.first[h.var[x]] = x
        <5>1. ~(h.var[x] = v /\ p = NoCell)
          BY <1>2, <3>1, <4>2 DEF Threads
        <5> QED  BY <1>1, <3>1, <4>1, <4>2, <5>1
      <4>3. CASE /\ h.prev[x] \in Cells
                 /\ h.var[h.prev[x]] = h.var[x]
                 /\ h.next[h.prev[x]] = x
        <5>1. h.prev[x] # c
          BY <3>3, <4>3
        <5>2. ~(h.prev[x] = p /\ v # 0)
          <6> SUFFICES ASSUME h.prev[x] = p, v # 0 PROVE FALSE
            OBVIOUS
          <6>1. h.next[p] = c
            BY <1>2, <4>3 DEF Threads
          <6> QED  BY <3>1, <4>3, <6>1
        <5>3. k.next[h.prev[x]] = x /\ k.var[h.prev[x]] = h.var[x]
          BY <1>1, <1>4, <4>3, <5>1, <5>2
        <5> QED  BY <3>1, <4>1, <4>3, <5>3
      <4> QED  BY <1>2, <3>1, <4>2, <4>3 DEF Threads
    <3> QED  BY <3>2, <3>3
  <2>4. ASSUME NEW w \in VarIds, k.first[w] # NoCell
        PROVE  k.var[k.first[w]] = w /\ k.prev[k.first[w]] = NoCell
    <3>1. CASE w = v /\ p = NoCell
      <4>1. k.first[w] = q /\ q \in Cells /\ w # 0
        BY <1>2, <1>3, <1>22, <2>4, <3>1
      <4>2. h.var[q] = v /\ h.prev[q] = c
        BY <1>2, <2>4, <4>1 DEF Threads
      <4>3. q # c
        BY <1>2, <3>1, <4>2, <4>1
      <4>4. k.prev[q] = p /\ k.var[q] = h.var[q]
        BY <1>4, <1>21, <3>1, <4>1, <4>2, <4>3
      <4> QED  BY <3>1, <4>1, <4>2, <4>4
    <3>2. CASE ~(w = v /\ p = NoCell)
      <4> DEFINE x == h.first[w]
      <4>1. k.first[w] = x /\ x \in Cells
        BY <1>1, <1>3, <2>4, <3>2
      <4>2. h.var[x] = w /\ h.prev[x] = NoCell
        BY <1>2, <2>4, <4>1 DEF Threads
      <4>3. x # c
        BY <3>2, <4>2
      <4>4. x # q
        BY <1>2, <4>1, <4>2 DEF Threads
      <4>5. k.prev[x] = h.prev[x] /\ k.var[x] = h.var[x]
        BY <1>1, <1>4, <4>1, <4>3, <4>4
      <4> QED  BY <4>1, <4>2, <4>5
    <3> QED  BY <3>1, <3>2
  <2> QED  BY <2>1, <2>2, <2>3, <2>4 DEF Threads
<1> QED  BY <1>7, <1>8, <1>9, <1>10, <1>12 DEF Tidy, k

\* Taking all the productions of some variables out of their lists.
LEMMA OrphanTidy ==
    ASSUME NEW h \in LooseHeap, NEW V \in SUBSET VarIds, NEW tag, NEW mark
    PROVE  Tidier(h, Orphan(h, V, tag, mark))
<1> SUFFICES ASSUME Tidy(h)
             PROVE  /\ Tidy(Orphan(h, V, tag, mark))
                    /\ \A pos \in [Cells -> Nat], top \in Nat :
                          Rises(h, pos, top) => Rises(Orphan(h, V, tag, mark), pos, top)
  BY DEF Tidier
<1> DEFINE C    == {c \in h.alloc : h.var[c] \in V}
           gone == {c \in C : ~h.del[c] /\ h.ref[c] = 1}
           k    == Orphan(h, V, tag, mark)
<1>1. /\ k.alloc = h.alloc \ gone
      /\ k.var = [c \in Cells |-> IF c \in C THEN 0 ELSE h.var[c]]
      /\ k.rhs = [c \in Cells |-> IF c \in gone THEN Epsilon ELSE h.rhs[c]]
      /\ k.prev = [c \in Cells |-> CASE c \in gone -> NoCell
                                     [] c \in C \ gone -> tag
                                     [] OTHER      -> h.prev[c]]
      /\ k.next = [c \in Cells |-> IF c \in C THEN NoCell ELSE h.next[c]]
      /\ k.first = [v \in VarIds |-> IF v \in V THEN NoCell ELSE h.first[v]]
  BY DEF Orphan
<1>2. /\ Threads(h) /\ InOrder(h) /\ NoDuplicates(h) /\ Rising(h)
      /\ NoCell \notin Cells /\ 0 \notin VarIds
  BY NullsAssumption DEF Tidy, VarIds, CellOrNull
<1>3. /\ h.alloc \subseteq Cells
      /\ h.var \in [Cells -> VarIds \cup {0}]
      /\ h.next \in [Cells -> Cells \cup {NoCell}] /\ h.first \in [VarIds -> Cells \cup {NoCell}]
  BY DEF LooseHeap, CellOrNull
<1>4. \A x \in Cells : x \in C <=> h.var[x] \in V
  BY <1>2, <1>3 DEF Threads
<1>5. gone \subseteq C
  OBVIOUS
<1> HIDE DEF k, C, gone
<1>6. /\ \A x \in Cells : x \notin C => /\ k.var[x] = h.var[x] /\ k.rhs[x] = h.rhs[x]
                                        /\ k.prev[x] = h.prev[x] /\ k.next[x] = h.next[x]
      /\ \A x \in Cells : x \in C => k.var[x] = 0 /\ k.next[x] = NoCell
  BY <1>1, <1>5
<1>7. ASSUME NEW x \in Cells, k.next[x] # NoCell
      PROVE  /\ x \notin C /\ k.next[x] = h.next[x] /\ h.next[x] \in Cells
             /\ h.next[x] \notin C
  BY <1>2, <1>3, <1>4, <1>6, <1>7 DEF Threads
<1>12. \A pos \in [Cells -> Nat], top \in Nat : Rises(h, pos, top) => Rises(k, pos, top)
  BY <1>7 DEF Rises
<1>8. Rising(k)
  BY <1>2, <1>12 DEF Rising
<1>9. InOrder(k)
  BY <1>2, <1>6, <1>7 DEF InOrder
<1>10. NoDuplicates(k)
  BY <1>2, <1>6 DEF NoDuplicates
<1>11. Threads(k)
  <2>1. ASSUME NEW x \in Cells \ k.alloc PROVE k.var[x] = 0
    BY <1>1, <1>2, <1>5, <1>6, <2>1 DEF Threads
  <2>2. ASSUME NEW x \in Cells, k.next[x] # NoCell
        PROVE  k.var[x] # 0 /\ k.var[k.next[x]] = k.var[x] /\ k.prev[k.next[x]] = x
    BY <1>2, <1>6, <1>7, <2>2 DEF Threads
  <2>3. ASSUME NEW x \in Cells, k.var[x] # 0
        PROVE  \/ k.prev[x] = NoCell /\ k.first[k.var[x]] = x
               \/ /\ k.prev[x] \in Cells
                  /\ k.var[k.prev[x]] = k.var[x]
                  /\ k.next[k.prev[x]] = x
    <3>1. x \notin C /\ k.var[x] = h.var[x] /\ h.var[x] \in VarIds /\ h.var[x] \notin V
      BY <1>3, <1>4, <1>6, <2>3
    <3>2. k.first[h.var[x]] = h.first[h.var[x]]
      BY <1>1, <3>1
    <3> QED  BY <1>2, <1>4, <1>6, <2>3, <3>1, <3>2 DEF Threads
  <2>4. ASSUME NEW w \in VarIds, k.first[w] # NoCell
        PROVE  k.var[k.first[w]] = w /\ k.prev[k.first[w]] = NoCell
    <3>1. w \notin V /\ k.first[w] = h.first[w] /\ h.first[w] \in Cells
      BY <1>1, <1>3, <2>4
    <3> QED  BY <1>2, <1>4, <1>6, <2>4, <3>1 DEF Threads
  <2> QED  BY <2>1, <2>2, <2>3, <2>4 DEF Threads
<1> QED  BY <1>8, <1>9, <1>10, <1>11, <1>12 DEF Tidy, k

-----------------------------------------------------------------------------
\* k is what h comes to when productions are held, marked and let go: it has no
\* new ones, those it has are in the same list, and the lists are no less tidy.
Ages(h, k) ==
    /\ k \in LooseHeap
    /\ k.alloc \subseteq h.alloc
    /\ \A c \in k.alloc : /\ k.rhs[c] = h.rhs[c] /\ k.var[c] = h.var[c]
                          /\ h.var[c] = 0 => k.prev[c] = h.prev[c]
    /\ Tidier(h, k)

\* The same, when also variables may have gone and left orphans.
Fades(h, k) ==
    /\ k \in LooseHeap
    /\ k.alloc \subseteq h.alloc
    /\ \A c \in k.alloc : k.rhs[c] = h.rhs[c] /\ k.var[c] \in {h.var[c], 0}
    /\ Tidier(h, k)

LEMMA AgesFade ==
    ASSUME NEW h, NEW k, Ages(h, k)
    PROVE  Fades(h, k)
BY DEF Ages, Fades

LEMMA AgesSame ==
    ASSUME NEW h \in LooseHeap
    PROVE  Ages(h, h)
BY DEF Ages, Tidier

LEMMA AgesOn ==
    ASSUME NEW h, NEW k, NEW l, Ages(h, k), Ages(k, l)
    PROVE  Ages(h, l)
BY DEF Ages, Tidier

LEMMA HoldAges ==
    ASSUME NEW h \in LooseHeap, NEW c \in Cells
    PROVE  Ages(h, Hold(h, c))
<1> DEFINE k == Hold(h, c)
<1>1. /\ k.alloc = h.alloc /\ k.var = h.var /\ k.rhs = h.rhs /\ k.prev = h.prev
      /\ k.next = h.next /\ k.first = h.first /\ k \in LooseHeap
  BY DEF Hold, LooseHeap
<1> HIDE DEF k
<1>2. Tidier(h, k)
  BY <1>1, SameListsTidy
<1> QED  BY <1>1, <1>2 DEF Ages, k

LEMMA MarkAges ==
    ASSUME NEW h \in LooseHeap, NEW c \in Cells, NEW b \in BOOLEAN
    PROVE  Ages(h, [h EXCEPT !.del[c] = b])
<1> DEFINE k == [h EXCEPT !.del[c] = b]
<1>1. /\ k.alloc = h.alloc /\ k.var = h.var /\ k.rhs = h.rhs /\ k.prev = h.prev
      /\ k.next = h.next /\ k.first = h.first /\ k \in LooseHeap
  BY DEF LooseHeap
<1> HIDE DEF k
<1>2. Tidier(h, k)
  BY <1>1, SameListsTidy
<1> QED  BY <1>1, <1>2 DEF Ages, k

LEMMA FreeAges ==
    ASSUME NEW h \in LooseHeap, NEW c \in Cells
    PROVE  Ages(h, Free(h, c))
<1> DEFINE k == Free(h, c)
<1>1. k.alloc \in SUBSET Cells /\ k.ref \in [Cells -> Int] /\ k.del \in [Cells -> BOOLEAN]
  BY DEF Free, LooseHeap
<1>2. k.var \in [Cells -> VarIds \cup {0}] /\ k.rhs \in [Cells -> Strings]
  BY SetsAssumption DEF Free, LooseHeap
<1>3. h.prev[c] \in CellOrNull \cup VarIds /\ h.next[c] \in CellOrNull /\ NoCell \in CellOrNull
  BY DEF LooseHeap, CellOrNull
<1>4. k.prev = [x \in Cells |-> CASE x = c                              -> NoCell
                                  [] x # c /\ x = h.next[c] /\ h.var[x] # 0 -> h.prev[c]
                                  [] OTHER                              -> h.prev[x]]
  BY DEF Free
<1>5. k.prev \in [Cells -> CellOrNull \cup VarIds]
  BY <1>3, <1>4 DEF LooseHeap
<1>6. k.next = [x \in Cells |-> CASE x = c                                  -> NoCell
                                  [] x # c /\ x = h.prev[c] /\ h.var[c] # 0 -> h.next[c]
                                  [] OTHER                                  -> h.next[x]]
  BY DEF Free
<1>7. k.next \in [Cells -> CellOrNull]
  BY <1>3, <1>6 DEF LooseHeap
<1>8. k.first \in [VarIds -> CellOrNull]
  BY <1>3 DEF Free, LooseHeap
<1>9. k \in LooseHeap
  BY <1>1, <1>2, <1>5, <1>7, <1>8 DEF Free, LooseHeap
<1>10. k.alloc = h.alloc \ {c} /\ k.rhs = [h.rhs EXCEPT ![c] = Epsilon]
       /\ k.var = [h.var EXCEPT ![c] = 0]
  BY DEF Free
<1> HIDE DEF k
<1>11. \A x \in k.alloc : k.rhs[x] = h.rhs[x] /\ k.var[x] = h.var[x]
  BY <1>10 DEF LooseHeap
<1>12. \A x \in k.alloc : h.var[x] = 0 => k.prev[x] = h.prev[x]
  BY <1>4, <1>10 DEF LooseHeap
<1> QED  BY <1>9, <1>10, <1>11, <1>12, FreeTidy DEF Ages, k

LEMMA ReleaseAges ==
    ASSUME NEW h \in LooseHeap, NEW c \in Cells
    PROVE  Ages(h, Release(h, c))
<1>1. CASE h.ref[c] = 1
  BY <1>1, FreeAges DEF Release
<1>2. CASE h.ref[c] # 1
  <2> DEFINE k == Release(h, c)
  <2>1. /\ k.alloc = h.alloc /\ k.var = h.var /\ k.rhs = h.rhs /\ k.prev = h.prev
        /\ k.next = h.next /\ k.first = h.first /\ k \in LooseHeap
    BY <1>2 DEF Release, LooseHeap
  <2> HIDE DEF k
  <2>2. Tidier(h, k)
    BY <2>1, SameListsTidy
  <2> QED  BY <2>1, <2>2 DEF Ages, k
<1> QED  BY <1>1, <1>2

LEMMA HoldIfAges ==
    ASSUME NEW h \in LooseHeap, NEW c \in CellOrNull
    PROVE  Ages(h, HoldIf(h, c))
BY HoldAges, AgesSame DEF HoldIf, CellOrNull

LEMMA ReleaseIfAges ==
    ASSUME NEW h \in LooseHeap, NEW c \in CellOrNull
    PROVE  Ages(h, ReleaseIf(h, c))
BY ReleaseAges, AgesSame DEF ReleaseIf, CellOrNull

LEMMA AssignAges ==
    ASSUME NEW h \in LooseHeap, NEW old \in CellOrNull, NEW new \in CellOrNull
    PROVE  Ages(h, Assign(h, old, new))
<1>1. Ages(h, ReleaseIf(h, old))
  BY ReleaseIfAges
<1>2. Ages(ReleaseIf(h, old), HoldIf(ReleaseIf(h, old), new))
  BY <1>1, HoldIfAges DEF Ages
<1> QED  BY <1>1, <1>2, AgesOn, AgesSame DEF Assign

LEMMA OrphanFades ==
    ASSUME NEW h \in LooseHeap, NEW V \in SUBSET VarIds, NEW tag \in VarIds \cup {NoCell},
           NEW mark \in BOOLEAN
    PROVE  Fades(h, Orphan(h, V, tag, mark))
<1> DEFINE C    == {c \in h.alloc : h.var[c] \in V}
           gone == {c \in C : ~h.del[c] /\ h.ref[c] = 1}
           k    == Orphan(h, V, tag, mark)
<1>1. k.alloc = h.alloc \ gone
  BY DEF Orphan
<1>2. k.var = [c \in Cells |-> IF c \in C THEN 0 ELSE h.var[c]]
  BY DEF Orphan
<1>3. k.rhs = [c \in Cells |-> IF c \in gone THEN Epsilon ELSE h.rhs[c]]
  BY DEF Orphan
<1>4. k.ref \in [Cells -> Int] /\ k.del \in [Cells -> BOOLEAN]
  <2>1. k.ref = [c \in Cells |-> IF c \in C /\ ~h.del[c] THEN h.ref[c] - 1 ELSE h.ref[c]]
    BY DEF Orphan
  <2>2. k.del = [c \in Cells |-> CASE c \in gone     -> FALSE
                                  [] c \in C \ gone -> h.del[c] \/ mark
                                  [] OTHER           -> h.del[c]]
    BY DEF Orphan
  <2>3. h.ref \in [Cells -> Int] /\ h.del \in [Cells -> BOOLEAN]
    BY DEF LooseHeap
  <2> HIDE DEF k, C, gone
  <2>4. k.ref \in [Cells -> Int]
    BY <2>1, <2>3
  <2>5. k.del \in [Cells -> BOOLEAN]
    BY <2>2, <2>3, Zenon
  <2> QED  BY <2>4, <2>5
<1>5. k.prev \in [Cells -> CellOrNull \cup VarIds] /\ k.next \in [Cells -> CellOrNull]
  BY DEF Orphan, LooseHeap, CellOrNull
<1>6. k.first \in [VarIds -> CellOrNull]
  BY DEF Orphan, LooseHeap, CellOrNull
<1>7. k = [alloc |-> k.alloc, ref |-> k.ref, del |-> k.del, var |-> k.var, rhs |-> k.rhs,
           prev |-> k.prev, next |-> k.next, first |-> k.first]
  BY DEF Orphan
<1> HIDE DEF k
<1>8. k.alloc \in SUBSET Cells /\ k.var \in [Cells -> VarIds \cup {0}] /\ k.rhs \in [Cells -> Strings]
  BY <1>1, <1>2, <1>3, SetsAssumption DEF LooseHeap
<1>9. k \in LooseHeap
  BY <1>4, <1>5, <1>6, <1>7, <1>8 DEF LooseHeap
<1>10. \A c \in k.alloc : k.rhs[c] = h.rhs[c] /\ k.var[c] \in {h.var[c], 0}
  BY <1>1, <1>2, <1>3 DEF LooseHeap
<1> QED  BY <1>1, <1>9, <1>10, OrphanTidy DEF Fades, k

-----------------------------------------------------------------------------
(* The steps.                                                               *)

\* What is allocated before and after a step is as it was.
Steady ==
    \A c \in heap.alloc \cap heap'.alloc :
        heap'.rhs[c] = heap.rhs[c] /\ heap'.var[c] \in {heap.var[c], 0}

LEMMA InvTypes ==
    ASSUME IInv
    PROVE  /\ heap \in LooseHeap
           /\ ptr \in [Holders -> CellOrNull]
           /\ first_production \in CellOrNull
           /\ \A x \in Holders : ptr[x] \in heap.alloc \cup {NoCell}
<1>1. heap \in Heap /\ Held(heap, ptr) /\ ptr \in [Holders -> CellOrNull]
  BY DEF IInv, Held, Good
<1>2. heap \in LooseHeap
  BY <1>1 DEF Heap, LooseHeap
<1>3. first_production \in CellOrNull
  BY <1>1 DEF IInv, FirstLive, Live, Heap, CellOrNull
<1> QED  BY <1>1, <1>2, <1>3, HeldPointer

LEMMA FadesSteady ==
    ASSUME Fades(heap, heap')
    PROVE  Steady
BY DEF Fades, Steady

\* Where a search starts is null or a slot of the pool.
LEMMA CursorType ==
    ASSUME IInv, NEW g \in Gens
    PROVE  ptr[g] \in CellOrNull /\ ResetCursor(g) \in CellOrNull /\ CursorOf(g) \in CellOrNull
<1>1. ptr[g] \in CellOrNull
  BY InvTypes DEF Holders
<1>2. ReleaseIf(heap, ptr[g]) \in LooseHeap
  BY <1>1, InvTypes, ReleaseIfAges DEF Ages
<1>3. Bound[g] \in VarIds \cup {0}
  BY GensAssumption
<1>4. ResetCursor(g) \in CellOrNull
  <2>1. CASE Bound[g] = 0
    BY <2>1, InvTypes DEF ResetCursor, StartOf
  <2>2. CASE Bound[g] # 0 /\ Bound[g] \in variable_map
    BY <2>2, <1>2, <1>3 DEF ResetCursor, StartOf, LooseHeap
  <2>3. CASE Bound[g] # 0 /\ Bound[g] \notin variable_map
    BY <2>3 DEF ResetCursor, StartOf, CellOrNull
  <2> QED  BY <2>1, <2>2, <2>3
<1> QED  BY <1>1, <1>4 DEF CursorOf

LEMMA ResetAges ==
    ASSUME IInv, NEW g \in Gens
    PROVE  Ages(heap, ResetHeap(g)) /\ Ages(heap, HeapAt(g))
<1>1. Ages(heap, ReleaseIf(heap, ptr[g]))
  BY InvTypes, CursorType, ReleaseIfAges
<1>2. Ages(ReleaseIf(heap, ptr[g]), ResetHeap(g))
  BY <1>1, CursorType, HoldIfAges DEF Ages, ResetHeap
<1>3. Ages(heap, ResetHeap(g))
  BY <1>1, <1>2, AgesOn
<1> QED  BY <1>3, InvTypes, AgesSame DEF HeapAt

LEMMA MatchEndAges ==
    ASSUME IInv, NEW g \in Gens, MatchEnd(g)
    PROVE  Ages(heap, heap')
<1> DEFINE h == ReleaseIf(HeapAt(g), CursorOf(g))
           b == Binder[g]
<1>1. Ages(heap, HeapAt(g)) /\ HeapAt(g) \in LooseHeap
  BY ResetAges DEF Ages
<1>2. Ages(HeapAt(g), h)
  BY <1>1, CursorType, ReleaseIfAges
<1>3. CASE b = NoHandle
  BY <1>1, <1>2, <1>3, AgesOn DEF MatchEnd
<1>4. CASE b # NoHandle
  <2>1. ptr[b] \in CellOrNull
    BY <1>4, GensAssumption, InvTypes DEF Holders
  <2>2. heap' = ReleaseIf(h, ptr[b])
    BY <1>4 DEF MatchEnd
  <2>3. Ages(h, heap')
    BY <1>2, <2>1, <2>2, ReleaseIfAges DEF Ages
  <2> QED  BY <1>1, <1>2, <2>3, AgesOn
<1> QED  BY <1>3, <1>4

\* What FindCurrent finds, the cursor was on something for.
LEMMA TakenAges ==
    ASSUME IInv, NEW g \in Gens, NEW curr \in Live(HeapAt(g)),
           curr = FindCurrent(HeapAt(g), CursorOf(g))
    PROVE  /\ curr \in Cells
           /\ Ages(heap, TakenAt(g, curr))
<1>1. Ages(heap, HeapAt(g)) /\ HeapAt(g) \in LooseHeap
  BY ResetAges DEF Ages
<1>2. curr \in Cells
  BY <1>1 DEF Live, LooseHeap
<1>3. CursorOf(g) \in Cells
  <2>1. CursorOf(g) # NoCell
    BY <1>2, NullsAssumption DEF FindCurrent
  <2> QED  BY <2>1, CursorType DEF CellOrNull
<1>4. Ages(HeapAt(g), Hold(HeapAt(g), curr))
  BY <1>1, <1>2, HoldAges
<1>5. Ages(Hold(HeapAt(g), curr), Release(Hold(HeapAt(g), curr), CursorOf(g)))
  BY <1>3, <1>4, ReleaseAges DEF Ages
<1> QED  BY <1>1, <1>2, <1>4, <1>5, AgesOn DEF TakenAt

LEMMA MatchNoneAges ==
    ASSUME IInv, NEW g \in Gens, MatchNone(g)
    PROVE  Ages(heap, heap')
<1>1. PICK curr \in Live(HeapAt(g)) :
        /\ curr = FindCurrent(HeapAt(g), CursorOf(g))
        /\ heap' = Release(Release(Hold(HeapAt(g), curr), CursorOf(g)), curr)
  BY DEF MatchNone
<1> DEFINE h == TakenAt(g, curr)
<1>2. curr \in Cells /\ Ages(heap, h)
  BY <1>1, TakenAges
<1>3. Ages(h, heap')
  BY <1>1, <1>2, ReleaseAges DEF Ages, TakenAt
<1> QED  BY <1>2, <1>3, AgesOn

LEMMA BoundAges ==
    ASSUME IInv, NEW g \in Gens, NEW curr \in Live(HeapAt(g)),
           curr = FindCurrent(HeapAt(g), CursorOf(g)), NEW m \in Cells
    PROVE  Ages(heap, BoundAt(g, curr, m))
<1> DEFINE b  == Binder[g]
           h1 == TakenAt(g, curr)
           h2 == Assign(h1, curr, m)
           h3 == BoundAt(g, curr, m)
<1>1. h3 = IF b = NoHandle THEN h2 ELSE Assign(h2, ptr[b], m)
  BY DEF BoundAt
<1>2. curr \in Cells /\ Ages(heap, h1)
  BY TakenAges
<1> HIDE DEF h1, h3
<1>3. Ages(heap, h2)
  <2>1. curr \in CellOrNull /\ m \in CellOrNull /\ h1 \in LooseHeap
    BY <1>2 DEF CellOrNull, Ages
  <2>2. Ages(h1, h2)
    BY <2>1, AssignAges
  <2> QED  BY <1>2, <2>2, AgesOn
<1> HIDE DEF h2
<1>4. Ages(heap, h3)
  <2>1. CASE b = NoHandle
    BY <1>1, <1>3, <2>1
  <2>2. CASE b # NoHandle
    <3>1. ptr[b] \in CellOrNull /\ m \in CellOrNull /\ h2 \in LooseHeap
      BY <1>3, <2>2, GensAssumption, InvTypes DEF Holders, CellOrNull, Ages
    <3>2. Ages(h2, Assign(h2, ptr[b], m))
      BY <3>1, AssignAges
    <3> QED  BY <1>1, <1>3, <2>2, <3>2, AgesOn
  <2> QED  BY <2>1, <2>2
<1> QED  BY <1>4 DEF h3

LEMMA MatchFoundAges ==
    ASSUME IInv, NEW g \in Gens, NEW m \in Cells, MatchFound(g, m)
    PROVE  Ages(heap, heap')
<1>1. PICK curr \in Live(HeapAt(g)) :
        /\ curr = FindCurrent(HeapAt(g), CursorOf(g))
        /\ \E n \in Live(BoundAt(g, curr, m)) \cup {NoCell} :
             heap' = Release(HoldIf(BoundAt(g, curr, m), n), m)
  BY FoundParts
<1> DEFINE h == BoundAt(g, curr, m)
<1>2. PICK n \in Live(h) \cup {NoCell} : heap' = Release(HoldIf(h, n), m)
  BY <1>1
<1>3. Ages(heap, h)
  BY <1>1, BoundAges
<1> HIDE DEF h
<1>4. Ages(h, HoldIf(h, n))
  <2>1. h \in LooseHeap /\ n \in CellOrNull
    BY <1>3 DEF Ages, Live, LooseHeap, CellOrNull
  <2> QED  BY <2>1, HoldIfAges
<1>5. Ages(HoldIf(h, n), heap')
  BY <1>2, <1>4, ReleaseAges DEF Ages
<1> QED  BY <1>3, <1>4, <1>5, AgesOn

LEMMA AddedAges ==
    ASSUME IInv, NEW h \in LooseHeap, NEW c \in Cells, NEW v, NEW d \in Handles \cup {NoHandle},
           Added(h, c, v, d)
    PROVE  Ages(h, heap')
<1>1. CASE d = NoHandle
  BY <1>1, AgesSame DEF Added
<1>2. CASE d # NoHandle
  <2>1. ptr[d] \in CellOrNull /\ c \in CellOrNull
    BY <1>2, InvTypes DEF Holders, CellOrNull
  <2>2. Ages(h, Hold(h, c))
    BY HoldAges
  <2>3. Ages(Hold(h, c), Assign(Hold(h, c), ptr[d], c))
    BY <2>1, <2>2, AssignAges DEF Ages
  <2>4. heap' = Release(Assign(Hold(h, c), ptr[d], c), c)
    BY <1>2 DEF Added
  <2>5. Ages(Assign(Hold(h, c), ptr[d], c), heap')
    BY <2>3, <2>4, ReleaseAges DEF Ages
  <2> QED  BY <2>2, <2>3, <2>5, AgesOn
<1> QED  BY <1>1, <1>2

\* A new production takes a free slot and leaves the others as they are.
LEMMA InsertTakesFree ==
    ASSUME NEW h \in LooseHeap, NEW c \in Cells \ h.alloc, NEW v \in VarIds, NEW s \in Strings,
           NEW q \in CellOrNull, NEW n \in CellOrNull
    PROVE  /\ Insert(h, c, v, s, q, n) \in LooseHeap
           /\ \A x \in h.alloc : /\ Insert(h, c, v, s, q, n).rhs[x] = h.rhs[x]
                                 /\ Insert(h, c, v, s, q, n).var[x] = h.var[x]
<1> DEFINE k == Insert(h, c, v, s, q, n)
<1>1. /\ k.alloc = h.alloc \cup {c} /\ k.ref = [h.ref EXCEPT ![c] = 1] /\ k.del = h.del
      /\ k.var = [h.var EXCEPT ![c] = v] /\ k.rhs = [h.rhs EXCEPT ![c] = s]
  BY DEF Insert
<1>2. k.prev = [x \in Cells |-> CASE x = c          -> q
                                  [] x # c /\ x = n -> c
                                  [] OTHER          -> h.prev[x]]
  BY DEF Insert
<1>3. k.next = [x \in Cells |-> CASE x = c          -> n
                                  [] x # c /\ x = q -> c
                                  [] OTHER          -> h.next[x]]
  BY DEF Insert
<1>4. k.first = [w \in VarIds |-> IF w = v /\ q = NoCell THEN c ELSE h.first[w]]
  BY DEF Insert
<1>5. k = [alloc |-> k.alloc, ref |-> k.ref, del |-> k.del, var |-> k.var, rhs |-> k.rhs,
           prev |-> k.prev, next |-> k.next, first |-> k.first]
  BY DEF Insert
<1> HIDE DEF k
<1>6. k.prev \in [Cells -> CellOrNull \cup VarIds]
  BY <1>2 DEF LooseHeap, CellOrNull
<1>7. k.next \in [Cells -> CellOrNull]
  BY <1>3 DEF LooseHeap, CellOrNull
<1>8. k.first \in [VarIds -> CellOrNull]
  BY <1>4 DEF LooseHeap, CellOrNull
<1>9. k \in LooseHeap
  BY <1>1, <1>5, <1>6, <1>7, <1>8 DEF LooseHeap
<1>10. \A x \in h.alloc : k.rhs[x] = h.rhs[x] /\ k.var[x] = h.var[x]
  BY <1>1 DEF LooseHeap
<1> QED  BY <1>9, <1>10 DEF k

LEMMA InsertSteady ==
    ASSUME IInv, NEW c \in Cells \ heap.alloc, NEW v \in VarIds, NEW s \in Strings,
           NEW q \in CellOrNull, NEW n \in CellOrNull, NEW d \in Handles \cup {NoHandle},
           Added(Insert(heap, c, v, s, q, n), c, v, d)
    PROVE  Steady
<1> DEFINE k == Insert(heap, c, v, s, q, n)
<1>1. /\ k \in LooseHeap
      /\ \A x \in heap.alloc : k.rhs[x] = heap.rhs[x] /\ k.var[x] = heap.var[x]
  BY InvTypes, InsertTakesFree
<1>2. Ages(k, heap')
  BY <1>1, AddedAges
<1> HIDE DEF k
<1> QED  BY <1>1, <1>2 DEF Ages, Steady

LEMMA AddDuplicateAges ==
    ASSUME IInv, NEW v \in VarIds, NEW s \in Strings, NEW d \in Handles \cup {NoHandle},
           AddDuplicate(v, s, d)
    PROVE  Ages(heap, heap')
<1>1. heap \in LooseHeap
  BY InvTypes
<1>2. PICK c \in OfVar(heap, v) :
        \/ Added(Hold([heap EXCEPT !.del[c] = FALSE], c), c, v, d)
        \/ Added(heap, c, v, d)
  BY DEF AddDuplicate
<1>3. c \in Cells
  BY <1>1 DEF OfVar, LooseHeap
<1>4. CASE Added(heap, c, v, d)
  BY <1>1, <1>3, <1>4, AddedAges
<1>5. CASE Added(Hold([heap EXCEPT !.del[c] = FALSE], c), c, v, d)
  <2> DEFINE h == [heap EXCEPT !.del[c] = FALSE]
  <2>1. Ages(heap, h)
    BY <1>1, <1>3, MarkAges
  <2> HIDE DEF h
  <2>2. Ages(h, Hold(h, c))
    BY <1>3, <2>1, HoldAges DEF Ages
  <2>3. Added(Hold(h, c), c, v, d)
    BY <1>5 DEF h
  <2>4. Ages(Hold(h, c), heap')
    BY <1>3, <2>2, <2>3, AddedAges DEF Ages
  <2> QED  BY <2>1, <2>2, <2>4, AgesOn
<1> QED  BY <1>2, <1>4, <1>5

LEMMA AddProductionSteady ==
    ASSUME IInv, NEW v \in VarIds, NEW s \in Strings, NEW d \in Handles \cup {NoHandle},
           AddProduction(v, s, d)
    PROVE  Steady
<1>1. heap \in LooseHeap /\ NoCell \in CellOrNull
  BY InvTypes DEF CellOrNull
<1>2. CASE AddNew(v, s, d)
  <2>1. PICK c \in Cells \ heap.alloc :
          \/ Added(Insert(heap, c, v, s, NoCell, NoCell), c, v, d)
          \/ /\ Spot(heap, v, s) \in OfVar(heap, v)
             /\ Added(Insert(heap, c, v, s, heap.prev[Spot(heap, v, s)], Spot(heap, v, s)), c, v, d)
          \/ \E p \in OfVar(heap, v) : Added(Insert(heap, c, v, s, p, NoCell), c, v, d)
    BY <1>2 DEF AddNew
  <2>2. CASE Added(Insert(heap, c, v, s, NoCell, NoCell), c, v, d)
    BY <1>1, <2>2, InsertSteady
  <2>3. CASE /\ Spot(heap, v, s) \in OfVar(heap, v)
             /\ Added(Insert(heap, c, v, s, heap.prev[Spot(heap, v, s)], Spot(heap, v, s)), c, v, d)
    <3>1. Spot(heap, v, s) \in Cells /\ Spot(heap, v, s) \in heap.alloc
          /\ heap.var[Spot(heap, v, s)] = v
      BY <1>1, <2>3 DEF OfVar, LooseHeap
    <3>2. heap.prev[Spot(heap, v, s)] \in CellOrNull
      <4>1. LinksOK(heap) /\ v # 0
        BY SetsAssumption DEF IInv, Held, Good, VarIds
      <4> QED  BY <1>1, <3>1, <4>1 DEF LinksOK, OfVar, CellOrNull, LooseHeap
    <3> QED  BY <2>3, <3>1, <3>2, InsertSteady DEF CellOrNull
  <2>4. ASSUME NEW p \in OfVar(heap, v), Added(Insert(heap, c, v, s, p, NoCell), c, v, d)
        PROVE  Steady
    <3>1. p \in CellOrNull
      BY <1>1 DEF OfVar, LooseHeap, CellOrNull
    <3> QED  BY <1>1, <2>4, <3>1, InsertSteady
  <2> QED  BY <2>1, <2>2, <2>3, <2>4
<1>3. CASE AddDuplicate(v, s, d)
  BY <1>3, AddDuplicateAges, AgesFade, FadesSteady
<1> QED  BY <1>2, <1>3 DEF AddProduction

LEMMA RemoveProductionAges ==
    ASSUME IInv, NEW d \in Handles, RemoveProduction(d)
    PROVE  Ages(heap, heap')
<1> DEFINE c == ptr[d]
           h == [heap EXCEPT !.del[c] = TRUE]
<1>1. heap \in LooseHeap /\ c \in Cells
  BY InvTypes DEF RemoveProduction, Live, LooseHeap
<1>2. Ages(heap, h)
  BY <1>1, MarkAges
<1>3. heap' = Release(h, c)
  BY DEF RemoveProduction
<1> HIDE DEF h
<1>4. Ages(h, heap')
  BY <1>1, <1>2, <1>3, ReleaseAges DEF Ages
<1> QED  BY <1>2, <1>4, AgesOn

\* Every step but the one that links a new production only fades the heap.
LEMMA NextFades ==
    ASSUME IInv, [Next]_vars,
           ~ \E v \in VarIds, s \in Strings, d \in Handles \cup {NoHandle} :
                AddProduction(v, s, d) /\ AddNew(v, s, d)
    PROVE  Fades(heap, heap')
<1>1. heap \in LooseHeap /\ ptr \in [Holders -> CellOrNull]
  BY InvTypes
<1>2. UNCHANGED heap => Fades(heap, heap')
  BY <1>1, AgesSame, AgesFade
<1>3. CASE UNCHANGED vars
  BY <1>2, <1>3 DEF vars
<1>4. CASE AddVariable \/ \E v \in VarIds : SetStartVariable(v)
  BY <1>2, <1>4 DEF AddVariable, SetStartVariable
<1>5. ASSUME NEW v \in VarIds, UnsafeRemoveVariable(v) PROVE Fades(heap, heap')
  <2>1. heap' = Orphan(heap, {v}, v, TRUE)
    BY <1>5 DEF UnsafeRemoveVariable
  <2> QED  BY <1>1, <2>1, OrphanFades
<1>6. ASSUME NEW v \in VarIds, NEW s \in Strings,
             NEW d \in Handles \cup {NoHandle}, AddProduction(v, s, d)
      PROVE  Fades(heap, heap')
  BY <1>6, AddDuplicateAges, AgesFade DEF AddProduction
<1>7. ASSUME NEW d \in Handles, RemoveProduction(d) PROVE Fades(heap, heap')
  BY <1>7, RemoveProductionAges, AgesFade
<1>8. ASSUME NEW d \in Handles, NEW e \in Handles, CopyHandle(d, e) PROVE Fades(heap, heap')
  <2>1. ptr[d] \in CellOrNull /\ ptr[e] \in CellOrNull
    BY <1>1 DEF Holders
  <2> QED  BY <1>1, <1>8, <2>1, AssignAges, AgesFade DEF CopyHandle
<1>9. ASSUME NEW d \in Handles, ClearHandle(d) PROVE Fades(heap, heap')
  <2>1. ptr[d] \in Cells
    BY <1>1, <1>9 DEF Holders, ClearHandle, CellOrNull
  <2> QED  BY <1>1, <1>9, <2>1, ReleaseAges, AgesFade DEF ClearHandle
<1>10. ASSUME NEW g \in Gens, Rewind(g) PROVE Fades(heap, heap')
  BY <1>10, ResetAges, AgesFade DEF Rewind
<1>11. ASSUME NEW g \in Gens, MatchNext(g) PROVE Fades(heap, heap')
  BY <1>11, MatchEndAges, MatchNoneAges, MatchFoundAges, AgesFade DEF MatchNext
<1>12. ASSUME NEW g \in Gens, FreeGenerator(g) PROVE Fades(heap, heap')
  BY <1>1, <1>12, CursorType, ReleaseIfAges, AgesFade DEF FreeGenerator
<1>13. CASE Destroy
  BY <1>1, <1>13, OrphanFades DEF Destroy
<1> QED  BY <1>3, <1>4, <1>5, <1>6, <1>7, <1>8, <1>9, <1>10, <1>11, <1>12, <1>13 DEF Next

LEMMA NextSteady == IInv /\ [Next]_vars => Steady
BY NextFades, FadesSteady, AddProductionSteady

-----------------------------------------------------------------------------
\* What a handle or a generator points to keeps its right hand side as long as
\* it is pointed to, and its variable until the variable goes (OpaqueProduction,
\* Generator::cursor): for any number of them, however they disturb each other.
THEOREM HeldIsStable == Spec => HeldStable
<1> DEFINE Held1 == \A x \in Holders : ptr[x] # NoCell /\ ptr'[x] = ptr[x] =>
                      /\ heap'.rhs[ptr[x]] = heap.rhs[ptr[x]]
                      /\ heap'.var[ptr[x]] \in {heap.var[ptr[x]], 0}
<1>1. IInv /\ IInv' /\ [Next]_vars => [Held1]_vars
  <2> SUFFICES ASSUME IInv, IInv', [Next]_vars, NEW x \in Holders,
                      ptr[x] # NoCell, ptr'[x] = ptr[x]
               PROVE  /\ heap'.rhs[ptr[x]] = heap.rhs[ptr[x]]
                      /\ heap'.var[ptr[x]] \in {heap.var[ptr[x]], 0}
    OBVIOUS
  <2>1. ptr[x] \in heap.alloc
    BY InvTypes
  <2>2. ptr[x] \in heap'.alloc
    <3>1. Held(heap, ptr)' /\ Held(heap', ptr')
      BY DEF IInv, Held, Good
    <3>2. ptr'[x] \in heap'.alloc \cup {NoCell}
      BY <3>1, HeldPointer
    <3> QED  BY <3>2
  <2> QED  BY <2>1, <2>2, NextSteady DEF Steady
<1>2. Spec => []IInv
  BY Invariance
<1>3. Spec => [][Held1]_vars
  BY <1>1, <1>2, PTL DEF Spec
<1> QED  BY <1>3 DEF HeldStable
=============================================================================
