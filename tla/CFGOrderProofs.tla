---------------------------- MODULE CFGOrderProofs ----------------------------
(***************************************************************************)
(* Proof that the store of a grammar keeps its order: the lists of           *)
(* productions are sorted by their hash, without duplicates, and go through  *)
(* all the productions of their variable; the variables are linked in the    *)
(* order of their ids and the removed ones are all in the chain they are      *)
(* used again from; the counters count; the walks of the generators stay      *)
(* among the productions; first_production is the least of them.             *)
(***************************************************************************)
EXTENDS CFGStoreProofs, WellOrder

-----------------------------------------------------------------------------
(* The walks over the lists, through tidy ones.                              *)

\* A heap has its type whatever the sign of its counts.
LEMMA LooseTypes ==
    ASSUME NEW h \in LooseHeap
    PROVE  /\ h.alloc \subseteq Cells /\ NoCell \notin Cells
           /\ h.var \in [Cells -> VarIds \cup {0}] /\ 0 \notin VarIds
           /\ h.rhs \in [Cells -> Strings]
           /\ h.del \in [Cells -> BOOLEAN]
           /\ h.next \in [Cells -> CellOrNull]
           /\ h.first \in [VarIds -> CellOrNull]
BY NullsAssumption DEF LooseHeap, VarIds

\* The productions of a variable are a list.
LEMMA ListChained ==
    ASSUME NEW h \in LooseHeap, Threads(h), NEW v \in VarIds
    PROVE  Chained(OfVar(h, v), NoCell, h.next, h.first[v])
<1> DEFINE D == OfVar(h, v)
<1>1. \A c \in Cells : c \in D <=> h.var[c] = v
  BY LooseTypes DEF OfVar, Threads
<1>2. NoCell \notin D /\ D \subseteq Cells
  BY LooseTypes DEF OfVar
<1>3. h.first[v] \in D \cup {NoCell}
  BY <1>1, LooseTypes DEF Threads, CellOrNull
<1>4. \A x \in D : h.next[x] \in D \cup {NoCell}
  BY <1>1, <1>2, LooseTypes DEF Threads, CellOrNull
<1>5. \A x \in D : x = h.first[v] \/ \E z \in D : h.next[z] = x
  BY <1>1, <1>2, LooseTypes DEF Threads
<1> HIDE DEF D
<1> QED  BY <1>2, <1>3, <1>4, <1>5 DEF Chained, D

LEMMA ListClimbs ==
    ASSUME NEW h \in LooseHeap, NEW v, NEW pos \in [Cells -> Nat], NEW top \in Nat,
           Rises(h, pos, top)
    PROVE  Climbs(OfVar(h, v), NoCell, h.next, pos, top)
BY LooseTypes DEF OfVar, Rises, Climbs

\* A loop along the links of the productions is defined.
LEMMA CellWalk ==
    ASSUME NEW h \in LooseHeap, Rising(h), NEW stop \in SUBSET Cells
    PROVE  \E f : f = [x \in CellOrNull |->
                         IF x \in stop \cup {NoCell} THEN x ELSE f[h.next[x]]]
<1> DEFINE base == [x \in Cells \cup {NoCell} |-> x]
           g    == [x \in Cells |-> base]
<1>1. PICK pos \in [Cells -> Nat], top \in Nat : Rises(h, pos, top)
  BY DEF Rising
<1>2. Walkable(Cells, NoCell, h.next, stop, pos, top) /\ NoCell \notin Cells
  BY <1>1, LooseTypes DEF Rises, CellOrNull, Walkable
<1>3. /\ base \in [Cells \cup {NoCell} -> Cells \cup {NoCell}]
      /\ g \in [Cells -> [Cells \cup {NoCell} -> Cells \cup {NoCell}]]
  OBVIOUS
<1> HIDE DEF base, g
<1>4. PICK f \in [Cells \cup {NoCell} -> Cells \cup {NoCell}] :
        Walk(Cells, NoCell, h.next, stop, base, g, f)
  BY <1>2, <1>3, WalkExists
<1>5. \A x \in Cells \cup {NoCell} :
        f[x] = IF x \in stop \cup {NoCell} THEN x ELSE f[h.next[x]]
  <2>1. \A x \in Cells \cup {NoCell} :
           f[x] = IF x \in stop \cup {NoCell} THEN base[x] ELSE g[x][f[h.next[x]]]
    BY <1>4 DEF Walk
  <2>2. \A x \in Cells : h.next[x] \in Cells \cup {NoCell}
    BY LooseTypes DEF CellOrNull
  <2>3. \A x \in Cells : f[h.next[x]] \in Cells \cup {NoCell}
    BY <2>2
  <2>4. \A x \in Cells : g[x][f[h.next[x]]] = f[h.next[x]]
    BY <2>3 DEF base, g
  <2>5. \A x \in Cells \cup {NoCell} : base[x] = x
    BY DEF base
  <2> QED  BY <2>1, <2>4, <2>5
<1>6. f = [x \in CellOrNull |-> IF x \in stop \cup {NoCell} THEN x ELSE f[h.next[x]]]
  BY <1>4, <1>5 DEF CellOrNull, Walk
<1> QED  BY <1>6

\* SkipDeleted finds the first live production from y on.
LEMMA SkipFinds ==
    ASSUME NEW h \in LooseHeap, Tidy(h), NEW v \in VarIds,
           NEW pos \in [Cells -> Nat], NEW top \in Nat, Rises(h, pos, top),
           NEW y \in OfVar(h, v) \cup {NoCell}
    PROVE  /\ SkipDeleted(h, y) \in (OfVar(h, v) \cap Live(h)) \cup {NoCell}
           /\ SkipDeleted(h, y) # NoCell => y # NoCell /\ pos[y] <= pos[SkipDeleted(h, y)]
           /\ \A z \in OfVar(h, v) :
                /\ y # NoCell /\ pos[y] <= pos[z]
                /\ SkipDeleted(h, y) = NoCell \/ pos[z] < pos[SkipDeleted(h, y)]
                => z \notin Live(h)
<1> DEFINE stop == {x \in Cells : ~h.del[x]}
           D    == OfVar(h, v)
           Eq(f) == f = [x \in CellOrNull |->
                           IF x = NoCell \/ ~h.del[x] THEN x ELSE f[h.next[x]]]
           walk == CHOOSE f : Eq(f)
<1>1. SkipDeleted(h, y) = walk[y]
  BY DEF SkipDeleted
<1>2. Eq(walk)
  <2>1. PICK f : f = [x \in CellOrNull |->
                        IF x \in stop \cup {NoCell} THEN x ELSE f[h.next[x]]]
    BY CellWalk DEF Tidy
  <2>2. Eq(f)
    BY <2>1 DEF CellOrNull
  <2> HIDE DEF Eq
  <2> QED  BY <2>2
<1>3. D \subseteq Cells /\ NoCell \notin Cells
  BY LooseTypes DEF OfVar
<1>4. Seeks(D, NoCell, h.next, stop, walk)
  <2> HIDE DEF walk
  <2> QED  BY <1>2, <1>3 DEF CellOrNull, Seeks
<1>5. Chained(D, NoCell, h.next, h.first[v]) /\ Climbs(D, NoCell, h.next, pos, top)
  BY ListChained, ListClimbs DEF Tidy
<1>6. \A x \in D : x \in stop <=> x \in Live(h)
  BY <1>3, LooseTypes DEF OfVar, Live
<1> HIDE DEF stop, D, walk
<1>7. /\ walk[y] \in (stop \cap D) \cup {NoCell}
      /\ \A z \in D : /\ y \in D /\ pos[y] <= pos[z]
                      /\ walk[y] = NoCell \/ pos[z] < pos[walk[y]]
                      => z \notin stop
  <2>1. y \in D \cup {NoCell}
    BY DEF D
  <2> QED  BY <1>4, <1>5, <2>1, WalkFinds
<1>8. walk[y] # NoCell => y # NoCell /\ pos[y] <= pos[walk[y]]
  <2>1. CASE y = NoCell
    BY <1>4, <2>1 DEF Seeks
  <2>2. CASE y # NoCell
    <3>1. y \in D
      BY <2>2 DEF D
    <3> QED  BY <1>4, <1>5, <2>2, <3>1, WalkRises
  <2> QED  BY <2>1, <2>2
<1> QED  BY <1>1, <1>6, <1>7, <1>8 DEF D

\* The head of a list is before every other production, and is there when
\* there is any.
LEMMA HeadFirst ==
    ASSUME NEW h \in LooseHeap, Tidy(h), NEW v \in VarIds,
           NEW pos \in [Cells -> Nat], NEW top \in Nat, Rises(h, pos, top),
           NEW z \in OfVar(h, v)
    PROVE  h.first[v] \in OfVar(h, v) /\ pos[h.first[v]] <= pos[z]
<1>1. /\ Chained(OfVar(h, v), NoCell, h.next, h.first[v])
      /\ Climbs(OfVar(h, v), NoCell, h.next, pos, top)
  BY ListChained, ListClimbs DEF Tidy
<1>2. h.first[v] \in OfVar(h, v) /\ (z = h.first[v] \/ pos[h.first[v]] < pos[z])
  BY <1>1, ChainFirst
<1>3. pos[z] \in Nat /\ pos[h.first[v]] \in Nat
  BY <1>1, <1>2 DEF Climbs
<1> QED  BY <1>2, <1>3

\* The productions of a variable are in the order of their hash.
LEMMA KeysClimb ==
    ASSUME NEW h \in LooseHeap, Tidy(h), NEW v \in VarIds,
           NEW pos \in [Cells -> Nat], NEW top \in Nat, Rises(h, pos, top),
           NEW z \in OfVar(h, v), NEW w \in OfVar(h, v), pos[z] <= pos[w]
    PROVE  Key[h.rhs[z]] <= Key[h.rhs[w]]
<1> DEFINE D == OfVar(h, v)
           K(x) == Key[h.rhs[x]]
           Bad == {x \in D : pos[z] <= pos[x] /\ ~(K(z) <= K(x))}
           N == {pos[x] : x \in Bad}
<1>1. /\ Chained(D, NoCell, h.next, h.first[v])
      /\ Climbs(D, NoCell, h.next, pos, top)
  BY ListChained, ListClimbs DEF Tidy
<1>2. \A x \in D : x \in Cells /\ pos[x] \in Nat /\ K(x) \in Int
  BY LooseTypes, KeyAssumption DEF OfVar
<1> SUFFICES ASSUME Bad # {} PROVE FALSE
  OBVIOUS
<1>3. N \in SUBSET Nat /\ N # {}
  BY <1>2
<1>4. PICK n \in N : \A m \in N : n <= m
  <2> HIDE DEF N
  <2> QED  BY <1>3, LeastExists
<1>5. PICK x \in Bad : n = pos[x]
  BY <1>4
<1>6. x \in D /\ z \in D /\ pos[z] < pos[x]
  <2>1. x # z
    BY <1>2, <1>5
  <2>2. pos[z] # pos[x]
    BY <1>1, <1>5, <2>1, ChainNext DEF D
  <2> QED  BY <1>2, <1>5, <2>2
<1>7. PICK u \in D : h.next[u] = x
  <2>1. x # h.first[v]
    BY <1>2, <1>6, HeadFirst
  <2> QED  BY <1>1, <1>6, <2>1 DEF Chained
<1>8. x # NoCell
  BY <1>2, <1>6, LooseTypes
<1>9. pos[u] < pos[x] /\ K(u) <= K(x)
  BY <1>2, <1>7, <1>8 DEF Rises, Tidy, InOrder
<1>10. pos[z] <= pos[u]
  <2>1. pos[u] < pos[z] => pos[h.next[u]] <= pos[z]
    BY <1>1, <1>6, ChainNext
  <2> QED  BY <1>2, <1>6, <1>7, <2>1
<1>11. u \notin Bad
  <2> SUFFICES ASSUME u \in Bad PROVE FALSE
    OBVIOUS
  <2>1. pos[u] \in N
    OBVIOUS
  <2> HIDE DEF N, Bad
  <2> QED  BY <1>2, <1>3, <1>4, <1>5, <1>6, <1>9, <2>1
<1>12. K(z) <= K(u)
  BY <1>10, <1>11
<1>13. K(z) <= K(x)
  <2> HIDE DEF K
  <2> QED  BY <1>2, <1>6, <1>9, <1>12
<1> QED  BY <1>5, <1>13

\* Spot finds the first production before which s may go, if it is not there.
LEMMA SpotFinds ==
    ASSUME NEW h \in LooseHeap, Tidy(h), NEW v \in VarIds, NEW s \in Strings,
           NEW pos \in [Cells -> Nat], NEW top \in Nat, Rises(h, pos, top)
    PROVE  /\ Spot(h, v, s) \in OfVar(h, v) \cup {NoCell}
           /\ Spot(h, v, s) # NoCell =>
                Key[s] < Key[h.rhs[Spot(h, v, s)]] \/ h.rhs[Spot(h, v, s)] = s
           /\ \A z \in OfVar(h, v) :
                Spot(h, v, s) = NoCell \/ pos[z] < pos[Spot(h, v, s)]
                => Key[h.rhs[z]] <= Key[s] /\ h.rhs[z] # s
<1> DEFINE stop == {x \in Cells : Key[s] < Key[h.rhs[x]] \/ h.rhs[x] = s}
           D    == OfVar(h, v)
           y    == h.first[v]
           Eq(f) == f = [x \in CellOrNull |->
                           IF x = NoCell \/ Key[s] < Key[h.rhs[x]] \/ h.rhs[x] = s
                           THEN x ELSE f[h.next[x]]]
           walk == CHOOSE f : Eq(f)
<1>1. Spot(h, v, s) = walk[y]
  BY DEF Spot
<1>2. Eq(walk)
  <2>1. PICK f : f = [x \in CellOrNull |->
                        IF x \in stop \cup {NoCell} THEN x ELSE f[h.next[x]]]
    <3>1. stop \in SUBSET Cells
      OBVIOUS
    <3> HIDE DEF stop
    <3> QED  BY <3>1, CellWalk DEF Tidy
  <2>2. Eq(f)
    BY <2>1 DEF CellOrNull
  <2> HIDE DEF Eq
  <2> QED  BY <2>2
<1>3. D \subseteq Cells /\ NoCell \notin Cells
  BY LooseTypes DEF OfVar
<1>4. Seeks(D, NoCell, h.next, stop, walk)
  <2> HIDE DEF walk
  <2> QED  BY <1>2, <1>3 DEF CellOrNull, Seeks
<1>5. Chained(D, NoCell, h.next, h.first[v]) /\ Climbs(D, NoCell, h.next, pos, top)
  BY ListChained, ListClimbs DEF Tidy
<1>6. \A x \in D : x \notin stop => Key[h.rhs[x]] <= Key[s] /\ h.rhs[x] # s
  BY <1>3, LooseTypes, KeyAssumption
<1>7. \A x \in stop : Key[s] < Key[h.rhs[x]] \/ h.rhs[x] = s
  OBVIOUS
<1> HIDE DEF stop, D, walk
<1>8. /\ walk[y] \in (stop \cap D) \cup {NoCell}
      /\ \A z \in D : /\ y \in D /\ pos[y] <= pos[z]
                      /\ walk[y] = NoCell \/ pos[z] < pos[walk[y]]
                      => z \notin stop
  <2>1. y \in D \cup {NoCell}
    BY <1>5 DEF Chained
  <2> HIDE DEF y
  <2> QED  BY <1>4, <1>5, <2>1, WalkFinds
<1>9. \A z \in D : y \in D /\ pos[y] <= pos[z]
  BY HeadFirst DEF D
<1> HIDE DEF y
<1> QED  BY <1>1, <1>6, <1>7, <1>8, <1>9 DEF D

-----------------------------------------------------------------------------
(* Linking a new production in.                                              *)

\* The lists of k have places in which what was allocated in h is in the order
\* that it has in h, and the orphans of h still know their variable.
Follows(h, k) ==
    /\ \A pos \in [Cells -> Nat], top \in Nat : Rises(h, pos, top) =>
         \E new \in [Cells -> Nat], max \in Nat :
           /\ Rises(k, new, max)
           /\ \A x, y \in h.alloc : pos[x] <= pos[y] <=> new[x] <= new[y]
    /\ \A x \in h.alloc : h.var[x] = 0 => k.prev[x] = h.prev[x]

LEMMA InsertTidy ==
    ASSUME NEW h \in LooseHeap, Tidy(h), NEW c \in Cells \ h.alloc, NEW v \in VarIds,
           NEW s \in Strings, NEW p \in CellOrNull, NEW n \in CellOrNull,
           p = NoCell => h.first[v] = n,
           p # NoCell => /\ p \in OfVar(h, v) /\ h.next[p] = n
                         /\ Key[h.rhs[p]] <= Key[s],
           n # NoCell => /\ n \in OfVar(h, v) /\ h.prev[n] = p
                         /\ Key[s] <= Key[h.rhs[n]],
           \A z \in OfVar(h, v) : h.rhs[z] # s
    PROVE  Tidy(Insert(h, c, v, s, p, n)) /\ Follows(h, Insert(h, c, v, s, p, n))
<1> DEFINE k == Insert(h, c, v, s, p, n)
<1>1. /\ k.alloc = h.alloc \cup {c}
      /\ k.var = [h.var EXCEPT ![c] = v]
      /\ k.rhs = [h.rhs EXCEPT ![c] = s]
      /\ k.prev = [x \in Cells |-> CASE x = c          -> p
                                     [] x # c /\ x = n -> c
                                     [] OTHER          -> h.prev[x]]
      /\ k.next = [x \in Cells |-> CASE x = c          -> n
                                     [] x # c /\ x = p -> c
                                     [] OTHER          -> h.next[x]]
      /\ k.first = [w \in VarIds |-> IF w = v /\ p = NoCell THEN c ELSE h.first[w]]
  BY DEF Insert
<1>2. /\ Threads(h) /\ InOrder(h) /\ NoDuplicates(h) /\ Rising(h)
      /\ NoCell \notin Cells /\ 0 \notin VarIds /\ NoCell \notin VarIds /\ v # 0
  BY NullsAssumption, LooseTypes DEF Tidy, CellOrNull
<1>3. /\ h.alloc \subseteq Cells
      /\ h.var \in [Cells -> VarIds \cup {0}] /\ h.rhs \in [Cells -> Strings]
      /\ h.next \in [Cells -> Cells \cup {NoCell}] /\ h.first \in [VarIds -> Cells \cup {NoCell}]
      /\ h.prev \in [Cells -> Cells \cup {NoCell} \cup VarIds]
  BY DEF LooseHeap, CellOrNull
<1>4. /\ p # NoCell => p \in Cells /\ h.var[p] = v
      /\ n # NoCell => n \in Cells /\ h.var[n] = v
      /\ \A z \in Cells : h.var[z] = v => h.rhs[z] # s
  BY <1>2, <1>3 DEF OfVar, CellOrNull, Threads
<1> HIDE DEF k
<1>5. /\ h.var[c] = 0 /\ h.next[c] = NoCell /\ c # p /\ c # n
      /\ \A x \in Cells : h.next[x] # c
      /\ \A x \in Cells : h.var[x] # 0 => h.prev[x] # c
      /\ \A w \in VarIds : h.first[w] # c
  <2>1. h.var[c] = 0 /\ h.next[c] = NoCell
    BY <1>2 DEF Threads
  <2>2. \A x \in Cells : h.next[x] # c
    BY <1>2, <2>1 DEF Threads
  <2>3. \A x \in Cells : h.var[x] # 0 => h.prev[x] # c
    BY <1>2, <2>1 DEF Threads
  <2>4. \A w \in VarIds : h.first[w] # c
    BY <1>2, <2>1 DEF Threads
  <2> QED  BY <1>2, <1>4, <2>1, <2>2, <2>3, <2>4
<1>6. /\ \A x \in Cells \ {c} : k.var[x] = h.var[x] /\ k.rhs[x] = h.rhs[x]
      /\ k.var[c] = v /\ k.rhs[c] = s /\ k.next[c] = n /\ k.prev[c] = p
  BY <1>1, <1>3
<1>7. \A x \in Cells \ {c} : /\ x # p => k.next[x] = h.next[x]
                             /\ x = p => k.next[x] = c
                             /\ x # n => k.prev[x] = h.prev[x]
                             /\ x = n => k.prev[x] = c
  BY <1>1, <1>3
<1>8. ASSUME NEW pos \in [Cells -> Nat], NEW top \in Nat, Rises(h, pos, top)
      PROVE  \E new \in [Cells -> Nat], max \in Nat :
               /\ Rises(k, new, max)
               /\ \A x, y \in h.alloc : pos[x] <= pos[y] <=> new[x] <= new[y]
  <2> DEFINE place(x) == IF x # c THEN 2 * pos[x] + 2
                         ELSE IF p = NoCell THEN 0 ELSE 2 * pos[p] + 3
             new == [x \in Cells |-> place(x)]
             max == 2 * top + 3
  <2>2. \A x \in Cells : pos[x] \in Nat /\ pos[x] <= top
    BY <1>8 DEF Rises
  <2>3. \A x \in Cells : place(x) \in Nat /\ place(x) <= max
    BY <1>4, <2>2
  <2>4. new \in [Cells -> Nat] /\ max \in Nat /\ \A x \in Cells : new[x] <= max
    BY <2>3
  <2>5. ASSUME NEW x \in Cells, k.next[x] # NoCell PROVE place(x) < place(k.next[x])
    <3>1. CASE x = c
      <4>1. k.next[x] = n /\ n \in Cells /\ n # c
        BY <1>4, <1>5, <1>6, <2>5, <3>1
      <4>2. p # NoCell => pos[p] < pos[n]
        BY <1>4, <1>8, <4>1, <2>5 DEF Rises
      <4> QED  BY <1>4, <2>2, <3>1, <4>1, <4>2
    <3>2. CASE x # c /\ x = p
      BY <1>2, <1>7, <2>2, <3>2
    <3>3. CASE x # c /\ x # p
      <4>1. k.next[x] = h.next[x] /\ h.next[x] \in Cells /\ h.next[x] # c
        BY <1>3, <1>5, <1>7, <2>5, <3>3
      <4>2. pos[x] < pos[h.next[x]]
        BY <1>8, <2>5, <4>1 DEF Rises
      <4> QED  BY <2>2, <3>3, <4>1, <4>2
    <3> QED  BY <3>1, <3>2, <3>3
  <2>6. \A x \in Cells : k.next[x] # NoCell => k.next[x] \in Cells
    BY <1>3, <1>4, <1>6, <1>7
  <2>7. Rises(k, new, max)
    <3> HIDE DEF place, max
    <3> QED  BY <2>4, <2>5, <2>6 DEF Rises
  <2>8. \A x, y \in h.alloc : pos[x] <= pos[y] <=> new[x] <= new[y]
    <3>1. \A x \in h.alloc : x \in Cells /\ x # c /\ new[x] = 2 * pos[x] + 2
      BY <1>3
    <3> HIDE DEF new
    <3> QED  BY <2>2, <3>1
  <2> HIDE DEF new, max
  <2> QED  BY <2>4, <2>7, <2>8
<1>9. InOrder(k)
  <2>1. ASSUME NEW x \in Cells, k.next[x] # NoCell
        PROVE  Key[k.rhs[x]] <= Key[k.rhs[k.next[x]]]
    <3>1. CASE x = c
      BY <1>4, <1>5, <1>6, <2>1, <3>1
    <3>2. CASE x # c /\ x = p
      BY <1>2, <1>6, <1>7, <3>2
    <3>3. CASE x # c /\ x # p
      <4>1. k.next[x] = h.next[x] /\ h.next[x] \in Cells /\ h.next[x] # c
        BY <1>3, <1>5, <1>7, <2>1, <3>3
      <4> QED  BY <1>2, <1>6, <2>1, <3>3, <4>1 DEF InOrder
    <3> QED  BY <3>1, <3>2, <3>3
  <2> QED  BY <2>1 DEF InOrder
<1>10. NoDuplicates(k)
  BY <1>2, <1>4, <1>6 DEF NoDuplicates
<1>11. Threads(k)
  <2>1. \A x \in Cells \ k.alloc : k.var[x] = 0
    BY <1>1, <1>2, <1>6 DEF Threads
  <2>2. ASSUME NEW x \in Cells, k.next[x] # NoCell
        PROVE  k.var[x] # 0 /\ k.var[k.next[x]] = k.var[x] /\ k.prev[k.next[x]] = x
    <3>1. CASE x = c
      BY <1>2, <1>4, <1>5, <1>6, <1>7, <2>2, <3>1
    <3>2. CASE x # c /\ x = p
      BY <1>2, <1>4, <1>6, <1>7, <3>2
    <3>3. CASE x # c /\ x # p
      <4>1. k.next[x] = h.next[x] /\ h.next[x] \in Cells /\ h.next[x] # c
        BY <1>3, <1>5, <1>7, <2>2, <3>3
      <4>2. h.var[x] # 0 /\ h.var[h.next[x]] = h.var[x] /\ h.prev[h.next[x]] = x
        BY <1>2, <2>2, <4>1 DEF Threads
      <4>3. h.next[x] # n
        <5> SUFFICES ASSUME h.next[x] = n PROVE FALSE
          OBVIOUS
        <5>1. p = x
          BY <1>2, <4>1, <4>2
        <5> QED  BY <3>3, <5>1
      <4> QED  BY <1>6, <1>7, <3>3, <4>1, <4>2, <4>3
    <3> QED  BY <3>1, <3>2, <3>3
  <2>3. ASSUME NEW x \in Cells, k.var[x] # 0
        PROVE  \/ k.prev[x] = NoCell /\ k.first[k.var[x]] = x
               \/ /\ k.prev[x] \in Cells
                  /\ k.var[k.prev[x]] = k.var[x]
                  /\ k.next[k.prev[x]] = x
    <3>1. CASE x = c
      BY <1>1, <1>2, <1>4, <1>5, <1>6, <1>7, <3>1
    <3>2. CASE x # c /\ x = n
      BY <1>2, <1>4, <1>6, <1>7, <3>2
    <3>3. CASE x # c /\ x # n
      <4>1. k.prev[x] = h.prev[x] /\ k.var[x] = h.var[x] /\ h.var[x] # 0 /\ h.var[x] \in VarIds
        BY <1>3, <1>6, <1>7, <2>3, <3>3
      <4>2. CASE h.prev[x] = NoCell /\ h.first[h.var[x]] = x
        <5>1. ~(h.var[x] = v /\ p = NoCell)
          BY <3>3, <4>2
        <5>2. k.first[h.var[x]] = x
          BY <1>1, <4>1, <4>2, <5>1
        <5> QED  BY <4>1, <4>2, <5>2
      <4>3. CASE h.prev[x] \in Cells /\ h.var[h.prev[x]] = h.var[x] /\ h.next[h.prev[x]] = x
        <5>1. h.prev[x] # c
          BY <1>5, <4>1
        <5>2. h.prev[x] # p
          BY <1>2, <3>3, <4>3
        <5> QED  BY <1>6, <1>7, <4>1, <4>3, <5>1, <5>2
      <4> QED  BY <1>2, <4>1, <4>2, <4>3 DEF Threads
    <3> QED  BY <3>1, <3>2, <3>3
  <2>4. ASSUME NEW w \in VarIds, k.first[w] # NoCell
        PROVE  k.var[k.first[w]] = w /\ k.prev[k.first[w]] = NoCell
    <3>1. CASE w = v /\ p = NoCell
      BY <1>1, <1>6, <3>1
    <3>2. CASE ~(w = v /\ p = NoCell)
      <4> DEFINE x == h.first[w]
      <4>1. k.first[w] = x /\ x \in Cells /\ x # c
        BY <1>1, <1>3, <1>5, <2>4, <3>2
      <4>2. h.var[x] = w /\ h.prev[x] = NoCell
        BY <1>2, <2>4, <4>1 DEF Threads
      <4>3. x # n
        BY <1>2, <1>4, <3>2, <4>1, <4>2
      <4> HIDE DEF x
      <4> QED  BY <1>6, <1>7, <4>1, <4>2, <4>3
    <3> QED  BY <3>1, <3>2
  <2> QED  BY <2>1, <2>2, <2>3, <2>4 DEF Threads
<1>12. Rising(k)
  <2>1. PICK pos \in [Cells -> Nat], top \in Nat : Rises(h, pos, top)
    BY <1>2 DEF Rising
  <2> QED  BY <1>8, <2>1 DEF Rising
<1>13. Follows(h, k)
  <2>1. \A x \in h.alloc : h.var[x] = 0 => k.prev[x] = h.prev[x]
    <3>1. \A x \in h.alloc : x \in Cells /\ x # c /\ (h.var[x] = 0 => x # n)
      BY <1>2, <1>3, <1>4, NullsAssumption DEF CellOrNull
    <3> QED  BY <1>7, <3>1
  <2> QED  BY <1>8, <2>1 DEF Follows
<1> QED  BY <1>9, <1>10, <1>11, <1>12, <1>13 DEF Tidy, k

\* What add_production does with a new right hand side: the heap k has the new
\* production, in its place, and all the others as they were.
Grown(k, c, v, s, d) ==
    /\ k \in LooseHeap /\ Tidy(k) /\ Follows(heap, k)
    /\ Live(k) = Live(heap) \cup {c} /\ Live(heap') = Live(k)
    /\ k.var[c] = v /\ k.rhs[c] = s /\ k.alloc = heap.alloc \cup {c}
    /\ \A x \in heap.alloc : k.var[x] = heap.var[x] /\ k.rhs[x] = heap.rhs[x]
    /\ Added(k, c, v, d) /\ Ages(k, heap')

LEMMA InsertGrown ==
    ASSUME IInv, Tidy(heap), NEW v \in VarIds, NEW s \in Strings,
           NEW d \in Handles \cup {NoHandle},
           NEW c \in Cells \ heap.alloc, NEW p \in CellOrNull, NEW n \in CellOrNull,
           p = NoCell => heap.first[v] = n,
           p # NoCell => /\ p \in OfVar(heap, v) /\ heap.next[p] = n
                         /\ Key[heap.rhs[p]] <= Key[s],
           n # NoCell => /\ n \in OfVar(heap, v) /\ heap.prev[n] = p
                         /\ Key[s] <= Key[heap.rhs[n]],
           \A z \in OfVar(heap, v) : heap.rhs[z] # s,
           Added(Insert(heap, c, v, s, p, n), c, v, d)
    PROVE  \E k : Grown(k, c, v, s, d)
<1> DEFINE k == Insert(heap, c, v, s, p, n)
<1>1. heap \in LooseHeap /\ Good(heap, Count(ptr)) /\ Count(ptr) \in [Cells -> Nat]
  BY InvTypes, CountType DEF IInv, Held
<1>2. Good(k, Count(ptr)) /\ Live(k) = Live(heap) \cup {c}
  BY <1>1, InsertGood
<1>3. /\ k \in LooseHeap
      /\ \A x \in heap.alloc : k.var[x] = heap.var[x] /\ k.rhs[x] = heap.rhs[x]
  BY <1>1, InsertTakesFree
<1>4. Tidy(k) /\ Follows(heap, k)
  BY <1>1, InsertTidy
<1>5. k.var[c] = v /\ k.rhs[c] = s /\ k.alloc = heap.alloc \cup {c} /\ k.del = heap.del
  BY <1>1 DEF Insert, LooseHeap
<1>6. Added(k, c, v, d)
  OBVIOUS
<1> HIDE DEF k
<1>7. Live(heap') = Live(k)
  BY <1>2, <1>6, AddedHeld
<1>8. Ages(k, heap')
  BY <1>3, <1>6, AddedAges
<1> QED  BY <1>2, <1>3, <1>4, <1>5, <1>6, <1>7, <1>8 DEF Grown

LEMMA NewGrown ==
    ASSUME IInv, Tidy(heap), NEW v \in VarIds, NEW s \in Strings,
           NEW d \in Handles \cup {NoHandle}, AddNew(v, s, d)
    PROVE  \E c \in Cells \ heap.alloc : \E k : Grown(k, c, v, s, d)
<1>1. heap \in LooseHeap /\ NoCell \in CellOrNull /\ NoCell \notin Cells
  BY InvTypes, LooseTypes DEF CellOrNull
<1>2. PICK pos \in [Cells -> Nat], top \in Nat : Rises(heap, pos, top)
  BY DEF Tidy, Rising
<1> DEFINE q == Spot(heap, v, s)
<1>3. /\ q \in OfVar(heap, v) \cup {NoCell}
      /\ q # NoCell => Key[s] < Key[heap.rhs[q]] \/ heap.rhs[q] = s
      /\ \A z \in OfVar(heap, v) :
           q = NoCell \/ pos[z] < pos[q] => Key[heap.rhs[z]] <= Key[s] /\ heap.rhs[z] # s
  BY <1>1, <1>2, SpotFinds
<1>4. PICK c \in Cells \ heap.alloc :
        \/ /\ heap.first[v] = NoCell
           /\ Added(Insert(heap, c, v, s, NoCell, NoCell), c, v, d)
        \/ /\ q \in OfVar(heap, v) /\ heap.rhs[q] # s
           /\ Added(Insert(heap, c, v, s, heap.prev[q], q), c, v, d)
        \/ /\ q = NoCell
           /\ \E p \in OfVar(heap, v) :
                heap.next[p] = NoCell /\ Added(Insert(heap, c, v, s, p, NoCell), c, v, d)
  BY DEF AddNew
<1> HIDE DEF q
<1>5. CASE /\ heap.first[v] = NoCell
           /\ Added(Insert(heap, c, v, s, NoCell, NoCell), c, v, d)
  <2>1. OfVar(heap, v) = {}
    <3>1. \A z \in OfVar(heap, v) : heap.first[v] \in OfVar(heap, v)
      BY <1>1, <1>2, HeadFirst
    <3>2. NoCell \notin OfVar(heap, v)
      BY <1>1, LooseTypes DEF OfVar
    <3> QED  BY <1>5, <3>1, <3>2
  <2>2. \E k : Grown(k, c, v, s, d)
    BY <1>1, <1>5, <2>1, InsertGrown
  <2> QED  BY <2>2
<1>6. CASE /\ q \in OfVar(heap, v) /\ heap.rhs[q] # s
           /\ Added(Insert(heap, c, v, s, heap.prev[q], q), c, v, d)
  <2> DEFINE p == heap.prev[q]
  <2>1. q \in Cells /\ heap.var[q] = v /\ v # 0 /\ q \in CellOrNull
    BY <1>1, <1>6, LooseTypes DEF OfVar, CellOrNull
  <2>2. Key[s] < Key[heap.rhs[q]] /\ Key[s] \in Int /\ Key[heap.rhs[q]] \in Int
    BY <1>1, <1>3, <1>6, <2>1, KeyAssumption, LooseTypes
  <2>3. \/ p = NoCell /\ heap.first[v] = q
        \/ p \in Cells /\ heap.var[p] = v /\ heap.next[p] = q
    BY <2>1 DEF Tidy, Threads
  <2>4. p # NoCell => p \in OfVar(heap, v) /\ heap.next[p] = q /\ Key[heap.rhs[p]] <= Key[s]
    <3>1. SUFFICES ASSUME p # NoCell
                   PROVE  p \in OfVar(heap, v) /\ heap.next[p] = q /\ Key[heap.rhs[p]] <= Key[s]
      OBVIOUS
    <3>2. p \in Cells /\ heap.var[p] = v /\ heap.next[p] = q
      BY <2>3, <3>1
    <3>3. p \in OfVar(heap, v)
      BY <2>1, <3>2 DEF Tidy, Threads, OfVar
    <3>4. pos[p] < pos[q]
      BY <1>1, <1>2, <2>1, <3>2 DEF Rises
    <3> QED  BY <1>3, <3>2, <3>3, <3>4
  <2>5. ASSUME NEW z \in OfVar(heap, v) PROVE heap.rhs[z] # s
    <3>1. z \in Cells /\ pos[z] \in Nat /\ pos[q] \in Nat /\ Key[heap.rhs[z]] \in Int
      BY <1>1, <2>1, KeyAssumption, LooseTypes DEF OfVar
    <3>2. CASE pos[z] < pos[q]
      BY <1>3, <3>2
    <3>3. CASE pos[q] <= pos[z]
      <4>1. Key[heap.rhs[q]] <= Key[heap.rhs[z]]
        BY <1>1, <1>2, <1>6, <3>3, KeysClimb
      <4> QED  BY <2>2, <3>1, <4>1
    <3> QED  BY <3>1, <3>2, <3>3
  <2>6. p \in CellOrNull
    BY <2>3 DEF CellOrNull
  <2>7. /\ p = NoCell => heap.first[v] = q
        /\ q \in OfVar(heap, v) /\ heap.prev[q] = p /\ Key[s] <= Key[heap.rhs[q]]
        /\ Added(Insert(heap, c, v, s, p, q), c, v, d)
    BY <1>6, <2>1, <2>2, <2>3, LooseTypes, <1>1
  <2> HIDE DEF p
  <2>8. \E k : Grown(k, c, v, s, d)
    BY <2>1, <2>4, <2>5, <2>6, <2>7, InsertGrown
  <2> QED  BY <2>8
<1>7. CASE /\ q = NoCell
           /\ \E p \in OfVar(heap, v) :
                heap.next[p] = NoCell /\ Added(Insert(heap, c, v, s, p, NoCell), c, v, d)
  <2>1. PICK p \in OfVar(heap, v) :
          heap.next[p] = NoCell /\ Added(Insert(heap, c, v, s, p, NoCell), c, v, d)
    BY <1>7
  <2>2. p \in CellOrNull /\ p # NoCell
    BY <1>1, LooseTypes DEF OfVar, CellOrNull
  <2>3. Key[heap.rhs[p]] <= Key[s] /\ \A z \in OfVar(heap, v) : heap.rhs[z] # s
    BY <1>3, <1>7
  <2>4. \E k : Grown(k, c, v, s, d)
    BY <1>1, <2>1, <2>2, <2>3, InsertGrown
  <2> QED  BY <2>4
<1> QED  BY <1>4, <1>5, <1>6, <1>7

\* Tidiness is an invariant.
LEMMA TidyInit == Init => Tidy(heap)
<1> SUFFICES ASSUME Init PROVE Tidy(heap)
  OBVIOUS
<1>1. heap = EmptyHeap
  BY DEF Init
<1>2. /\ heap.alloc = {} /\ \A c \in Cells : heap.var[c] = 0 /\ heap.next[c] = NoCell
      /\ \A v \in VarIds : heap.first[v] = NoCell
  BY <1>1 DEF EmptyHeap
<1>3. Threads(heap) /\ InOrder(heap) /\ NoDuplicates(heap)
  BY <1>2 DEF Threads, InOrder, NoDuplicates
<1>4. Rises(heap, [c \in Cells |-> 0], 0)
  BY <1>2 DEF Rises
<1>5. Rising(heap)
  <2> DEFINE pos == [c \in Cells |-> 0]
  <2>1. pos \in [Cells -> Nat] /\ 0 \in Nat
    OBVIOUS
  <2> HIDE DEF pos
  <2> QED  BY <1>4, <2>1 DEF Rising, pos
<1> QED  BY <1>3, <1>5 DEF Tidy

LEMMA TidyNext == IInv /\ Tidy(heap) /\ [Next]_vars => Tidy(heap')
<1> SUFFICES ASSUME IInv, Tidy(heap), [Next]_vars PROVE Tidy(heap')
  OBVIOUS
<1>1. ASSUME NEW v \in VarIds, NEW s \in Strings, NEW d \in Handles \cup {NoHandle},
             AddNew(v, s, d)
      PROVE  Tidy(heap')
  <2>1. PICK c \in Cells \ heap.alloc : \E k : Grown(k, c, v, s, d)
    BY <1>1, NewGrown
  <2>2. PICK k : Grown(k, c, v, s, d)
    BY <2>1
  <2> QED  BY <2>2 DEF Grown, Ages, Tidier
<1>2. CASE ~ \E v \in VarIds, s \in Strings, d \in Handles \cup {NoHandle} :
               AddProduction(v, s, d) /\ AddNew(v, s, d)
  BY <1>2, NextFades DEF Fades, Tidier
<1> QED  BY <1>1, <1>2

-----------------------------------------------------------------------------
(* Lists of variables that exist.                                            *)

\* The variable of a production is a variable of the grammar.
Known == \A c \in Cells : heap.var[c] # 0 => heap.var[c] \in variable_map

LEMMA OrphanClears ==
    ASSUME NEW h \in LooseHeap, Tidy(h), NEW V \in SUBSET VarIds, NEW tag, NEW mark,
           NEW c \in Cells
    PROVE  h.var[c] \in V => Orphan(h, V, tag, mark).var[c] = 0
<1> DEFINE C == {x \in h.alloc : h.var[x] \in V}
<1>1. Orphan(h, V, tag, mark).var = [x \in Cells |-> IF x \in C THEN 0 ELSE h.var[x]]
  BY DEF Orphan
<1>2. c \in C <=> h.var[c] \in V
  BY LooseTypes DEF Tidy, Threads
<1> QED  BY <1>1, <1>2

LEMMA KnownNext == IInv /\ Tidy(heap) /\ Known /\ [Next]_vars => Known'
<1> SUFFICES ASSUME IInv, Tidy(heap), Known, [Next]_vars, NEW c \in Cells, heap'.var[c] # 0
             PROVE  heap'.var[c] \in variable_map'
  BY DEF Known
<1>1. heap \in LooseHeap /\ variable_map \subseteq VarIds
  BY InvTypes DEF IInv, StoreTypes
<1>2. Tidy(heap')
  BY TidyNext
<1>3. ASSUME NEW v \in VarIds, NEW s \in Strings, NEW d \in Handles \cup {NoHandle},
             AddProduction(v, s, d), AddNew(v, s, d)
      PROVE  heap'.var[c] \in variable_map'
  <2>1. PICK e \in Cells \ heap.alloc : \E k : Grown(k, e, v, s, d)
    BY <1>3, NewGrown
  <2>2. PICK k : Grown(k, e, v, s, d)
    BY <2>1
  <2>3. c \in heap'.alloc /\ heap'.alloc \subseteq heap.alloc \cup {e}
    BY <1>2, <2>2 DEF Tidy, Threads, Grown, Ages
  <2>4. heap'.var[c] = k.var[c]
    BY <2>2, <2>3 DEF Grown, Ages
  <2>5. k.var[c] \in {heap.var[c], v}
    BY <2>2, <2>3 DEF Grown
  <2>6. variable_map' = variable_map /\ v \in variable_map
    BY <1>3 DEF AddProduction, varvars
  <2> QED  BY <2>4, <2>5, <2>6 DEF Known
<1>4. CASE ~ \E v \in VarIds, s \in Strings, d \in Handles \cup {NoHandle} :
               AddProduction(v, s, d) /\ AddNew(v, s, d)
  <2>1. heap'.var[c] = heap.var[c] /\ heap.var[c] \in variable_map
    <3>1. Fades(heap, heap')
      BY <1>4, NextFades
    <3>2. c \in heap'.alloc
      BY <1>2 DEF Tidy, Threads
    <3> QED  BY <3>1, <3>2 DEF Fades, Known
  <2>2. ASSUME NEW v \in VarIds, UnsafeRemoveVariable(v)
        PROVE  heap'.var[c] \in variable_map'
    <3>1. heap' = Orphan(heap, {v}, v, TRUE) /\ variable_map' = variable_map \ {v}
      BY <2>2 DEF UnsafeRemoveVariable
    <3>2. heap.var[c] \in {v} => Orphan(heap, {v}, v, TRUE).var[c] = 0
      <4>1. {v} \in SUBSET VarIds
        OBVIOUS
      <4> QED  BY <1>1, <4>1, OrphanClears
    <3>3. heap.var[c] # v
      BY <3>1, <3>2
    <3> QED  BY <2>1, <3>1, <3>3
  <2>3. CASE Destroy
    <3>1. heap' = Orphan(heap, VarIds, NoCell, FALSE)
      BY <2>3 DEF Destroy
    <3>2. heap.var[c] \in VarIds => Orphan(heap, VarIds, NoCell, FALSE).var[c] = 0
      BY <1>1, OrphanClears
    <3> QED  BY <1>1, <2>1, <3>1, <3>2
  <2>4. CASE variable_map \subseteq variable_map'
    BY <2>1, <2>4
  <2>5. \/ variable_map \subseteq variable_map'
        \/ \E v \in VarIds : UnsafeRemoveVariable(v)
        \/ Destroy
    BY DEF Next, vars, varvars, AddVariable, SetStartVariable, AddProduction, RemoveProduction,
           CopyHandle, ClearHandle, Rewind, MatchNext, Asked, FreeGenerator
  <2> QED  BY <2>2, <2>3, <2>4, <2>5
<1> QED  BY <1>3, <1>4

\* The list of a variable goes through all its productions.
LEMMA ChainCovers ==
    ASSUME heap \in LooseHeap, Tidy(heap), NEW v \in VarIds
    PROVE  ChainOf(v) = OfVar(heap, v)
<1> DEFINE D == OfVar(heap, v)
           Eq(f) == f = [x \in CellOrNull |->
                           IF x = NoCell THEN {} ELSE {x} \cup f[heap.next[x]]]
           after == CHOOSE f : Eq(f)
           base == [x \in Cells \cup {NoCell} |-> {}]
           g    == [x \in Cells |-> [S \in SUBSET Cells |-> {x} \cup S]]
<1>1. PICK pos \in [Cells -> Nat], top \in Nat : Rises(heap, pos, top)
  BY DEF Tidy, Rising
<1>2. /\ heap.next \in [Cells -> Cells \cup {NoCell}] /\ NoCell \notin Cells
      /\ D \subseteq Cells
  BY LooseTypes DEF CellOrNull, OfVar
<1>3. \E f : Eq(f)
  <2>1. Walkable(Cells, NoCell, heap.next, {}, pos, top)
    BY <1>1, <1>2 DEF Rises, Walkable
  <2>2. /\ base \in [Cells \cup {NoCell} -> SUBSET Cells]
        /\ g \in [Cells -> [SUBSET Cells -> SUBSET Cells]]
    OBVIOUS
  <2> HIDE DEF base, g
  <2>3. PICK f \in [Cells \cup {NoCell} -> SUBSET Cells] :
          Walk(Cells, NoCell, heap.next, {}, base, g, f)
    BY <2>1, <2>2, WalkExists
  <2>4. \A x \in Cells \cup {NoCell} :
           f[x] = IF x = NoCell THEN {} ELSE {x} \cup f[heap.next[x]]
    <3>1. \A x \in Cells \cup {NoCell} :
             f[x] = IF x \in {} \cup {NoCell} THEN base[x] ELSE g[x][f[heap.next[x]]]
      BY <2>3 DEF Walk
    <3>2. \A x \in Cells : f[heap.next[x]] \in SUBSET Cells
      BY <1>2
    <3>3. \A x \in Cells : g[x][f[heap.next[x]]] = {x} \cup f[heap.next[x]]
      BY <3>2 DEF g
    <3>4. base[NoCell] = {}
      BY DEF base
    <3> QED  BY <3>1, <3>3, <3>4
  <2>5. f = [x \in Cells \cup {NoCell} |-> f[x]]
    OBVIOUS
  <2>6. Eq(f)
    BY <2>4, <2>5 DEF CellOrNull
  <2> QED  BY <2>6
<1>4. Eq(after)
  <2> HIDE DEF Eq
  <2> QED  BY <1>3
<1>5. Gathers(D, NoCell, heap.next, after)
  <2> HIDE DEF after
  <2> QED  BY <1>2, <1>4 DEF CellOrNull, Gathers
<1>6. /\ Chained(D, NoCell, heap.next, heap.first[v])
      /\ Climbs(D, NoCell, heap.next, pos, top)
  BY <1>1, ListChained, ListClimbs DEF Tidy
<1>7. ChainOf(v) = after[heap.first[v]]
  BY DEF ChainOf
<1> HIDE DEF D, after
<1>8. after[heap.first[v]] = D
  BY <1>5, <1>6, WalkCovers
<1> QED  BY <1>7, <1>8 DEF D

LEMMA SortedLists ==
    ASSUME IInv, Tidy(heap), Known
    PROVE  ListsSorted
<1>1. heap \in LooseHeap /\ heap.alloc \subseteq Cells /\ variable_map \subseteq VarIds /\ 0 \notin VarIds
  BY InvTypes, LooseTypes DEF IInv, StoreTypes
<1>2. \A v \in variable_map : ChainOf(v) = OfVar(heap, v)
  BY <1>1, ChainCovers
<1>3. \A c \in heap.alloc : heap.var[c] # 0 => heap.var[c] \in variable_map
  BY <1>1 DEF Known
<1>4. \A c \in heap.alloc : heap.next[c] # NoCell =>
         Key[heap.rhs[c]] <= Key[heap.rhs[heap.next[c]]]
  BY <1>1 DEF Tidy, InOrder
<1>5. \A v \in variable_map : \A c, e \in OfVar(heap, v) :
         heap.rhs[c] = heap.rhs[e] => c = e
  BY <1>1 DEF Tidy, NoDuplicates, OfVar
<1> QED  BY <1>2, <1>3, <1>4, <1>5 DEF ListsSorted

-----------------------------------------------------------------------------
(* The variables.                                                            *)

Unused == {v \in VarIds : v < next_variable_id} \ variable_map

\* The variables are linked in the order of their ids; those that were removed
\* are a list of which unused_variables is the head; those that were never used
\* are not linked.
VarsLinked ==
    /\ \A v \in variable_map : /\ v < next_variable_id
                               /\ var_next[v] = VarAfter(v) /\ var_prev[v] = VarBefore(v)
    /\ \A v \in VarIds : v >= next_variable_id => var_next[v] = 0
    /\ Chained(Unused, 0, var_next, unused_variables)
    /\ \E age \in [VarIds -> Nat], top \in Nat : Climbs(Unused, 0, var_next, age, top)

\* n is the least of the ids M above id, or 0 when there is none; the greatest
\* below it.
IsAfter(M, id, n) ==
    \/ n = 0 /\ \A w \in M : w <= id
    \/ n \in M /\ n > id /\ \A w \in M : w > id => n <= w

IsBefore(M, id, n) ==
    \/ n = 0 /\ \A w \in M : w >= id
    \/ n \in M /\ n < id /\ \A w \in M : w < id => w <= n

LEMMA Ids == /\ VarIds \subseteq Nat /\ 0 \notin VarIds /\ MaxVars \in Nat
             /\ \A v \in VarIds : v <= MaxVars
BY SetsAssumption DEF VarIds

LEMMA LeastVarIs ==
    ASSUME NEW S \in SUBSET VarIds, S # {}
    PROVE  LeastVar(S) \in S /\ \A w \in S : LeastVar(S) <= w
<1>1. \E v \in S : \A w \in S : v <= w
  <2>1. S \in SUBSET Nat
    BY Ids
  <2> QED  BY <2>1, LeastExists
<1> QED  BY <1>1 DEF LeastVar

LEMMA GreatestVarIs ==
    ASSUME NEW S \in SUBSET VarIds, S # {}
    PROVE  GreatestVar(S) \in S /\ \A w \in S : GreatestVar(S) >= w
<1>1. \E v \in S : \A w \in S : v >= w
  <2>1. S \in SUBSET Nat /\ MaxVars \in Nat /\ \A n \in S : n <= MaxVars
    BY Ids
  <2>2. PICK v \in S : \A w \in S : w <= v
    BY <2>1, GreatestExists
  <2> QED  BY <2>1, <2>2
<1> QED  BY <1>1 DEF GreatestVar

\* What find_variable finds, now and after a step.
LEMMA AfterIs ==
    ASSUME NEW id \in VarIds, NEW n
    PROVE  /\ variable_map \subseteq VarIds => (n = VarAfter(id) <=> IsAfter(variable_map, id, n))
           /\ variable_map' \subseteq VarIds =>
                (n = VarAfter(id)' <=> IsAfter(variable_map', id, n))
<1>1. ASSUME NEW M \in SUBSET VarIds
      PROVE  n = (LET S == {v \in M : v > id} IN IF S = {} THEN 0 ELSE LeastVar(S))
               <=> IsAfter(M, id, n)
  <2> DEFINE S == {v \in M : v > id}
  <2>1. \A w \in M : w \in Nat /\ w # 0
    BY Ids
  <2>2. id \in Nat
    BY Ids
  <2>3. CASE S = {}
    <3>1. \A w \in M : w <= id
      BY <2>1, <2>2, <2>3
    <3> QED  BY <2>1, <2>2, <2>3, <3>1 DEF IsAfter
  <2>4. CASE S # {}
    <3>1. LeastVar(S) \in S /\ \A w \in S : LeastVar(S) <= w
      <4>1. S \in SUBSET VarIds
        OBVIOUS
      <4> HIDE DEF S
      <4> QED  BY <2>4, <4>1, LeastVarIs
    <3> DEFINE m == LeastVar(S)
    <3>2. m \in M /\ m > id /\ \A w \in M : w > id => m <= w
      BY <3>1
    <3> HIDE DEF m
    <3>3. m \in Nat /\ ~(\A w \in M : w <= id)
      BY <2>1, <2>2, <3>2
    <3>4. IsAfter(M, id, m)
      BY <3>2 DEF IsAfter
    <3>5. ASSUME IsAfter(M, id, n) PROVE n = m
      <4>1. n \in M /\ n > id /\ \A w \in M : w > id => n <= w
        BY <3>3, <3>5 DEF IsAfter
      <4>2. n \in Nat /\ n <= m /\ m <= n
        BY <2>1, <3>2, <4>1
      <4> QED  BY <3>3, <4>2
    <3> QED  BY <2>4, <3>4, <3>5 DEF m
  <2> QED  BY <2>3, <2>4
<1> QED  BY <1>1 DEF VarAfter

LEMMA BeforeIs ==
    ASSUME NEW id \in VarIds, NEW n
    PROVE  /\ variable_map \subseteq VarIds => (n = VarBefore(id) <=> IsBefore(variable_map, id, n))
           /\ variable_map' \subseteq VarIds =>
                (n = VarBefore(id)' <=> IsBefore(variable_map', id, n))
<1>1. ASSUME NEW M \in SUBSET VarIds
      PROVE  n = (LET S == {v \in M : v < id} IN IF S = {} THEN 0 ELSE GreatestVar(S))
               <=> IsBefore(M, id, n)
  <2> DEFINE S == {v \in M : v < id}
  <2>1. \A w \in M : w \in Nat /\ w # 0
    BY Ids
  <2>2. id \in Nat
    BY Ids
  <2>3. CASE S = {}
    <3>1. \A w \in M : w >= id
      BY <2>1, <2>2, <2>3
    <3> QED  BY <2>1, <2>2, <2>3, <3>1 DEF IsBefore
  <2>4. CASE S # {}
    <3>1. GreatestVar(S) \in S /\ \A w \in S : GreatestVar(S) >= w
      <4>1. S \in SUBSET VarIds
        OBVIOUS
      <4> HIDE DEF S
      <4> QED  BY <2>4, <4>1, GreatestVarIs
    <3> DEFINE m == GreatestVar(S)
    <3>2. m \in M /\ m < id /\ \A w \in M : w < id => w <= m
      BY <2>1, <3>1
    <3> HIDE DEF m
    <3>3. m \in Nat /\ ~(\A w \in M : w >= id)
      BY <2>1, <2>2, <3>2
    <3>4. IsBefore(M, id, m)
      BY <3>2 DEF IsBefore
    <3>5. ASSUME IsBefore(M, id, n) PROVE n = m
      <4>1. n \in M /\ n < id /\ \A w \in M : w < id => w <= n
        BY <3>3, <3>5 DEF IsBefore
      <4>2. n \in Nat /\ m <= n /\ n <= m
        BY <2>1, <3>2, <4>1
      <4> QED  BY <3>3, <4>2
    <3> QED  BY <2>4, <3>4, <3>5 DEF m
  <2> QED  BY <2>3, <2>4
<1> QED  BY <1>1 DEF VarBefore

LEMMA VarsInit == Init => VarsLinked
<1> SUFFICES ASSUME Init PROVE VarsLinked
  OBVIOUS
<1>1. /\ variable_map = {} /\ next_variable_id = 1 /\ unused_variables = 0
      /\ var_next = [v \in VarIds |-> 0]
  BY DEF Init
<1>2. Unused = {}
  BY <1>1, SetsAssumption DEF Unused, VarIds
<1>3. Chained(Unused, 0, var_next, unused_variables)
  BY <1>1, <1>2 DEF Chained
<1>4. \E age \in [VarIds -> Nat], top \in Nat : Climbs(Unused, 0, var_next, age, top)
  <2>1. [v \in VarIds |-> 0] \in [VarIds -> Nat]
    OBVIOUS
  <2> QED  BY <1>2, <2>1 DEF Climbs
<1> QED  BY <1>1, <1>3, <1>4 DEF VarsLinked

\* A variable id that is not in use comes between its neighbours.
LEMMA LinkOrder ==
    ASSUME variable_map \subseteq VarIds, NEW id \in VarIds \ variable_map,
           var_next \in [VarIds -> VarIds \cup {0}], var_prev \in [VarIds -> VarIds \cup {0}],
           variable_map' = variable_map \cup {id}, LinkVariable(id),
           \A v \in variable_map : var_next[v] = VarAfter(v) /\ var_prev[v] = VarBefore(v)
    PROVE  \A v \in variable_map' : var_next'[v] = VarAfter(v)' /\ var_prev'[v] = VarBefore(v)'
<1> DEFINE M == variable_map
           p == VarBefore(id)
           n == VarAfter(id)
<1>1. \A v \in M \cup {id} : v \in Nat /\ v # 0
  BY Ids
<1>2. IsBefore(M, id, p) /\ IsAfter(M, id, n)
  BY AfterIs, BeforeIs
<1>3. \A v \in M : IsAfter(M, v, var_next[v]) /\ IsBefore(M, v, var_prev[v])
  BY AfterIs, BeforeIs
<1>4. /\ var_next' = [v \in VarIds |-> CASE v = id          -> n
                                         [] v # id /\ v = p -> id
                                         [] OTHER           -> var_next[v]]
      /\ var_prev' = [v \in VarIds |-> CASE v = id          -> p
                                         [] v # id /\ v = n -> id
                                         [] OTHER           -> var_prev[v]]
  BY DEF LinkVariable
<1>5. p # id /\ n # id
  BY <1>1, <1>2 DEF IsAfter, IsBefore
<1> HIDE DEF p, n
<1>6. /\ var_next'[id] = n /\ var_prev'[id] = p
      /\ \A v \in M : /\ v = p => var_next'[v] = id
                      /\ v # p => var_next'[v] = var_next[v]
                      /\ v = n => var_prev'[v] = id
                      /\ v # n => var_prev'[v] = var_prev[v]
  BY <1>4
<1> SUFFICES ASSUME NEW v \in M \cup {id}
             PROVE  /\ IsAfter(M \cup {id}, v, var_next'[v])
                    /\ IsBefore(M \cup {id}, v, var_prev'[v])
  BY SMTT(40), AfterIs, BeforeIs
<1> HIDE DEF M
<1>7. CASE v = id
  BY <1>1, <1>2, <1>6, <1>7 DEF IsAfter, IsBefore
<1>8. ASSUME v # id PROVE IsAfter(M \cup {id}, v, var_next'[v])
  <2>1. v \in M /\ v \in Nat /\ id \in Nat
    BY <1>1, <1>8
  <2>2. CASE v = p
    BY <1>1, <1>2, <1>6, <2>1, <2>2 DEF IsAfter, IsBefore
  <2>3. CASE v # p /\ v < id
    <3>1. p \in M /\ p < id /\ v < p
      <4>1. ~ \A w \in M : w >= id
        BY <2>1, <2>3
      <4>2. p \in M /\ p < id /\ v <= p
        BY <1>2, <2>1, <2>3, <4>1 DEF IsBefore
      <4> QED  BY <1>1, <2>1, <2>3, <4>2
    <3>2. var_next'[v] = var_next[v] /\ var_next[v] \in M /\ var_next[v] <= p /\ var_next[v] > v
      BY <1>1, <1>3, <1>6, <2>1, <2>3, <3>1 DEF IsAfter
    <3>3. var_next[v] <= id
      BY <1>1, <3>1, <3>2
    <3>4. \A w \in M : w > v => var_next[v] <= w
      BY <1>1, <1>3, <2>1, <3>2 DEF IsAfter
    <3> QED  BY <3>2, <3>3, <3>4 DEF IsAfter
  <2>4. CASE v # p /\ id < v
    <3>1. var_next'[v] = var_next[v] /\ IsAfter(M, v, var_next[v])
      BY <1>3, <1>6, <2>1, <2>4
    <3> QED  BY <1>1, <2>1, <2>4, <3>1 DEF IsAfter
  <2> QED  BY <1>8, <2>1, <2>2, <2>3, <2>4
<1>9. ASSUME v # id PROVE IsBefore(M \cup {id}, v, var_prev'[v])
  <2>1. v \in M /\ v \in Nat /\ id \in Nat
    BY <1>1, <1>9
  <2>2. CASE v = n
    BY <1>1, <1>2, <1>6, <2>1, <2>2 DEF IsAfter, IsBefore
  <2>3. CASE v # n /\ id < v
    <3>1. n \in M /\ id < n /\ n < v
      <4>1. ~ \A w \in M : w <= id
        BY <2>1, <2>3
      <4>2. n \in M /\ n > id /\ n <= v
        BY <1>2, <2>1, <2>3, <4>1 DEF IsAfter
      <4> QED  BY <1>1, <2>1, <2>3, <4>2
    <3>2. var_prev'[v] = var_prev[v] /\ var_prev[v] \in M /\ n <= var_prev[v] /\ var_prev[v] < v
      BY <1>1, <1>3, <1>6, <2>1, <2>3, <3>1 DEF IsBefore
    <3>3. id <= var_prev[v]
      BY <1>1, <3>1, <3>2
    <3>4. \A w \in M : w < v => w <= var_prev[v]
      BY <1>1, <1>3, <2>1, <3>2 DEF IsBefore
    <3> QED  BY <3>2, <3>3, <3>4 DEF IsBefore
  <2>4. CASE v # n /\ v < id
    <3>1. var_prev'[v] = var_prev[v] /\ IsBefore(M, v, var_prev[v])
      BY <1>3, <1>6, <2>1, <2>4
    <3> QED  BY <1>1, <2>1, <2>4, <3>1 DEF IsBefore
  <2> QED  BY <1>9, <2>1, <2>2, <2>3, <2>4
<1> QED  BY <1>7, <1>8, <1>9

\* Taking a variable out of the order.
LEMMA UnlinkOrder ==
    ASSUME variable_map \subseteq VarIds, NEW id \in variable_map,
           var_next \in [VarIds -> VarIds \cup {0}], var_prev \in [VarIds -> VarIds \cup {0}],
           UnsafeRemoveVariable(id),
           \A v \in variable_map : var_next[v] = VarAfter(v) /\ var_prev[v] = VarBefore(v)
    PROVE  \A v \in variable_map' : var_next'[v] = VarAfter(v)' /\ var_prev'[v] = VarBefore(v)'
<1> DEFINE M == variable_map
           p == var_prev[id]
           n == var_next[id]
<1>1. \A v \in M : v \in Nat /\ v # 0 /\ v \in VarIds
  BY Ids
<1>2. \A v \in M : IsAfter(M, v, var_next[v]) /\ IsBefore(M, v, var_prev[v])
  BY AfterIs, BeforeIs
<1>3. /\ variable_map' = M \ {id}
      /\ var_next' = [w \in VarIds |-> CASE w = id         -> unused_variables
                                         [] w # id /\ w = p -> n
                                         [] OTHER          -> var_next[w]]
      /\ var_prev' = [w \in VarIds |-> CASE w = id         -> 0
                                         [] w # id /\ w = n -> p
                                         [] OTHER          -> var_prev[w]]
  BY DEF UnsafeRemoveVariable
<1>4. IsAfter(M, id, n) /\ IsBefore(M, id, p)
  BY <1>2
<1> HIDE DEF p, n
<1>5. \A v \in M \ {id} : /\ v = p => var_next'[v] = n
                          /\ v # p => var_next'[v] = var_next[v]
                          /\ v = n => var_prev'[v] = p
                          /\ v # n => var_prev'[v] = var_prev[v]
  BY <1>1, <1>3
<1> SUFFICES ASSUME NEW v \in M \ {id}
             PROVE  /\ IsAfter(M \ {id}, v, var_next'[v])
                    /\ IsBefore(M \ {id}, v, var_prev'[v])
  BY <1>1, <1>3, AfterIs, BeforeIs
<1>6. v \in M /\ v # id /\ v \in Nat /\ id \in Nat /\ id \in M
  BY <1>1
<1> HIDE DEF M
<1>7. IsAfter(M \ {id}, v, var_next'[v])
  <2>1. CASE v = p
    <3>1. v < id /\ var_next'[v] = n
      BY <1>1, <1>4, <1>5, <1>6, <2>1 DEF IsBefore
    <3>2. \A w \in M \ {id} : w > v => w > id
      <4> TAKE w \in M \ {id}
      <4>1. w \in Nat /\ w # id /\ (w < id => w <= v)
        BY <1>1, <1>4, <1>6, <2>1, <3>1 DEF IsBefore
      <4> QED  BY <1>6, <4>1
    <3>3. CASE n = 0 /\ \A w \in M : w <= id
      <4>1. \A w \in M \ {id} : w <= v
        BY <1>1, <1>6, <3>2, <3>3
      <4> QED  BY <3>1, <3>3, <4>1 DEF IsAfter
    <3>4. CASE n \in M /\ n > id /\ \A w \in M : w > id => n <= w
      <4>1. n # id /\ n > v
        BY <1>1, <1>6, <3>1, <3>4
      <4> QED  BY <3>1, <3>2, <3>4, <4>1 DEF IsAfter
    <3> QED  BY <1>4, <3>3, <3>4 DEF IsAfter
  <2>2. CASE v # p
    <3>1. var_next'[v] = var_next[v] /\ IsAfter(M, v, var_next[v])
      BY <1>2, <1>5, <1>6, <2>2
    <3>2. var_next[v] # id
      <4> SUFFICES ASSUME var_next[v] = id PROVE FALSE
        OBVIOUS
      <4>1. v < id /\ \A w \in M : w > v => id <= w
        BY <1>1, <1>6, <3>1 DEF IsAfter
      <4>2. ~ \A w \in M : w >= id
        BY <1>6, <4>1
      <4>3. p \in M /\ p < id /\ v <= p
        BY <1>4, <1>6, <4>1, <4>2 DEF IsBefore
      <4>4. p > v
        BY <1>1, <1>6, <2>2, <4>3
      <4> QED  BY <1>1, <1>6, <4>1, <4>3, <4>4
    <3> QED  BY <3>1, <3>2 DEF IsAfter
  <2> QED  BY <2>1, <2>2
<1>8. IsBefore(M \ {id}, v, var_prev'[v])
  <2>1. CASE v = n
    <3>1. id < v /\ var_prev'[v] = p
      BY <1>1, <1>4, <1>5, <1>6, <2>1 DEF IsAfter
    <3>2. \A w \in M \ {id} : w < v => w < id
      <4> TAKE w \in M \ {id}
      <4>1. w \in Nat /\ w # id /\ (w > id => v <= w)
        BY <1>1, <1>4, <1>6, <2>1, <3>1 DEF IsAfter
      <4> QED  BY <1>6, <4>1
    <3>3. CASE p = 0 /\ \A w \in M : w >= id
      <4>1. \A w \in M \ {id} : w >= v
        BY <1>1, <1>6, <3>2, <3>3
      <4> QED  BY <3>1, <3>3, <4>1 DEF IsBefore
    <3>4. CASE p \in M /\ p < id /\ \A w \in M : w < id => w <= p
      <4>1. p # id /\ p < v
        BY <1>1, <1>6, <3>1, <3>4
      <4> QED  BY <3>1, <3>2, <3>4, <4>1 DEF IsBefore
    <3> QED  BY <1>4, <3>3, <3>4 DEF IsBefore
  <2>2. CASE v # n
    <3>1. var_prev'[v] = var_prev[v] /\ IsBefore(M, v, var_prev[v])
      BY <1>2, <1>5, <1>6, <2>2
    <3>2. var_prev[v] # id
      <4> SUFFICES ASSUME var_prev[v] = id PROVE FALSE
        OBVIOUS
      <4>1. id < v /\ \A w \in M : w < v => w <= id
        BY <1>1, <1>6, <3>1 DEF IsBefore
      <4>2. ~ \A w \in M : w <= id
        BY <1>6, <4>1
      <4>3. n \in M /\ n > id /\ n <= v
        BY <1>4, <1>6, <4>1, <4>2 DEF IsAfter
      <4>4. n < v
        BY <1>1, <1>6, <2>2, <4>3
      <4> QED  BY <1>1, <1>6, <4>1, <4>3, <4>4
    <3> QED  BY <3>1, <3>2 DEF IsBefore
  <2> QED  BY <2>1, <2>2
<1> QED  BY <1>7, <1>8

\* add_variable takes an id that is not in use.
Taken(id) ==
    /\ id \in VarIds \ variable_map
    /\ LinkVariable(id)
    /\ variable_map' = variable_map \cup {id}
    /\ var_count' = [var_count EXCEPT ![id] = 0]
    /\ \/ /\ id = next_variable_id /\ next_variable_id' = id + 1
          /\ UNCHANGED unused_variables
       \/ /\ id = unused_variables /\ unused_variables' = var_next[id] /\ id \in Unused
          /\ UNCHANGED next_variable_id

LEMMA AddTakes ==
    ASSUME IInv, VarsLinked, AddVariable
    PROVE  \E id \in VarIds : Taken(id)
<1>1. PICK id \in VarIds :
        /\ LinkVariable(id)
        /\ variable_map' = variable_map \cup {id}
        /\ var_count' = [var_count EXCEPT ![id] = 0]
        /\ \/ /\ id = next_variable_id /\ next_variable_id' = id + 1
              /\ UNCHANGED unused_variables
           \/ /\ id = unused_variables /\ unused_variables' = var_next[id]
              /\ UNCHANGED next_variable_id
  BY DEF AddVariable
<1>2. CASE id = next_variable_id
  <2>1. id \notin variable_map
    BY <1>2, Ids DEF VarsLinked
  <2>2. CASE next_variable_id' = id + 1 /\ UNCHANGED unused_variables
    BY <1>1, <1>2, <2>1, <2>2 DEF Taken
  <2>3. CASE id = unused_variables /\ unused_variables' = var_next[id] /\ UNCHANGED next_variable_id
    <3>1. id \in Unused
      BY <2>3, Ids DEF VarsLinked, Chained
    <3> QED  BY <1>1, <2>1, <2>3, <3>1 DEF Taken
  <2> QED  BY <1>1, <2>2, <2>3
<1>3. CASE id = unused_variables /\ unused_variables' = var_next[id] /\ UNCHANGED next_variable_id
  <2>1. id \in Unused
    BY <1>3, Ids DEF VarsLinked, Chained
  <2>2. id \notin variable_map
    BY <2>1 DEF Unused
  <2> QED  BY <1>1, <1>3, <2>1, <2>2 DEF Taken
<1> QED  BY <1>1, <1>2, <1>3

LEMMA AddVariableVars ==
    ASSUME IInv, VarsLinked, AddVariable
    PROVE  VarsLinked'
<1>1. PICK id \in VarIds : Taken(id)
  BY AddTakes
<1>2. /\ variable_map \subseteq VarIds /\ next_variable_id \in Nat
      /\ var_next \in [VarIds -> VarIds \cup {0}] /\ var_prev \in [VarIds -> VarIds \cup {0}]
  BY SetsAssumption DEF IInv, StoreTypes
<1>3. id \in VarIds \ variable_map /\ id \in Nat /\ variable_map' = variable_map \cup {id}
  BY <1>1, Ids DEF Taken
<1>4. \A v \in variable_map' : var_next'[v] = VarAfter(v)' /\ var_prev'[v] = VarBefore(v)'
  BY <1>1, <1>2, <1>3, LinkOrder DEF Taken, VarsLinked
<1>5. \A v \in VarIds : v # id /\ v \notin variable_map => var_next'[v] = var_next[v]
  <2> DEFINE p == VarBefore(id)
  <2>1. p \in variable_map \cup {0}
    <3>1. IsBefore(variable_map, id, p)
      BY <1>2, BeforeIs
    <3> QED  BY <3>1 DEF IsBefore
  <2>2. var_next' = [v \in VarIds |-> CASE v = id          -> VarAfter(id)
                                        [] v # id /\ v = p -> id
                                        [] OTHER           -> var_next[v]]
    BY <1>1 DEF Taken, LinkVariable
  <2> HIDE DEF p
  <2> QED  BY <2>1, <2>2, Ids
<1>6. \A v \in VarIds : v \in Nat
  BY Ids
<1>7. /\ \A v \in variable_map' : v < next_variable_id'
      /\ \A v \in VarIds : v >= next_variable_id' => var_next'[v] = 0
  <2>1. \A v \in VarIds : v >= next_variable_id => v \notin variable_map /\ var_next[v] = 0
    BY <1>2, <1>6 DEF VarsLinked
  <2>2. \A v \in variable_map : v < next_variable_id
    BY DEF VarsLinked
  <2>3. CASE id = next_variable_id /\ next_variable_id' = id + 1
    BY <1>2, <1>3, <1>5, <1>6, <2>1, <2>2, <2>3
  <2>4. CASE id \in Unused /\ UNCHANGED next_variable_id
    <3>1. id < next_variable_id
      BY <2>4 DEF Unused
    <3> QED  BY <1>2, <1>3, <1>5, <1>6, <2>1, <2>2, <2>4, <3>1
  <2> QED  BY <1>1, <2>3, <2>4 DEF Taken
<1>8. PICK age \in [VarIds -> Nat], top \in Nat : Climbs(Unused, 0, var_next, age, top)
  BY DEF VarsLinked
<1>9. Chained(Unused, 0, var_next, unused_variables)
  BY DEF VarsLinked
<1>10. \A v \in Unused : v \in VarIds /\ v \notin variable_map
  BY DEF Unused
<1>11. Chained(Unused', 0, var_next', unused_variables') /\ Climbs(Unused', 0, var_next', age, top)
  <2>1. CASE id = next_variable_id /\ next_variable_id' = id + 1 /\ UNCHANGED unused_variables
    <3>1. Unused' = Unused /\ id \notin Unused
      <4>1. \A v \in VarIds : v \notin variable_map' /\ v < next_variable_id'
                           <=> v \notin variable_map /\ v < next_variable_id
        BY <1>2, <1>3, <1>6, <2>1
      <4>2. ~(id < next_variable_id)
        BY <1>3, <2>1
      <4> QED  BY <4>1, <4>2 DEF Unused
    <3>2. \A v \in Unused : var_next'[v] = var_next[v]
      BY <1>5, <1>10, <3>1
    <3> QED  BY <1>8, <1>9, <2>1, <3>1, <3>2 DEF Chained, Climbs
  <2>2. CASE /\ id = unused_variables /\ unused_variables' = var_next[id] /\ id \in Unused
             /\ UNCHANGED next_variable_id
    <3>1. Unused' = Unused \ {id}
      BY <1>3, <2>2 DEF Unused
    <3>2. \A v \in Unused \ {id} : var_next'[v] = var_next[v]
      BY <1>5, <1>10
    <3>3. \A v \in Unused : v = id \/ age[id] < age[v]
      BY <1>8, <1>9, <2>2, ChainFirst
    <3>4. \A v \in Unused : age[v] \in Nat /\ (var_next[v] # 0 => age[v] < age[var_next[v]])
      BY <1>8 DEF Climbs
    <3>5. \A v \in Unused : var_next[v] # id
      BY <1>9, <1>10, <2>2, <3>3, <3>4, Ids
    <3>6. unused_variables' \in Unused' \cup {0}
      BY <1>9, <2>2, <3>1, <3>5 DEF Chained
    <3>7. \A v \in Unused' : var_next'[v] \in Unused' \cup {0}
      BY <1>9, <3>1, <3>2, <3>5 DEF Chained
    <3>8. \A v \in Unused' : v = unused_variables' \/ \E z \in Unused' : var_next'[z] = v
      BY <1>9, <2>2, <3>1, <3>2 DEF Chained
    <3>9. Climbs(Unused', 0, var_next', age, top)
      BY <1>8, <3>1, <3>2 DEF Climbs
    <3> QED  BY <3>1, <3>6, <3>7, <3>8, <3>9, <1>9 DEF Chained
  <2> QED  BY <1>1, <2>1, <2>2 DEF Taken
<1>12. \E a \in [VarIds -> Nat], t \in Nat : Climbs(Unused', 0, var_next', a, t)
  BY <1>11
<1> QED  BY <1>4, <1>7, <1>11, <1>12 DEF VarsLinked

LEMMA RemoveVariableVars ==
    ASSUME IInv, VarsLinked, NEW id \in VarIds, UnsafeRemoveVariable(id)
    PROVE  VarsLinked'
<1>1. /\ variable_map \subseteq VarIds /\ next_variable_id \in Nat
      /\ var_next \in [VarIds -> VarIds \cup {0}] /\ var_prev \in [VarIds -> VarIds \cup {0}]
  BY SetsAssumption DEF IInv, StoreTypes
<1>2. /\ id \in variable_map /\ variable_map' = variable_map \ {id}
      /\ unused_variables' = id /\ UNCHANGED next_variable_id
  BY DEF UnsafeRemoveVariable
<1>3. /\ \A v \in VarIds : v \in Nat
      /\ \A v \in variable_map : v < next_variable_id
      /\ \A v \in VarIds : v >= next_variable_id => var_next[v] = 0
      /\ id < next_variable_id /\ id # 0
  BY <1>2, Ids DEF VarsLinked
<1>4. \A v \in variable_map' : var_next'[v] = VarAfter(v)' /\ var_prev'[v] = VarBefore(v)'
  BY <1>1, <1>2, UnlinkOrder DEF VarsLinked
<1>5. var_next'[id] = unused_variables
      /\ \A v \in VarIds : v # id /\ v \notin variable_map => var_next'[v] = var_next[v]
  <2> DEFINE p == var_prev[id]
             n == var_next[id]
  <2>1. p \in variable_map \cup {0}
    <3>1. p = VarBefore(id)
      BY <1>2 DEF VarsLinked
    <3>2. IsBefore(variable_map, id, p)
      BY <1>1, <3>1, BeforeIs
    <3> QED  BY <3>2 DEF IsBefore
  <2>2. var_next' = [w \in VarIds |-> CASE w = id         -> unused_variables
                                        [] w # id /\ w = p -> n
                                        [] OTHER          -> var_next[w]]
    BY DEF UnsafeRemoveVariable
  <2> HIDE DEF p, n
  <2> QED  BY <2>1, <2>2, Ids
<1>6. /\ \A v \in variable_map' : v < next_variable_id'
      /\ \A v \in VarIds : v >= next_variable_id' => var_next'[v] = 0
  <2>1. ASSUME NEW v \in VarIds, v >= next_variable_id PROVE var_next'[v] = 0
    <3>1. v # id /\ v \notin variable_map
      BY <1>1, <1>3, <2>1
    <3> QED  BY <1>3, <1>5, <2>1, <3>1
  <2> QED  BY <1>2, <1>3, <2>1
<1>7. PICK age \in [VarIds -> Nat], top \in Nat : Climbs(Unused, 0, var_next, age, top)
  BY DEF VarsLinked
<1>8. Chained(Unused, 0, var_next, unused_variables)
  BY DEF VarsLinked
<1>9. Unused' = Unused \cup {id} /\ id \notin Unused
  BY <1>2, <1>3 DEF Unused
<1>10. \A v \in Unused : v \in VarIds /\ v # id /\ var_next'[v] = var_next[v]
  BY <1>5, <1>9 DEF Unused
<1>11. Chained(Unused', 0, var_next', unused_variables')
  <2>1. \A v \in Unused' : var_next'[v] \in Unused' \cup {0}
    BY <1>5, <1>8, <1>9, <1>10 DEF Chained
  <2>2. ASSUME NEW v \in Unused' PROVE v = unused_variables' \/ \E z \in Unused' : var_next'[z] = v
    <3>1. CASE v = id
      BY <1>2, <3>1
    <3>2. CASE v \in Unused /\ v = unused_variables
      BY <1>5, <1>9, <3>2
    <3>3. CASE v \in Unused /\ v # unused_variables
      BY <1>8, <1>9, <1>10, <3>3 DEF Chained
    <3> QED  BY <1>9, <3>1, <3>2, <3>3
  <2> QED  BY <1>2, <1>8, <1>9, <1>3, <2>1, <2>2 DEF Chained
<1>12. \E a \in [VarIds -> Nat], t \in Nat : Climbs(Unused', 0, var_next', a, t)
  <2> DEFINE a == [v \in VarIds |-> IF v = id THEN 0 ELSE age[v] + 1]
             t == top + 1
  <2>1. a \in [VarIds -> Nat] /\ t \in Nat
    OBVIOUS
  <2>2. \A v \in Unused : a[v] = age[v] + 1
    BY <1>10
  <2>3. a[id] = 0 /\ 0 <= t
    OBVIOUS
  <2>4. \A v \in Unused : /\ age[v] \in Nat /\ age[v] <= top
                          /\ var_next[v] # 0 => var_next[v] \in Unused /\ age[v] < age[var_next[v]]
    BY <1>7, <1>8 DEF Climbs, Chained
  <2>5. ASSUME NEW v \in Unused' PROVE a[v] \in Nat /\ a[v] <= t /\ (var_next'[v] # 0 => a[v] < a[var_next'[v]])
    <3>1. CASE v = id
      <4>1. unused_variables # 0 => unused_variables \in Unused
        BY <1>8 DEF Chained
      <4>2. unused_variables # 0 => a[unused_variables] = age[unused_variables] + 1 /\ age[unused_variables] \in Nat
        BY <2>2, <2>4, <4>1
      <4> HIDE DEF a, t
      <4> QED  BY <1>5, <2>3, <3>1, <4>2
    <3>2. CASE v \in Unused
      <4>1. /\ a[v] = age[v] + 1 /\ age[v] \in Nat /\ age[v] <= top
            /\ var_next'[v] = var_next[v]
        BY <1>10, <2>2, <2>4, <3>2
      <4>2. var_next[v] # 0 => /\ age[v] < age[var_next[v]] /\ age[var_next[v]] \in Nat
                               /\ a[var_next[v]] = age[var_next[v]] + 1
        BY <2>2, <2>4, <3>2
      <4> HIDE DEF a
      <4> QED  BY <4>1, <4>2
    <3> QED  BY <1>9, <3>1, <3>2
  <2> HIDE DEF a, t
  <2>6. Climbs(Unused', 0, var_next', a, t)
    BY <2>5 DEF Climbs
  <2> QED  BY <2>1, <2>6
<1> QED  BY <1>4, <1>6, <1>11, <1>12 DEF VarsLinked

\* Every step that does not change the variables or the productions of the
\* grammar, whoever comes to hold them or lets go of them.
Quiet ==
    /\ UNCHANGED <<variable_map, next_variable_id, unused_variables, var_next, var_prev,
                   num_variables_, countvars, first_production, alive>>
    /\ Live(heap') = Live(heap) /\ Ages(heap, heap')

LEMMA StepCases ==
    ASSUME IInv, [Next]_vars
    PROVE  \/ Quiet
           \/ AddVariable
           \/ \E v \in VarIds : UnsafeRemoveVariable(v)
           \/ \E v \in VarIds, s \in Strings, d \in Handles \cup {NoHandle} :
                AddProduction(v, s, d)
           \/ \E d \in Handles : RemoveProduction(d)
           \/ Destroy
<1>1. CASE UNCHANGED vars
  <2>1. Live(heap') = Live(heap)
    BY <1>1 DEF vars
  <2>2. Ages(heap, heap')
    BY <1>1, InvTypes, AgesSame DEF vars
  <2> QED  BY <1>1, <2>1, <2>2 DEF Quiet, vars, varvars, countvars
<1>2. ASSUME NEW v \in VarIds, SetStartVariable(v) PROVE Quiet
  <2>1. Live(heap') = Live(heap)
    BY <1>2 DEF SetStartVariable
  <2>2. Ages(heap, heap')
    BY <1>2, InvTypes, AgesSame DEF SetStartVariable
  <2> QED  BY <1>2, <2>1, <2>2 DEF Quiet, SetStartVariable, countvars
<1>3. ASSUME Next, \/ \E d, e \in Handles : CopyHandle(d, e)
                   \/ \E d \in Handles : ClearHandle(d)
                   \/ \E g \in Gens : Rewind(g)
                   \/ \E g \in Gens : MatchNext(g)
                   \/ \E g \in Gens : FreeGenerator(g)
      PROVE  Quiet
  <2>1. Live(heap') = Live(heap)
    BY <1>3, CopyHandleInv, ClearHandleInv, RewindInv, MatchNextInv, FreeGeneratorInv
  <2>2. UNCHANGED <<varvars, countvars, first_production, alive>>
    BY <1>3 DEF CopyHandle, ClearHandle, Rewind, MatchNext, Asked, FreeGenerator
  <2>3. heap \in LooseHeap /\ ptr \in [Holders -> CellOrNull]
    BY InvTypes
  <2>4. ASSUME NEW d \in Handles, NEW e \in Handles, CopyHandle(d, e) PROVE Ages(heap, heap')
    <3>1. ptr[d] \in CellOrNull /\ ptr[e] \in CellOrNull
      BY <2>3 DEF Holders
    <3> QED  BY <2>3, <2>4, <3>1, AssignAges DEF CopyHandle
  <2>5. ASSUME NEW d \in Handles, ClearHandle(d) PROVE Ages(heap, heap')
    <3>1. ptr[d] \in Cells
      BY <2>3, <2>5 DEF Holders, ClearHandle, CellOrNull
    <3> QED  BY <2>3, <2>5, <3>1, ReleaseAges DEF ClearHandle
  <2>6. ASSUME NEW g \in Gens, Rewind(g) \/ MatchNext(g) \/ FreeGenerator(g)
        PROVE  Ages(heap, heap')
    <3>1. CASE Rewind(g)
      BY <3>1, ResetAges DEF Rewind
    <3>2. CASE MatchNext(g)
      BY <3>2, MatchEndAges, MatchNoneAges, MatchFoundAges DEF MatchNext
    <3>3. CASE FreeGenerator(g)
      BY <2>3, <3>3, CursorType, ReleaseIfAges DEF FreeGenerator
    <3> QED  BY <2>6, <3>1, <3>2, <3>3
  <2>7. Ages(heap, heap')
    BY <1>3, <2>4, <2>5, <2>6
  <2> QED  BY <2>1, <2>2, <2>7 DEF Quiet, varvars
<1> QED  BY <1>1, <1>2, <1>3 DEF Next

LEMMA VarsNext ==
    IInv /\ (alive => VarsLinked) /\ [Next]_vars => (alive' => VarsLinked')
<1> SUFFICES ASSUME IInv, alive => VarsLinked, [Next]_vars, alive' PROVE VarsLinked'
  OBVIOUS
<1>1. CASE AddVariable
  BY <1>1, AddVariableVars DEF AddVariable
<1>2. ASSUME NEW v \in VarIds, UnsafeRemoveVariable(v) PROVE VarsLinked'
  BY <1>2, RemoveVariableVars DEF UnsafeRemoveVariable
<1>3. CASE UNCHANGED <<variable_map, next_variable_id, unused_variables, var_next, var_prev, alive>>
  <2>1. VarsLinked
    BY <1>3
  <2>2. Unused' = Unused /\ \A v : VarAfter(v)' = VarAfter(v) /\ VarBefore(v)' = VarBefore(v)
    BY <1>3 DEF Unused, VarAfter, VarBefore
  <2> QED  BY <1>3, <2>1, <2>2 DEF VarsLinked
<1>4. ASSUME NEW v \in VarIds, NEW s \in Strings, NEW d \in Handles \cup {NoHandle},
             AddProduction(v, s, d)
      PROVE  VarsLinked'
  BY <1>3, <1>4 DEF AddProduction, varvars
<1>5. ASSUME NEW d \in Handles, RemoveProduction(d) PROVE VarsLinked'
  BY <1>3, <1>5 DEF RemoveProduction, varvars
<1>6. CASE Quiet
  BY <1>3, <1>6 DEF Quiet
<1>7. ~Destroy
  BY DEF Destroy
<1> QED  BY <1>1, <1>2, <1>4, <1>5, <1>6, <1>7, StepCases

\* The loops along the variables: places for the ones that are linked.
LEMMA VarsRise ==
    ASSUME IInv, VarsLinked
    PROVE  \E pos \in [VarIds -> Nat], top \in Nat :
             /\ Walkable(VarIds, 0, var_next, {}, pos, top)
             /\ Climbs(Unused, 0, var_next, pos, top)
<1>1. /\ var_next \in [VarIds -> VarIds \cup {0}] /\ variable_map \subseteq VarIds
      /\ next_variable_id \in Nat
  BY SetsAssumption DEF IInv, StoreTypes
<1>2. PICK age \in [VarIds -> Nat], t \in Nat : Climbs(Unused, 0, var_next, age, t)
  BY DEF VarsLinked
<1> DEFINE place(v) == IF v \in Unused THEN age[v] ELSE v
           pos == [v \in VarIds |-> place(v)]
           top == t + MaxVars
<1>3. \A v \in Unused : age[v] \in Nat /\ age[v] <= t /\ (var_next[v] # 0 => age[v] < age[var_next[v]])
  BY <1>2 DEF Climbs
<1>4. \A v \in Unused : v \in VarIds /\ var_next[v] \in Unused \cup {0}
  BY DEF VarsLinked, Chained, Unused
<1>5. \A v \in VarIds : place(v) \in Nat /\ place(v) <= top
  BY <1>3, Ids
<1>6. ASSUME NEW v \in VarIds, var_next[v] # 0 PROVE place(v) < place(var_next[v])
  <2>1. CASE v \in Unused
    BY <1>3, <1>4, <1>6, <2>1
  <2>2. CASE v \in variable_map
    <3>1. IsAfter(variable_map, v, var_next[v])
      BY <1>1, <2>2, AfterIs DEF VarsLinked
    <3>2. var_next[v] \in variable_map /\ var_next[v] > v
      BY <1>6, <3>1 DEF IsAfter
    <3>3. var_next[v] \notin Unused /\ v \notin Unused
      BY <2>2, <3>2 DEF Unused
    <3> QED  BY <1>1, <3>2, <3>3, Ids
  <2>3. CASE v >= next_variable_id
    BY <1>6, <2>3 DEF VarsLinked
  <2>4. v \in Nat
    BY Ids
  <2> QED  BY <1>1, <2>1, <2>2, <2>3, <2>4 DEF Unused
<1>7. pos \in [VarIds -> Nat] /\ top \in Nat
  BY <1>5, Ids
<1>8. \A v \in VarIds : pos[v] = place(v) /\ var_next[v] \in VarIds \cup {0}
  BY <1>1
<1> HIDE DEF place, pos, top
<1>9. Walkable(VarIds, 0, var_next, {}, pos, top)
  <2>1. \A v \in VarIds : pos[v] <= top
    BY <1>5, <1>8
  <2>2. \A v \in VarIds : var_next[v] # 0 => pos[v] < pos[var_next[v]]
    <3> TAKE v \in VarIds
    <3>1. var_next[v] # 0 => var_next[v] \in VarIds
      BY <1>8
    <3> QED  BY <1>6, <1>8, <3>1
  <2>3. 0 \notin VarIds
    BY Ids
  <2> QED  BY <1>1, <1>7, <2>1, <2>2, <2>3 DEF Walkable
<1>10. Climbs(Unused, 0, var_next, pos, top)
  BY <1>4, <1>5, <1>6, <1>7, <1>8 DEF Climbs
<1> QED  BY <1>7, <1>9, <1>10

\* Those that were removed are all in the chain add_variable takes from.
LEMMA UnusedChained ==
    ASSUME IInv, VarsLinked
    PROVE  VariablesOK
<1> DEFINE Eq(f) == f = [v \in VarIds \cup {0} |-> IF v = 0 THEN {} ELSE {v} \cup f[var_next[v]]]
           chain == CHOOSE f : Eq(f)
           base == [v \in VarIds \cup {0} |-> {}]
           g    == [v \in VarIds |-> [S \in SUBSET VarIds |-> {v} \cup S]]
<1>1. PICK pos \in [VarIds -> Nat], top \in Nat :
        /\ Walkable(VarIds, 0, var_next, {}, pos, top)
        /\ Climbs(Unused, 0, var_next, pos, top)
  BY VarsRise
<1>2. var_next \in [VarIds -> VarIds \cup {0}] /\ 0 \notin VarIds
  BY Ids DEF IInv, StoreTypes
<1>3. \E f : Eq(f)
  <2>1. /\ base \in [VarIds \cup {0} -> SUBSET VarIds]
        /\ g \in [VarIds -> [SUBSET VarIds -> SUBSET VarIds]]
    OBVIOUS
  <2> HIDE DEF base, g
  <2>2. PICK f \in [VarIds \cup {0} -> SUBSET VarIds] :
          Walk(VarIds, 0, var_next, {}, base, g, f)
    BY <1>1, <2>1, WalkExists
  <2>3. \A v \in VarIds \cup {0} :
           f[v] = IF v = 0 THEN {} ELSE {v} \cup f[var_next[v]]
    <3>1. \A v \in VarIds \cup {0} :
             f[v] = IF v \in {} \cup {0} THEN base[v] ELSE g[v][f[var_next[v]]]
      BY <2>2 DEF Walk
    <3>2. \A v \in VarIds : f[var_next[v]] \in SUBSET VarIds
      BY <1>2
    <3>3. \A v \in VarIds : g[v][f[var_next[v]]] = {v} \cup f[var_next[v]]
      BY <3>2 DEF g
    <3>4. base[0] = {}
      BY DEF base
    <3> QED  BY <3>1, <3>3, <3>4
  <2>4. f = [v \in VarIds \cup {0} |-> f[v]]
    OBVIOUS
  <2>5. Eq(f)
    BY <2>3, <2>4
  <2> QED  BY <2>5
<1>4. Eq(chain)
  <2> HIDE DEF Eq
  <2> QED  BY <1>3
<1>5. Unused \subseteq VarIds
  BY DEF Unused
<1>6. Gathers(Unused, 0, var_next, chain)
  <2> HIDE DEF chain
  <2> QED  BY <1>2, <1>4, <1>5 DEF Gathers
<1>7. Chained(Unused, 0, var_next, unused_variables)
  BY DEF VarsLinked
<1>8. VariablesOK <=>
        (alive => /\ \A v \in variable_map : /\ var_next[v] = VarAfter(v)
                                             /\ var_prev[v] = VarBefore(v)
                  /\ chain[unused_variables] = Unused)
  BY DEF VariablesOK, Unused
<1> HIDE DEF chain
<1>9. chain[unused_variables] = Unused
  BY <1>1, <1>6, <1>7, WalkCovers
<1> QED  BY <1>8, <1>9 DEF VarsLinked

-----------------------------------------------------------------------------
(* The counters.                                                             *)

LiveOf(h, v) == OfVar(h, v) \cap Live(h)

\* The live productions are finitely many, each with a variable.
LEMMA LiveFinite ==
    ASSUME NEW h \in LooseHeap, NEW v
    PROVE  /\ IsFiniteSet(Live(h)) /\ Cardinality(Live(h)) \in Nat
           /\ IsFiniteSet(LiveOf(h, v)) /\ Cardinality(LiveOf(h, v)) \in Nat
           /\ \A c \in Live(h) : c \in Cells /\ c \in h.alloc /\ h.var[c] \in VarIds
           /\ \A c : c \in LiveOf(h, v) <=> c \in Live(h) /\ h.var[c] = v
<1>1. Live(h) \in SUBSET Cells /\ LiveOf(h, v) \in SUBSET Cells
  BY DEF Live, LiveOf, LooseHeap
<1>2. \A c \in Live(h) : c \in Cells /\ c \in h.alloc /\ h.var[c] \in VarIds
  BY DEF Live, LooseHeap
<1>3. \A c : c \in LiveOf(h, v) <=> c \in Live(h) /\ h.var[c] = v
  BY DEF Live, LiveOf, OfVar
<1> QED  BY <1>1, <1>2, <1>3, SetsAssumption, FS_Subset, FS_CardinalityType

LEMMA HeapIsLoose ==
    ASSUME NEW h \in Heap
    PROVE  h \in LooseHeap
BY DEF Heap, LooseHeap

LEMMA VarsFinite ==
    ASSUME NEW S \in SUBSET VarIds
    PROVE  IsFiniteSet(S)
<1>1. IsFiniteSet(1..MaxVars)
  BY SetsAssumption, FS_Interval
<1> QED  BY <1>1, FS_Subset DEF VarIds

LEMMA CountsAre ==
    CountsAgree <=>
      (alive => /\ num_productions_ = Cardinality(Live(heap))
                /\ num_variables_ = Cardinality(variable_map)
                /\ \A v \in variable_map : var_count[v] = Cardinality(LiveOf(heap, v)))
BY DEF CountsAgree, LiveOf

\* A production that stays live stays with its variable.
LEMMA LiveStays ==
    ASSUME NEW h, NEW k, Fades(h, k), NEW c \in h.alloc, c \in Live(k)
    PROVE  k.var[c] = h.var[c]
BY DEF Fades, Live

\* One more, one less.
LEMMA CountMore ==
    ASSUME NEW h \in LooseHeap, NEW k \in LooseHeap, NEW c, NEW v, NEW w,
           Live(k) = Live(h) \cup {c}, k.var[c] = v,
           \A x \in Live(h) : k.var[x] = h.var[x]
    PROVE  /\ c \notin Live(h) =>
                /\ Cardinality(Live(k)) = Cardinality(Live(h)) + 1
                /\ w = v => Cardinality(LiveOf(k, w)) = Cardinality(LiveOf(h, w)) + 1
                /\ w # v => Cardinality(LiveOf(k, w)) = Cardinality(LiveOf(h, w))
           /\ c \in Live(h) =>
                /\ Cardinality(Live(k)) = Cardinality(Live(h))
                /\ Cardinality(LiveOf(k, w)) = Cardinality(LiveOf(h, w))
<1> DEFINE A == Live(h)
           B == LiveOf(h, w)
<1>1. IsFiniteSet(A) /\ IsFiniteSet(B) /\ Cardinality(A) \in Nat /\ Cardinality(B) \in Nat
  BY LiveFinite
<1>2. \A x : x \in B <=> x \in A /\ h.var[x] = w
  BY LiveFinite
<1>3. \A x : x \in LiveOf(k, w) <=> x \in Live(k) /\ k.var[x] = w
  BY LiveFinite
<1>4. w = v => LiveOf(k, w) = B \cup {c}
  BY <1>2, <1>3
<1>5. w # v => LiveOf(k, w) = B
  BY <1>2, <1>3
<1>6. c \in A => Live(k) = A /\ LiveOf(k, w) = B
  BY <1>2, <1>3
<1>7. Live(k) = A \cup {c} /\ (c \notin A => c \notin B)
  BY <1>2
<1> HIDE DEF A, B
<1>8. /\ c \notin A => Cardinality(A \cup {c}) = Cardinality(A) + 1
      /\ c \notin B => Cardinality(B \cup {c}) = Cardinality(B) + 1
  BY <1>1, FS_AddElement
<1> QED  BY <1>4, <1>5, <1>6, <1>7, <1>8 DEF A, B

LEMMA CountLess ==
    ASSUME NEW h \in LooseHeap, NEW k \in LooseHeap, NEW c \in Live(h), NEW w,
           Live(k) = Live(h) \ {c}, \A x \in Live(k) : k.var[x] = h.var[x]
    PROVE  /\ Cardinality(Live(k)) = Cardinality(Live(h)) - 1
           /\ w = h.var[c] => Cardinality(LiveOf(k, w)) = Cardinality(LiveOf(h, w)) - 1
           /\ w # h.var[c] => Cardinality(LiveOf(k, w)) = Cardinality(LiveOf(h, w))
<1> DEFINE A == Live(h)
           B == LiveOf(h, w)
<1>1. IsFiniteSet(A) /\ IsFiniteSet(B)
  BY LiveFinite
<1>2. \A x : x \in B <=> x \in A /\ h.var[x] = w
  BY LiveFinite
<1>3. \A x : x \in LiveOf(k, w) <=> x \in Live(k) /\ k.var[x] = w
  BY LiveFinite
<1>4. LiveOf(k, w) = B \ {c}
  BY <1>2, <1>3
<1>5. Live(k) = A \ {c} /\ c \in A /\ (c \in B <=> w = h.var[c])
  BY <1>2
<1> HIDE DEF A, B
<1>6. /\ Cardinality(A \ {c}) = Cardinality(A) - 1
      /\ c \in B => Cardinality(B \ {c}) = Cardinality(B) - 1
      /\ c \notin B => Cardinality(B \ {c}) = Cardinality(B)
  BY <1>1, <1>5, FS_RemoveElement
<1> QED  BY <1>4, <1>5, <1>6 DEF A, B

\* add_production counts the production it makes or brings back.
LEMMA AddProductionCounts ==
    ASSUME IInv, Tidy(heap), CountsAgree, NEW v \in VarIds, NEW s \in Strings,
           NEW d \in Handles \cup {NoHandle}, AddProduction(v, s, d)
    PROVE  CountsAgree'
<1>1. /\ heap \in LooseHeap /\ heap' \in LooseHeap
      /\ alive /\ v \in variable_map /\ UNCHANGED variable_map /\ UNCHANGED num_variables_
      /\ var_count \in [VarIds -> Int] /\ variable_map \subseteq VarIds
  <2>1. IInv'
    BY AddProductionInv
  <2>2. heap' \in LooseHeap
    BY <2>1, HeapIsLoose DEF IInv, Held, Good
  <2> QED  BY <2>2, InvTypes DEF AddProduction, varvars, IInv, StoreTypes
<1>2. ASSUME NEW c, NEW n, c \in Live(heap) => n = 0, c \notin Live(heap) => n = 1,
             Live(heap') = Live(heap) \cup {c}, heap'.var[c] = v,
             \A x \in Live(heap) : heap'.var[x] = heap.var[x], Counted(v, n)
      PROVE  CountsAgree'
  <2>1. /\ num_productions_ = Cardinality(Live(heap))
        /\ num_variables_ = Cardinality(variable_map)
        /\ \A w \in variable_map : var_count[w] = Cardinality(LiveOf(heap, w))
        /\ \A w : Cardinality(LiveOf(heap, w)) \in Nat /\ Cardinality(Live(heap)) \in Nat
    BY <1>1, CountsAre, LiveFinite
  <2>2. /\ num_productions_' = num_productions_ + n
        /\ \A w \in variable_map : /\ w = v => var_count'[w] = var_count[w] + n
                                   /\ w # v => var_count'[w] = var_count[w]
    BY <1>1, <1>2 DEF Counted
  <2>3. num_productions_' = Cardinality(Live(heap'))
    <3>1. /\ c \notin Live(heap) => Cardinality(Live(heap')) = Cardinality(Live(heap)) + 1
          /\ c \in Live(heap) => Cardinality(Live(heap')) = Cardinality(Live(heap))
      BY <1>1, <1>2, CountMore
    <3> QED  BY <1>2, <2>1, <2>2, <3>1
  <2>4. ASSUME NEW w \in variable_map PROVE var_count'[w] = Cardinality(LiveOf(heap', w))
    <3>1. /\ c \notin Live(heap) =>
               /\ w = v => Cardinality(LiveOf(heap', w)) = Cardinality(LiveOf(heap, w)) + 1
               /\ w # v => Cardinality(LiveOf(heap', w)) = Cardinality(LiveOf(heap, w))
          /\ c \in Live(heap) => Cardinality(LiveOf(heap', w)) = Cardinality(LiveOf(heap, w))
      BY <1>1, <1>2, CountMore
    <3> QED  BY <1>2, <2>1, <2>2, <3>1
  <2> QED  BY <1>1, <2>1, <2>3, <2>4 DEF CountsAgree, LiveOf
<1>3. CASE AddNew(v, s, d)
  <2>1. PICK c \in Cells \ heap.alloc : \E k : Grown(k, c, v, s, d)
    BY <1>3, NewGrown
  <2>2. PICK k : Grown(k, c, v, s, d)
    BY <2>1
  <2>3. Live(heap') = Live(heap) \cup {c} /\ c \notin Live(heap)
    BY <2>2 DEF Grown, Live
  <2>4. \A x \in Live(heap') : heap'.var[x] = k.var[x]
    <3>1. \A x \in Live(heap') : x \in k.alloc
      BY <2>2 DEF Grown, Live
    <3> QED  BY <2>2, <3>1, LiveStays, AgesFade DEF Grown
  <2>5. heap'.var[c] = v /\ \A x \in Live(heap) : heap'.var[x] = heap.var[x]
    BY <2>2, <2>3, <2>4 DEF Grown, Live
  <2>6. Counted(v, 1)
    BY <1>3 DEF AddNew
  <2> QED  BY <1>2, <2>3, <2>5, <2>6
<1>4. CASE AddDuplicate(v, s, d)
  <2> DEFINE c == Spot(heap, v, s)
  <2>1. /\ c \in OfVar(heap, v)
        /\ heap.del[c] => Counted(v, 1)
        /\ ~heap.del[c] => Counted(v, 0)
    BY <1>4 DEF AddDuplicate
  <2>2. Live(heap') = Live(heap) \cup {c}
    BY <1>4, AddDuplicateHeld
  <2>3. c \in heap.alloc /\ heap.var[c] = v /\ (c \in Live(heap) <=> ~heap.del[c])
    BY <2>1, Ids DEF OfVar, Live
  <2>4. Ages(heap, heap')
    BY <1>4, AddDuplicateAges
  <2> HIDE DEF c
  <2>5. \A x \in Live(heap) : x \in heap.alloc
    BY DEF Live
  <2>6. heap'.var[c] = v /\ \A x \in Live(heap) : heap'.var[x] = heap.var[x]
    BY <2>2, <2>3, <2>4, <2>5, LiveStays, AgesFade
  <2> QED  BY <1>2, <2>1, <2>2, <2>3, <2>6
<1> QED  BY <1>3, <1>4 DEF AddProduction

LEMMA RemoveProductionCounts ==
    ASSUME IInv, CountsAgree, NEW d \in Handles, RemoveProduction(d)
    PROVE  CountsAgree'
<1> DEFINE c == ptr[d]
           v == heap.var[c]
<1>1. /\ heap \in LooseHeap /\ heap' \in LooseHeap /\ Live(heap') = Live(heap) \ {c}
      /\ alive /\ c \in Live(heap) /\ UNCHANGED variable_map /\ UNCHANGED num_variables_
      /\ var_count \in [VarIds -> Int] /\ variable_map \subseteq VarIds
      /\ Counted(v, -1)
  <2>1. IInv' /\ Live(heap') = Live(heap) \ {c}
    BY RemoveProductionInv
  <2>2. heap \in LooseHeap /\ heap' \in LooseHeap
    BY <2>1, InvTypes, HeapIsLoose DEF IInv, Held, Good
  <2>3. var_count \in [VarIds -> Int] /\ variable_map \subseteq VarIds
    BY DEF IInv, StoreTypes
  <2> QED  BY <2>1, <2>2, <2>3 DEF RemoveProduction, varvars
<1>2. \A x \in Live(heap') : heap'.var[x] = heap.var[x]
  <2>1. \A x \in Live(heap') : x \in heap.alloc
    BY <1>1 DEF Live
  <2> QED  BY <2>1, RemoveProductionAges, LiveStays, AgesFade
<1> HIDE DEF c, v
<1>3. /\ num_productions_ = Cardinality(Live(heap))
      /\ num_variables_ = Cardinality(variable_map)
      /\ \A w \in variable_map : var_count[w] = Cardinality(LiveOf(heap, w))
      /\ \A w : Cardinality(LiveOf(heap, w)) \in Nat /\ Cardinality(Live(heap)) \in Nat
  BY <1>1, CountsAre, LiveFinite
<1>4. /\ num_productions_' = num_productions_ - 1
      /\ \A w \in variable_map : /\ w = v => var_count'[w] = var_count[w] - 1
                                 /\ w # v => var_count'[w] = var_count[w]
  BY <1>1, <1>3 DEF Counted
<1>5. num_productions_' = Cardinality(Live(heap'))
  BY <1>1, <1>2, <1>3, <1>4, CountLess
<1>6. ASSUME NEW w \in variable_map PROVE var_count'[w] = Cardinality(LiveOf(heap', w))
  <2>1. /\ w = v => Cardinality(LiveOf(heap', w)) = Cardinality(LiveOf(heap, w)) - 1
        /\ w # v => Cardinality(LiveOf(heap', w)) = Cardinality(LiveOf(heap, w))
    BY <1>1, <1>2, CountLess DEF v
  <2> QED  BY <1>3, <1>4, <2>1
<1> QED  BY <1>1, <1>3, <1>5, <1>6 DEF CountsAgree, LiveOf

LEMMA RemoveVariableCounts ==
    ASSUME IInv, CountsAgree, NEW v \in VarIds, UnsafeRemoveVariable(v)
    PROVE  CountsAgree'
<1>1. /\ heap \in LooseHeap /\ heap' \in LooseHeap
      /\ \A c : c \in Live(heap') <=> c \in Live(heap) /\ heap.var[c] # v
      /\ alive /\ v \in variable_map /\ variable_map' = variable_map \ {v}
      /\ var_count' = [var_count EXCEPT ![v] = 0] /\ num_variables_' = num_variables_ - 1
      /\ num_productions_' = num_productions_ - Cardinality(LiveOf(heap, v))
      /\ var_count \in [VarIds -> Int] /\ variable_map \subseteq VarIds
  <2>1. IInv' /\ \A c : c \in Live(heap') <=> c \in Live(heap) /\ heap.var[c] # v
    BY UnsafeRemoveVariableInv
  <2>2. heap \in LooseHeap /\ heap' \in LooseHeap
    BY <2>1, InvTypes, HeapIsLoose DEF IInv, Held, Good
  <2>3. var_count \in [VarIds -> Int] /\ variable_map \subseteq VarIds
    BY DEF IInv, StoreTypes
  <2> QED  BY <2>1, <2>2, <2>3 DEF UnsafeRemoveVariable, LiveOf
<1>2. \A x \in Live(heap') : heap'.var[x] = heap.var[x]
  <2>1. \A x \in Live(heap') : x \in heap.alloc
    BY <1>1 DEF Live
  <2>2. Fades(heap, heap')
    BY <1>1, OrphanFades DEF UnsafeRemoveVariable
  <2> QED  BY <2>1, <2>2, LiveStays
<1>3. /\ num_productions_ = Cardinality(Live(heap))
      /\ num_variables_ = Cardinality(variable_map)
      /\ \A w \in variable_map : var_count[w] = Cardinality(LiveOf(heap, w))
      /\ \A w : Cardinality(LiveOf(heap, w)) \in Nat /\ Cardinality(Live(heap)) \in Nat
      /\ IsFiniteSet(Live(heap))
  BY <1>1, CountsAre, LiveFinite
<1>4. /\ \A w, x : x \in LiveOf(heap, w) <=> x \in Live(heap) /\ heap.var[x] = w
      /\ \A w, x : x \in LiveOf(heap', w) <=> x \in Live(heap') /\ heap'.var[x] = w
  BY <1>1, LiveFinite
<1>5. num_productions_' = Cardinality(Live(heap'))
  <2>1. Live(heap') = Live(heap) \ LiveOf(heap, v)
    BY <1>1, <1>4
  <2>2. Live(heap) \cap LiveOf(heap, v) = LiveOf(heap, v)
    BY <1>4
  <2>3. Cardinality(Live(heap')) = Cardinality(Live(heap)) - Cardinality(LiveOf(heap, v))
    <3>1. IsFiniteSet(Live(heap))
      BY <1>3
    <3>2. Cardinality(Live(heap) \ LiveOf(heap, v))
            = Cardinality(Live(heap)) - Cardinality(Live(heap) \cap LiveOf(heap, v))
      BY <3>1, FS_Difference
    <3> QED  BY <2>1, <2>2, <3>2
  <2> QED  BY <1>1, <1>3, <2>3
<1>6. num_variables_' = Cardinality(variable_map')
  <2>1. IsFiniteSet(variable_map)
    BY <1>1, VarsFinite
  <2> QED  BY <1>1, <1>3, <2>1, FS_RemoveElement
<1>7. ASSUME NEW w \in variable_map' PROVE var_count'[w] = Cardinality(LiveOf(heap', w))
  <2>1. \A x : x \in LiveOf(heap', w) <=> x \in LiveOf(heap, w)
    <3>1. /\ \A x : x \in LiveOf(heap, w) <=> x \in Live(heap) /\ heap.var[x] = w
          /\ \A x : x \in LiveOf(heap', w) <=> x \in Live(heap') /\ heap'.var[x] = w
      BY <1>4
    <3>2. w # v
      BY <1>1
    <3> QED  BY <1>1, <1>2, <3>1, <3>2
  <2>2. LiveOf(heap', w) = LiveOf(heap, w)
    BY <2>1
  <2> QED  BY <1>1, <1>3, <2>2
<1> QED  BY <1>5, <1>6, <1>7 DEF CountsAgree, LiveOf

LEMMA AddVariableCounts ==
    ASSUME IInv, Known, VarsLinked, CountsAgree, AddVariable
    PROVE  CountsAgree'
<1>1. PICK id \in VarIds \ variable_map :
        variable_map' = variable_map \cup {id} /\ var_count' = [var_count EXCEPT ![id] = 0]
  BY AddTakes DEF Taken
<1>2. /\ heap \in LooseHeap /\ heap' = heap /\ alive /\ UNCHANGED num_productions_
      /\ num_variables_' = num_variables_ + 1
      /\ var_count \in [VarIds -> Int] /\ variable_map \subseteq VarIds
  BY InvTypes DEF AddVariable, IInv, StoreTypes
<1>3. /\ num_productions_ = Cardinality(Live(heap))
      /\ num_variables_ = Cardinality(variable_map)
      /\ \A w \in variable_map : var_count[w] = Cardinality(LiveOf(heap, w))
  BY <1>2, CountsAre
<1>4. num_variables_' = Cardinality(variable_map')
  <2>1. IsFiniteSet(variable_map)
    BY <1>2, VarsFinite
  <2> QED  BY <1>1, <1>2, <1>3, <2>1, FS_AddElement
<1>5. Cardinality(LiveOf(heap, id)) = 0
  <2>1. \A x \in Live(heap) : x \in Cells /\ heap.var[x] # 0
    BY <1>2, LiveFinite DEF Live
  <2>2. \A x : x \in LiveOf(heap, id) <=> x \in Live(heap) /\ heap.var[x] = id
    BY <1>2, LiveFinite
  <2>3. LiveOf(heap, id) = {}
    BY <1>1, <2>1, <2>2 DEF Known
  <2> QED  BY <2>3, FS_EmptySet
<1>6. \A w \in variable_map' : var_count'[w] = Cardinality(LiveOf(heap, w))
  BY <1>1, <1>2, <1>3, <1>5
<1> QED  BY <1>2, <1>3, <1>4, <1>6 DEF CountsAgree, LiveOf

LEMMA CountsNext ==
    ASSUME IInv, Tidy(heap), Known, alive => VarsLinked, CountsAgree, [Next]_vars
    PROVE  CountsAgree'
<1>1. CASE Quiet
  <2>1. /\ heap \in LooseHeap /\ heap' \in LooseHeap /\ Live(heap') = Live(heap)
        /\ UNCHANGED <<variable_map, num_variables_, var_count, num_productions_, alive>>
    BY <1>1, InvTypes DEF Quiet, Ages, countvars
  <2>2. \A x \in Live(heap) : heap'.var[x] = heap.var[x]
    <3>1. \A x \in Live(heap) : x \in heap.alloc
      BY DEF Live
    <3> QED  BY <1>1, <2>1, <3>1, LiveStays, AgesFade DEF Quiet
  <2>3. \A w : LiveOf(heap', w) = LiveOf(heap, w)
    <3> TAKE w
    <3>1. /\ \A x : x \in LiveOf(heap, w) <=> x \in Live(heap) /\ heap.var[x] = w
          /\ \A x : x \in LiveOf(heap', w) <=> x \in Live(heap') /\ heap'.var[x] = w
      BY <2>1, LiveFinite
    <3> QED  BY <2>1, <2>2, <3>1
  <2> QED  BY <2>1, <2>3 DEF CountsAgree, LiveOf
<1>2. CASE AddVariable
  BY <1>2, AddVariableCounts DEF AddVariable
<1>3. ASSUME NEW v \in VarIds, UnsafeRemoveVariable(v) PROVE CountsAgree'
  BY <1>3, RemoveVariableCounts
<1>4. ASSUME NEW v \in VarIds, NEW s \in Strings, NEW d \in Handles \cup {NoHandle},
             AddProduction(v, s, d)
      PROVE  CountsAgree'
  BY <1>4, AddProductionCounts
<1>5. ASSUME NEW d \in Handles, RemoveProduction(d) PROVE CountsAgree'
  BY <1>5, RemoveProductionCounts
<1>6. CASE Destroy
  BY <1>6 DEF Destroy, CountsAgree
<1> QED  BY <1>1, <1>2, <1>3, <1>4, <1>5, <1>6, StepCases

-----------------------------------------------------------------------------
(* The searches for the next production.                                     *)

\* The first live production of a variable.
LEMMA SkipFirst ==
    ASSUME NEW h \in LooseHeap, Tidy(h), NEW v \in VarIds,
           NEW pos \in [Cells -> Nat], NEW top \in Nat, Rises(h, pos, top)
    PROVE  /\ SkipDeleted(h, h.first[v]) \in LiveOf(h, v) \cup {NoCell}
           /\ \A z \in LiveOf(h, v) : /\ SkipDeleted(h, h.first[v]) # NoCell
                                      /\ pos[SkipDeleted(h, h.first[v])] <= pos[z]
<1> DEFINE y == h.first[v]
           f == SkipDeleted(h, y)
<1>1. y \in OfVar(h, v) \cup {NoCell}
  BY ListChained DEF Tidy, Chained
<1>2. /\ f \in LiveOf(h, v) \cup {NoCell}
      /\ \A z \in OfVar(h, v) : /\ y # NoCell /\ pos[y] <= pos[z]
                                /\ f = NoCell \/ pos[z] < pos[f]
                                => z \notin Live(h)
  <2> HIDE DEF y
  <2> QED  BY <1>1, SkipFinds DEF LiveOf
<1>3. ASSUME NEW z \in LiveOf(h, v) PROVE f # NoCell /\ pos[f] <= pos[z]
  <2>1. z \in OfVar(h, v) /\ z \in Live(h) /\ z \in Cells
    BY LiveFinite DEF LiveOf
  <2>2. y # NoCell /\ pos[y] <= pos[z]
    BY <2>1, HeadFirst, LooseTypes DEF OfVar
  <2>3. f # NoCell /\ ~(pos[z] < pos[f])
    BY <1>2, <2>1, <2>2
  <2>4. f \in Cells
    BY <1>2, <2>3, LiveFinite
  <2> QED  BY <2>1, <2>3, <2>4
<1> QED  BY <1>2, <1>3

\* Production c does not come after e: its variable is smaller, or it is the
\* same and its hash is not greater.
Before(h, c, e) ==
    \/ h.var[c] < h.var[e]
    \/ h.var[c] = h.var[e] /\ Key[h.rhs[c]] <= Key[h.rhs[e]]

\* What set_next_production looks for is the first live production of the
\* variables from id on.
LEMMA FirstFromIs ==
    ASSUME NEW h \in LooseHeap, Tidy(h), variable_map \subseteq VarIds, NEW id \in Nat,
           \A c \in Live(h) : h.var[c] \in variable_map
    PROVE  /\ FirstFrom(h, id) \in LiveFrom(h, id) \cup {NoCell}
           /\ \A c \in LiveFrom(h, id) : /\ FirstFrom(h, id) # NoCell
                                         /\ Before(h, FirstFrom(h, id), c)
<1> DEFINE S == {v \in variable_map : v >= id /\ SkipDeleted(h, h.first[v]) # NoCell}
           f == FirstFrom(h, id)
<1>1. PICK pos \in [Cells -> Nat], top \in Nat : Rises(h, pos, top)
  BY DEF Tidy, Rising
<1>2. \A v \in variable_map :
         /\ SkipDeleted(h, h.first[v]) \in LiveOf(h, v) \cup {NoCell}
         /\ \A z \in LiveOf(h, v) : /\ SkipDeleted(h, h.first[v]) # NoCell
                                    /\ pos[SkipDeleted(h, h.first[v])] <= pos[z]
  BY <1>1, SkipFirst
<1>3. \A v, x : x \in LiveOf(h, v) <=> x \in Live(h) /\ h.var[x] = v
  BY LiveFinite
<1>4. \A c \in LiveFrom(h, id) : /\ c \in Live(h) /\ h.var[c] >= id
                                 /\ h.var[c] \in S /\ c \in LiveOf(h, h.var[c])
  BY <1>2, <1>3 DEF LiveFrom
<1>5. S = {} => f = NoCell
  BY DEF FirstFrom
<1>6. ASSUME S # {}
      PROVE  /\ f \in LiveFrom(h, id)
             /\ \A c \in LiveFrom(h, id) : Before(h, f, c)
  <2> DEFINE v == LeastVar(S)
  <2>1. v \in S /\ \A w \in S : v <= w
    <3>1. S \in SUBSET VarIds
      OBVIOUS
    <3> HIDE DEF S
    <3> QED  BY <1>6, <3>1, LeastVarIs
  <2>2. f = SkipDeleted(h, h.first[v])
    BY <1>6 DEF FirstFrom
  <2> HIDE DEF v, f
  <2>3. v \in VarIds /\ v \in variable_map /\ v >= id /\ f # NoCell /\ f \in LiveOf(h, v)
    BY <1>2, <2>1, <2>2
  <2>4. f \in LiveFrom(h, id) /\ h.var[f] = v
    BY <1>3, <2>3 DEF LiveFrom
  <2>5. ASSUME NEW c \in LiveFrom(h, id) PROVE Before(h, f, c)
    <3>1. v <= h.var[c] /\ h.var[c] \in VarIds
      BY <1>4, <2>1
    <3>2. CASE h.var[c] = v
      <4>1. c \in LiveOf(h, v) /\ pos[f] <= pos[c]
        BY <1>2, <1>4, <2>2, <2>3, <3>2
      <4>2. f \in OfVar(h, v) /\ c \in OfVar(h, v)
        BY <2>3, <4>1 DEF LiveOf
      <4>3. Key[h.rhs[f]] <= Key[h.rhs[c]]
        BY <1>1, <2>3, <4>1, <4>2, KeysClimb
      <4> QED  BY <2>4, <3>2, <4>3 DEF Before
    <3>3. CASE h.var[c] # v
      BY <2>3, <2>4, <3>1, <3>3, Ids DEF Before
    <3> QED  BY <3>2, <3>3
  <2> QED  BY <2>4, <2>5
<1> QED
  <2>1. CASE S = {}
    BY <1>4, <1>5, <2>1
  <2>2. CASE S # {}
    <3>1. \A c \in LiveFrom(h, id) : c \in Cells
      BY LiveFinite DEF LiveFrom
    <3>2. f # NoCell
      BY <1>6, <2>2, <3>1, LooseTypes
    <3> QED  BY <1>6, <2>2, <3>2
  <2> QED  BY <2>1, <2>2

\* The search of find_next_production, from a production of v or from the end
\* of its list: it goes through the list, and then through the variables.
VarWalk(h, walk) ==
    \A w \in VarIds \cup {0} :
       walk[w] = IF w = 0 THEN NoCell
                 ELSE IF SkipDeleted(h, h.first[w]) # NoCell THEN SkipDeleted(h, h.first[w])
                 ELSE walk[var_next[w]]

LEMMA OnwardWalks ==
    ASSUME IInv, VarsLinked, NEW h \in LooseHeap, Tidy(h), NEW v \in VarIds,
           NEW p \in OfVar(h, v) \cup {NoCell}
    PROVE  \E walk : /\ VarWalk(h, walk)
                     /\ Onward(h, v, p) = IF SkipDeleted(h, p) # NoCell THEN SkipDeleted(h, p)
                                          ELSE walk[var_next[v]]
<1> DEFINE V == Live(h) \cup {NoCell}
           here == SkipDeleted(h, p)
           Head(w) == SkipDeleted(h, h.first[w])
           stop == {w \in VarIds : Head(w) # NoCell}
           Eq(f) == f = [w \in VarIds \cup {0} |->
                           IF w = 0 THEN NoCell
                           ELSE LET q == SkipDeleted(h, h.first[w])
                                IN  IF q # NoCell THEN q ELSE f[var_next[w]]]
           walk == CHOOSE f : Eq(f)
           base == [w \in VarIds \cup {0} |-> IF w = 0 THEN NoCell ELSE Head(w)]
           g    == [w \in VarIds |-> [c \in V |-> c]]
<1>2. PICK place \in [Cells -> Nat], last \in Nat : Rises(h, place, last)
  BY DEF Tidy, Rising
<1>3. here \in V /\ \A w \in VarIds : Head(w) \in V
  BY <1>2, SkipFinds, SkipFirst DEF LiveOf
<1>4. PICK pos \in [VarIds -> Nat], top \in Nat : Walkable(VarIds, 0, var_next, {}, pos, top)
  BY VarsRise
<1>5. var_next \in [VarIds -> VarIds \cup {0}] /\ 0 \notin VarIds /\ NoCell \in V
  BY Ids DEF IInv, StoreTypes
<1> HIDE DEF V, here, Head
<1>6. \E f : Eq(f)
  <2>1. Walkable(VarIds, 0, var_next, stop, pos, top)
    BY <1>4 DEF Walkable
  <2>2. base \in [VarIds \cup {0} -> V] /\ g \in [VarIds -> [V -> V]]
    BY <1>3, <1>5
  <2> HIDE DEF base, g, stop
  <2>3. PICK f \in [VarIds \cup {0} -> V] : Walk(VarIds, 0, var_next, stop, base, g, f)
    BY <2>1, <2>2, WalkExists
  <2>4. \A w \in VarIds \cup {0} :
          f[w] = IF w = 0 THEN NoCell
                 ELSE IF Head(w) # NoCell THEN Head(w) ELSE f[var_next[w]]
    <3>1. \A w \in VarIds \cup {0} :
            f[w] = IF w \in stop \cup {0} THEN base[w] ELSE g[w][f[var_next[w]]]
      BY <2>3 DEF Walk
    <3>2. \A w \in VarIds : f[var_next[w]] \in V
      BY <1>5
    <3>3. \A w \in VarIds : g[w][f[var_next[w]]] = f[var_next[w]]
      BY <3>2 DEF g
    <3>4. \A w \in VarIds \cup {0} : base[w] = IF w = 0 THEN NoCell ELSE Head(w)
      BY DEF base
    <3>5. \A w \in VarIds : w \in stop <=> Head(w) # NoCell
      BY DEF stop
    <3> QED  BY <1>5, <3>1, <3>3, <3>4, <3>5
  <2>5. f = [w \in VarIds \cup {0} |-> f[w]]
    OBVIOUS
  <2>6. Eq(f)
    BY <2>4, <2>5 DEF Head
  <2> QED  BY <2>6
<1>7. Eq(walk)
  <2> HIDE DEF Eq
  <2> QED  BY <1>6
<1>8. Onward(h, v, p) = IF here # NoCell THEN here ELSE walk[var_next[v]]
  BY <1>5 DEF Onward, here
<1>9. \A w \in VarIds \cup {0} :
        walk[w] = IF w = 0 THEN NoCell
                  ELSE IF Head(w) # NoCell THEN Head(w) ELSE walk[var_next[w]]
  <2> HIDE DEF walk
  <2> QED  BY <1>7 DEF Head
<1> QED
  <2>1. VarWalk(h, walk)
    <3> HIDE DEF walk
    <3> QED  BY <1>9 DEF VarWalk, Head
  <2> HIDE DEF walk, Eq
  <2> QED  BY <1>8, <2>1 DEF here

LEMMA OnwardStays ==
    ASSUME IInv, VarsLinked, NEW h \in LooseHeap, Tidy(h), NEW v \in VarIds,
           NEW p \in OfVar(h, v) \cup {NoCell}
    PROVE  Onward(h, v, p) \in Live(h) \cup {NoCell}
<1> DEFINE V == Live(h) \cup {NoCell}
           Head(w) == SkipDeleted(h, h.first[w])
           stop == {w \in VarIds : Head(w) # NoCell}
<1>1. PICK place \in [Cells -> Nat], last \in Nat : Rises(h, place, last)
  BY DEF Tidy, Rising
<1>2. SkipDeleted(h, p) \in V /\ \A w \in VarIds : Head(w) \in V
  BY <1>1, SkipFinds, SkipFirst DEF LiveOf
<1>3. PICK pos \in [VarIds -> Nat], top \in Nat : Walkable(VarIds, 0, var_next, {}, pos, top)
  BY VarsRise
<1>4. var_next \in [VarIds -> VarIds \cup {0}] /\ 0 \notin VarIds /\ NoCell \in V
  BY Ids DEF IInv, StoreTypes
<1>5. PICK walk : /\ VarWalk(h, walk)
                  /\ Onward(h, v, p) = IF SkipDeleted(h, p) # NoCell THEN SkipDeleted(h, p)
                                       ELSE walk[var_next[v]]
  BY OnwardWalks
<1>6. Search(VarIds, 0, var_next, stop, V, walk)
  <2>1. \A w \in VarIds \cup {0} :
          walk[w] = IF w = 0 THEN NoCell ELSE IF Head(w) # NoCell THEN Head(w) ELSE walk[var_next[w]]
    BY <1>5 DEF VarWalk
  <2> HIDE DEF Head, V
  <2> QED  BY <1>2, <1>4, <2>1 DEF Search
<1>7. Climbs(VarIds, 0, var_next, pos, top)
  BY <1>3 DEF Walkable, Climbs
<1>8. walk[var_next[v]] \in V
  <2>1. var_next[v] \in VarIds \cup {0}
    BY <1>4
  <2> HIDE DEF stop, V
  <2> QED  BY <1>6, <1>7, <2>1, WalkIn
<1> QED  BY <1>2, <1>5, <1>8

\* find_next_production, from whatever slot.
LEMMA NextStays ==
    ASSUME IInv, VarsLinked, NEW h \in LooseHeap, Tidy(h), NEW c \in Cells
    PROVE  FindNext(h, c) \in Live(h) \cup {NoCell}
<1>1. variable_map \subseteq VarIds
  BY DEF IInv, StoreTypes
<1>2. \A v \in VarIds : Chained(OfVar(h, v), NoCell, h.next, h.first[v])
  BY ListChained DEF Tidy
<1>3. CASE h.var[c] # 0
  <2>1. h.var[c] \in VarIds /\ c \in OfVar(h, h.var[c])
    BY <1>3, LooseTypes DEF OfVar, Tidy, Threads
  <2>2. h.next[c] \in OfVar(h, h.var[c]) \cup {NoCell}
    BY <1>2, <2>1 DEF Chained
  <2> QED  BY <1>3, <2>1, <2>2, OnwardStays DEF FindNext
<1>4. CASE h.var[c] = 0
  <2> DEFINE S == {v \in variable_map : v >= h.prev[c]}
             w == LeastVar(S)
  <2>1. CASE S = {}
    BY <1>4, <2>1 DEF FindNext
  <2>2. CASE S # {}
    <3>1. w \in S
      <4>1. S \in SUBSET VarIds
        BY <1>1
      <4> HIDE DEF S
      <4> QED  BY <2>2, <4>1, LeastVarIs
    <3>2. FindNext(h, c) = Onward(h, w, h.first[w])
      BY <1>4, <2>2 DEF FindNext
    <3>3. w \in VarIds
      BY <1>1, <3>1
    <3> HIDE DEF S, w
    <3>4. h.first[w] \in OfVar(h, w) \cup {NoCell}
      BY <1>2, <3>3 DEF Chained
    <3> QED  BY <3>2, <3>3, <3>4, OnwardStays
  <2> QED  BY <2>1, <2>2
<1> QED  BY <1>3, <1>4

LEMMA SearchesStay ==
    ASSUME IInv, Tidy(heap), Known, alive => VarsLinked
    PROVE  WalksStay
<1> SUFFICES ASSUME alive PROVE WalksStay
  BY DEF WalksStay
<1>1. heap \in LooseHeap /\ variable_map \subseteq VarIds /\ heap.alloc \subseteq Cells
  BY InvTypes, LooseTypes DEF IInv, StoreTypes
<1>2. PICK pos \in [Cells -> Nat], top \in Nat : Rises(heap, pos, top)
  BY DEF Tidy, Rising
<1>3. ASSUME NEW c \in heap.alloc PROVE FindNext(heap, c) \in Live(heap) \cup {NoCell}
  BY <1>1, NextStays
<1>4. ASSUME NEW v \in VarIds PROVE FirstFrom(heap, v) \in LiveFrom(heap, v) \cup {NoCell}
  <2>1. \A c \in Live(heap) : heap.var[c] \in variable_map
    BY <1>1, LiveFinite, Ids DEF Known
  <2> QED  BY <1>1, <2>1, FirstFromIs, Ids
<1>5. \A v \in variable_map, s \in Strings : Spot(heap, v, s) \in OfVar(heap, v) \cup {NoCell}
  BY <1>1, <1>2, SpotFinds
<1> QED  BY <1>3, <1>4, <1>5 DEF WalksStay

-----------------------------------------------------------------------------
(* The theorems about the order.                                             *)

OInv == Tidy(heap) /\ Known /\ (alive => VarsLinked) /\ CountsAgree

LEMMA OrderInit == Init => OInv
<1> SUFFICES ASSUME Init PROVE OInv
  OBVIOUS
<1>1. /\ heap = EmptyHeap /\ variable_map = {} /\ num_productions_ = 0 /\ num_variables_ = 0
  BY DEF Init
<1>2. Known
  BY <1>1 DEF Known, EmptyHeap
<1>3. Live(heap) = {}
  BY <1>1 DEF Live, EmptyHeap
<1>4. CountsAgree
  BY <1>1, <1>3, FS_EmptySet DEF CountsAgree
<1> QED  BY <1>2, <1>4, TidyInit, VarsInit DEF OInv

LEMMA OrderNext == IInv /\ OInv /\ [Next]_vars => OInv'
<1> SUFFICES ASSUME IInv, OInv, [Next]_vars PROVE OInv'
  OBVIOUS
<1>1. Tidy(heap') /\ Known'
  BY TidyNext, KnownNext DEF OInv
<1>2. alive' => VarsLinked'
  BY VarsNext DEF OInv
<1>3. CountsAgree'
  BY CountsNext DEF OInv
<1> QED  BY <1>1, <1>2, <1>3 DEF OInv

\* The invariant of the order holds in every reachable state.
THEOREM OrderInvariance == Spec => []OInv
<1>1. Init => OInv
  BY OrderInit
<1>2. IInv /\ OInv /\ [Next]_vars => OInv'
  BY OrderNext
<1> QED  BY <1>1, <1>2, Invariance, PTL DEF Spec

\* Whatever hashes collide and in whatever order productions and variables are
\* added, removed and brought back: the lists of productions go through all the
\* productions of their variable, sorted and without duplicates; the variables
\* are linked in the order of their ids and the unused ones are all in their
\* chain; the counters of the grammar and of the variables count what is there.
THEOREM OrderIsKept == Spec => []OrderKept
<1>1. IInv /\ OInv => OrderKept
  <2> SUFFICES ASSUME IInv, OInv PROVE OrderKept
    OBVIOUS
  <2>1. ListsSorted
    BY SortedLists DEF OInv
  <2>2. VariablesOK
    BY UnusedChained DEF OInv, VariablesOK
  <2> QED  BY <2>1, <2>2 DEF OInv, OrderKept
<1> QED  BY <1>1, Invariance, OrderInvariance, PTL

\* From every production that somebody may still hold, removed or orphaned, the
\* search of a generator ends with a live production or with none, and so do
\* the search for first_production and the walk of add_production.
THEOREM WalksDoStay == Spec => []WalksStay
<1>1. IInv /\ OInv => WalksStay
  BY SearchesStay DEF OInv
<1> QED  BY <1>1, Invariance, OrderInvariance, PTL

-----------------------------------------------------------------------------
(* first_production.                                                         *)

\* No live production comes before f; there is none when f is null.
LeastLive(h, f) ==
    /\ f = NoCell => Live(h) = {}
    /\ f # NoCell => \A c \in Live(h) : Before(h, f, c)

LEMMA LeastFades ==
    ASSUME NEW h, NEW k, Fades(h, k), Live(k) \subseteq h.alloc, NEW f \in Live(k) \cup {NoCell},
           f = NoCell => Live(k) = {},
           f # NoCell => \A c \in Live(k) : Before(h, f, c)
    PROVE  LeastLive(k, f)
<1>1. \A c \in Live(k) : k.var[c] = h.var[c] /\ k.rhs[c] = h.rhs[c]
  <2>1. \A c \in Live(k) : c \in h.alloc /\ c \in k.alloc
    BY DEF Live
  <2> QED  BY <2>1, LiveStays DEF Fades
<1> QED  BY <1>1 DEF LeastLive, Before

\* add_production compares its production with the first one.
LEMMA AddedLeast ==
    ASSUME IInv, LeastLive(heap, first_production), NEW k \in LooseHeap, NEW c \in Live(k), NEW v,
           NEW d \in Handles \cup {NoHandle}, k.var[c] = v,
           Live(k) = Live(heap) \cup {c}, Live(heap') = Live(k), Ages(k, heap'),
           \A x \in Live(heap) : k.var[x] = heap.var[x] /\ k.rhs[x] = heap.rhs[x],
           Added(k, c, v, d)
    PROVE  LeastLive(heap', first_production')
<1> DEFINE f == first_production
           g == first_production'
<1>1. f \in Live(heap) \cup {NoCell} /\ NoCell \notin Cells
  BY NullsAssumption DEF IInv, FirstLive, CellOrNull
<1>2. /\ \A x \in Live(k) : x \in k.alloc /\ x # NoCell /\ k.var[x] \in Nat /\ Key[k.rhs[x]] \in Int
      /\ Live(k) \subseteq k.alloc
  <2>1. \A x \in Live(k) : x \in Cells /\ x \in k.alloc /\ k.var[x] \in VarIds
    BY LiveFinite
  <2>2. \A x \in Cells : k.rhs[x] \in Strings /\ Key[k.rhs[x]] \in Int
    BY LooseTypes, KeyAssumption
  <2> QED  BY <1>1, <2>1, <2>2, Ids
<1>3. g = IF \/ f = NoCell
             \/ k.var[f] > v
             \/ k.var[f] = v /\ Key[k.rhs[c]] < Key[k.rhs[f]]
          THEN c ELSE f
  BY DEF Added
<1>4. f = NoCell => Live(heap) = {}
  BY DEF LeastLive
<1>5. ASSUME f # NoCell, NEW x \in Live(heap) PROVE Before(k, f, x) /\ f \in Live(k)
  <2>1. Before(heap, f, x)
    BY <1>5 DEF LeastLive
  <2> QED  BY <1>1, <1>5, <2>1 DEF Before
<1>6. g \in Live(k)
  BY <1>1, <1>3
<1> HIDE DEF f, g
<1>7. ASSUME NEW x \in Live(k) PROVE Before(k, g, x)
  <2>1. CASE f = NoCell
    BY <1>2, <1>3, <1>4, <2>1 DEF Before
  <2>2. CASE f # NoCell
    <3>1. f \in Live(k) /\ f # NoCell /\ k.var[f] \in Nat /\ Key[k.rhs[f]] \in Int
      BY <1>1, <1>2, <2>2
    <3>2. /\ k.var[x] \in Nat /\ Key[k.rhs[x]] \in Int /\ k.var[c] = v
          /\ k.var[c] \in Nat /\ Key[k.rhs[c]] \in Int
      BY <1>2
    <3>3. x # c => Before(k, f, x)
      BY <1>5, <2>2
    <3>4. Before(k, g, c) /\ (g = f \/ (g = c /\ Before(k, c, f)))
      BY <1>3, <3>1, <3>2 DEF Before
    <3>5. Before(k, c, f) /\ Before(k, f, x) => Before(k, c, x)
      BY <3>1, <3>2 DEF Before
    <3> QED  BY <3>3, <3>4, <3>5
  <2> QED  BY <2>1, <2>2
<1> QED  BY <1>1, <1>2, <1>6, <1>7, LeastFades, AgesFade DEF g

LEMMA AddProductionLeast ==
    ASSUME IInv, Tidy(heap), LeastLive(heap, first_production), NEW v \in VarIds,
           NEW s \in Strings, NEW d \in Handles \cup {NoHandle}, AddProduction(v, s, d)
    PROVE  LeastLive(heap', first_production')
<1>1. heap \in LooseHeap /\ \A x \in Live(heap) : x \in heap.alloc
  BY InvTypes DEF Live
<1>2. CASE AddNew(v, s, d)
  <2>1. PICK c \in Cells \ heap.alloc : \E k : Grown(k, c, v, s, d)
    BY <1>2, NewGrown
  <2>2. PICK k : Grown(k, c, v, s, d)
    BY <2>1
  <2>3. /\ k \in LooseHeap /\ Live(k) = Live(heap) \cup {c} /\ Live(heap') = Live(k)
        /\ k.var[c] = v /\ Added(k, c, v, d) /\ Ages(k, heap')
        /\ \A x \in Live(heap) : k.var[x] = heap.var[x] /\ k.rhs[x] = heap.rhs[x]
    BY <1>1, <2>2 DEF Grown
  <2> QED  BY <2>3, AddedLeast
<1>3. CASE AddDuplicate(v, s, d)
  <2>1. PICK c \in OfVar(heap, v) :
          /\ c = Spot(heap, v, s)
          /\ \/ /\ heap.del[c]
                /\ Added(Hold([heap EXCEPT !.del[c] = FALSE], c), c, v, d)
             \/ ~heap.del[c] /\ Added(heap, c, v, d)
    BY <1>3 DEF AddDuplicate
  <2>2. Live(heap') = Live(heap) \cup {c} /\ c \in Cells /\ c \in heap.alloc /\ heap.var[c] = v /\ v # 0
    BY <1>1, <1>3, <2>1, AddDuplicateHeld, LooseTypes, Ids DEF OfVar
  <2>3. CASE ~heap.del[c] /\ Added(heap, c, v, d)
    <3>1. c \in Live(heap)
      BY <2>2, <2>3 DEF Live
    <3>2. Ages(heap, heap')
      BY <1>3, AddDuplicateAges
    <3> QED  BY <1>1, <2>2, <2>3, <3>1, <3>2, AddedLeast
  <2>4. CASE /\ heap.del[c]
             /\ Added(Hold([heap EXCEPT !.del[c] = FALSE], c), c, v, d)
    <3> DEFINE k == Hold([heap EXCEPT !.del[c] = FALSE], c)
    <3>1. /\ k \in LooseHeap /\ k.alloc = heap.alloc /\ k.var = heap.var /\ k.rhs = heap.rhs
          /\ k.del = [heap.del EXCEPT ![c] = FALSE]
      <4> DEFINE m == [heap EXCEPT !.del[c] = FALSE]
      <4>1. /\ m \in LooseHeap /\ m.alloc = heap.alloc /\ m.var = heap.var /\ m.rhs = heap.rhs
            /\ m.del = [heap.del EXCEPT ![c] = FALSE]
        BY <1>1, <2>2 DEF LooseHeap
      <4>2. k = Hold(m, c)
        OBVIOUS
      <4> HIDE DEF m, k
      <4>3. Ages(m, k)
        BY <2>2, <4>1, <4>2, HoldAges
      <4>4. k.alloc = m.alloc /\ k.var = m.var /\ k.rhs = m.rhs /\ k.del = m.del
        BY <4>1, <4>2 DEF Hold, LooseHeap
      <4> QED  BY <4>1, <4>3, <4>4 DEF Ages
    <3>2. Added(k, c, v, d)
      BY <2>4
    <3> HIDE DEF k
    <3>3. Live(k) = Live(heap) \cup {c}
      BY <1>1, <2>2, <3>1, LooseTypes DEF Live
    <3>4. Ages(k, heap')
      BY <2>2, <3>1, <3>2, AddedAges
    <3> QED  BY <2>2, <3>1, <3>2, <3>3, <3>4, AddedLeast
  <2> QED  BY <2>1, <2>3, <2>4
<1> QED  BY <1>2, <1>3 DEF AddProduction

LEMMA RemoveProductionLeast ==
    ASSUME IInv, Tidy(heap), Known, LeastLive(heap, first_production),
           NEW d \in Handles, RemoveProduction(d)
    PROVE  LeastLive(heap', first_production')
<1> DEFINE c == ptr[d]
           h == [heap EXCEPT !.del[c] = TRUE]
<1>1. /\ heap \in LooseHeap /\ c \in Live(heap) /\ c \in Cells /\ heap.var[c] \in Nat
      /\ variable_map \subseteq VarIds
      /\ \A x \in Live(heap) : x \in Cells /\ x \in heap.alloc /\ heap.var[x] \in VarIds
      /\ first_production \in Live(heap) \cup {NoCell}
  BY InvTypes, LiveFinite, Ids DEF RemoveProduction, IInv, StoreTypes, FirstLive
<1>2. /\ h \in LooseHeap /\ h.alloc = heap.alloc /\ h.var = heap.var /\ h.rhs = heap.rhs
      /\ h.del = [heap.del EXCEPT ![c] = TRUE]
  BY <1>1 DEF LooseHeap
<1>3. Ages(heap, h)
  BY <1>1, MarkAges
<1>4. /\ heap' = Release(h, c) /\ Live(heap') = Live(heap) \ {c}
      /\ first_production = c => first_production' = FirstFrom(h, heap.var[c])
      /\ first_production # c => first_production' = first_production
  BY RemoveProductionInv DEF RemoveProduction, SetNextProduction
<1> HIDE DEF h, c
<1>5. Live(h) = Live(heap) \ {c} /\ Ages(h, heap') /\ Tidy(h)
  <2>1. Live(h) = Live(heap) \ {c}
    BY <1>1, <1>2, LooseTypes DEF Live
  <2>2. Ages(h, heap')
    BY <1>1, <1>2, <1>4, ReleaseAges
  <2> QED  BY <1>3, <2>1, <2>2 DEF Ages, Tidier
<1>6. Live(heap') \subseteq h.alloc /\ Live(heap') \subseteq heap.alloc
  BY <1>1, <1>2, <1>4
<1>7. CASE first_production = c
  <2> DEFINE f == FirstFrom(h, heap.var[c])
  <2>1. \A x \in Live(h) : h.var[x] \in variable_map
    BY <1>1, <1>2, <1>5, Ids DEF Known
  <2>2. /\ f \in LiveFrom(h, heap.var[c]) \cup {NoCell}
        /\ \A x \in LiveFrom(h, heap.var[c]) : f # NoCell /\ Before(h, f, x)
    BY <1>1, <1>2, <1>5, <2>1, FirstFromIs
  <2>3. \A x \in Live(h) : x \in LiveFrom(h, heap.var[c])
    <3>1. c # NoCell
      BY <1>1, LooseTypes
    <3>2. \A x \in Live(heap) : Before(heap, c, x)
      BY <1>7, <3>1 DEF LeastLive
    <3>3. \A x \in Live(heap) : heap.var[x] >= heap.var[c]
      <4>1. \A x \in Live(heap) : heap.var[x] \in Nat
        BY <1>1, Ids
      <4>2. \A x \in Live(heap) : heap.var[c] < heap.var[x] \/ heap.var[c] = heap.var[x]
        BY <3>2 DEF Before
      <4> QED  BY <1>1, <4>1, <4>2
    <3> QED  BY <1>2, <1>5, <3>3 DEF LiveFrom
  <2>4. f \in Live(h) \cup {NoCell} /\ first_production' = f
    BY <1>4, <1>7, <2>2 DEF LiveFrom
  <2> HIDE DEF f
  <2>5. Live(heap') = Live(h)
    BY <1>4, <1>5
  <2> QED  BY <1>5, <1>6, <2>2, <2>3, <2>4, <2>5, LeastFades, AgesFade
<1>8. CASE first_production # c
  <2>1. first_production' \in Live(heap') \cup {NoCell}
    BY <1>1, <1>4, <1>8
  <2>2. Ages(heap, heap')
    BY RemoveProductionAges
  <2>3. /\ first_production' = NoCell => Live(heap') = {}
        /\ first_production' # NoCell => \A x \in Live(heap') : Before(heap, first_production', x)
    BY <1>4, <1>8 DEF LeastLive
  <2> QED  BY <1>6, <2>1, <2>2, <2>3, LeastFades, AgesFade
<1> QED  BY <1>7, <1>8

LEMMA RemoveVariableLeast ==
    ASSUME IInv, Tidy(heap), Known, LeastLive(heap, first_production),
           NEW v \in VarIds, UnsafeRemoveVariable(v)
    PROVE  LeastLive(heap', first_production')
<1> DEFINE f == first_production
           g == first_production'
<1>1. /\ heap \in LooseHeap /\ variable_map \subseteq VarIds /\ v \in Nat
      /\ \A x \in Live(heap) : x \in Cells /\ x \in heap.alloc /\ heap.var[x] \in VarIds
      /\ f \in Live(heap) \cup {NoCell}
  BY InvTypes, LiveFinite, Ids DEF IInv, StoreTypes, FirstLive
<1>2. \A c : c \in Live(heap') <=> c \in Live(heap) /\ heap.var[c] # v
  BY UnsafeRemoveVariableInv
<1>3. Fades(heap, heap')
  BY <1>1, OrphanFades DEF UnsafeRemoveVariable
<1>4. /\ f # NoCell /\ heap.var[f] = v => g = FirstFrom(heap, v + 1)
      /\ ~(f # NoCell /\ heap.var[f] = v) => g = f
  BY DEF UnsafeRemoveVariable, SetNextProduction
<1>5. Live(heap') \subseteq heap.alloc
  BY <1>1, <1>2
<1>6. CASE f # NoCell /\ heap.var[f] = v
  <2>1. \A x \in Live(heap) : heap.var[x] \in variable_map
    BY <1>1, Ids DEF Known
  <2>2. v + 1 \in Nat
    BY <1>1
  <2>3. /\ g \in LiveFrom(heap, v + 1) \cup {NoCell}
        /\ \A x \in LiveFrom(heap, v + 1) : g # NoCell /\ Before(heap, g, x)
    BY <1>1, <1>4, <1>6, <2>1, <2>2, FirstFromIs
  <2>4. \A x : x \in LiveFrom(heap, v + 1) <=> x \in Live(heap')
    <3>1. \A x \in Live(heap) : heap.var[x] \in Nat /\ heap.var[x] >= v
      <4>1. \A x \in Live(heap) : heap.var[x] \in Nat
        BY <1>1, Ids
      <4>2. \A x \in Live(heap) : heap.var[f] < heap.var[x] \/ heap.var[f] = heap.var[x]
        BY <1>6 DEF LeastLive, Before
      <4> QED  BY <1>1, <1>6, <4>1, <4>2
    <3>2. \A x \in Live(heap) : heap.var[x] >= v + 1 <=> heap.var[x] # v
      BY <1>1, <3>1
    <3> QED  BY <1>2, <3>2 DEF LiveFrom
  <2> HIDE DEF f, g
  <2> QED  BY <1>3, <1>5, <2>3, <2>4, LeastFades DEF g
<1>7. CASE ~(f # NoCell /\ heap.var[f] = v)
  <2>1. g = f /\ g \in Live(heap') \cup {NoCell}
    BY <1>1, <1>2, <1>4, <1>7
  <2>2. /\ g = NoCell => Live(heap') = {}
        /\ g # NoCell => \A x \in Live(heap') : Before(heap, g, x)
    BY <1>2, <2>1 DEF LeastLive
  <2> QED  BY <1>3, <1>5, <2>1, <2>2, LeastFades
<1> QED  BY <1>6, <1>7

LEMMA LeastNext ==
    ASSUME IInv, Tidy(heap), Known, LeastLive(heap, first_production), [Next]_vars
    PROVE  LeastLive(heap', first_production')
<1>1. CASE Quiet
  <2>1. /\ first_production' = first_production /\ Live(heap') = Live(heap) /\ Ages(heap, heap')
        /\ first_production \in Live(heap) \cup {NoCell} /\ Live(heap) \subseteq heap.alloc
    BY <1>1 DEF Quiet, IInv, FirstLive, Live
  <2> QED  BY <2>1, LeastFades, AgesFade DEF LeastLive
<1>2. CASE AddVariable
  <2>1. heap' = heap /\ first_production' = first_production
    BY <1>2 DEF AddVariable
  <2> QED  BY <2>1
<1>3. ASSUME NEW v \in VarIds, UnsafeRemoveVariable(v)
      PROVE  LeastLive(heap', first_production')
  BY <1>3, RemoveVariableLeast
<1>4. ASSUME NEW v \in VarIds, NEW s \in Strings, NEW d \in Handles \cup {NoHandle},
             AddProduction(v, s, d)
      PROVE  LeastLive(heap', first_production')
  BY <1>4, AddProductionLeast
<1>5. ASSUME NEW d \in Handles, RemoveProduction(d)
      PROVE  LeastLive(heap', first_production')
  BY <1>5, RemoveProductionLeast
<1>6. CASE Destroy
  BY <1>6, DestroyInv DEF Destroy, LeastLive
<1> QED  BY <1>1, <1>2, <1>3, <1>4, <1>5, <1>6, StepCases

\* No two right hand sides have the same hash.
KeyInjective == \A s, t \in Strings : Key[s] = Key[t] => s = t

LEMMA FirstIs ==
    ASSUME IInv, Tidy(heap), LeastLive(heap, first_production), KeyInjective
    PROVE  FirstIsFirst
<1> DEFINE f == first_production
<1>1. /\ heap \in LooseHeap /\ f \in Live(heap) \cup {NoCell} /\ NoCell \notin Cells
      /\ variable_map \subseteq VarIds
      /\ \A x \in Live(heap) : x \in Cells /\ x \in heap.alloc /\ heap.var[x] \in VarIds
  BY InvTypes, LiveFinite, LooseTypes DEF IInv, StoreTypes, FirstLive
<1>2. f = NoCell <=> Live(heap) = {}
  BY <1>1 DEF LeastLive
<1>3. ASSUME f # NoCell, NEW v \in variable_map, OfVar(heap, v) \cap Live(heap) # {}
      PROVE  heap.var[f] <= v
  <2>1. PICK c \in Live(heap) : heap.var[c] = v
    BY <1>3 DEF OfVar
  <2>2. heap.var[f] < heap.var[c] \/ heap.var[f] = heap.var[c]
    BY <1>3, <2>1 DEF LeastLive, Before
  <2>3. heap.var[f] \in Nat /\ v \in Nat
    BY <1>1, <1>3, Ids
  <2> QED  BY <2>1, <2>2, <2>3
<1>4. ASSUME f # NoCell PROVE f = SkipDeleted(heap, heap.first[heap.var[f]])
  <2> DEFINE v == heap.var[f]
             e == SkipDeleted(heap, heap.first[v])
  <2>1. f \in Live(heap) /\ f \in Cells /\ v \in VarIds /\ f \in LiveOf(heap, v)
    BY <1>1, <1>4, LiveFinite
  <2>2. PICK pos \in [Cells -> Nat], top \in Nat : Rises(heap, pos, top)
    BY DEF Tidy, Rising
  <2> HIDE DEF v
  <2>3. e \in LiveOf(heap, v) \cup {NoCell} /\ e # NoCell /\ pos[e] <= pos[f]
    BY <1>1, <2>1, <2>2, SkipFirst
  <2> HIDE DEF e
  <2>4. e \in Live(heap) /\ heap.var[e] = v /\ e \in OfVar(heap, v) /\ f \in OfVar(heap, v)
    BY <1>1, <2>1, <2>3, LiveFinite DEF LiveOf
  <2>5. Key[heap.rhs[e]] <= Key[heap.rhs[f]]
    BY <1>1, <2>1, <2>2, <2>3, <2>4, KeysClimb
  <2>6. heap.var[f] = v /\ v \in Nat /\ e \in Cells
    BY <1>1, <2>1, <2>4, Ids DEF v
  <2>7. /\ heap.rhs[e] \in Strings /\ heap.rhs[f] \in Strings
        /\ Key[heap.rhs[e]] \in Int /\ Key[heap.rhs[f]] \in Int
    BY <1>1, <2>1, <2>6, LooseTypes, KeyAssumption
  <2>8. Before(heap, f, e)
    BY <1>4, <2>4 DEF LeastLive
  <2>9. Key[heap.rhs[e]] = Key[heap.rhs[f]]
    BY <2>4, <2>5, <2>6, <2>7, <2>8 DEF Before
  <2>10. heap.rhs[e] = heap.rhs[f]
    BY <2>7, <2>9 DEF KeyInjective
  <2>11. e = f
    BY <2>1, <2>4, <2>6, <2>10, Ids DEF Tidy, NoDuplicates
  <2> QED  BY <2>11 DEF e, v
<1> QED  BY <1>1, <1>2, <1>3, <1>4 DEF FirstIsFirst

LeastFirst == LeastLive(heap, first_production)

\* first_production is a production of the smallest variable that has one, and
\* one with the least hash, also where hashes collide, whatever was removed
\* while it was held and brought back.
THEOREM FirstIsLeast == Spec => []LeastFirst
<1>1. Init => LeastFirst
  <2> SUFFICES ASSUME Init PROVE LeastFirst
    OBVIOUS
  <2>1. Live(heap) = {} /\ first_production = NoCell
    BY DEF Init, EmptyHeap, Live
  <2> QED  BY <2>1 DEF LeastFirst, LeastLive
<1>2. IInv /\ OInv /\ LeastFirst /\ [Next]_vars => LeastFirst'
  BY LeastNext DEF OInv, LeastFirst
<1> QED  BY <1>1, <1>2, Invariance, OrderInvariance, PTL DEF Spec

\* Where no two hashes are equal, first_production is the first production of
\* the smallest variable, as its comment says; where two are, it may not be.
THEOREM FirstIsTheFirst == KeyInjective /\ Spec => []FirstIsFirst
<1>1. IInv /\ OInv /\ LeastFirst /\ KeyInjective => FirstIsFirst
  BY FirstIs DEF OInv, LeastFirst
<1>2. KeyInjective /\ [Next]_vars => KeyInjective'
  BY DEF KeyInjective
<1> QED  BY <1>1, <1>2, Invariance, OrderInvariance, FirstIsLeast, PTL DEF Spec
=============================================================================
