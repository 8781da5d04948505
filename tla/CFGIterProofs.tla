---------------------------- MODULE CFGIterProofs ----------------------------
(***************************************************************************)
(* Proof that the store of a grammar implements Grammar: an iteration yields *)
(* each rule at most once and misses none that stays, however the grammar is *)
(* edited meanwhile.  The argument is about what is left for a generator: the *)
(* productions that come after its cursor, in the order of the variables and, *)
(* within a variable, of the places along its list.  Every search of          *)
(* match_next() is a step along that order, and no editing of the grammar      *)
(* changes the order of the productions that stay.                            *)
(***************************************************************************)
EXTENDS CFGStoreIter, CFGOrderProofs

-----------------------------------------------------------------------------
(* What is left from a production on.                                        *)

\* Production x is c or comes after it; an orphan stands before the productions
\* of the variable that it lost.
AtOrAfter(h, pos, c, x) ==
    IF h.var[c] = 0 THEN h.prev[c] <= h.var[x]
    ELSE \/ h.var[c] < h.var[x]
         \/ h.var[c] = h.var[x] /\ pos[c] <= pos[x]

Rest(h, pos, c) == {x \in Live(h) : c # NoCell /\ AtOrAfter(h, pos, c, x)}

\* An orphan knows the variable that it lost.
Tagged(h) == \A c \in h.alloc : h.var[c] = 0 => h.prev[c] \in VarIds

\* The heap during a step of an operation on the variables that there are.
Ready(h, pos, top) ==
    /\ h \in LooseHeap /\ Tidy(h)
    /\ pos \in [Cells -> Nat] /\ top \in Nat /\ Rises(h, pos, top)
    /\ Tagged(h)
    /\ \A c \in Cells : h.var[c] # 0 => h.var[c] \in variable_map

LEMMA ReadyTypes ==
    ASSUME IInv, NEW h, NEW pos, NEW top, Ready(h, pos, top)
    PROVE  /\ variable_map \subseteq VarIds /\ NoCell \notin Cells
           /\ h.var \in [Cells -> VarIds \cup {0}] /\ 0 \notin VarIds
           /\ h.alloc \subseteq Cells
           /\ \A c \in Cells : pos[c] \in Nat /\ h.next[c] \in CellOrNull
           /\ \A v \in VarIds : v \in Nat
           /\ \A x \in Live(h) : /\ x \in Cells /\ x \in h.alloc /\ x # NoCell
                                 /\ h.var[x] \in variable_map /\ h.var[x] # 0
                                 /\ h.var[x] \in Nat
<1>1. h \in LooseHeap /\ variable_map \subseteq VarIds /\ pos \in [Cells -> Nat]
  BY DEF Ready, IInv, StoreTypes
<1>2. \A x \in Live(h) : x \in Cells /\ x \in h.alloc /\ h.var[x] \in VarIds
  BY <1>1, LiveFinite
<1>3. \A x \in Live(h) : x # NoCell /\ h.var[x] # 0 /\ h.var[x] \in variable_map
  BY <1>1, <1>2, LooseTypes DEF Ready
<1> QED  BY <1>1, <1>2, <1>3, LooseTypes, Ids

\* Skipping removed productions leaves the same live ones.
LEMMA SkipRest ==
    ASSUME IInv, NEW h, NEW pos, NEW top, Ready(h, pos, top), NEW v \in VarIds,
           NEW y \in OfVar(h, v) \cup {NoCell}
    PROVE  /\ SkipDeleted(h, y) \in LiveOf(h, v) \cup {NoCell}
           /\ \A x \in LiveOf(h, v) :
                y # NoCell /\ pos[y] <= pos[x]
                <=> SkipDeleted(h, y) # NoCell /\ pos[SkipDeleted(h, y)] <= pos[x]
<1> DEFINE e == SkipDeleted(h, y)
<1>1. /\ h \in LooseHeap /\ Tidy(h) /\ pos \in [Cells -> Nat] /\ top \in Nat
      /\ Rises(h, pos, top)
  BY DEF Ready
<1>2. /\ e \in (OfVar(h, v) \cap Live(h)) \cup {NoCell}
      /\ e # NoCell => y # NoCell /\ pos[y] <= pos[e]
      /\ \A z \in OfVar(h, v) :
           /\ y # NoCell /\ pos[y] <= pos[z]
           /\ e = NoCell \/ pos[z] < pos[e]
           => z \notin Live(h)
  BY <1>1, SkipFinds
<1>3. \A x \in OfVar(h, v) : pos[x] \in Nat
  BY <1>1, LooseTypes DEF OfVar
<1> HIDE DEF e
<1>4. ASSUME NEW x \in LiveOf(h, v)
      PROVE  y # NoCell /\ pos[y] <= pos[x] <=> e # NoCell /\ pos[e] <= pos[x]
  <2>1. x \in OfVar(h, v) /\ x \in Live(h) /\ pos[x] \in Nat
    BY <1>3 DEF LiveOf
  <2>2. ASSUME y # NoCell, pos[y] <= pos[x] PROVE e # NoCell /\ pos[e] <= pos[x]
    <3>1. e # NoCell /\ ~(pos[x] < pos[e])
      BY <1>2, <2>1, <2>2
    <3>2. pos[e] \in Nat
      BY <1>2, <1>3, <3>1
    <3> QED  BY <2>1, <3>1, <3>2
  <2>3. ASSUME e # NoCell, pos[e] <= pos[x] PROVE y # NoCell /\ pos[y] <= pos[x]
    <3>1. y # NoCell /\ pos[y] <= pos[e] /\ y \in OfVar(h, v) /\ e \in OfVar(h, v)
      BY <1>2, <2>3
    <3> QED  BY <1>3, <2>1, <2>3, <3>1
  <2> QED  BY <2>2, <2>3
<1> QED  BY <1>2, <1>4 DEF e, LiveOf

\* The search along the variables, from u on.
LEMMA VarWalkRest ==
    ASSUME IInv, VarsLinked, NEW h, NEW pos, NEW top, Ready(h, pos, top),
           NEW walk, VarWalk(h, walk), NEW u \in variable_map
    PROVE  \A x \in Live(h) : x \in Rest(h, pos, walk[u]) <=> u <= h.var[x]
<1> DEFINE P(w) == \A x \in Live(h) : x \in Rest(h, pos, walk[w]) <=> w <= h.var[x]
           Bad == {w \in variable_map : ~P(w)}
           v == GreatestVar(Bad)
           e == SkipDeleted(h, h.first[v])
<1> SUFFICES ASSUME Bad # {} PROVE FALSE
  OBVIOUS
<1>1. /\ variable_map \subseteq VarIds /\ NoCell \notin Cells /\ 0 \notin VarIds
      /\ \A w \in VarIds : w \in Nat
      /\ \A x \in Live(h) : /\ x \in Cells /\ x # NoCell
                            /\ h.var[x] \in variable_map /\ h.var[x] \in Nat
  BY ReadyTypes
<1>2. v \in Bad /\ \A w \in Bad : v >= w
  <2>1. Bad \in SUBSET VarIds
    BY <1>1
  <2> HIDE DEF Bad
  <2> QED  BY <2>1, GreatestVarIs
<1>3. /\ v \in variable_map /\ v \in VarIds /\ v # 0 /\ v \in Nat /\ ~P(v)
      /\ \A w \in variable_map : w > v => P(w)
  <2>1. v \in variable_map /\ ~P(v)
    BY <1>2
  <2>2. \A w \in variable_map : w > v => w \notin Bad
    <3>1. \A w \in variable_map : w \in Nat
      BY <1>1
    <3> HIDE DEF v, Bad
    <3> QED  BY <1>2, <2>1, <3>1
  <2> QED  BY <1>1, <2>1, <2>2
<1> HIDE DEF v, Bad
<1>4. /\ e \in LiveOf(h, v) \cup {NoCell}
      /\ \A z \in LiveOf(h, v) : e # NoCell /\ pos[e] <= pos[z]
  BY <1>3, SkipFirst DEF Ready
<1>5. \A x : x \in LiveOf(h, v) <=> x \in Live(h) /\ h.var[x] = v
  BY LiveFinite DEF Ready
<1>6. walk[v] = IF e # NoCell THEN e ELSE walk[var_next[v]]
  BY <1>3 DEF VarWalk
<1> HIDE DEF e
<1>7. CASE e # NoCell
  <2>1. e \in Live(h) /\ h.var[e] = v /\ walk[v] = e
    BY <1>4, <1>5, <1>6, <1>7
  <2>2. ASSUME NEW x \in Live(h) PROVE x \in Rest(h, pos, e) <=> v <= h.var[x]
    <3>1. h.var[x] = v => pos[e] <= pos[x]
      BY <1>4, <1>5
    <3>2. x \in Rest(h, pos, e) <=> v < h.var[x] \/ (v = h.var[x] /\ pos[e] <= pos[x])
      BY <1>3, <1>7, <2>1 DEF Rest, AtOrAfter
    <3> QED  BY <1>1, <1>3, <3>1, <3>2
  <2> QED  BY <1>3, <2>1, <2>2
<1>8. CASE e = NoCell
  <2> DEFINE n == var_next[v]
  <2>1. IsAfter(variable_map, v, n)
    BY <1>1, <1>3, AfterIs DEF VarsLinked
  <2>2. walk[v] = walk[n]
    BY <1>6, <1>8
  <2>3. \A x \in Live(h) : h.var[x] # v
    BY <1>4, <1>5, <1>8
  <2>4. CASE n = 0 /\ \A w \in variable_map : w <= v
    <3>1. walk[n] = NoCell
      BY <2>4 DEF VarWalk
    <3>2. \A x \in Live(h) : x \notin Rest(h, pos, walk[n])
      BY <3>1 DEF Rest
    <3>3. \A x \in Live(h) : ~(v <= h.var[x])
      BY <1>1, <1>3, <2>3, <2>4
    <3> QED  BY <1>3, <2>2, <3>2, <3>3
  <2>5. CASE n \in variable_map /\ n > v /\ \A w \in variable_map : w > v => n <= w
    <3>1. P(n)
      BY <1>3, <2>5
    <3>2. \A x \in Live(h) : v <= h.var[x] <=> n <= h.var[x]
      <4> TAKE x \in Live(h)
      <4>1. h.var[x] \in variable_map /\ h.var[x] \in Nat /\ n \in Nat
        BY <1>1, <2>5
      <4> QED  BY <1>3, <2>3, <2>5, <4>1
    <3> QED  BY <1>3, <2>2, <3>1, <3>2
  <2> QED  BY <2>1, <2>4, <2>5 DEF IsAfter
<1> QED  BY <1>7, <1>8

\* What is left from production p of v on, or from after the list of v.
LEMMA OnwardRest ==
    ASSUME IInv, VarsLinked, NEW h, NEW pos, NEW top, Ready(h, pos, top),
           NEW v \in variable_map, NEW p \in OfVar(h, v) \cup {NoCell}, NEW x \in Live(h)
    PROVE  x \in Rest(h, pos, Onward(h, v, p))
           <=> \/ v < h.var[x]
               \/ v = h.var[x] /\ p # NoCell /\ pos[p] <= pos[x]
<1> DEFINE e == SkipDeleted(h, p)
           n == var_next[v]
<1>1. /\ variable_map \subseteq VarIds /\ NoCell \notin Cells /\ 0 \notin VarIds
      /\ \A w \in VarIds : w \in Nat
      /\ h.var[x] \in variable_map /\ h.var[x] \in Nat /\ v \in VarIds /\ v \in Nat /\ v # 0
  BY ReadyTypes
<1>2. h \in LooseHeap /\ Tidy(h)
  BY DEF Ready
<1>3. PICK walk : /\ VarWalk(h, walk)
                  /\ Onward(h, v, p) = IF e # NoCell THEN e ELSE walk[n]
  BY <1>1, <1>2, OnwardWalks
<1>4. /\ e \in LiveOf(h, v) \cup {NoCell}
      /\ x \in LiveOf(h, v) =>
           (p # NoCell /\ pos[p] <= pos[x] <=> e # NoCell /\ pos[e] <= pos[x])
  BY <1>1, SkipRest
<1>5. \A z : z \in LiveOf(h, v) <=> z \in Live(h) /\ h.var[z] = v
  BY <1>2, LiveFinite
<1>6. IsAfter(variable_map, v, n)
  BY <1>1, AfterIs DEF VarsLinked
<1> HIDE DEF e, n
<1>7. CASE e # NoCell
  <2>1. h.var[e] = v /\ Onward(h, v, p) = e
    BY <1>3, <1>4, <1>5, <1>7
  <2>2. x \in Rest(h, pos, e) <=> v < h.var[x] \/ (v = h.var[x] /\ pos[e] <= pos[x])
    BY <1>1, <1>7, <2>1 DEF Rest, AtOrAfter
  <2> QED  BY <1>4, <1>5, <1>7, <2>1, <2>2
<1>8. CASE e = NoCell
  <2>1. Onward(h, v, p) = walk[n]
    BY <1>3, <1>8
  <2>2. v = h.var[x] => ~(p # NoCell /\ pos[p] <= pos[x])
    BY <1>4, <1>5, <1>8
  <2>3. x \in Rest(h, pos, walk[n]) <=> v < h.var[x]
    <3>1. CASE n = 0 /\ \A w \in variable_map : w <= v
      <4>1. walk[n] = NoCell
        BY <1>3, <3>1 DEF VarWalk
      <4>2. ~(v < h.var[x])
        BY <1>1, <3>1
      <4> QED  BY <4>1, <4>2 DEF Rest
    <3>2. CASE n \in variable_map /\ n > v /\ \A w \in variable_map : w > v => n <= w
      <4>1. x \in Rest(h, pos, walk[n]) <=> n <= h.var[x]
        BY <1>3, <3>2, VarWalkRest
      <4>2. n \in Nat
        BY <1>1, <3>2
      <4> QED  BY <1>1, <3>2, <4>1, <4>2
    <3> QED  BY <1>6, <3>1, <3>2 DEF IsAfter
  <2> QED  BY <2>1, <2>2, <2>3
<1> QED  BY <1>7, <1>8

\* find_next_production takes exactly the production it is asked about off what
\* is left.
LEMMA NextRest ==
    ASSUME IInv, VarsLinked, NEW h, NEW pos, NEW top, Ready(h, pos, top),
           NEW c \in h.alloc, NEW x \in Live(h)
    PROVE  x \in Rest(h, pos, FindNext(h, c)) <=> x \in Rest(h, pos, c) /\ x # c
<1>1. /\ variable_map \subseteq VarIds /\ NoCell \notin Cells /\ 0 \notin VarIds
      /\ h.alloc \subseteq Cells /\ c \in Cells /\ c # NoCell /\ h.var[c] \in VarIds \cup {0}
      /\ \A w \in VarIds : w \in Nat
      /\ \A y \in Cells : pos[y] \in Nat
      /\ x \in Cells /\ x \in h.alloc /\ h.var[x] \in variable_map /\ h.var[x] \in Nat /\ h.var[x] # 0
  BY ReadyTypes
<1>2. /\ h \in LooseHeap /\ Tidy(h) /\ pos \in [Cells -> Nat] /\ top \in Nat
      /\ Rises(h, pos, top) /\ Tagged(h)
      /\ \A y \in Cells : h.var[y] # 0 => h.var[y] \in variable_map
  BY DEF Ready
<1>3. \A v \in VarIds : /\ Chained(OfVar(h, v), NoCell, h.next, h.first[v])
                        /\ Climbs(OfVar(h, v), NoCell, h.next, pos, top)
  BY <1>2, ListChained, ListClimbs DEF Tidy
<1>4. CASE h.var[c] # 0
  <2> DEFINE v == h.var[c]
             n == h.next[c]
             D == OfVar(h, v)
  <2>1. v \in variable_map /\ v \in VarIds /\ c \in D /\ v \in Nat
    BY <1>1, <1>2, <1>4 DEF OfVar
  <2>2. n \in D \cup {NoCell} /\ Chained(D, NoCell, h.next, h.first[v])
        /\ Climbs(D, NoCell, h.next, pos, top)
    BY <1>3, <2>1 DEF Chained
  <2>3. FindNext(h, c) = Onward(h, v, n)
    BY <1>4 DEF FindNext
  <2>4. x \in Rest(h, pos, FindNext(h, c))
        <=> v < h.var[x] \/ (v = h.var[x] /\ n # NoCell /\ pos[n] <= pos[x])
    <3> HIDE DEF n, D, v
    <3> QED  BY <2>1, <2>2, <2>3, OnwardRest DEF D
  <2>5. x \in Rest(h, pos, c) <=> v < h.var[x] \/ (v = h.var[x] /\ pos[c] <= pos[x])
    BY <1>1, <1>4 DEF Rest, AtOrAfter
  <2>6. v = h.var[x] => x \in D
    BY <1>1 DEF OfVar
  <2>7. ASSUME x \in D
        PROVE  n # NoCell /\ pos[n] <= pos[x] <=> pos[c] <= pos[x] /\ x # c
    <3>1. /\ pos[c] < pos[x] => n \in D /\ pos[n] <= pos[x]
          /\ pos[c] = pos[x] => c = x
      <4> HIDE DEF D, v
      <4> QED  BY <2>1, <2>2, <2>7, ChainNext
    <3>2. n # NoCell => pos[c] < pos[n]
      BY <2>1, <2>2 DEF Climbs
    <3>3. pos[c] \in Nat /\ pos[x] \in Nat /\ (n # NoCell => pos[n] \in Nat)
      BY <2>1, <2>2, <2>7 DEF Climbs
    <3>4. n \in D => n # NoCell
      BY <2>2 DEF Chained
    <3> HIDE DEF n, D, v
    <3> QED  BY <3>1, <3>2, <3>3, <3>4
  <2>8. v < h.var[x] => x # c
    BY <2>1
  <2> QED  BY <2>4, <2>5, <2>6, <2>7, <2>8
<1>5. CASE h.var[c] = 0
  <2> DEFINE t == h.prev[c]
             S == {v \in variable_map : v >= t}
             w == LeastVar(S)
  <2>1. t \in VarIds /\ t \in Nat
    BY <1>1, <1>2, <1>5 DEF Tagged
  <2>2. x # c /\ (x \in Rest(h, pos, c) <=> t <= h.var[x])
    BY <1>1, <1>5 DEF Rest, AtOrAfter
  <2>3. t <= h.var[x] <=> h.var[x] \in S
    BY <1>1, <2>1
  <2>4. CASE S = {}
    <3>1. FindNext(h, c) = NoCell
      BY <1>5, <2>4 DEF FindNext
    <3>2. x \notin Rest(h, pos, NoCell)
      BY DEF Rest
    <3> QED  BY <2>2, <2>3, <2>4, <3>1, <3>2
  <2>5. CASE S # {}
    <3>1. w \in S /\ \A u \in S : w <= u
      <4>1. S \in SUBSET VarIds
        BY <1>1
      <4> HIDE DEF S
      <4> QED  BY <2>5, <4>1, LeastVarIs
    <3>2. w \in variable_map /\ w \in VarIds /\ w \in Nat /\ t <= w
      BY <1>1, <2>1, <3>1
    <3>3. FindNext(h, c) = Onward(h, w, h.first[w])
      BY <1>5, <2>5 DEF FindNext
    <3>4. t <= h.var[x] <=> w <= h.var[x]
      BY <1>1, <2>1, <2>3, <3>1, <3>2
    <3> HIDE DEF S, w
    <3>5. h.first[w] \in OfVar(h, w) \cup {NoCell}
      BY <1>3, <3>2 DEF Chained
    <3>6. x \in Rest(h, pos, FindNext(h, c))
          <=> w < h.var[x] \/ (w = h.var[x] /\ h.first[w] # NoCell /\ pos[h.first[w]] <= pos[x])
      BY <3>2, <3>3, <3>5, OnwardRest
    <3>7. w = h.var[x] => h.first[w] # NoCell /\ pos[h.first[w]] <= pos[x]
      <4> SUFFICES ASSUME w = h.var[x] PROVE h.first[w] # NoCell /\ pos[h.first[w]] <= pos[x]
        OBVIOUS
      <4>1. x \in OfVar(h, w)
        BY <1>1 DEF OfVar
      <4>2. h.first[w] \in OfVar(h, w) /\ pos[h.first[w]] <= pos[x]
        BY <1>2, <3>2, <4>1, HeadFirst
      <4> QED  BY <1>1, <4>2 DEF OfVar
    <3> QED  BY <1>1, <2>2, <3>2, <3>4, <3>6, <3>7
  <2> QED  BY <2>4, <2>5
<1> QED  BY <1>4, <1>5

\* find_current_production takes nothing off what is left.
LEMMA CurrentRest ==
    ASSUME IInv, VarsLinked, NEW h, NEW pos, NEW top, Ready(h, pos, top),
           NEW c \in h.alloc \cup {NoCell}
    PROVE  /\ FindCurrent(h, c) \in Live(h) \cup {NoCell}
           /\ Rest(h, pos, FindCurrent(h, c)) = Rest(h, pos, c)
<1>1. h.alloc \subseteq Cells /\ h \in LooseHeap /\ Tidy(h)
  BY ReadyTypes DEF Ready
<1>2. CASE c = NoCell \/ c \in Live(h)
  BY <1>2 DEF FindCurrent
<1>3. CASE c # NoCell /\ c \notin Live(h)
  <2>1. FindCurrent(h, c) = FindNext(h, c) /\ c \in h.alloc /\ c \in Cells
    BY <1>1, <1>3 DEF FindCurrent
  <2>2. FindNext(h, c) \in Live(h) \cup {NoCell}
    BY <1>1, <2>1, NextStays
  <2>3. \A x \in Live(h) : x \in Rest(h, pos, FindNext(h, c)) <=> x \in Rest(h, pos, c)
    BY <1>3, <2>1, NextRest
  <2>4. \A p : Rest(h, pos, p) \subseteq Live(h)
    BY DEF Rest
  <2>5. Rest(h, pos, FindNext(h, c)) = Rest(h, pos, c)
    BY <2>3, <2>4
  <2> QED  BY <2>1, <2>2, <2>5
<1> QED  BY <1>2, <1>3

\* A live production is left from itself on.
LEMMA RestSelf ==
    ASSUME IInv, NEW h, NEW pos, NEW top, Ready(h, pos, top), NEW x \in Live(h)
    PROVE  x \in Rest(h, pos, x)
<1>1. /\ x \in Cells /\ x # NoCell /\ h.var[x] # 0 /\ h.var[x] \in Nat /\ pos[x] \in Nat
  BY ReadyTypes
<1> QED  BY <1>1 DEF Rest, AtOrAfter

\* How far a search has come: the productions that it has left behind it.
Rank(h, pos, x) ==
    IF x \in Live(h) THEN 1 + Cardinality(Live(h)) - Cardinality(Rest(h, pos, x)) ELSE 0

LEMMA RankRises ==
    ASSUME IInv, VarsLinked, NEW h, NEW pos, NEW top, Ready(h, pos, top), NEW x \in Cells
    PROVE  /\ Rank(h, pos, x) \in Nat /\ Rank(h, pos, x) <= 1 + Cardinality(Live(h))
           /\ FindNext(h, x) \in Live(h) \cup {NoCell}
           /\ FindNext(h, x) # NoCell => Rank(h, pos, x) < Rank(h, pos, FindNext(h, x))
<1> DEFINE L == Live(h)
           R(y) == Rest(h, pos, y)
           n == FindNext(h, x)
<1>1. h \in LooseHeap /\ Tidy(h)
  BY DEF Ready
<1>2. IsFiniteSet(L) /\ Cardinality(L) \in Nat /\ \A y \in L : y \in h.alloc /\ y \in Cells
  BY <1>1, LiveFinite
<1>3. ASSUME NEW y
      PROVE  /\ IsFiniteSet(R(y)) /\ Cardinality(R(y)) \in Nat
             /\ Cardinality(R(y)) <= Cardinality(L)
  <2>1. R(y) \in SUBSET L
    BY DEF Rest
  <2> HIDE DEF R, L
  <2> QED  BY <1>2, <2>1, FS_Subset, FS_CardinalityType
<1>4. n \in L \cup {NoCell}
  BY <1>1, NextStays
<1>5. ASSUME n # NoCell PROVE Rank(h, pos, x) < Rank(h, pos, n)
  <2>1. n \in L /\ Rank(h, pos, n) = 1 + Cardinality(L) - Cardinality(R(n))
    BY <1>4, <1>5 DEF Rank
  <2>2. CASE x \notin L
    <3>1. Rank(h, pos, x) = 0
      BY <2>2 DEF Rank
    <3> HIDE DEF R, L, n
    <3> QED  BY <1>2, <1>3, <2>1, <3>1
  <2>3. CASE x \in L
    <3>1. Rank(h, pos, x) = 1 + Cardinality(L) - Cardinality(R(x)) /\ x \in h.alloc
      BY <1>2, <2>3 DEF Rank
    <3>2. x \in R(x)
      BY <2>3, RestSelf
    <3>3. \A y \in L : y \in R(n) <=> y \in R(x) /\ y # x
      BY <3>1, NextRest
    <3>4. R(n) \subseteq L /\ R(x) \subseteq L
      BY DEF Rest
    <3>5. R(n) = R(x) \ {x}
      BY <3>3, <3>4
    <3> HIDE DEF R, L, n
    <3>6. Cardinality(R(n)) = Cardinality(R(x)) - 1
      BY <1>3, <3>2, <3>5, FS_RemoveElement
    <3> QED  BY <1>2, <1>3, <2>1, <3>1, <3>6
  <2> QED  BY <2>2, <2>3
<1>6. Rank(h, pos, x) \in Nat /\ Rank(h, pos, x) <= 1 + Cardinality(L)
  <2> HIDE DEF R, L
  <2>1. CASE x \in L
    <3>1. Rank(h, pos, x) = 1 + Cardinality(L) - Cardinality(R(x))
      BY <2>1 DEF Rank, L, R
    <3> QED  BY <1>2, <1>3, <3>1
  <2>2. CASE x \notin L
    <3>1. Rank(h, pos, x) = 0
      BY <2>2 DEF Rank, L
    <3> QED  BY <1>2, <3>1
  <2> QED  BY <2>1, <2>2
<1> QED  BY <1>4, <1>5, <1>6

\* m is the first production from x on that the pattern of g matches.
FirstMatch(h, pos, g, x, m) ==
    /\ m \in Live(h) \cup {NoCell}
    /\ m # NoCell => Matches(h, g, m) /\ m \in Rest(h, pos, x)
    /\ Rest(h, pos, m) \subseteq Rest(h, pos, x)
    /\ \A z \in Rest(h, pos, x) : Matches(h, g, z) => m # NoCell /\ z \in Rest(h, pos, m)

\* The loop of bind_next_pattern finds it.
LEMMA SeekFinds ==
    ASSUME IInv, VarsLinked, NEW h, NEW pos, NEW top, Ready(h, pos, top), NEW g \in Gens,
           NEW c \in Live(h) \cup {NoCell}
    PROVE  FirstMatch(h, pos, g, c, Seek(h, g, c))
<1> DEFINE stop == {x \in Cells : Matches(h, g, x)}
           nx   == [x \in Cells |-> FindNext(h, x)]
           rank == [x \in Cells |-> Rank(h, pos, x)]
           max  == 1 + Cardinality(Live(h))
           base == [x \in Cells \cup {NoCell} |-> x]
           step == [x \in Cells |-> base]
           Eq(f) == f = [x \in CellOrNull |->
                           IF x = NoCell \/ Matches(h, g, x) THEN x ELSE f[FindNext(h, x)]]
           walk == CHOOSE f : Eq(f)
<1>1. Seek(h, g, c) = walk[c]
  BY DEF Seek
<1>2. /\ h \in LooseHeap /\ NoCell \notin Cells /\ Cardinality(Live(h)) \in Nat
      /\ \A x \in Live(h) : x \in h.alloc /\ x \in Cells /\ x # NoCell
  BY ReadyTypes, LiveFinite DEF Ready
<1>3. \A x \in Cells : /\ Rank(h, pos, x) \in Nat /\ Rank(h, pos, x) <= max
                       /\ FindNext(h, x) \in Live(h) \cup {NoCell}
                       /\ FindNext(h, x) # NoCell => Rank(h, pos, x) < Rank(h, pos, FindNext(h, x))
  BY RankRises
<1>4. Eq(walk)
  <2>1. Walkable(Cells, NoCell, nx, stop, rank, max)
    <3>1. max \in Nat
      BY <1>2
    <3> HIDE DEF max
    <3>2. nx \in [Cells -> Cells \cup {NoCell}] /\ rank \in [Cells -> Nat]
      BY <1>2, <1>3
    <3>3. \A x \in Cells : rank[x] <= max /\ (nx[x] # NoCell => rank[x] < rank[nx[x]])
      <4> TAKE x \in Cells
      <4>1. nx[x] = FindNext(h, x) /\ rank[x] = Rank(h, pos, x)
        OBVIOUS
      <4>2. nx[x] # NoCell => nx[x] \in Cells /\ rank[nx[x]] = Rank(h, pos, nx[x])
        BY <1>2, <1>3
      <4> HIDE DEF nx, rank
      <4> QED  BY <1>3, <4>1, <4>2
    <3> HIDE DEF nx, rank, stop
    <3> QED  BY <1>2, <3>1, <3>2, <3>3 DEF Walkable
  <2>2. /\ base \in [Cells \cup {NoCell} -> Cells \cup {NoCell}]
        /\ step \in [Cells -> [Cells \cup {NoCell} -> Cells \cup {NoCell}]]
    OBVIOUS
  <2> HIDE DEF base, step, nx, rank, max, stop
  <2>3. PICK f \in [Cells \cup {NoCell} -> Cells \cup {NoCell}] :
          Walk(Cells, NoCell, nx, stop, base, step, f)
    BY <2>1, <2>2, WalkExists
  <2>4. \A x \in Cells \cup {NoCell} :
           f[x] = IF x \in stop \cup {NoCell} THEN base[x] ELSE step[x][f[nx[x]]]
    BY <2>3 DEF Walk
  <2>5. \A x \in Cells : nx[x] = FindNext(h, x) /\ nx[x] \in Cells \cup {NoCell}
    BY <2>1 DEF nx, Walkable
  <2>6. \A x \in Cells : f[nx[x]] \in Cells \cup {NoCell}
    BY <2>5
  <2>7. \A x \in Cells : step[x][f[nx[x]]] = f[FindNext(h, x)]
    BY <2>5, <2>6 DEF base, step
  <2>8. \A x \in Cells \cup {NoCell} : base[x] = x
    BY DEF base
  <2>9. \A x \in Cells \cup {NoCell} :
           f[x] = IF x = NoCell \/ Matches(h, g, x) THEN x ELSE f[FindNext(h, x)]
    BY <1>2, <2>4, <2>7, <2>8 DEF stop
  <2>10. Eq(f)
    BY <2>3, <2>9 DEF CellOrNull, Walk
  <2> HIDE DEF Eq
  <2> QED  BY <2>10
<1> HIDE DEF walk
<1>5. \A x \in Cells \cup {NoCell} :
         walk[x] = IF x = NoCell \/ Matches(h, g, x) THEN x ELSE walk[FindNext(h, x)]
  BY <1>4 DEF CellOrNull
<1>6. Rest(h, pos, NoCell) = {}
  BY DEF Rest
<1>7. FirstMatch(h, pos, g, NoCell, walk[NoCell])
  <2>1. walk[NoCell] = NoCell
    BY <1>5
  <2> QED  BY <1>6, <2>1 DEF FirstMatch
<1> DEFINE Bad == {x \in Live(h) : ~FirstMatch(h, pos, g, x, walk[x])}
           N == {max - Rank(h, pos, x) : x \in Bad}
<1>8. ASSUME Bad # {} PROVE FALSE
  <2>1. N \in SUBSET Nat /\ N # {}
    <3>1. max \in Nat
      BY <1>2
    <3> HIDE DEF max
    <3>2. \A x \in Bad : max - Rank(h, pos, x) \in Nat
      BY <1>2, <1>3, <3>1
    <3> HIDE DEF Bad
    <3> QED  BY <1>8, <3>2
  <2>2. PICK k \in N : \A m \in N : k <= m
    <3> HIDE DEF N
    <3> QED  BY <2>1, LeastExists
  <2>3. PICK x \in Bad : k = max - Rank(h, pos, x)
    BY <2>2
  <2>4. x \in Live(h) /\ x \in Cells /\ x # NoCell /\ x \in h.alloc /\ x \in Rest(h, pos, x)
    BY <1>2, <2>3, RestSelf
  <2>5. ~Matches(h, g, x)
    <3> SUFFICES ASSUME Matches(h, g, x) PROVE FALSE
      OBVIOUS
    <3>1. walk[x] = x
      BY <1>5, <2>4
    <3>2. FirstMatch(h, pos, g, x, x)
      BY <2>4 DEF FirstMatch
    <3> QED  BY <2>3, <3>1, <3>2
  <2> DEFINE n == FindNext(h, x)
  <2>6. walk[x] = walk[n]
    BY <1>5, <2>4, <2>5
  <2>7. Rest(h, pos, n) = Rest(h, pos, x) \ {x}
    <3>1. \A y \in Live(h) : y \in Rest(h, pos, n) <=> y \in Rest(h, pos, x) /\ y # x
      BY <2>4, NextRest
    <3>2. Rest(h, pos, n) \subseteq Live(h) /\ Rest(h, pos, x) \subseteq Live(h)
      BY DEF Rest
    <3> QED  BY <3>1, <3>2
  <2>8. FirstMatch(h, pos, g, n, walk[n])
    <3>1. CASE n = NoCell
      BY <1>7, <3>1
    <3>2. CASE n # NoCell
      <4>1. n \in Live(h) /\ Rank(h, pos, x) < Rank(h, pos, n)
        BY <1>3, <2>4, <3>2
      <4>2. n \in Bad => max - Rank(h, pos, n) \in N
        OBVIOUS
      <4>3. n \in Cells /\ max \in Nat
        BY <1>2, <4>1
      <4> HIDE DEF N, n, max, Bad
      <4>4. n \notin Bad
        BY <1>3, <2>1, <2>2, <2>3, <2>4, <4>1, <4>2, <4>3
      <4> QED  BY <4>1, <4>4 DEF Bad
    <3> QED  BY <3>1, <3>2
  <2> HIDE DEF n
  <2>9. FirstMatch(h, pos, g, x, walk[n])
    BY <2>5, <2>7, <2>8 DEF FirstMatch
  <2> QED  BY <2>3, <2>6, <2>9
<1> QED  BY <1>1, <1>7, <1>8

-----------------------------------------------------------------------------
(* Holding productions, marking them and letting them go.                    *)

LEMMA AgesReady ==
    ASSUME NEW h, NEW pos, NEW top, Ready(h, pos, top), NEW k, Ages(h, k)
    PROVE  Ready(k, pos, top)
<1>1. /\ h \in LooseHeap /\ Tidy(h)
      /\ pos \in [Cells -> Nat] /\ top \in Nat /\ Rises(h, pos, top)
      /\ Tagged(h) /\ \A c \in Cells : h.var[c] # 0 => h.var[c] \in variable_map
  BY DEF Ready
<1>2. /\ k \in LooseHeap /\ k.alloc \subseteq h.alloc
      /\ \A c \in k.alloc : /\ k.rhs[c] = h.rhs[c] /\ k.var[c] = h.var[c]
                            /\ h.var[c] = 0 => k.prev[c] = h.prev[c]
      /\ Tidy(k) /\ Rises(k, pos, top)
  BY <1>1 DEF Ages, Tidier
<1>3. Tagged(k)
  BY <1>1, <1>2 DEF Tagged
<1>4. \A c \in Cells : k.var[c] # 0 => c \in k.alloc
  BY <1>2 DEF Tidy, Threads
<1>5. \A c \in Cells : k.var[c] # 0 => k.var[c] \in variable_map
  BY <1>1, <1>2, <1>4
<1> QED  BY <1>1, <1>2, <1>3, <1>5 DEF Ready

LEMMA AgesRest ==
    ASSUME NEW h, NEW pos, NEW k, Ages(h, k), Live(k) = Live(h),
           NEW c \in k.alloc \cup {NoCell}
    PROVE  Rest(k, pos, c) = Rest(h, pos, c)
<1>1. \A x \in k.alloc : /\ k.var[x] = h.var[x]
                         /\ h.var[x] = 0 => k.prev[x] = h.prev[x]
  BY DEF Ages
<1>2. \A x \in Live(k) : x \in k.alloc
  BY DEF Live
<1>3. c # NoCell => \A x \in Live(k) : AtOrAfter(k, pos, c, x) <=> AtOrAfter(h, pos, c, x)
  BY <1>1, <1>2 DEF AtOrAfter
<1> QED  BY <1>3 DEF Rest

-----------------------------------------------------------------------------
(* A search.                                                                 *)

\* The store between two calls, with the places of its productions.
Settled(pos, top) ==
    /\ IInv /\ VarsLinked /\ Ready(heap, pos, top)
    /\ LeastLive(heap, first_production)

\* A search starts before all the productions that its pattern matches, unless
\* hashes collide.
LEMMA StartRest ==
    ASSUME NEW pos, NEW top, Settled(pos, top), NEW g \in Gens,
           KeyInjective \/ Bound[g] # 0,
           NEW x \in Live(heap), Matches(heap, g, x)
    PROVE  x \in Rest(ResetHeap(g), pos, ResetCursor(g))
<1> DEFINE h == ReleaseIf(heap, ptr[g])
           f == ResetCursor(g)
<1>1. /\ IInv /\ VarsLinked /\ Ready(heap, pos, top) /\ LeastLive(heap, first_production)
  BY DEF Settled
<1>2. /\ heap \in LooseHeap /\ Tidy(heap) /\ pos \in [Cells -> Nat] /\ top \in Nat
      /\ Rises(heap, pos, top)
  BY <1>1 DEF Ready
<1>3. /\ Held(ResetHeap(g), [ptr EXCEPT ![g] = f]) /\ Live(ResetHeap(g)) = Live(heap)
      /\ Ages(heap, ResetHeap(g))
  BY <1>1, ResetHeld, ResetAges
<1>4. f \in ResetHeap(g).alloc \cup {NoCell}
  <2>1. g \in Holders /\ ptr \in [Holders -> CellOrNull]
    BY <1>1, InvTypes DEF Holders
  <2>2. [ptr EXCEPT ![g] = f][g] = f
    BY <2>1
  <2> QED  BY <1>3, <2>1, <2>2, HeldPointer
<1>5. Ages(heap, h) /\ Live(h) = Live(heap)
  <2>1. ptr[g] \in CellOrNull
    BY <1>1, CursorType
  <2>2. Live(h) = Live(heap)
    BY <1>1, HeldRelease DEF IInv, Holders
  <2> QED  BY <1>2, <2>1, <2>2, ReleaseIfAges
<1>6. Ready(h, pos, top)
  BY <1>1, <1>5, AgesReady
<1>7. Rest(ResetHeap(g), pos, f) = Rest(heap, pos, f)
  BY <1>3, <1>4, AgesRest
<1>8. /\ x \in Cells /\ x \in heap.alloc /\ x # NoCell /\ heap.var[x] \in variable_map
      /\ heap.var[x] # 0 /\ heap.var[x] \in Nat /\ heap.var[x] \in VarIds
      /\ NoCell \notin Cells
  BY <1>1, ReadyTypes
<1>9. f = StartOf(h, g)
  BY DEF ResetCursor
<1> HIDE DEF f
<1>10. CASE Bound[g] # 0
  <2> DEFINE v == heap.var[x]
  <2>1. v = Bound[g] /\ f = h.first[v]
    BY <1>8, <1>9, <1>10 DEF Matches, StartOf
  <2>2. x \in OfVar(h, v)
    <3>1. x \in h.alloc /\ h.var[x] = v
      BY <1>5 DEF Ages, Live
    <3> QED  BY <3>1 DEF OfVar
  <2> HIDE DEF h
  <2>3. f \in OfVar(h, v) /\ pos[f] <= pos[x]
    BY <1>6, <1>8, <2>1, <2>2, HeadFirst DEF Ready
  <2>4. f \in heap.alloc /\ heap.var[f] = v /\ f \in Cells
    BY <1>2, <1>5, <2>3 DEF OfVar, Ages, LooseHeap
  <2>5. x \in Rest(heap, pos, f)
    BY <1>8, <2>3, <2>4 DEF Rest, AtOrAfter
  <2> QED  BY <1>7, <2>5 DEF f
<1>11. CASE Bound[g] = 0
  <2> DEFINE v == heap.var[f]
  <2>1. f = first_production /\ FirstIsFirst
    BY <1>1, <1>2, <1>9, <1>11, FirstIs DEF StartOf
  <2>2. f # NoCell /\ f \in Live(heap)
    BY <2>1 DEF FirstIsFirst
  <2>3. f = SkipDeleted(heap, heap.first[v]) /\ v <= heap.var[x]
    <3>1. x \in OfVar(heap, heap.var[x]) \cap Live(heap)
      BY <1>8 DEF OfVar
    <3> QED  BY <1>8, <2>1, <2>2, <3>1 DEF FirstIsFirst
  <2>4. v \in VarIds /\ v \in Nat /\ v # 0
    BY <1>1, <2>2, ReadyTypes
  <2>5. v = heap.var[x] => pos[f] <= pos[x]
    <3> SUFFICES ASSUME v = heap.var[x] PROVE pos[f] <= pos[x]
      OBVIOUS
    <3>1. x \in LiveOf(heap, v)
      BY <1>8 DEF LiveOf, OfVar
    <3> HIDE DEF v
    <3> QED  BY <1>2, <2>3, <2>4, <3>1, SkipFirst
  <2>6. x \in Rest(heap, pos, f)
    BY <1>8, <2>2, <2>3, <2>4, <2>5 DEF Rest, AtOrAfter
  <2> QED  BY <1>7, <2>6 DEF f
<1> QED  BY <1>10, <1>11

\* What is left for g is what is left from the production that it looks at first.
LEMMA CursorRest ==
    ASSUME NEW pos, NEW top, Settled(pos, top), NEW g \in Gens
    PROVE  /\ Live(HeapAt(g)) = Live(heap)
           /\ FindCurrent(HeapAt(g), CursorOf(g)) \in Live(heap) \cup {NoCell}
           /\ Rest(HeapAt(g), pos, CursorOf(g))
                = Rest(heap, pos, FindCurrent(HeapAt(g), CursorOf(g)))
<1> DEFINE h == HeapAt(g)
           o == CursorOf(g)
           c == FindCurrent(h, o)
<1>1. IInv /\ VarsLinked /\ Ready(heap, pos, top)
  BY DEF Settled
<1>2. Held(h, [ptr EXCEPT ![g] = o]) /\ Live(h) = Live(heap) /\ Ages(heap, h)
  BY <1>1, AskedHeld, ResetAges
<1>3. o \in h.alloc \cup {NoCell}
  <2>1. g \in Holders /\ ptr \in [Holders -> CellOrNull]
    BY <1>1, InvTypes DEF Holders
  <2>2. [ptr EXCEPT ![g] = o][g] = o
    BY <2>1
  <2> QED  BY <1>2, <2>1, <2>2, HeldPointer
<1>4. Ready(h, pos, top)
  BY <1>1, <1>2, AgesReady
<1> HIDE DEF h, o
<1>5. c \in Live(h) \cup {NoCell} /\ Rest(h, pos, c) = Rest(h, pos, o)
  BY <1>1, <1>3, <1>4, CurrentRest
<1> HIDE DEF c
<1>6. c \in h.alloc \cup {NoCell}
  BY <1>5 DEF Live
<1>7. Rest(h, pos, c) = Rest(heap, pos, c)
  BY <1>2, <1>6, AgesRest
<1> QED  BY <1>2, <1>5, <1>7 DEF c, h, o

\* A pattern matches the same productions whoever holds them.
LEMMA AgesFirst ==
    ASSUME NEW h, NEW pos, NEW k, Ages(h, k), Live(k) = Live(h), NEW g,
           NEW c \in Live(h) \cup {NoCell}, NEW m, FirstMatch(k, pos, g, c, m)
    PROVE  FirstMatch(h, pos, g, c, m)
<1>1. \A x \in Live(h) : Matches(k, g, x) <=> Matches(h, g, x)
  BY DEF Ages, Live, Matches
<1>2. \A x \in Live(h) \cup {NoCell} : x \in k.alloc \cup {NoCell}
  BY DEF Live
<1>3. \A x \in Live(h) \cup {NoCell} : Rest(k, pos, x) = Rest(h, pos, x)
  BY <1>2, AgesRest
<1>4. Rest(h, pos, c) \subseteq Live(h)
  BY DEF Rest
<1> QED  BY <1>1, <1>3, <1>4 DEF FirstMatch

\* match_next() binds the first production left that its pattern matches, and
\* leaves those after it.
LEMMA FoundRest ==
    ASSUME NEW pos, NEW top, Settled(pos, top), NEW g \in Gens, NEW m \in Cells,
           MatchFound(g, m)
    PROVE  /\ Ages(heap, heap') /\ Live(heap') = Live(heap) /\ m \in Live(heap)
           /\ FirstMatch(heap, pos, g, FindCurrent(HeapAt(g), CursorOf(g)), m)
           /\ Rest(heap', pos, ptr'[g]) = Rest(heap, pos, m) \ {m}
           /\ FindCurrent(HeapAt(g), CursorOf(g)) # NoCell
<1>1. IInv /\ VarsLinked /\ Ready(heap, pos, top)
  BY DEF Settled
<1>2. PICK c \in Live(HeapAt(g)) :
        /\ c = FindCurrent(HeapAt(g), CursorOf(g))
        /\ m \in Live(TakenAt(g, c))
        /\ m = Seek(TakenAt(g, c), g, c)
        /\ \E n \in Live(BoundAt(g, c, m)) \cup {NoCell} :
             /\ n = FindNext(BoundAt(g, c, m), m)
             /\ ptr' = [BoundPtr(g, m) EXCEPT ![g] = n]
  BY FoundParts
<1> DEFINE h == TakenAt(g, c)
           k == BoundAt(g, c, m)
<1>3. Live(h) = Live(heap) /\ Live(k) = Live(heap) /\ Ages(heap, h) /\ Ages(heap, k)
  BY <1>1, <1>2, BoundHeld, TakenAges, BoundAges
<1>4. Ages(heap, heap') /\ Live(heap') = Live(heap)
  BY <1>1, MatchFoundAges, MatchFoundHeld
<1>5. PICK n \in Live(k) \cup {NoCell} :
        n = FindNext(k, m) /\ ptr' = [BoundPtr(g, m) EXCEPT ![g] = n]
  BY <1>2
<1>6. c \in Live(heap) /\ m \in Live(heap) /\ m = Seek(h, g, c)
  BY <1>2, <1>3, CursorRest
<1> HIDE DEF h, k
<1>7. Ready(h, pos, top) /\ Ready(k, pos, top)
  BY <1>1, <1>3, AgesReady
<1>8. FirstMatch(heap, pos, g, c, m)
  <2>1. FirstMatch(h, pos, g, c, m)
    BY <1>1, <1>3, <1>6, <1>7, SeekFinds
  <2> QED  BY <1>3, <1>6, <2>1, AgesFirst
<1>9. Rest(heap', pos, n) = Rest(heap, pos, m) \ {m}
  <2>1. m \in Live(k) /\ m \in k.alloc
    BY <1>3, <1>6 DEF Live
  <2>2. \A x \in Live(k) : x \in Rest(k, pos, n) <=> x \in Rest(k, pos, m) /\ x # m
    BY <1>1, <1>5, <1>7, <2>1, NextRest
  <2>3. Rest(k, pos, n) = Rest(k, pos, m) \ {m}
    <3>1. Rest(k, pos, n) \subseteq Live(k) /\ Rest(k, pos, m) \subseteq Live(k)
      BY DEF Rest
    <3> QED  BY <2>2, <3>1
  <2>4. n \in k.alloc \cup {NoCell} /\ n \in heap'.alloc \cup {NoCell}
    BY <1>3, <1>4, <1>5 DEF Live
  <2>5. Rest(k, pos, n) = Rest(heap, pos, n) /\ Rest(k, pos, m) = Rest(heap, pos, m)
    BY <1>3, <2>1, <2>4, AgesRest
  <2>6. Rest(heap', pos, n) = Rest(heap, pos, n)
    BY <1>4, <2>4, AgesRest
  <2> QED  BY <2>3, <2>5, <2>6
<1>10. ptr'[g] = n
  <2>1. BoundPtr(g, m) \in [Holders -> CellOrNull]
    <3>1. ptr \in [Holders -> CellOrNull] /\ m \in CellOrNull
      BY <1>1, InvTypes DEF CellOrNull
    <3> QED  BY <3>1 DEF BoundPtr
  <2> QED  BY <1>5, <2>1 DEF Holders
<1>11. c # NoCell
  BY <1>1, <1>6, ReadyTypes
<1> QED  BY <1>2, <1>4, <1>6, <1>8, <1>9, <1>10, <1>11

\* match_next() ends when nothing that its pattern matches is left.
LEMMA EndRest ==
    ASSUME NEW pos, NEW top, Settled(pos, top), NEW g \in Gens,
           MatchEnd(g) \/ MatchNone(g)
    PROVE  /\ \A x \in Rest(HeapAt(g), pos, CursorOf(g)) : ~Matches(heap, g, x)
           /\ ptr'[g] = NoCell
<1> DEFINE c == FindCurrent(HeapAt(g), CursorOf(g))
<1>1. IInv /\ VarsLinked /\ Ready(heap, pos, top)
  BY DEF Settled
<1>2. /\ Live(HeapAt(g)) = Live(heap)
      /\ Rest(HeapAt(g), pos, CursorOf(g)) = Rest(heap, pos, c)
  BY CursorRest
<1>3. g \in Holders /\ ptr \in [Holders -> CellOrNull]
  BY <1>1, InvTypes DEF Holders
<1>4. CASE MatchEnd(g)
  <2>1. Rest(heap, pos, c) = {}
    BY <1>4 DEF MatchEnd, Rest
  <2>2. ptr'[g] = NoCell
    <3>2. CASE Binder[g] = NoHandle
      BY <1>3, <1>4, <3>2 DEF MatchEnd
    <3>3. CASE Binder[g] # NoHandle
      <4>1. ptr' = [ptr EXCEPT ![g] = NoCell, ![Binder[g]] = NoCell]
        BY <1>4, <3>3 DEF MatchEnd
      <4>2. Binder[g] \in Holders
        BY <3>3, GensAssumption DEF Holders
      <4> QED  BY <1>3, <4>1, <4>2
    <3> QED  BY <3>2, <3>3
  <2> QED  BY <1>2, <2>1, <2>2
<1>5. CASE MatchNone(g)
  <2>1. PICK curr \in Live(HeapAt(g)) :
          /\ curr = FindCurrent(HeapAt(g), CursorOf(g))
          /\ Seek(Release(Hold(HeapAt(g), curr), CursorOf(g)), g, curr) = NoCell
          /\ ptr' = [ptr EXCEPT ![g] = NoCell]
    BY <1>5 DEF MatchNone
  <2> DEFINE h == TakenAt(g, curr)
  <2>2. Live(h) = Live(heap) /\ Ages(heap, h) /\ curr \in Live(heap)
    BY <1>1, <1>2, <2>1, CurrentHeld, TakenAges DEF TakenAt
  <2>3. Seek(h, g, curr) = NoCell
    BY <2>1 DEF TakenAt
  <2> HIDE DEF h
  <2>4. Ready(h, pos, top)
    BY <1>1, <2>2, AgesReady
  <2>5. FirstMatch(h, pos, g, curr, NoCell)
    BY <1>1, <2>2, <2>3, <2>4, SeekFinds
  <2>6. FirstMatch(heap, pos, g, curr, NoCell)
    BY <2>2, <2>5, AgesFirst
  <2>7. \A x \in Rest(heap, pos, curr) : ~Matches(heap, g, x)
    BY <2>6 DEF FirstMatch
  <2> QED  BY <1>2, <1>3, <2>1, <2>7
<1> QED  BY <1>4, <1>5

-----------------------------------------------------------------------------
(* What the history variables have to do with what is left.                  *)

\* A generator has rules of the grammar to yield, those that its pattern matches,
\* and one that has said that it is done has no production to go on from.
HistoryOK ==
    /\ owed \in [Gens -> SUBSET RulesOf(heap)]
    /\ seen \in [Gens -> SUBSET RulesOf(heap)]
    /\ done \in [Gens -> BOOLEAN]
    /\ \A g \in Gens : /\ owed[g] \subseteq MatchingRules(g)
                       /\ done[g] => used[g] /\ ptr[g] = NoCell

\* The rules that g owes are left, and those that it has yielded are not.
Tracks(pos, g) ==
    \A x \in Live(heap) :
      /\ RuleOf(x) \in owed[g] => x \in Rest(heap, pos, ptr[g])
      /\ RuleOf(x) \in seen[g] => x \notin Rest(heap, pos, ptr[g])

Tracked(pos, top) ==
    /\ Rises(heap, pos, top)
    /\ \A g \in Gens : used[g] => Tracks(pos, g)

JInv ==
    /\ HistoryOK
    /\ alive => /\ Tagged(heap)
                /\ \E pos \in [Cells -> Nat], top \in Nat : Tracked(pos, top)

LEMMA MatchingIs ==
    ASSUME NEW g \in Gens
    PROVE  /\ \A r : r \in MatchingRules(g)
                     <=> r \in RulesOf(heap) /\ Bound[g] \in {0, r[1]} /\ r[2] \in Shape[g]
           /\ \A r : r \in MatchingRules(g)'
                     <=> r \in RulesOf(heap') /\ Bound[g] \in {0, r[1]} /\ r[2] \in Shape[g]
           /\ \A x \in Live(heap) : RuleOf(x) \in MatchingRules(g) => Matches(heap, g, x)
<1>1. \A r : r \in MatchingRules(g)
             <=> r \in RulesOf(heap) /\ Bound[g] \in {0, r[1]} /\ r[2] \in Shape[g]
  BY DEF MatchingRules, RulesOf, RuleOf, Matches
<1>2. \A r : r \in MatchingRules(g)'
             <=> r \in RulesOf(heap') /\ Bound[g] \in {0, r[1]} /\ r[2] \in Shape[g]
  BY DEF MatchingRules, RulesOf, RuleOf, Matches
<1>3. \A x \in Live(heap) : RuleOf(x) \in MatchingRules(g) => Matches(heap, g, x)
  BY <1>1 DEF RuleOf, Matches
<1> QED  BY <1>1, <1>2, <1>3

\* Two productions of the grammar are not the same rule.
LEMMA RuleOnce ==
    ASSUME IInv, Tidy(heap), NEW x \in Live(heap), NEW y \in Live(heap), RuleOf(x) = RuleOf(y)
    PROVE  x = y
<1>1. heap \in LooseHeap
  BY InvTypes
<1>2. x \in Cells /\ y \in Cells /\ heap.var[x] # 0
  BY <1>1, LooseTypes DEF Live
<1> QED  BY <1>2 DEF RuleOf, Tidy, NoDuplicates

\* The rules of the grammar that stay are where they were for a generator that
\* does not move.
Steadfast(pos, new) ==
    \A x \in Live(heap') : RuleOf(x)' \in RulesOf(heap) =>
      /\ x \in Live(heap) /\ RuleOf(x)' = RuleOf(x)
      /\ \A g \in Gens : ptr'[g] = ptr[g] =>
           (x \in Rest(heap', new, ptr'[g]) <=> x \in Rest(heap, pos, ptr[g]))

LEMMA TracksOn ==
    ASSUME NEW pos, NEW new, Steadfast(pos, new), NEW g \in Gens, ptr'[g] = ptr[g],
           owed[g] \subseteq RulesOf(heap), seen[g] \subseteq RulesOf(heap),
           owed'[g] \subseteq owed[g], seen'[g] \subseteq seen[g], Tracks(pos, g)
    PROVE  Tracks(new, g)'
BY DEF Steadfast, Tracks

LEMMA AgesSteadfast ==
    ASSUME IInv, IInv', Tidy(heap), NEW pos, Ages(heap, heap')
    PROVE  Steadfast(pos, pos)
<1>1. heap \in LooseHeap /\ \A g \in Gens : ptr[g] \in Cells \cup {NoCell}
  BY InvTypes DEF Holders, CellOrNull
<1>2. \A g \in Gens : ptr'[g] \in heap'.alloc \cup {NoCell}
  <2>1. Held(heap', ptr')
    BY DEF IInv
  <2> QED  BY <2>1, HeldPointer DEF Holders
<1>3. /\ heap'.alloc \subseteq heap.alloc /\ heap.alloc \subseteq Cells
      /\ \A c \in heap'.alloc : /\ heap'.rhs[c] = heap.rhs[c] /\ heap'.var[c] = heap.var[c]
                                /\ heap.var[c] = 0 => heap'.prev[c] = heap.prev[c]
  BY <1>1, LooseTypes DEF Ages
<1>4. ASSUME NEW x \in Live(heap'), RuleOf(x)' \in RulesOf(heap)
      PROVE  x \in Live(heap) /\ RuleOf(x)' = RuleOf(x)
  <2>1. PICK y \in Live(heap) : RuleOf(x)' = <<heap.var[y], heap.rhs[y]>>
    BY <1>4 DEF RulesOf
  <2>2. x \in heap'.alloc /\ heap'.var[x] # 0 /\ RuleOf(x)' = <<heap.var[x], heap.rhs[x]>>
    BY <1>3 DEF Live, RuleOf
  <2>3. x \in Cells /\ y \in Cells /\ heap.var[x] # 0
    BY <1>3, <2>2 DEF Live
  <2>4. x = y
    BY <2>1, <2>2, <2>3 DEF Tidy, NoDuplicates
  <2> QED  BY <2>1, <2>4 DEF RuleOf
<1>5. ASSUME NEW x \in Live(heap'), x \in Live(heap), NEW c \in heap'.alloc \cup {NoCell}
      PROVE  x \in Rest(heap', pos, c) <=> x \in Rest(heap, pos, c)
  <2>1. heap'.var[x] = heap.var[x]
    BY <1>3 DEF Live
  <2>2. c # NoCell => AtOrAfter(heap', pos, c, x) <=> AtOrAfter(heap, pos, c, x)
    BY <1>3, <2>1 DEF AtOrAfter
  <2> QED  BY <1>5, <2>2 DEF Rest
<1> QED  BY <1>2, <1>4, <1>5 DEF Steadfast

\* A generator on a production of a removed variable goes on after it.
LEMMA OrphanSteadfast ==
    ASSUME IInv, IInv', NEW pos, NEW top, Ready(heap, pos, top), NEW v \in VarIds,
           UnsafeRemoveVariable(v)
    PROVE  Steadfast(pos, pos) /\ Rises(heap', pos, top) /\ Tagged(heap')
<1> DEFINE C    == {c \in heap.alloc : heap.var[c] \in {v}}
           gone == {c \in C : ~heap.del[c] /\ heap.ref[c] = 1}
           kept == C \ gone
<1>0. heap' = Orphan(heap, {v}, v, TRUE)
  BY DEF UnsafeRemoveVariable
<1>1. /\ heap'.alloc = heap.alloc \ gone
      /\ heap'.var = [c \in Cells |-> IF c \in C THEN 0 ELSE heap.var[c]]
      /\ heap'.rhs = [c \in Cells |-> IF c \in gone THEN Epsilon ELSE heap.rhs[c]]
      /\ heap'.prev = [c \in Cells |-> CASE c \in gone -> NoCell
                                         [] c \in kept -> v
                                         [] OTHER      -> heap.prev[c]]
  BY <1>0 DEF Orphan
<1>2. /\ heap \in LooseHeap /\ Tidy(heap) /\ Tagged(heap) /\ heap.alloc \subseteq Cells
      /\ pos \in [Cells -> Nat] /\ top \in Nat /\ Rises(heap, pos, top)
  BY LooseTypes DEF Ready
<1> HIDE DEF gone
<1>3. /\ gone \subseteq C /\ C \subseteq heap.alloc
      /\ \A c \in heap.alloc : c \in C <=> heap.var[c] = v
  BY DEF gone
<1>4. \A c \in heap'.alloc :
         /\ c \in heap.alloc /\ c \in Cells /\ c \notin gone /\ heap'.rhs[c] = heap.rhs[c]
         /\ heap.var[c] = v => heap'.var[c] = 0 /\ heap'.prev[c] = v
         /\ heap.var[c] # v => heap'.var[c] = heap.var[c] /\ heap'.prev[c] = heap.prev[c]
  <2> TAKE c \in heap'.alloc
  <2>1. c \in heap.alloc /\ c \in Cells /\ c \notin gone
    BY <1>1, <1>2
  <2>2. c \in C <=> heap.var[c] = v
    BY <1>3, <2>1
  <2> HIDE DEF C
  <2>3. heap'.rhs[c] = heap.rhs[c] /\ heap'.var[c] = IF c \in C THEN 0 ELSE heap.var[c]
    BY <1>1, <2>1
  <2>4. c \in C => heap'.prev[c] = v
    BY <1>1, <2>1
  <2>5. c \notin C => heap'.prev[c] = heap.prev[c]
    BY <1>1, <2>1
  <2> QED  BY <2>1, <2>2, <2>3, <2>4, <2>5
<1>5. \A x : x \in Live(heap') <=> x \in Live(heap) /\ heap.var[x] # v
  BY UnsafeRemoveVariableInv
<1>6. /\ \A x \in Live(heap) : /\ heap.var[x] # 0 /\ heap.var[x] \in Nat
      /\ v # 0 /\ v \in Nat /\ 0 \notin VarIds
  BY ReadyTypes, Ids
<1>7. Rises(heap', pos, top)
  BY <1>0, <1>2, OrphanTidy DEF Tidier
<1>8. Tagged(heap')
  BY <1>2, <1>4 DEF Tagged
<1>9. ASSUME NEW x \in Live(heap') PROVE x \in Live(heap) /\ RuleOf(x)' = RuleOf(x)
  <2>1. x \in heap'.alloc /\ x \in Live(heap) /\ heap.var[x] # v
    BY <1>5 DEF Live
  <2> QED  BY <1>4, <2>1 DEF RuleOf
<1>10. ASSUME NEW x \in Live(heap'), NEW g \in Gens, ptr'[g] = ptr[g]
       PROVE  x \in Rest(heap', pos, ptr'[g]) <=> x \in Rest(heap, pos, ptr[g])
  <2> DEFINE p == ptr[g]
  <2>1. p \in heap'.alloc \cup {NoCell}
    <3>1. Held(heap', ptr')
      BY DEF IInv
    <3> QED  BY <1>10, <3>1, HeldPointer DEF Holders
  <2>2. x \in heap'.alloc /\ x \in Live(heap) /\ heap.var[x] # v
    BY <1>5 DEF Live
  <2>3. heap'.var[x] = heap.var[x] /\ heap.var[x] \in Nat
    BY <1>4, <1>6, <2>2
  <2> HIDE DEF p
  <2>4. CASE p = NoCell
    BY <1>10, <2>4 DEF Rest, p
  <2>5. CASE p # NoCell /\ heap.var[p] # v
    <3>1. heap'.var[p] = heap.var[p] /\ heap'.prev[p] = heap.prev[p]
      BY <1>4, <2>1, <2>5
    <3>2. AtOrAfter(heap', pos, p, x) <=> AtOrAfter(heap, pos, p, x)
      BY <2>3, <3>1 DEF AtOrAfter
    <3> QED  BY <1>10, <2>2, <3>2 DEF Rest, p
  <2>6. CASE p # NoCell /\ heap.var[p] = v
    <3>1. heap'.var[p] = 0 /\ heap'.prev[p] = v
      BY <1>4, <2>1, <2>6
    <3>2. AtOrAfter(heap', pos, p, x) <=> v <= heap.var[x]
      BY <2>3, <3>1 DEF AtOrAfter
    <3>3. AtOrAfter(heap, pos, p, x) <=> v < heap.var[x]
      BY <1>6, <2>2, <2>6 DEF AtOrAfter
    <3>4. v <= heap.var[x] <=> v < heap.var[x]
      BY <1>6, <2>2, <2>3
    <3> QED  BY <1>10, <2>2, <3>2, <3>3, <3>4 DEF Rest, p
  <2> QED  BY <2>4, <2>5, <2>6
<1> QED  BY <1>7, <1>8, <1>9, <1>10 DEF Steadfast

\* A new production comes before or after a generator, and all the others stay.
LEMMA InsertSteadfast ==
    ASSUME IInv, IInv', NEW pos, NEW top, Ready(heap, pos, top), NEW v \in VarIds,
           NEW s \in Strings, NEW d \in Handles \cup {NoHandle}, AddNew(v, s, d)
    PROVE  /\ \E new \in [Cells -> Nat], max \in Nat :
                Rises(heap', new, max) /\ Steadfast(pos, new)
           /\ Tagged(heap')
           /\ \E c \in Cells : /\ Live(heap') = Live(heap) \cup {c} /\ RuleOf(c)' = <<v, s>>
                               /\ \A x \in Live(heap) : RuleOf(x)' = RuleOf(x)
<1>1. /\ heap \in LooseHeap /\ Tidy(heap) /\ Tagged(heap) /\ heap.alloc \subseteq Cells
      /\ pos \in [Cells -> Nat] /\ top \in Nat /\ Rises(heap, pos, top)
  BY LooseTypes DEF Ready
<1>2. PICK c \in Cells \ heap.alloc : \E k : Grown(k, c, v, s, d)
  BY <1>1, NewGrown
<1>3. PICK k : Grown(k, c, v, s, d)
  BY <1>2
<1>4. /\ k \in LooseHeap /\ Tidy(k) /\ Follows(heap, k) /\ Ages(k, heap')
      /\ Live(k) = Live(heap) \cup {c} /\ Live(heap') = Live(k)
      /\ k.var[c] = v /\ k.rhs[c] = s /\ k.alloc = heap.alloc \cup {c}
      /\ \A x \in heap.alloc : k.var[x] = heap.var[x] /\ k.rhs[x] = heap.rhs[x]
  BY <1>3 DEF Grown
<1>5. /\ heap'.alloc \subseteq k.alloc
      /\ \A x \in heap'.alloc : /\ heap'.rhs[x] = k.rhs[x] /\ heap'.var[x] = k.var[x]
                                /\ k.var[x] = 0 => heap'.prev[x] = k.prev[x]
  BY <1>4 DEF Ages
<1>6. PICK new \in [Cells -> Nat], max \in Nat :
        /\ Rises(k, new, max)
        /\ \A x, y \in heap.alloc : pos[x] <= pos[y] <=> new[x] <= new[y]
  BY <1>1, <1>4 DEF Follows
<1>7. Rises(heap', new, max)
  BY <1>4, <1>6 DEF Ages, Tidier
<1>8. \A x \in heap.alloc : heap.var[x] = 0 => k.prev[x] = heap.prev[x]
  BY <1>4 DEF Follows
<1>9. v # 0 /\ c \notin heap.alloc /\ c \in Cells
  BY <1>2, Ids
<1>10. Tagged(heap')
  BY <1>1, <1>4, <1>5, <1>8, <1>9 DEF Tagged
<1>11. /\ \A x \in Live(heap) : x \in heap.alloc /\ x \in heap'.alloc /\ x # c
       /\ c \in heap'.alloc
  <2>1. \A x \in Live(heap) \cup {c} : x \in Live(heap')
    BY <1>4
  <2> QED  BY <1>9, <2>1 DEF Live
<1>12. RuleOf(c)' = <<v, s>> /\ \A x \in Live(heap) : RuleOf(x)' = RuleOf(x)
  BY <1>4, <1>5, <1>11 DEF RuleOf
<1>13. ASSUME NEW x \in Live(heap'), RuleOf(x)' \in RulesOf(heap) PROVE x \in Live(heap)
  <2> SUFFICES ASSUME x = c PROVE FALSE
    BY <1>4
  <2>1. PICK y \in Live(heap) : <<v, s>> = <<heap.var[y], heap.rhs[y]>>
    BY <1>12, <1>13 DEF RulesOf
  <2>2. k.var[y] = v /\ k.rhs[y] = s /\ y \in Cells /\ y # c
    BY <1>1, <1>4, <1>11, <2>1
  <2> QED  BY <1>4, <1>9, <2>2 DEF Tidy, NoDuplicates
<1>14. ASSUME NEW x \in Live(heap), NEW g \in Gens, ptr'[g] = ptr[g]
       PROVE  x \in Rest(heap', new, ptr'[g]) <=> x \in Rest(heap, pos, ptr[g])
  <2> DEFINE p == ptr[g]
  <2>1. p \in heap'.alloc \cup {NoCell} /\ p \in heap.alloc \cup {NoCell}
    <3>1. Held(heap', ptr') /\ Held(heap, ptr)
      BY DEF IInv
    <3> QED  BY <1>14, <3>1, HeldPointer DEF Holders
  <2>2. x \in heap.alloc /\ heap'.var[x] = heap.var[x] /\ x \in Live(heap')
    BY <1>4, <1>5, <1>11
  <2> HIDE DEF p
  <2>3. CASE p = NoCell
    BY <1>14, <2>3 DEF Rest, p
  <2>4. CASE p # NoCell
    <3>1. /\ p \in heap.alloc /\ heap'.var[p] = heap.var[p]
          /\ heap.var[p] = 0 => heap'.prev[p] = heap.prev[p]
      BY <1>4, <1>5, <1>8, <2>1, <2>4
    <3>2. pos[p] <= pos[x] <=> new[p] <= new[x]
      BY <1>6, <2>2, <3>1
    <3>3. AtOrAfter(heap', new, p, x) <=> AtOrAfter(heap, pos, p, x)
      BY <2>2, <3>1, <3>2 DEF AtOrAfter
    <3> QED  BY <1>14, <2>2, <3>3 DEF Rest, p
  <2> QED  BY <2>3, <2>4
<1>15. Steadfast(pos, new)
  BY <1>12, <1>13, <1>14 DEF Steadfast
<1> QED  BY <1>4, <1>7, <1>9, <1>10, <1>12, <1>15

-----------------------------------------------------------------------------
(* Editing the grammar.                                                      *)

LEMMA EditStep ==
    ASSUME IInv, IterEdit
    PROVE  /\ Next /\ UNCHANGED <<used, done>>
           /\ \A g \in Gens : ptr'[g] = ptr[g]
           /\ owed' = [g \in Gens |-> owed[g] \cap RulesOf(heap')]
           /\ seen' = [g \in Gens |-> seen[g] \cap RulesOf(heap')]
<1>1. /\ UNCHANGED done
      /\ owed' = [g \in Gens |-> owed[g] \cap RulesOf(heap')]
      /\ seen' = [g \in Gens |-> seen[g] \cap RulesOf(heap')]
  BY DEF IterEdit
<1>2. ptr \in [Holders -> CellOrNull] /\ \A d \in Handles, g \in Gens : d # g /\ g \in Holders
  BY InvTypes, GensAssumption DEF Holders
<1>3. CASE AddVariable
  BY <1>1, <1>3 DEF AddVariable, Next
<1>4. CASE \E v \in VarIds : SetStartVariable(v)
  BY <1>1, <1>4 DEF SetStartVariable, Next
<1>5. CASE \E v \in VarIds : UnsafeRemoveVariable(v)
  BY <1>1, <1>5 DEF UnsafeRemoveVariable, Next
<1>6. ASSUME NEW v \in VarIds, NEW s \in Strings, NEW d \in Handles \cup {NoHandle},
             AddProduction(v, s, d)
      PROVE  /\ Next /\ UNCHANGED used
             /\ \A g \in Gens : ptr'[g] = ptr[g]
  <2>1. PICK h, c : Added(h, c, v, d)
    BY <1>6 DEF AddProduction, AddNew, AddDuplicate
  <2>2. \A g \in Gens : ptr'[g] = ptr[g]
    BY <1>2, <2>1 DEF Added
  <2> QED  BY <1>6, <2>2 DEF AddProduction, Next
<1>7. CASE \E d \in Handles : RemoveProduction(d)
  BY <1>1, <1>7 DEF RemoveProduction, Next
<1>8. CASE \E d, f \in Handles : CopyHandle(d, f)
  BY <1>1, <1>2, <1>8 DEF CopyHandle, Next
<1>9. CASE \E d \in Handles : ClearHandle(d)
  BY <1>1, <1>2, <1>9 DEF ClearHandle, Next
<1>10. CASE Destroy
  BY <1>1, <1>10 DEF Destroy, Next
<1> QED  BY <1>1, <1>3, <1>4, <1>5, <1>6, <1>7, <1>8, <1>9, <1>10 DEF IterEdit

LEMMA EditHistory ==
    ASSUME IInv, HistoryOK, IterEdit
    PROVE  HistoryOK'
<1>1. /\ UNCHANGED <<used, done>> /\ \A g \in Gens : ptr'[g] = ptr[g]
      /\ owed' = [g \in Gens |-> owed[g] \cap RulesOf(heap')]
      /\ seen' = [g \in Gens |-> seen[g] \cap RulesOf(heap')]
  BY EditStep
<1>2. /\ owed' \in [Gens -> SUBSET RulesOf(heap')]
      /\ seen' \in [Gens -> SUBSET RulesOf(heap')]
      /\ done' \in [Gens -> BOOLEAN]
  BY <1>1 DEF HistoryOK
<1>3. ASSUME NEW g \in Gens PROVE owed'[g] \subseteq MatchingRules(g)'
  <2>1. owed[g] \subseteq MatchingRules(g) /\ owed'[g] = owed[g] \cap RulesOf(heap')
    BY <1>1 DEF HistoryOK
  <2> QED  BY <2>1, MatchingIs
<1>4. \A g \in Gens : done'[g] => used'[g] /\ ptr'[g] = NoCell
  BY <1>1 DEF HistoryOK
<1> QED  BY <1>2, <1>3, <1>4 DEF HistoryOK

LEMMA AgesTracked ==
    ASSUME NEW pos, NEW top, Settled(pos, top), IInv', Ages(heap, heap')
    PROVE  Rises(heap', pos, top) /\ Tagged(heap') /\ Steadfast(pos, pos)
<1>1. IInv /\ Ready(heap, pos, top) /\ Tidy(heap)
  BY DEF Settled, Ready
<1>2. Ready(heap', pos, top)
  BY <1>1, AgesReady
<1> QED  BY <1>1, <1>2, AgesSteadfast DEF Ready

LEMMA EditTracked ==
    ASSUME NEW pos, NEW top, Settled(pos, top), IInv', [Next]_vars, alive'
    PROVE  /\ Tagged(heap')
           /\ \E new \in [Cells -> Nat], max \in Nat : Rises(heap', new, max) /\ Steadfast(pos, new)
<1>1. /\ IInv /\ Ready(heap, pos, top) /\ heap \in LooseHeap
      /\ pos \in [Cells -> Nat] /\ top \in Nat
  BY DEF Settled, Ready
<1>2. CASE Ages(heap, heap')
  BY <1>1, <1>2, AgesTracked
<1>3. CASE Quiet
  BY <1>2, <1>3 DEF Quiet
<1>4. CASE AddVariable
  <2>1. heap' = heap
    BY <1>4 DEF AddVariable
  <2> QED  BY <1>1, <1>2, <2>1, AgesSame
<1>5. ASSUME NEW v \in VarIds, UnsafeRemoveVariable(v)
      PROVE  Rises(heap', pos, top) /\ Tagged(heap') /\ Steadfast(pos, pos)
  BY <1>1, <1>5, OrphanSteadfast
<1>6. ASSUME NEW v \in VarIds, NEW s \in Strings, NEW d \in Handles \cup {NoHandle},
             AddProduction(v, s, d)
      PROVE  /\ Tagged(heap')
             /\ \E new \in [Cells -> Nat], max \in Nat :
                  Rises(heap', new, max) /\ Steadfast(pos, new)
  <2>1. CASE AddNew(v, s, d)
    BY <1>1, <2>1, InsertSteadfast
  <2>2. CASE AddDuplicate(v, s, d)
    BY <1>1, <1>2, <2>2, AddDuplicateAges
  <2> QED  BY <1>6, <2>1, <2>2 DEF AddProduction
<1>7. ASSUME NEW d \in Handles, RemoveProduction(d) PROVE Ages(heap, heap')
  BY <1>1, <1>7, RemoveProductionAges
<1>8. CASE Destroy
  BY <1>8 DEF Destroy
<1> QED  BY <1>1, <1>2, <1>3, <1>4, <1>5, <1>6, <1>7, <1>8, StepCases

-----------------------------------------------------------------------------
(* What it does to the rules.                                                *)

\* Steps that leave the productions alone leave the rules alone.
LEMMA AgesRules ==
    ASSUME Ages(heap, heap')
    PROVE  /\ Live(heap') \subseteq heap.alloc
           /\ RulesOf(heap') = {RuleOf(x) : x \in Live(heap')}
           /\ Live(heap') = Live(heap) => RulesOf(heap') = RulesOf(heap)
<1>1. \A x \in Live(heap') : /\ x \in heap.alloc
                             /\ <<heap'.var[x], heap'.rhs[x]>> = RuleOf(x)
  BY DEF Ages, Live, RuleOf
<1>2. RulesOf(heap') = {RuleOf(x) : x \in Live(heap')}
  BY <1>1 DEF RulesOf
<1> QED  BY <1>1, <1>2 DEF RulesOf, RuleOf

LEMMA EditAdds ==
    ASSUME IInv, HistoryOK, IterEdit, RulesOf(heap) \subseteq RulesOf(heap')
    PROVE  UNCHANGED <<used, owed, seen, done>>
<1>1. /\ UNCHANGED <<used, done>>
      /\ owed' = [g \in Gens |-> owed[g] \cap RulesOf(heap')]
      /\ seen' = [g \in Gens |-> seen[g] \cap RulesOf(heap')]
  BY EditStep
<1>2. /\ \A g \in Gens : owed[g] \cap RulesOf(heap') = owed[g]
      /\ \A g \in Gens : seen[g] \cap RulesOf(heap') = seen[g]
  BY DEF HistoryOK
<1>3. owed = [g \in Gens |-> owed[g]] /\ seen = [g \in Gens |-> seen[g]]
  BY DEF HistoryOK
<1> QED  BY <1>1, <1>2, <1>3

LEMMA EditDrops ==
    ASSUME IInv, HistoryOK, IterEdit, NEW R, RulesOf(heap') = RulesOf(heap) \ R
    PROVE  G!Drop(R)
<1>1. /\ UNCHANGED <<used, done>>
      /\ owed' = [g \in Gens |-> owed[g] \cap RulesOf(heap')]
      /\ seen' = [g \in Gens |-> seen[g] \cap RulesOf(heap')]
  BY EditStep
<1>2. /\ \A g \in Gens : owed[g] \cap RulesOf(heap') = owed[g] \ R
      /\ \A g \in Gens : seen[g] \cap RulesOf(heap') = seen[g] \ R
  BY DEF HistoryOK
<1>3. /\ owed' = [g \in Gens |-> owed[g] \ R]
      /\ seen' = [g \in Gens |-> seen[g] \ R]
  BY <1>1, <1>2
<1> QED  BY <1>1, <1>3 DEF G!Drop

\* Every editing of the store is one of the grammar, or changes nothing of it.
LEMMA EditImplements ==
    ASSUME IInv, IInv', Tidy(heap), Known, alive => VarsLinked,
           alive => \E pos \in [Cells -> Nat], top \in Nat : Ready(heap, pos, top),
           HistoryOK, IterEdit
    PROVE  [G!GNext]_G!gvars
<1> USE DEF G!gvars
<1>1. Next /\ heap \in LooseHeap /\ variable_map \subseteq VarIds
  BY EditStep, InvTypes DEF IInv, StoreTypes
<1>2. CASE Quiet
  <2>1. RulesOf(heap') = RulesOf(heap) /\ variable_map' = variable_map
    BY <1>2, AgesRules DEF Quiet
  <2> QED  BY <2>1, EditAdds
<1>3. CASE AddVariable
  <2>1. heap' = heap /\ alive
    BY <1>3 DEF AddVariable
  <2>2. PICK id \in VarIds : Taken(id)
    BY <1>3, <2>1, AddTakes
  <2>3. G!GAddVariable(id)
    BY <2>1, <2>2, EditAdds DEF G!GAddVariable, Taken
  <2> QED  BY <2>3 DEF G!GNext
<1>4. ASSUME NEW v \in VarIds, UnsafeRemoveVariable(v) PROVE G!GNext
  <2>1. variable_map' = variable_map \ {v} /\ v \in variable_map
    BY <1>4 DEF UnsafeRemoveVariable
  <2>2. \A x : x \in Live(heap') <=> x \in Live(heap) /\ heap.var[x] # v
    BY <1>4, UnsafeRemoveVariableInv
  <2>3. Fades(heap, heap')
    <3>1. heap' = Orphan(heap, {v}, v, TRUE)
      BY <1>4 DEF UnsafeRemoveVariable
    <3> QED  BY <1>1, <3>1, OrphanFades
  <2>4. \A x \in Live(heap') : <<heap'.var[x], heap'.rhs[x]>> = RuleOf(x)
    <3> TAKE x \in Live(heap')
    <3>1. x \in heap.alloc /\ x \in heap'.alloc
      BY <2>2 DEF Live
    <3> QED  BY <2>3, <3>1, LiveStays DEF Fades, RuleOf
  <2>5. \A r : r \in RulesOf(heap') <=> r \in RulesOf(heap) /\ r[1] # v
    <3>1. \A r \in RulesOf(heap') : r \in RulesOf(heap) /\ r[1] # v
      BY <2>2, <2>4 DEF RulesOf, RuleOf
    <3>2. \A r \in RulesOf(heap) : r[1] # v => r \in RulesOf(heap')
      <4> TAKE r \in RulesOf(heap)
      <4>1. PICK x \in Live(heap) : r = RuleOf(x)
        BY DEF RulesOf, RuleOf
      <4>2. r[1] = heap.var[x]
        BY <4>1 DEF RuleOf
      <4>3. r[1] # v => x \in Live(heap')
        BY <2>2, <4>2
      <4> QED  BY <2>4, <4>1, <4>3 DEF RulesOf
    <3> QED  BY <3>1, <3>2
  <2> DEFINE R == {r \in RulesOf(heap) : r[1] = v}
  <2>6. RulesOf(heap') = RulesOf(heap) \ R
    BY <2>5
  <2>7. G!Drop(R)
    <3> HIDE DEF R
    <3> QED  BY <2>6, EditDrops
  <2>8. G!GRemoveVariable(v)
    BY <2>1, <2>7 DEF G!GRemoveVariable
  <2> QED  BY <2>8 DEF G!GNext
<1>5. ASSUME NEW v \in VarIds, NEW s \in Strings, NEW d \in Handles \cup {NoHandle},
             AddProduction(v, s, d)
      PROVE  G!GNext
  <2>1. variable_map' = variable_map /\ v \in variable_map /\ alive
    BY <1>5 DEF AddProduction, varvars
  <2>2. RulesOf(heap') = RulesOf(heap) \cup {<<v, s>>}
    <3>1. CASE AddNew(v, s, d)
      <4>1. PICK c \in Cells : /\ Live(heap') = Live(heap) \cup {c} /\ RuleOf(c)' = <<v, s>>
                               /\ \A x \in Live(heap) : RuleOf(x)' = RuleOf(x)
        <5>1. PICK pos \in [Cells -> Nat], top \in Nat : Ready(heap, pos, top)
          BY <2>1
        <5> QED  BY <3>1, <5>1, InsertSteadfast
      <4>2. RulesOf(heap') = {RuleOf(x)' : x \in Live(heap')}
        BY DEF RulesOf, RuleOf
      <4>3. RulesOf(heap) = {RuleOf(x) : x \in Live(heap)}
        BY DEF RulesOf, RuleOf
      <4>4. \A r : r \in RulesOf(heap') <=> r \in RulesOf(heap) \/ r = <<v, s>>
        BY <4>1, <4>2, <4>3
      <4> QED  BY <4>4
    <3>2. CASE AddDuplicate(v, s, d)
      <4>1. PICK c \in OfVar(heap, v) : c = Spot(heap, v, s) /\ heap.rhs[c] = s
        BY <3>2 DEF AddDuplicate
      <4>2. Ages(heap, heap') /\ Live(heap') = Live(heap) \cup {c}
        BY <3>2, <4>1, AddDuplicateAges, AddDuplicateHeld
      <4>3. RuleOf(c) = <<v, s>>
        BY <4>1 DEF RuleOf, OfVar
      <4>4. RulesOf(heap') = {RuleOf(x) : x \in Live(heap) \cup {c}}
        BY <4>2, AgesRules
      <4>5. RulesOf(heap) = {RuleOf(x) : x \in Live(heap)}
        BY DEF RulesOf, RuleOf
      <4>6. \A r : r \in RulesOf(heap') <=> r \in RulesOf(heap) \/ r = <<v, s>>
        BY <4>3, <4>4, <4>5
      <4> QED  BY <4>6
    <3> QED  BY <1>5, <3>1, <3>2 DEF AddProduction
  <2>3. G!GAddRule(v, s)
    BY <2>1, <2>2, EditAdds DEF G!GAddRule
  <2> QED  BY <2>3 DEF G!GNext
<1>6. ASSUME NEW d \in Handles, RemoveProduction(d) PROVE G!GNext
  <2> DEFINE c == ptr[d]
             r == RuleOf(c)
  <2>1. variable_map' = variable_map /\ c \in Live(heap)
    BY <1>6 DEF RemoveProduction, varvars
  <2>2. Ages(heap, heap') /\ Live(heap') = Live(heap) \ {c}
    BY <1>6, RemoveProductionAges, RemoveProductionInv
  <2> HIDE DEF c
  <2>3. RulesOf(heap') = {RuleOf(x) : x \in Live(heap) \ {c}}
    BY <2>2, AgesRules
  <2>4. RulesOf(heap) = {RuleOf(x) : x \in Live(heap)}
    BY DEF RulesOf, RuleOf
  <2>5. \A x \in Live(heap) : RuleOf(x) = r => x = c
    BY <2>1, RuleOnce
  <2> HIDE DEF r
  <2>6. \A q : q \in RulesOf(heap') <=> q \in RulesOf(heap) /\ q # r
    BY <2>1, <2>3, <2>4, <2>5 DEF r
  <2>7. RulesOf(heap') = RulesOf(heap) \ {r}
    BY <2>6
  <2>8. r \in RulesOf(heap)
    BY <2>1, <2>4 DEF r
  <2>9. G!GRemoveRule(r)
    BY <2>1, <2>7, <2>8, EditDrops DEF G!GRemoveRule
  <2> QED  BY <2>8, <2>9 DEF G!GNext
<1>7. CASE Destroy
  <2>1. variable_map' = {} /\ Live(heap') = {}
    BY <1>7, DestroyInv DEF Destroy
  <2>2. RulesOf(heap') = RulesOf(heap) \ RulesOf(heap)
    BY <2>1 DEF RulesOf
  <2>3. G!GDestroy
    BY <2>1, <2>2, EditDrops DEF G!GDestroy
  <2> QED  BY <2>3 DEF G!GNext
<1> QED  BY <1>1, <1>2, <1>3, <1>4, <1>5, <1>6, <1>7, StepCases

-----------------------------------------------------------------------------
(* Iterating over it.                                                        *)

\* A step of generator g alone, which leaves it with the rules O to yield and
\* S yielded.
OnlyOf(g, O, S, D) ==
    /\ Ages(heap, heap') /\ Live(heap') = Live(heap)
    /\ O \subseteq MatchingRules(g) /\ S \subseteq RulesOf(heap) /\ D \in BOOLEAN
    /\ owed' = [owed EXCEPT ![g] = O]
    /\ seen' = [seen EXCEPT ![g] = S]
    /\ done' = [done EXCEPT ![g] = D]
    /\ D => used'[g] /\ ptr'[g] = NoCell
    /\ \A e \in Gens \ {g} : ptr'[e] = ptr[e] /\ used'[e] = used[e]

LEMMA OnlyHistory ==
    ASSUME HistoryOK, NEW g \in Gens, NEW O, NEW S, NEW D, OnlyOf(g, O, S, D)
    PROVE  HistoryOK' /\ RulesOf(heap') = RulesOf(heap)
<1>1. RulesOf(heap') = RulesOf(heap)
  BY AgesRules DEF OnlyOf
<1>2. \A e \in Gens : \A r : r \in MatchingRules(e)' <=> r \in MatchingRules(e)
  BY <1>1, MatchingIs
<1>3. O \subseteq RulesOf(heap)
  BY MatchingIs DEF OnlyOf
<1>4. /\ owed' \in [Gens -> SUBSET RulesOf(heap')]
      /\ seen' \in [Gens -> SUBSET RulesOf(heap')]
      /\ done' \in [Gens -> BOOLEAN]
  BY <1>1, <1>3 DEF OnlyOf, HistoryOK
<1>5. ASSUME NEW e \in Gens
      PROVE  /\ owed'[e] \subseteq MatchingRules(e)'
             /\ done'[e] => used'[e] /\ ptr'[e] = NoCell
  <2>1. CASE e = g
    <3>1. owed'[e] = O /\ done'[e] = D
      BY <2>1 DEF OnlyOf, HistoryOK
    <3> QED  BY <1>2, <2>1, <3>1 DEF OnlyOf
  <2>2. CASE e # g
    <3>1. /\ owed'[e] = owed[e] /\ done'[e] = done[e]
          /\ ptr'[e] = ptr[e] /\ used'[e] = used[e]
      BY <2>2 DEF OnlyOf, HistoryOK
    <3> QED  BY <1>2, <3>1 DEF HistoryOK
  <2> QED  BY <2>1, <2>2
<1> QED  BY <1>1, <1>4, <1>5 DEF HistoryOK

LEMMA OnlyTracked ==
    ASSUME NEW pos, NEW top, Settled(pos, top), IInv', HistoryOK, Tracked(pos, top),
           NEW g \in Gens, NEW O, NEW S, NEW D, OnlyOf(g, O, S, D),
           used'[g] => \A x \in Live(heap) :
             /\ RuleOf(x) \in O => x \in Rest(heap', pos, ptr'[g])
             /\ RuleOf(x) \in S => x \notin Rest(heap', pos, ptr'[g])
    PROVE  Tracked(pos, top)' /\ Tagged(heap')
<1>1. Ages(heap, heap') /\ Live(heap') = Live(heap)
  BY DEF OnlyOf
<1>2. Rises(heap', pos, top) /\ Tagged(heap') /\ Steadfast(pos, pos)
  BY <1>1, AgesTracked
<1>3. \A x \in Live(heap) : RuleOf(x)' = RuleOf(x)
  BY <1>1 DEF Ages, Live, RuleOf
<1>4. ASSUME NEW e \in Gens, used'[e] PROVE Tracks(pos, e)'
  <2>1. CASE e = g
    <3>1. owed'[e] = O /\ seen'[e] = S
      BY <2>1 DEF OnlyOf, HistoryOK
    <3> QED  BY <1>1, <1>3, <1>4, <2>1, <3>1 DEF Tracks
  <2>2. CASE e # g
    <3>1. /\ owed'[e] = owed[e] /\ seen'[e] = seen[e]
          /\ ptr'[e] = ptr[e] /\ used'[e] = used[e]
      BY <2>2 DEF OnlyOf, HistoryOK
    <3>2. /\ owed[e] \subseteq RulesOf(heap) /\ seen[e] \subseteq RulesOf(heap)
          /\ Tracks(pos, e)
      BY <1>4, <3>1 DEF HistoryOK, Tracked
    <3> QED  BY <1>2, <3>1, <3>2, TracksOn
  <2> QED  BY <2>1, <2>2
<1> QED  BY <1>2, <1>4 DEF Tracked

\* Unless hashes collide, or all the patterns are bound to a variable.
StartsRight == KeyInjective \/ \A g \in Gens : Bound[g] # 0

\* What g is about to go through has all that it owes, and nothing that it has
\* yielded.
LEMMA AskedTracks ==
    ASSUME StartsRight, NEW pos, NEW top, Settled(pos, top), HistoryOK, Tracked(pos, top),
           NEW g \in Gens
    PROVE  /\ OwedAt(g) \subseteq MatchingRules(g) /\ SeenAt(g) \subseteq RulesOf(heap)
           /\ \A x \in Live(heap) :
                /\ RuleOf(x) \in OwedAt(g) => x \in Rest(HeapAt(g), pos, CursorOf(g))
                /\ RuleOf(x) \in SeenAt(g) => x \notin Rest(HeapAt(g), pos, CursorOf(g))
<1>1. CASE used[g]
  BY <1>1 DEF HistoryOK, Tracked, Tracks, OwedAt, SeenAt, HeapAt, CursorOf
<1>2. CASE ~used[g]
  <2>1. /\ OwedAt(g) = MatchingRules(g) /\ SeenAt(g) = {}
        /\ HeapAt(g) = ResetHeap(g) /\ CursorOf(g) = ResetCursor(g)
    BY <1>2 DEF OwedAt, SeenAt, HeapAt, CursorOf
  <2>2. \A x \in Live(heap) : RuleOf(x) \in OwedAt(g) => x \in Rest(HeapAt(g), pos, CursorOf(g))
    BY <2>1, MatchingIs, StartRest DEF StartsRight
  <2> QED  BY <2>1, <2>2
<1> QED  BY <1>1, <1>2

LEMMA RewindTracked ==
    ASSUME StartsRight, NEW pos, NEW top, Settled(pos, top), IInv', HistoryOK,
           Tracked(pos, top), NEW g \in Gens, IterRewind(g)
    PROVE  HistoryOK' /\ Tracked(pos, top)' /\ Tagged(heap') /\ G!GStart(g)
<1>1. /\ Rewind(g) /\ owed' = [owed EXCEPT ![g] = MatchingRules(g)]
      /\ seen' = [seen EXCEPT ![g] = {}] /\ done' = [done EXCEPT ![g] = FALSE]
  BY DEF IterRewind
<1>2. /\ heap' = ResetHeap(g) /\ ptr' = [ptr EXCEPT ![g] = ResetCursor(g)]
      /\ UNCHANGED <<variable_map, used>>
  BY <1>1 DEF Rewind, varvars
<1>3. IInv /\ ptr \in [Holders -> CellOrNull] /\ g \in Holders
  BY InvTypes DEF Settled, Holders
<1>4. Ages(heap, heap') /\ Live(heap') = Live(heap)
  BY <1>1, <1>2, <1>3, ResetAges, RewindInv
<1>5. ptr'[g] = ResetCursor(g) /\ \A e \in Gens \ {g} : ptr'[e] = ptr[e]
  BY <1>2, <1>3 DEF Holders
<1>6. OnlyOf(g, MatchingRules(g), {}, FALSE)
  BY <1>1, <1>2, <1>4, <1>5 DEF OnlyOf
<1>7. \A x \in Live(heap) : RuleOf(x) \in MatchingRules(g) => x \in Rest(heap', pos, ptr'[g])
  BY <1>2, <1>5, MatchingIs, StartRest DEF StartsRight
<1>8. HistoryOK' /\ RulesOf(heap') = RulesOf(heap)
  BY <1>6, OnlyHistory
<1>9. Tracked(pos, top)' /\ Tagged(heap')
  <2> DEFINE O == MatchingRules(g)
             S == {}
  <2>1. OnlyOf(g, O, S, FALSE)
    BY <1>6
  <2>2. \A x \in Live(heap) :
           /\ RuleOf(x) \in O => x \in Rest(heap', pos, ptr'[g])
           /\ RuleOf(x) \in S => x \notin Rest(heap', pos, ptr'[g])
    BY <1>7
  <2> HIDE DEF O, S
  <2> QED  BY <2>1, <2>2, OnlyTracked
<1>10. MatchingRules(g) = G!Matching(g)
  <2>1. \A r : r \in MatchingRules(g) <=> r \in G!Matching(g)
    BY MatchingIs DEF G!Matching
  <2>2. G!Matching(g) \subseteq RulesOf(heap) /\ MatchingRules(g) \subseteq RulesOf(heap)
    BY MatchingIs DEF G!Matching
  <2> QED  BY <2>1, <2>2
<1>11. G!GStart(g)
  BY <1>1, <1>2, <1>8, <1>10 DEF G!GStart
<1> QED  BY <1>8, <1>9, <1>11

LEMMA FoundTracked ==
    ASSUME StartsRight, NEW pos, NEW top, Settled(pos, top), IInv', HistoryOK,
           Tracked(pos, top), NEW g \in Gens, NEW m \in Cells, IterFound(g, m)
    PROVE  /\ HistoryOK' /\ Tracked(pos, top)' /\ Tagged(heap')
           /\ RuleOf(m) \in RulesOf(heap) /\ G!GYield(g, RuleOf(m))
<1> DEFINE r == RuleOf(m)
           c == FindCurrent(HeapAt(g), CursorOf(g))
           O == OwedAt(g) \ {r}
           S == SeenAt(g) \cup {r}
<1>1. /\ Asked(g) /\ MatchFound(g, m) /\ owed' = [owed EXCEPT ![g] = O]
      /\ seen' = [seen EXCEPT ![g] = S] /\ done' = [done EXCEPT ![g] = FALSE]
  BY DEF IterFound
<1>2. /\ IInv /\ Tidy(heap) /\ heap \in LooseHeap /\ ptr \in [Holders -> CellOrNull]
      /\ g \in Holders /\ used \in [Gens -> BOOLEAN]
  BY InvTypes DEF Settled, Ready, Holders, IInv, StoreTypes
<1>3. /\ Ages(heap, heap') /\ Live(heap') = Live(heap) /\ m \in Live(heap)
      /\ FirstMatch(heap, pos, g, c, m)
      /\ Rest(heap', pos, ptr'[g]) = Rest(heap, pos, m) \ {m}
      /\ c # NoCell
  BY <1>1, FoundRest
<1>4. Rest(HeapAt(g), pos, CursorOf(g)) = Rest(heap, pos, c)
  BY CursorRest
<1>5. /\ OwedAt(g) \subseteq MatchingRules(g) /\ SeenAt(g) \subseteq RulesOf(heap)
      /\ \A x \in Live(heap) :
           /\ RuleOf(x) \in OwedAt(g) => x \in Rest(heap, pos, c)
           /\ RuleOf(x) \in SeenAt(g) => x \notin Rest(heap, pos, c)
  BY <1>4, AskedTracks
<1> HIDE DEF c
<1>6. m # NoCell /\ Matches(heap, g, m) /\ m \in Rest(heap, pos, c)
  <2>1. m # NoCell
    BY LooseTypes, <1>2
  <2> QED  BY <1>3, <2>1 DEF FirstMatch
<1>7. r \in MatchingRules(g) /\ r \in RulesOf(heap) /\ r \notin SeenAt(g)
  BY <1>3, <1>5, <1>6 DEF MatchingRules, RulesOf, RuleOf
<1>8. \A x \in Live(heap) : RuleOf(x) = r => x = m
  BY <1>2, <1>3, RuleOnce
<1> HIDE DEF r
<1>9. \A x \in Live(heap) :
         /\ RuleOf(x) \in O => x \in Rest(heap', pos, ptr'[g])
         /\ RuleOf(x) \in S => x \notin Rest(heap', pos, ptr'[g])
  <2> TAKE x \in Live(heap)
  <2>1. ASSUME RuleOf(x) \in O PROVE x \in Rest(heap', pos, ptr'[g])
    <3>1. x \in Rest(heap, pos, c) /\ Matches(heap, g, x) /\ x # m
      BY <1>5, <2>1, MatchingIs DEF r
    <3>2. x \in Rest(heap, pos, m)
      BY <1>3, <3>1 DEF FirstMatch
    <3> QED  BY <1>3, <3>1, <3>2
  <2>2. ASSUME RuleOf(x) \in S PROVE x \notin Rest(heap', pos, ptr'[g])
    <3>1. x \notin Rest(heap, pos, c) \/ x = m
      BY <1>5, <1>8, <2>2
    <3> QED  BY <1>3, <3>1 DEF FirstMatch
  <2> QED  BY <2>1, <2>2
<1>10. \A e \in Gens \ {g} : ptr'[e] = ptr[e] /\ used'[e] = used[e]
  <2>1. PICK n : ptr' = [BoundPtr(g, m) EXCEPT ![g] = n]
    BY <1>1, FoundParts
  <2>2. \A e \in Gens : e \in Holders /\ (Binder[g] = NoHandle \/ e # Binder[g])
    BY GensAssumption DEF Holders
  <2>3. \A e \in Gens : BoundPtr(g, m)[e] = ptr[e]
    BY <1>2, <2>2, GensAssumption DEF BoundPtr, Holders
  <2>4. BoundPtr(g, m) \in [Holders -> CellOrNull]
    <3>1. m \in CellOrNull
      BY DEF CellOrNull
    <3> QED  BY <1>2, <3>1 DEF BoundPtr
  <2>5. \A e \in Gens \ {g} : ptr'[e] = ptr[e]
    BY <2>1, <2>3, <2>4 DEF Holders
  <2> QED  BY <1>1, <1>2, <2>5 DEF Asked
<1>11. OnlyOf(g, O, S, FALSE)
  <2>1. O \subseteq MatchingRules(g) /\ S \subseteq RulesOf(heap)
    BY <1>5, <1>7
  <2> HIDE DEF O, S
  <2> QED  BY <1>1, <1>3, <1>10, <2>1 DEF OnlyOf
<1>12. HistoryOK' /\ RulesOf(heap') = RulesOf(heap)
  <2> HIDE DEF O, S
  <2> QED  BY <1>11, OnlyHistory
<1>13. Tracked(pos, top)' /\ Tagged(heap')
  <2> HIDE DEF O, S
  <2> QED  BY <1>9, <1>11, OnlyTracked
<1>14. ~done[g]
  <2> SUFFICES ASSUME done[g] PROVE FALSE
    OBVIOUS
  <2>1. used[g] /\ ptr[g] = NoCell
    BY DEF HistoryOK
  <2>2. c = NoCell
    BY <2>1 DEF c, CursorOf, FindCurrent
  <2> QED  BY <1>3, <2>2
<1>15. \A q : q \in MatchingRules(g) <=> q \in G!Matching(g)
  BY MatchingIs DEF G!Matching
<1>16. UNCHANGED variable_map /\ used' = [used EXCEPT ![g] = TRUE] /\ done' = done
  <2>1. [done EXCEPT ![g] = FALSE] = done
    BY <1>14 DEF HistoryOK
  <2> QED  BY <1>1, <2>1 DEF Asked, varvars
<1>17. CASE used[g]
  <2>1. OwedAt(g) = owed[g] /\ SeenAt(g) = seen[g]
    BY <1>17 DEF OwedAt, SeenAt
  <2> QED  BY <1>1, <1>7, <1>12, <1>13, <1>14, <1>15, <1>16, <1>17, <2>1 DEF G!GYield, r
<1>18. CASE ~used[g]
  <2>1. MatchingRules(g) = G!Matching(g)
    <3>1. G!Matching(g) \subseteq RulesOf(heap) /\ MatchingRules(g) \subseteq RulesOf(heap)
      BY MatchingIs DEF G!Matching
    <3> QED  BY <1>15, <3>1
  <2>2. O = G!Matching(g) \ {r} /\ S = {r}
    BY <1>18, <2>1 DEF OwedAt, SeenAt
  <2> QED  BY <1>1, <1>7, <1>12, <1>13, <1>14, <1>15, <1>16, <1>18, <2>2 DEF G!GYield, r
<1> QED  BY <1>17, <1>18

LEMMA DoneTracked ==
    ASSUME StartsRight, NEW pos, NEW top, Settled(pos, top), IInv', HistoryOK,
           Tracked(pos, top), NEW g \in Gens, IterDone(g)
    PROVE  HistoryOK' /\ Tracked(pos, top)' /\ Tagged(heap') /\ G!GEnd(g)
<1> DEFINE O == OwedAt(g)
           S == SeenAt(g)
<1>1. /\ Asked(g) /\ (MatchEnd(g) \/ MatchNone(g)) /\ owed' = [owed EXCEPT ![g] = O]
      /\ seen' = [seen EXCEPT ![g] = S] /\ done' = [done EXCEPT ![g] = TRUE]
  BY DEF IterDone
<1>2. /\ IInv /\ ptr \in [Holders -> CellOrNull]
      /\ g \in Holders /\ used \in [Gens -> BOOLEAN]
  BY InvTypes DEF Settled, Holders, IInv, StoreTypes
<1>3. Ages(heap, heap') /\ Live(heap') = Live(heap)
  BY <1>1, <1>2, MatchEndAges, MatchNoneAges, MatchEndHeld, MatchNoneHeld
<1>4. /\ \A x \in Rest(HeapAt(g), pos, CursorOf(g)) : ~Matches(heap, g, x)
      /\ ptr'[g] = NoCell
  BY <1>1, EndRest
<1>5. /\ O \subseteq MatchingRules(g) /\ S \subseteq RulesOf(heap)
      /\ \A x \in Live(heap) : RuleOf(x) \in O => x \in Rest(HeapAt(g), pos, CursorOf(g))
  BY AskedTracks
<1>6. O = {}
  <2> SUFFICES ASSUME NEW r \in O PROVE FALSE
    OBVIOUS
  <2>1. PICK x \in Live(heap) : r = RuleOf(x) /\ Matches(heap, g, x)
    BY <1>5 DEF MatchingRules
  <2> QED  BY <1>4, <1>5, <2>1
<1>7. \A e \in Gens \ {g} : ptr'[e] = ptr[e] /\ used'[e] = used[e]
  <2>1. \A e \in Gens : e \in Holders /\ (Binder[g] # NoHandle => e # Binder[g])
    BY GensAssumption DEF Holders
  <2>2. \/ ptr' = [ptr EXCEPT ![g] = NoCell]
        \/ Binder[g] # NoHandle /\ ptr' = [ptr EXCEPT ![g] = NoCell, ![Binder[g]] = NoCell]
    BY <1>1 DEF MatchEnd, MatchNone
  <2>3. \A e \in Gens \ {g} : ptr'[e] = ptr[e]
    BY <1>2, <2>1, <2>2
  <2> QED  BY <1>1, <1>2, <2>3 DEF Asked
<1>8. used'[g] /\ used' = [used EXCEPT ![g] = TRUE] /\ UNCHANGED variable_map
  BY <1>1, <1>2 DEF Asked, varvars
<1> HIDE DEF O, S
<1>9. OnlyOf(g, O, S, TRUE)
  BY <1>1, <1>3, <1>4, <1>5, <1>7, <1>8 DEF OnlyOf
<1>10. HistoryOK' /\ RulesOf(heap') = RulesOf(heap)
  BY <1>9, OnlyHistory
<1>11. \A x : x \notin Rest(heap', pos, ptr'[g])
  BY <1>4 DEF Rest
<1>12. Tracked(pos, top)' /\ Tagged(heap')
  BY <1>6, <1>9, <1>11, OnlyTracked
<1>13. CASE used[g]
  <2>1. owed[g] = {} /\ O = owed[g] /\ S = seen[g]
    BY <1>6, <1>13 DEF O, S, OwedAt, SeenAt
  <2>2. owed' = owed /\ seen' = seen
    BY <1>1, <2>1 DEF HistoryOK
  <2> QED  BY <1>1, <1>8, <1>10, <1>12, <1>13, <2>1, <2>2 DEF G!GEnd
<1>14. CASE ~used[g]
  <2>1. MatchingRules(g) = {} /\ S = {}
    BY <1>6, <1>14 DEF O, S, OwedAt, SeenAt
  <2>2. G!Matching(g) = {}
    BY <2>1, MatchingIs DEF G!Matching
  <2> QED  BY <1>1, <1>6, <1>8, <1>10, <1>12, <1>14, <2>1, <2>2 DEF G!GEnd
<1> QED  BY <1>13, <1>14

LEMMA FreeTracked ==
    ASSUME IInv, IInv', HistoryOK, NEW g \in Gens, IterFree(g)
    PROVE  /\ HistoryOK' /\ G!GStop(g) /\ alive' = alive
           /\ \A pos, top : Settled(pos, top) /\ Tracked(pos, top)
                            => Tracked(pos, top)' /\ Tagged(heap')
<1>1. /\ FreeGenerator(g) /\ owed' = [owed EXCEPT ![g] = {}]
      /\ seen' = [seen EXCEPT ![g] = {}] /\ done' = [done EXCEPT ![g] = FALSE]
  BY DEF IterFree
<1>2. /\ heap \in LooseHeap /\ ptr \in [Holders -> CellOrNull] /\ ptr[g] \in CellOrNull
      /\ g \in Holders /\ used \in [Gens -> BOOLEAN]
  BY InvTypes DEF Holders, IInv, StoreTypes
<1>3. /\ heap' = ReleaseIf(heap, ptr[g]) /\ ptr' = [ptr EXCEPT ![g] = NoCell]
      /\ used' = [used EXCEPT ![g] = FALSE] /\ UNCHANGED <<variable_map, alive>>
  BY <1>1 DEF FreeGenerator, varvars
<1>4. Ages(heap, heap') /\ Live(heap') = Live(heap)
  BY <1>1, <1>2, <1>3, ReleaseIfAges, FreeGeneratorInv
<1>5. ~used'[g] /\ \A e \in Gens \ {g} : ptr'[e] = ptr[e] /\ used'[e] = used[e]
  BY <1>2, <1>3 DEF Holders
<1>6. OnlyOf(g, {}, {}, FALSE)
  BY <1>1, <1>4, <1>5 DEF OnlyOf
<1>7. HistoryOK' /\ RulesOf(heap') = RulesOf(heap)
  BY <1>6, OnlyHistory
<1>8. ASSUME NEW pos, NEW top, Settled(pos, top), Tracked(pos, top)
      PROVE  Tracked(pos, top)' /\ Tagged(heap')
  BY <1>5, <1>6, <1>8, OnlyTracked
<1>9. G!GStop(g)
  BY <1>1, <1>3, <1>7 DEF G!GStop
<1> QED  BY <1>3, <1>7, <1>8, <1>9

-----------------------------------------------------------------------------
(* The invariant, and the refinement.                                        *)

\* While the grammar lives, its heap is settled and its generators are tracked.
LEMMA AliveSettled ==
    ASSUME IInv, OInv, LeastFirst, JInv, alive
    PROVE  \E pos \in [Cells -> Nat], top \in Nat : Settled(pos, top) /\ Tracked(pos, top)
<1>1. PICK pos \in [Cells -> Nat], top \in Nat : Tracked(pos, top)
  BY DEF JInv
<1>2. Ready(heap, pos, top)
  BY <1>1, InvTypes DEF Ready, OInv, JInv, Known, Tracked
<1>3. Settled(pos, top)
  BY <1>2 DEF Settled, OInv, LeastFirst
<1> QED  BY <1>1, <1>3

LEMMA EditKeeps ==
    ASSUME IInv, IInv', OInv, LeastFirst, JInv, IterEdit
    PROVE  JInv'
<1>1. HistoryOK /\ HistoryOK'
  BY EditHistory DEF JInv
<1>2. /\ Next /\ UNCHANGED <<used, done>>
      /\ \A g \in Gens : ptr'[g] = ptr[g]
      /\ owed' = [g \in Gens |-> owed[g] \cap RulesOf(heap')]
      /\ seen' = [g \in Gens |-> seen[g] \cap RulesOf(heap')]
  BY EditStep
<1>3. \A g \in Gens : owed'[g] \subseteq owed[g] /\ seen'[g] \subseteq seen[g]
  BY <1>2
<1>4. \A g \in Gens : owed[g] \subseteq RulesOf(heap) /\ seen[g] \subseteq RulesOf(heap)
  BY <1>1 DEF HistoryOK
<1>5. ASSUME alive'
      PROVE  /\ Tagged(heap')
             /\ \E pos \in [Cells -> Nat], top \in Nat : Tracked(pos, top)'
  <2>1. alive
    BY <1>5 DEF IterEdit, AddVariable, SetStartVariable, UnsafeRemoveVariable, AddProduction,
                RemoveProduction, CopyHandle, ClearHandle, Destroy
  <2>2. PICK pos \in [Cells -> Nat], top \in Nat : Settled(pos, top) /\ Tracked(pos, top)
    BY <2>1, AliveSettled
  <2>3. /\ Tagged(heap')
        /\ \E new \in [Cells -> Nat], max \in Nat : Rises(heap', new, max) /\ Steadfast(pos, new)
    BY <1>2, <1>5, <2>2, EditTracked
  <2>4. PICK new \in [Cells -> Nat], max \in Nat : Rises(heap', new, max) /\ Steadfast(pos, new)
    BY <2>3
  <2>5. ASSUME NEW g \in Gens, used'[g] PROVE Tracks(new, g)'
    <3>1. Tracks(pos, g)
      BY <1>2, <2>2, <2>5 DEF Tracked
    <3> QED  BY <1>2, <1>3, <1>4, <2>4, <3>1, TracksOn
  <2>6. Tracked(new, max)'
    BY <2>4, <2>5 DEF Tracked
  <2> QED  BY <2>3, <2>4, <2>6
<1> QED  BY <1>1, <1>5 DEF JInv

\* The history starts empty, in an empty grammar.
LEMMA IterStarts == IterInit => JInv /\ G!GInit
<1> SUFFICES ASSUME IterInit PROVE JInv /\ G!GInit
  OBVIOUS
<1>1. /\ heap = EmptyHeap /\ variable_map = {} /\ used = [g \in Gens |-> FALSE]
      /\ owed = [g \in Gens |-> {}] /\ seen = [g \in Gens |-> {}]
      /\ done = [g \in Gens |-> FALSE] /\ Init
  BY DEF IterInit, Init
<1>2. Live(heap) = {} /\ RulesOf(heap) = {} /\ heap.alloc = {}
  BY <1>1 DEF EmptyHeap, Live, RulesOf
<1>3. HistoryOK
  BY <1>1 DEF HistoryOK
<1>4. PICK pos \in [Cells -> Nat], top \in Nat : Rises(heap, pos, top)
  BY <1>1, TidyInit DEF Tidy, Rising
<1>5. Tracked(pos, top)
  BY <1>1, <1>4 DEF Tracked
<1>6. JInv
  BY <1>2, <1>3, <1>4, <1>5 DEF JInv, Tagged
<1>7. G!GInit
  BY <1>1, <1>2 DEF G!GInit
<1> QED  BY <1>6, <1>7

\* The history variables only watch.
LEMMA IterSteps == IInv /\ [IterNext]_ivars => [Next]_vars
<1> SUFFICES ASSUME IInv, [IterNext]_ivars PROVE [Next]_vars
  OBVIOUS
<1>1. CASE IterEdit
  BY <1>1, EditStep
<1>2. ASSUME NEW g \in Gens, IterRewind(g) PROVE Next
  BY <1>2 DEF IterRewind, Next
<1>3. ASSUME NEW g \in Gens, IterDone(g) PROVE Next
  BY <1>3 DEF IterDone, MatchNext, Next
<1>4. ASSUME NEW g \in Gens, IterFree(g) PROVE Next
  BY <1>4 DEF IterFree, Next
<1>5. ASSUME NEW g \in Gens, NEW m \in Cells, IterFound(g, m) PROVE Next
  BY <1>5 DEF IterFound, MatchNext, Next
<1>6. CASE UNCHANGED ivars
  BY <1>6 DEF ivars
<1> QED  BY <1>1, <1>2, <1>3, <1>4, <1>5, <1>6 DEF IterNext

LEMMA IterIsStore == IterSpec => Spec
<1>1. IterInit => Init
  BY DEF IterInit
<1>2. IInv /\ [IterNext]_ivars => [Next]_vars
  BY IterSteps
<1>3. Init => IInv
  BY InitInv
<1>4. IInv /\ [Next]_vars => IInv'
  BY NextInv
<1> QED  BY <1>1, <1>2, <1>3, <1>4, PTL DEF IterSpec, Spec

\* Every step keeps the invariant, and is a step of the grammar or none.
LEMMA IterKeeps ==
    ASSUME StartsRight, IInv, IInv', OInv, LeastFirst, JInv, [IterNext]_ivars
    PROVE  JInv' /\ [G!GNext]_G!gvars
<1>1. HistoryOK
  BY DEF JInv
<1>2. CASE IterEdit
  <2>1. alive => \E pos \in [Cells -> Nat], top \in Nat : Ready(heap, pos, top)
    BY AliveSettled DEF Settled
  <2>2. Tidy(heap) /\ Known /\ (alive => VarsLinked)
    BY DEF OInv
  <2> QED  BY <1>1, <1>2, <2>1, <2>2, EditKeeps, EditImplements
<1>3. ASSUME NEW g \in Gens, IterRewind(g) PROVE JInv' /\ G!GStart(g)
  <2>1. alive
    BY <1>3 DEF IterRewind, Rewind
  <2>2. PICK pos \in [Cells -> Nat], top \in Nat : Settled(pos, top) /\ Tracked(pos, top)
    BY <2>1, AliveSettled
  <2>3. HistoryOK' /\ Tracked(pos, top)' /\ Tagged(heap') /\ G!GStart(g)
    BY <1>1, <1>3, <2>2, RewindTracked
  <2> QED  BY <2>2, <2>3 DEF JInv
<1>4. ASSUME NEW g \in Gens, IterDone(g) PROVE JInv' /\ G!GEnd(g)
  <2>1. alive
    BY <1>4 DEF IterDone, Asked
  <2>2. PICK pos \in [Cells -> Nat], top \in Nat : Settled(pos, top) /\ Tracked(pos, top)
    BY <2>1, AliveSettled
  <2>3. HistoryOK' /\ Tracked(pos, top)' /\ Tagged(heap') /\ G!GEnd(g)
    BY <1>1, <1>4, <2>2, DoneTracked
  <2> QED  BY <2>2, <2>3 DEF JInv
<1>5. ASSUME NEW g \in Gens, IterFree(g) PROVE JInv' /\ G!GStop(g)
  <2>1. /\ HistoryOK' /\ G!GStop(g) /\ alive' = alive
        /\ \A pos, top : Settled(pos, top) /\ Tracked(pos, top)
                         => Tracked(pos, top)' /\ Tagged(heap')
    BY <1>1, <1>5, FreeTracked
  <2>2. ASSUME alive'
        PROVE  /\ Tagged(heap')
               /\ \E pos \in [Cells -> Nat], top \in Nat : Tracked(pos, top)'
    <3>1. PICK pos \in [Cells -> Nat], top \in Nat : Settled(pos, top) /\ Tracked(pos, top)
      BY <2>1, <2>2, AliveSettled
    <3> QED  BY <2>1, <3>1
  <2> QED  BY <2>1, <2>2 DEF JInv
<1>6. ASSUME NEW g \in Gens, NEW m \in Cells, IterFound(g, m)
      PROVE  JInv' /\ \E r \in RulesOf(heap) : G!GYield(g, r)
  <2>1. alive
    BY <1>6 DEF IterFound, Asked
  <2>2. PICK pos \in [Cells -> Nat], top \in Nat : Settled(pos, top) /\ Tracked(pos, top)
    BY <2>1, AliveSettled
  <2>3. /\ HistoryOK' /\ Tracked(pos, top)' /\ Tagged(heap')
        /\ RuleOf(m) \in RulesOf(heap) /\ G!GYield(g, RuleOf(m))
    BY <1>1, <1>6, <2>2, FoundTracked
  <2> QED  BY <2>2, <2>3 DEF JInv
<1>7. CASE UNCHANGED ivars
  <2>1. UNCHANGED <<heap, variable_map, ptr, used, alive, owed, seen, done>>
    BY <1>7 DEF ivars, vars, varvars
  <2>2. RulesOf(heap') = RulesOf(heap)
    BY <2>1
  <2>3. UNCHANGED G!gvars
    BY <2>1, <2>2 DEF G!gvars, RulesOf, Live
  <2>4. JInv'
    <3>1. HistoryOK'
      <4>1. \A g \in Gens : MatchingRules(g)' = MatchingRules(g)
        BY <2>1 DEF MatchingRules, Matches, RuleOf
      <4> QED  BY <1>1, <2>1, <2>2, <4>1 DEF HistoryOK
    <3>2. Tagged(heap)' <=> Tagged(heap)
      BY <2>1
    <3>3. ASSUME NEW pos, NEW top, Tracked(pos, top) PROVE Tracked(pos, top)'
      <4>1. \A x : RuleOf(x)' = RuleOf(x)
        BY <2>1 DEF RuleOf
      <4>2. \A g \in Gens : Tracks(pos, g)' <=> Tracks(pos, g)
        BY <2>1, <4>1 DEF Tracks
      <4> QED  BY <2>1, <3>3, <4>2 DEF Tracked
    <3> QED  BY <2>1, <3>1, <3>2, <3>3 DEF JInv
  <2> QED  BY <2>3, <2>4
<1> QED  BY <1>2, <1>3, <1>4, <1>5, <1>6, <1>7 DEF IterNext, G!GNext

\* What the generators have yielded and owe, with what is left for each, holds
\* in every reachable state.
THEOREM IterInvariance == StartsRight /\ IterSpec => []JInv
<1>1. IterSpec => Spec
  BY IterIsStore
<1>2. IterInit => JInv
  BY IterStarts
<1>3. StartsRight /\ IInv /\ IInv' /\ OInv /\ LeastFirst /\ JInv /\ [IterNext]_ivars => JInv'
  BY IterKeeps
<1>4. StartsRight /\ [IterNext]_ivars => StartsRight'
  BY DEF StartsRight, KeyInjective
<1> QED  BY <1>1, <1>2, <1>3, <1>4, Invariance, OrderInvariance, FirstIsLeast, PTL DEF IterSpec

\* The store implements the grammar that it promises: a generator yields rules
\* of the grammar that match its pattern and no other, each at most once, and
\* says that there are no more only after it has yielded every one that was
\* there when it started and has not been removed, however many generators there
\* are and whatever is added, removed and brought back between two calls of
\* match_next().  What is asked of the constants is that a generator whose
\* pattern is bound to no variable meets no hashes that collide.
THEOREM GrammarImplemented == StartsRight /\ IterSpec => ImplementsGrammar
<1>1. IterInit => G!GInit
  BY IterStarts
<1>2. IterSpec => Spec
  BY IterIsStore
<1>3. StartsRight /\ IInv /\ IInv' /\ OInv /\ LeastFirst /\ JInv /\ [IterNext]_ivars
        => [G!GNext]_G!gvars
  BY IterKeeps
<1>4. StartsRight /\ [IterNext]_ivars => StartsRight'
  BY DEF StartsRight, KeyInjective
<1> QED  BY <1>1, <1>2, <1>3, <1>4, Invariance, OrderInvariance, FirstIsLeast, IterInvariance, PTL
         DEF IterSpec, ImplementsGrammar, G!GSpec
=============================================================================
