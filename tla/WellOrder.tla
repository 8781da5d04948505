------------------------------ MODULE WellOrder ------------------------------
(***************************************************************************)
(* Least and greatest numbers: the facts that the proofs use where a model   *)
(* chooses the first, or the last, of something, and the form in which they   *)
(* do induction.  And linked lists whose nodes have places that rise along    *)
(* the links: what a walk along such a list finds.                           *)
(***************************************************************************)
EXTENDS Integers, WellFoundedInduction, TLAPS

\* A set of naturals has a least element.  With the set of the numbers that
\* lack a property, this is induction over the naturals.
LEMMA LeastExists ==
    ASSUME NEW S \in SUBSET Nat, S # {}
    PROVE  \E n \in S : \A m \in S : n <= m
<1> DEFINE R == OpToRel(<, Nat)
<1>1. IsWellFoundedOn(R, Nat)
  BY NatLessThanWellFounded
<1> HIDE DEF R
<1>2. PICK n \in S : \A m \in S : ~ (<<m, n>> \in R)
  BY <1>1, WFMin
<1>3. \A m \in S : ~ (m < n)
  BY <1>2 DEF R, OpToRel
<1> QED
  BY <1>3

\* A set of naturals with a bound has a greatest element.
LEMMA GreatestExists ==
    ASSUME NEW S \in SUBSET Nat, S # {}, NEW b \in Nat, \A n \in S : n <= b
    PROVE  \E n \in S : \A m \in S : m <= n
<1> DEFINE T == {b - n : n \in S}
<1>1. T \in SUBSET Nat /\ T # {}
  <2>1. \A n \in S : b - n \in Nat
    OBVIOUS
  <2>2. PICK n \in S : TRUE
    OBVIOUS
  <2>3. b - n \in T
    BY <2>2
  <2> QED  BY <2>1, <2>3
<1>2. PICK k \in T : \A m \in T : k <= m
  <2> HIDE DEF T
  <2> QED  BY <1>1, LeastExists
<1>3. PICK n \in S : k = b - n
  BY <1>2
<1>4. \A m \in S : b - n <= b - m
  BY <1>2, <1>3
<1> QED
  BY <1>4

-----------------------------------------------------------------------------
(* Linked lists.  D is the set of the nodes of a list, nx their links, nil    *)
(* the null link and first the head.  Where every node but the head comes     *)
(* after one, and places can be given to the nodes that grow along the links, *)
(* the list has the one order of the places and goes through all of D.        *)

Chained(D, nil, nx, first) ==
    /\ nil \notin D
    /\ first \in D \cup {nil}
    /\ \A x \in D : nx[x] \in D \cup {nil}
    /\ \A x \in D : x = first \/ \E z \in D : nx[z] = x

Climbs(D, nil, nx, pos, top) ==
    \A x \in D : /\ pos[x] \in Nat /\ pos[x] <= top
                 /\ nx[x] # nil => pos[x] < pos[nx[x]]

\* The head comes first.
LEMMA ChainFirst ==
    ASSUME NEW D, NEW nil, NEW nx, NEW first, NEW pos, NEW top,
           Chained(D, nil, nx, first), Climbs(D, nil, nx, pos, top), NEW x \in D
    PROVE  first \in D /\ (x = first \/ pos[first] < pos[x])
<1> DEFINE Bad == {y \in D : ~(first \in D /\ (y = first \/ pos[first] < pos[y]))}
           N   == {pos[y] : y \in Bad}
<1> SUFFICES ASSUME Bad # {} PROVE FALSE
  OBVIOUS
<1>1. N \in SUBSET Nat /\ N # {}
  BY DEF Climbs
<1>2. PICK n \in N : \A m \in N : n <= m
  <2> HIDE DEF N
  <2> QED  BY <1>1, LeastExists
<1>3. PICK y \in Bad : n = pos[y]
  BY <1>2
<1>5. y # first
  BY <1>3
<1>6. PICK z \in D : nx[z] = y
  BY <1>3, <1>5 DEF Chained
<1>7. pos[z] < pos[y] /\ pos[z] \in Nat /\ pos[y] \in Nat
  BY <1>3, <1>6 DEF Climbs, Chained
<1>8. z \notin Bad
  BY <1>2, <1>3, <1>7
<1>9. first \in D /\ pos[first] \in Nat
  BY <1>6, <1>8 DEF Climbs
<1> QED  BY <1>3, <1>6, <1>7, <1>8, <1>9

\* No node lies between a node and the one it is linked to, and no two nodes
\* have the same place.
LEMMA ChainNext ==
    ASSUME NEW D, NEW nil, NEW nx, NEW first, NEW pos, NEW top,
           Chained(D, nil, nx, first), Climbs(D, nil, nx, pos, top),
           NEW x \in D, NEW y \in D
    PROVE  /\ pos[x] < pos[y] => nx[x] \in D /\ pos[nx[x]] <= pos[y]
           /\ pos[x] = pos[y] => x = y
<1> DEFINE Fine(a, b) == /\ pos[a] < pos[b] => nx[a] \in D /\ pos[nx[a]] <= pos[b]
                         /\ pos[a] = pos[b] => a = b
           N == {n \in Nat : \E a, b \in D : n = pos[a] + pos[b] /\ ~Fine(a, b)}
<1> SUFFICES ASSUME ~Fine(x, y) PROVE FALSE
  OBVIOUS
<1>0. \A a \in D : pos[a] \in Nat
  BY DEF Climbs
<1>1. N \in SUBSET Nat /\ N # {}
  <2>1. pos[x] + pos[y] \in N
    BY <1>0
  <2> QED  BY <2>1
<1>2. PICK n \in N : \A m \in N : n <= m
  <2> HIDE DEF N
  <2> QED  BY <1>1, LeastExists
<1>3. PICK a \in D, b \in D : n = pos[a] + pos[b] /\ ~Fine(a, b)
  BY <1>2
<1>4. \A e, f \in D : pos[e] + pos[f] < pos[a] + pos[b] => Fine(e, f)
  BY <1>0, <1>2, <1>3
<1>5. \A e \in D : e = first \/ \E z \in D : nx[z] = e /\ pos[z] < pos[e]
  BY DEF Chained, Climbs
<1>6. \A e \in D : first \in D /\ (e = first \/ pos[first] < pos[e])
  BY ChainFirst
<1>7. CASE pos[a] < pos[b]
  <2>1. PICK z \in D : nx[z] = b /\ pos[z] < pos[b]
    BY <1>0, <1>5, <1>6, <1>7
  <2>2. Fine(a, z) /\ Fine(z, a)
    BY <1>0, <1>4, <1>7, <2>1
  <2>3. CASE pos[a] < pos[z]
    BY <1>0, <1>3, <2>1, <2>2, <2>3
  <2>4. CASE pos[a] = pos[z]
    BY <1>0, <1>3, <2>1, <2>2, <2>4
  <2>5. CASE pos[z] < pos[a]
    BY <1>0, <1>7, <2>1, <2>2, <2>5
  <2> QED  BY <1>0, <2>3, <2>4, <2>5
<1>8. CASE pos[a] = pos[b] /\ a # b
  <2>1. PICK z \in D : nx[z] = b /\ pos[z] < pos[b]
    BY <1>0, <1>5, <1>6, <1>8
  <2>2. PICK w \in D : nx[w] = a /\ pos[w] < pos[a]
    BY <1>0, <1>5, <1>6, <1>8
  <2>3. Fine(w, z) /\ Fine(z, w)
    BY <1>0, <1>4, <2>1, <2>2
  <2> QED  BY <1>0, <1>8, <2>1, <2>2, <2>3
<1> QED  BY <1>0, <1>3, <1>7, <1>8

\* A recursive function along the links of a list: the nodes in stop, and nil,
\* have the value that base gives them, a node x that is not has what g[x] makes
\* of the value of the next one.  It is defined where the links climb.
Walk(D, nil, nx, stop, base, g, f) ==
    f = [x \in D \cup {nil} |->
           IF x \in stop \cup {nil} THEN base[x] ELSE g[x][f[nx[x]]]]

Walkable(D, nil, nx, stop, pos, top) ==
    /\ nil \notin D /\ nx \in [D -> D \cup {nil}]
    /\ pos \in [D -> Nat] /\ top \in Nat
    /\ \A x \in D : pos[x] <= top
    /\ \A x \in D \ stop : nx[x] # nil => pos[x] < pos[nx[x]]

LEMMA WalkExists ==
    ASSUME NEW D, NEW nil, NEW nx, NEW stop, NEW pos, NEW top,
           Walkable(D, nil, nx, stop, pos, top),
           NEW V, NEW base \in [D \cup {nil} -> V], NEW g \in [D -> [V -> V]]
    PROVE  \E f \in [D \cup {nil} -> V] : Walk(D, nil, nx, stop, base, g, f)
<1> USE DEF Walkable
<1> DEFINE E(k) == {x \in D \cup {nil} : x \in stop \cup {nil} \/ top < pos[x] + k}
           Unfolded(f, x) == IF x \in stop \cup {nil} THEN base[x] ELSE g[x][f[nx[x]]]
           P(k) == \E f \in [D \cup {nil} -> V] : \A x \in E(k) : f[x] = Unfolded(f, x)
           N == {k \in Nat : ~P(k)}
<1>0. /\ top + 1 \notin N => P(top + 1)
      /\ \A k \in N : k \in Nat /\ ~P(k)
      /\ \A k \in Nat : k \notin N => P(k)
  <2> HIDE DEF P
  <2> QED  OBVIOUS
<1>1. P(top + 1)
  <2> SUFFICES ASSUME N # {} PROVE FALSE
    BY <1>0
  <2>1. PICK n \in N : \A m \in N : n <= m
    <3>1. N \in SUBSET Nat
      OBVIOUS
    <3> HIDE DEF N
    <3> QED  BY <3>1, LeastExists
  <2>2. n # 0
    <3>1. \A x \in E(0) : x \in stop \cup {nil}
      OBVIOUS
    <3>2. \A x \in E(0) : base[x] = Unfolded(base, x)
      BY <3>1
    <3>3. P(0)
      BY <3>2
    <3> HIDE DEF P, N
    <3> QED  BY <1>0, <3>3
  <2>3. n - 1 \in Nat /\ P(n - 1)
    <3> HIDE DEF P, N
    <3> QED  BY <1>0, <2>1, <2>2
  <2>4. PICK f \in [D \cup {nil} -> V] : \A x \in E(n - 1) : f[x] = Unfolded(f, x)
    BY <2>3
  <2> DEFINE h == [x \in D \cup {nil} |-> IF x \in E(n) THEN Unfolded(f, x) ELSE f[x]]
  <2>5. \A x \in D \cup {nil} : Unfolded(f, x) \in V
    OBVIOUS
  <2>6. h \in [D \cup {nil} -> V]
    BY <2>5
  <2>7. \A x \in E(n - 1) : x \in E(n) /\ h[x] = f[x]
    BY <2>3, <2>4
  <2>8. ASSUME NEW x \in E(n) PROVE h[x] = Unfolded(h, x)
    <3>1. h[x] = Unfolded(f, x)
      OBVIOUS
    <3>2. CASE x \in stop \cup {nil}
      BY <3>1, <3>2
    <3>3. CASE x \notin stop \cup {nil}
      <4>1. x \in D \ stop /\ nx[x] \in D \cup {nil} /\ top < pos[x] + n
        BY <3>3
      <4>2. nx[x] \in E(n - 1)
        BY <2>3, <4>1
      <4>3. h[nx[x]] = f[nx[x]]
        BY <2>7, <4>2
      <4> HIDE DEF h
      <4> QED  BY <3>1, <3>3, <4>3
    <3> QED  BY <3>2, <3>3
  <2> HIDE DEF h
  <2>9. P(n)
    BY <2>6, <2>8
  <2> HIDE DEF P, N
  <2> QED  BY <1>0, <2>9
<1>2. PICK f \in [D \cup {nil} -> V] : \A x \in E(top + 1) : f[x] = Unfolded(f, x)
  BY <1>1
<1>3. E(top + 1) = D \cup {nil}
  OBVIOUS
<1>4. f = [x \in D \cup {nil} |-> Unfolded(f, x)]
  BY <1>2, <1>3
<1> QED  BY <1>4 DEF Walk

\* f is a search along the links that ends, at the nodes of stop and at nil,
\* with a member of V.
Search(D, nil, nx, stop, V, f) ==
    \A x \in D \cup {nil} :
      /\ x \in stop \cup {nil} => f[x] \in V
      /\ x \notin stop \cup {nil} => nx[x] \in D \cup {nil} /\ f[x] = f[nx[x]]

LEMMA WalkIn ==
    ASSUME NEW D, NEW nil, NEW nx, NEW pos, NEW top \in Nat, Climbs(D, nil, nx, pos, top),
           NEW stop, NEW V, NEW f, Search(D, nil, nx, stop, V, f),
           NEW y \in D \cup {nil}
    PROVE  f[y] \in V
<1> USE DEF Climbs, Search
<1> DEFINE Bad == {x \in D : f[x] \notin V}
           N   == {top - pos[x] : x \in Bad}
<1> SUFFICES ASSUME Bad # {} PROVE FALSE
  OBVIOUS
<1>1. N \in SUBSET Nat /\ N # {}
  OBVIOUS
<1>2. PICK n \in N : \A m \in N : n <= m
  <2> HIDE DEF N
  <2> QED  BY <1>1, LeastExists
<1>3. PICK x \in Bad : n = top - pos[x]
  BY <1>2
<1>4. x \in D /\ f[x] \notin V
  BY <1>3
<1>5. x \notin stop \cup {nil} /\ f[x] = f[nx[x]]
  BY <1>4
<1>6. nx[x] \in D /\ nx[x] \in Bad
  BY <1>4, <1>5
<1>7. \E m \in N : m < n
  <2>1. top - pos[nx[x]] \in N
    BY <1>6
  <2>2. top - pos[nx[x]] < n
    BY <1>3, <1>4, <1>6
  <2> QED  BY <2>1, <2>2
<1> HIDE DEF N
<1> QED  BY <1>1, <1>2, <1>7

\* A search along a list ends at the first node of stop, if there is one.
Seeks(D, nil, nx, stop, f) ==
    \A x \in D \cup {nil} : f[x] = IF x \in stop \cup {nil} THEN x ELSE f[nx[x]]

LEMMA WalkFinds ==
    ASSUME NEW D, NEW nil, NEW nx, NEW first, NEW pos, NEW top \in Nat,
           Chained(D, nil, nx, first), Climbs(D, nil, nx, pos, top),
           NEW stop, NEW f, Seeks(D, nil, nx, stop, f), NEW y \in D \cup {nil}
    PROVE  /\ f[y] \in (stop \cap D) \cup {nil}
           /\ \A z \in D : /\ y \in D /\ pos[y] <= pos[z]
                           /\ f[y] = nil \/ pos[z] < pos[f[y]]
                           => z \notin stop
<1> USE DEF Seeks
<1>1. \A x \in D : /\ nx[x] \in D \cup {nil} /\ pos[x] \in Nat /\ pos[x] <= top
                   /\ nx[x] # nil => pos[x] < pos[nx[x]]
  BY DEF Chained, Climbs
<1>2. ASSUME NEW x \in D \cup {nil} PROVE f[x] \in (stop \cap D) \cup {nil}
  <2> DEFINE V == (stop \cap D) \cup {nil}
  <2>1. Search(D, nil, nx, stop, V, f)
    BY <1>1 DEF Search
  <2> HIDE DEF V
  <2>2. f[x] \in V
    BY <2>1, WalkIn
  <2> QED  BY <2>2 DEF V
<1> DEFINE Fine(x) == \A z \in D : pos[x] <= pos[z] /\ (f[x] = nil \/ pos[z] < pos[f[x]])
                                   => z \notin stop
           Bad == {x \in D : ~Fine(x)}
           N   == {top - pos[x] : x \in Bad}
<1> SUFFICES ASSUME Bad # {} PROVE FALSE
  BY <1>2
<1>3. N \in SUBSET Nat /\ N # {}
  BY <1>1
<1>4. PICK n \in N : \A m \in N : n <= m
  <2> HIDE DEF N
  <2> QED  BY <1>3, LeastExists
<1>5. PICK x \in Bad : n = top - pos[x]
  BY <1>4
<1>6. PICK z \in D : z \in stop /\ pos[x] <= pos[z] /\ (f[x] = nil \/ pos[z] < pos[f[x]])
  BY <1>5
<1>7. x \notin stop
  BY <1>1, <1>5, <1>6 DEF Chained
<1>8. f[x] = f[nx[x]] /\ x # z
  BY <1>5, <1>6, <1>7 DEF Chained
<1>9. nx[x] \in D /\ pos[nx[x]] <= pos[z]
  BY SMTT(40), <1>1, <1>5, <1>6, <1>8, ChainNext
<1>10. nx[x] \in Bad
  BY <1>6, <1>8, <1>9
<1>11. \E m \in N : m < n
  <2>1. top - pos[nx[x]] \in N
    BY <1>10
  <2>2. pos[x] < pos[nx[x]] /\ x \in D
    BY <1>1, <1>5, <1>9 DEF Chained
  <2>3. top - pos[nx[x]] < n
    BY <1>1, <1>5, <1>9, <2>2
  <2> QED  BY <2>1, <2>3
<1> HIDE DEF N
<1> QED  BY <1>3, <1>4, <1>11

\* What it ends at does not come before where it starts.
LEMMA WalkRises ==
    ASSUME NEW D, NEW nil, NEW nx, NEW first, NEW pos, NEW top \in Nat,
           Chained(D, nil, nx, first), Climbs(D, nil, nx, pos, top),
           NEW stop, NEW f, Seeks(D, nil, nx, stop, f), NEW y \in D
    PROVE  f[y] = nil \/ pos[y] <= pos[f[y]]
<1>0. \A x \in D : f[x] \in D \cup {nil}
  <2>1. \A x \in D \cup {nil} : f[x] \in (stop \cap D) \cup {nil}
    BY WalkFinds
  <2> QED  BY <2>1
<1> USE DEF Seeks
<1>1. \A x \in D : /\ nx[x] \in D \cup {nil} /\ pos[x] \in Nat /\ pos[x] <= top
                   /\ nx[x] # nil => pos[x] < pos[nx[x]]
  BY DEF Chained, Climbs
<1> DEFINE Bad == {x \in D : ~(f[x] = nil \/ pos[x] <= pos[f[x]])}
           N   == {top - pos[x] : x \in Bad}
<1> SUFFICES ASSUME Bad # {} PROVE FALSE
  OBVIOUS
<1>3. N \in SUBSET Nat /\ N # {}
  BY <1>1
<1>4. PICK n \in N : \A m \in N : n <= m
  <2> HIDE DEF N
  <2> QED  BY <1>3, LeastExists
<1>5. PICK x \in Bad : n = top - pos[x]
  BY <1>4
<1>6. x \in D /\ f[x] # nil /\ ~(pos[x] <= pos[f[x]])
  BY <1>5
<1>7. x \notin stop /\ f[x] = f[nx[x]]
  BY <1>1, <1>6 DEF Chained
<1>8. nx[x] \in D /\ pos[x] < pos[nx[x]]
  <2>1. nx[x] # nil
    <3>1. nil \in D \cup {nil} /\ f[nil] = nil
      OBVIOUS
    <3> QED  BY <1>6, <1>7, <3>1
  <2> QED  BY <1>1, <1>6, <2>1
<1>9. nx[x] \in Bad
  <2>1. pos[f[x]] \in Nat /\ pos[x] \in Nat /\ pos[nx[x]] \in Nat
    BY <1>0, <1>1, <1>6, <1>8
  <2> QED  BY <1>6, <1>7, <1>8, <2>1
<1>10. \E m \in N : m < n
  <2>1. top - pos[nx[x]] \in N
    BY <1>9
  <2>2. top - pos[nx[x]] < n
    BY <1>1, <1>5, <1>6, <1>8
  <2> QED  BY <2>1, <2>2
<1> HIDE DEF N
<1> QED  BY <1>3, <1>4, <1>10

\* Going along a list from its head one meets all its nodes.
Gathers(D, nil, nx, f) ==
    \A x \in D \cup {nil} : f[x] = IF x = nil THEN {} ELSE {x} \cup f[nx[x]]

LEMMA WalkCovers ==
    ASSUME NEW D, NEW nil, NEW nx, NEW first, NEW pos, NEW top \in Nat,
           Chained(D, nil, nx, first), Climbs(D, nil, nx, pos, top), NEW f,
           Gathers(D, nil, nx, f)
    PROVE  f[first] = D
<1> USE DEF Gathers
<1>1. \A x \in D : /\ nx[x] \in D \cup {nil} /\ pos[x] \in Nat /\ pos[x] <= top
                   /\ nx[x] # nil => pos[x] < pos[nx[x]]
  BY DEF Chained, Climbs
<1> DEFINE After(x) == {y \in D : pos[x] <= pos[y]}
           Bad == {x \in D : f[x] # After(x)}
           N   == {top - pos[x] : x \in Bad}
<1>2. ASSUME Bad # {} PROVE FALSE
  <2>1. N \in SUBSET Nat /\ N # {}
    BY <1>1, <1>2
  <2>2. PICK n \in N : \A m \in N : n <= m
    <3> HIDE DEF N
    <3> QED  BY <2>1, LeastExists
  <2>3. PICK x \in Bad : n = top - pos[x]
    BY <2>2
  <2>4. x \in D /\ f[x] = {x} \cup f[nx[x]]
    BY <2>3 DEF Chained
  <2>5. \A y \in After(x) : x = y \/ (nx[x] \in D /\ pos[nx[x]] <= pos[y])
    BY <1>1, <2>4, ChainNext
  <2>6. CASE nx[x] = nil
    <3>1. f[x] = {x}
      BY <2>4, <2>6
    <3>2. After(x) = {x}
      BY <1>1, <2>4, <2>5, <2>6 DEF Chained
    <3> QED  BY <2>3, <3>1, <3>2
  <2>7. CASE nx[x] # nil
    <3>1. nx[x] \in D /\ pos[x] < pos[nx[x]]
      BY <1>1, <2>4, <2>7
    <3>2. top - pos[nx[x]] < top - pos[x]
      BY <1>1, <2>4, <3>1
    <3>3. nx[x] \notin Bad
      <4> SUFFICES ASSUME nx[x] \in Bad PROVE FALSE
        OBVIOUS
      <4>1. \E m \in N : m < n
        <5>1. top - pos[nx[x]] \in N /\ top - pos[nx[x]] < n
          BY <2>3, <3>2
        <5> QED  BY <5>1
      <4> HIDE DEF N
      <4> QED  BY <2>1, <2>2, <4>1
    <3>4. f[nx[x]] = After(nx[x])
      BY <3>1, <3>3
    <3>5. \A y \in D : y \in After(x) <=> y = x \/ y \in After(nx[x])
      BY <1>1, <2>4, <2>5, <3>1
    <3>6. After(x) = {x} \cup After(nx[x])
      BY <2>4, <3>5
    <3> QED  BY <2>3, <2>4, <3>4, <3>6
  <2> QED  BY <2>6, <2>7
<1>3. CASE first = nil
  <2>1. D = {}
    BY <1>3, ChainFirst DEF Chained
  <2> QED  BY <1>3, <2>1
<1>4. CASE first # nil
  <2>1. first \in D /\ f[first] = After(first)
    BY <1>2, <1>4 DEF Chained
  <2>2. \A y \in D : pos[first] <= pos[y]
    BY <1>1, <2>1, ChainFirst
  <2> QED  BY <2>1, <2>2
<1> QED  BY <1>3, <1>4
-----------------------------------------------------------------------------
(* Recursive functions.  At a member x of stop the function has the value      *)
(* base[x], at another one what g[x] makes of its value at nx[x], where the     *)
(* measure mu is less.                                                        *)

Unfolded(stop, nx, base, g, f, x) == IF x \in stop THEN base[x] ELSE g[x][f[nx[x]]]

Descends(D, stop, nx, mu) ==
    /\ nx \in [D -> D] /\ mu \in [D -> Nat]
    /\ \A x \in D \ stop : mu[nx[x]] < mu[x]

Recurses(D, stop, nx, base, g, f) ==
    \A x \in D : f[x] = Unfolded(stop, nx, base, g, f, x)

\* f is such a function as far as the measure is less than k.
UpTo(D, stop, nx, mu, base, g, f, k) ==
    \A x \in D : mu[x] < k => f[x] = Unfolded(stop, nx, base, g, f, x)

LEMMA UnfoldedTyped ==
    ASSUME NEW D, NEW stop, NEW nx \in [D -> D], NEW V, NEW base \in [D -> V],
           NEW g \in [D -> [V -> V]], NEW f \in [D -> V], NEW x \in D
    PROVE  Unfolded(stop, nx, base, g, f, x) \in V
<1>1. nx[x] \in D /\ f[nx[x]] \in V /\ g[x] \in [V -> V] /\ base[x] \in V OBVIOUS
<1>2. g[x][f[nx[x]]] \in V BY <1>1
<1> QED BY <1>1, <1>2 DEF Unfolded

\* Two such functions agree as far as they are.
LEMMA DescentUnique ==
    ASSUME NEW D, NEW stop, NEW nx, NEW mu, Descends(D, stop, nx, mu), NEW base, NEW g,
           NEW k \in Nat, NEW e, UpTo(D, stop, nx, mu, base, g, e, k),
           NEW f, UpTo(D, stop, nx, mu, base, g, f, k), NEW y \in D, mu[y] < k
    PROVE  e[y] = f[y]
<1> DEFINE Bad == {x \in D : mu[x] < k /\ e[x] # f[x]}
           N   == {mu[x] : x \in Bad}
<1> SUFFICES ASSUME Bad # {} PROVE FALSE OBVIOUS
<1>1. N \in SUBSET Nat /\ N # {} BY DEF Descends
<1>2. PICK n \in N : \A m \in N : n <= m
  <2> HIDE DEF N
  <2> QED BY <1>1, LeastExists
<1>3. PICK x \in Bad : n = mu[x] BY <1>2
<1>4. /\ e[x] = Unfolded(stop, nx, base, g, e, x) /\ f[x] = Unfolded(stop, nx, base, g, f, x)
      BY <1>3 DEF UpTo
<1>5. x \in D \ stop BY <1>3, <1>4 DEF Unfolded
<1>6. nx[x] \in D /\ mu[nx[x]] < mu[x] /\ mu[nx[x]] \in Nat /\ mu[x] \in Nat /\ mu[x] < k
      BY <1>3, <1>5 DEF Descends
<1>7. e[nx[x]] = f[nx[x]]
  <2>1. mu[nx[x]] < k /\ ~ n <= mu[nx[x]] BY <1>3, <1>6
  <2>2. nx[x] \notin Bad
    <3> SUFFICES ASSUME nx[x] \in Bad PROVE FALSE OBVIOUS
    <3>1. mu[nx[x]] \in N OBVIOUS
    <3> HIDE DEF N
    <3> QED BY <1>2, <2>1, <3>1
  <2> QED BY <1>6, <2>1, <2>2
<1> QED BY <1>3, <1>4, <1>5, <1>7 DEF Unfolded

LEMMA DescentUpTo ==
    ASSUME NEW D, NEW stop, NEW nx, NEW mu, Descends(D, stop, nx, mu),
           NEW V, NEW base \in [D -> V], NEW g \in [D -> [V -> V]], NEW k \in Nat
    PROVE  \E f \in [D -> V] : UpTo(D, stop, nx, mu, base, g, f, k)
<1> DEFINE P(n) == \E f \in [D -> V] : UpTo(D, stop, nx, mu, base, g, f, n)
           N == {n \in Nat : ~ P(n)}
<1>0. /\ \A n \in N : n \in Nat /\ ~ P(n)
      /\ \A n \in Nat : n \notin N => P(n)
  <2> HIDE DEF P
  <2> QED OBVIOUS
<1> SUFFICES ASSUME N # {} PROVE FALSE BY <1>0
<1>1. PICK n \in N : \A m \in N : n <= m
  <2>1. N \in SUBSET Nat OBVIOUS
  <2> HIDE DEF N
  <2> QED BY <2>1, LeastExists
<1>2. n # 0
  <2>1. \A x \in D : mu[x] \in Nat BY DEF Descends
  <2>2. UpTo(D, stop, nx, mu, base, g, base, 0) BY <2>1 DEF UpTo
  <2>3. P(0) BY <2>2
  <2> HIDE DEF P, N
  <2> QED BY <1>0, <1>1, <2>3
<1>3. n - 1 \in Nat /\ P(n - 1)
  <2> HIDE DEF P, N
  <2> QED BY <1>0, <1>1, <1>2
<1>4. PICK f \in [D -> V] : UpTo(D, stop, nx, mu, base, g, f, n - 1) BY <1>3
<1> DEFINE S(h, x) == Unfolded(stop, nx, base, g, h, x)
           h == [x \in D |-> S(f, x)]
<1>5. h \in [D -> V]
  <2>1. nx \in [D -> D] BY DEF Descends
  <2>2. \A x \in D : S(f, x) \in V BY <2>1, UnfoldedTyped
  <2> HIDE DEF S
  <2> QED BY <2>2
<1>6. ASSUME NEW x \in D, mu[x] < n PROVE h[x] = S(h, x)
  <2>1. h[x] = S(f, x) OBVIOUS
  <2>2. CASE x \in stop BY <2>1, <2>2 DEF Unfolded
  <2>3. CASE x \notin stop
    <3>1. nx[x] \in D /\ mu[nx[x]] < n - 1
      <4>1. nx[x] \in D /\ mu[nx[x]] < mu[x] /\ mu[x] \in Nat /\ mu[nx[x]] \in Nat
            BY <2>3 DEF Descends
      <4> QED BY <1>3, <1>6, <4>1
    <3>2. f[nx[x]] = S(f, nx[x]) BY <1>4, <3>1 DEF UpTo
    <3>3. h[nx[x]] = f[nx[x]] BY <3>1, <3>2
    <3> HIDE DEF h
    <3> QED BY <2>1, <2>3, <3>3 DEF Unfolded
  <2> QED BY <2>2, <2>3
<1>7. P(n)
  <2> HIDE DEF h
  <2>1. UpTo(D, stop, nx, mu, base, g, h, n) BY <1>6 DEF UpTo
  <2> QED BY <1>5, <2>1
<1> HIDE DEF P, N
<1> QED BY <1>0, <1>1, <1>7

\* So a function with this recursion exists.
LEMMA DescentExists ==
    ASSUME NEW D, NEW stop, NEW nx, NEW mu, Descends(D, stop, nx, mu),
           NEW V, NEW base \in [D -> V], NEW g \in [D -> [V -> V]]
    PROVE  \E f \in [D -> V] : Recurses(D, stop, nx, base, g, f)
<1> DEFINE Part(k) == CHOOSE f \in [D -> V] : UpTo(D, stop, nx, mu, base, g, f, k)
           F == [x \in D |-> Part(mu[x] + 1)[x]]
<1>1. \A k \in Nat : Part(k) \in [D -> V] /\ UpTo(D, stop, nx, mu, base, g, Part(k), k)
      BY DescentUpTo
<1>2. \A x \in D : mu[x] \in Nat /\ nx[x] \in D BY DEF Descends
<1> HIDE DEF Part
<1>3. F \in [D -> V] BY <1>1, <1>2
<1>4. \A x \in D : F[x] = Part(mu[x] + 1)[x] OBVIOUS
<1> HIDE DEF F
<1>5. ASSUME NEW x \in D PROVE F[x] = Unfolded(stop, nx, base, g, F, x)
  <2> DEFINE k == mu[x] + 1
             f == Part(k)
  <2>1. k \in Nat /\ mu[x] < k BY <1>2
  <2>2. F[x] = f[x] /\ f[x] = Unfolded(stop, nx, base, g, f, x)
        BY <1>1, <1>4, <2>1 DEF UpTo
  <2>3. CASE x \in stop BY <2>2, <2>3 DEF Unfolded
  <2>4. CASE x \notin stop
    <3> DEFINE y == nx[x]
               j == mu[y] + 1
               e == Part(j)
    <3>1. y \in D /\ mu[y] < mu[x] /\ j \in Nat /\ j <= k /\ mu[y] < j /\ mu[y] \in Nat
          BY <1>2, <2>1, <2>4 DEF Descends
    <3>2. UpTo(D, stop, nx, mu, base, g, e, j) BY <1>1, <3>1
    <3>3. UpTo(D, stop, nx, mu, base, g, f, j) BY <1>1, <1>2, <2>1, <3>1 DEF UpTo
    <3>4. F[y] = e[y] BY <1>4, <3>1
    <3> HIDE DEF e, f, j, y, k
    <3>5. e[y] = f[y] BY <3>1, <3>2, <3>3, DescentUnique
    <3> QED BY <2>2, <2>4, <3>4, <3>5 DEF Unfolded, y
  <2> QED BY <2>3, <2>4
<1>6. Recurses(D, stop, nx, base, g, F) BY <1>5 DEF Recurses
<1> QED BY <1>3, <1>6

\* A set with the members at which a function stops, and with each that is led
\* into it, has all members.
LEMMA DescentCovers ==
    ASSUME NEW D, NEW stop, NEW nx, NEW mu, Descends(D, stop, nx, mu),
           NEW S, \A x \in D : x \in stop \/ nx[x] \in S => x \in S
    PROVE  D \subseteq S
<1> DEFINE Bad == D \ S
           N   == {mu[x] : x \in Bad}
<1> SUFFICES ASSUME Bad # {} PROVE FALSE OBVIOUS
<1>1. N \in SUBSET Nat /\ N # {} BY DEF Descends
<1>2. PICK n \in N : \A m \in N : n <= m
  <2> HIDE DEF N
  <2> QED BY <1>1, LeastExists
<1>3. PICK x \in Bad : n = mu[x] BY <1>2
<1>4. x \in D \ stop /\ nx[x] \in Bad /\ mu[nx[x]] < mu[x] /\ mu[x] \in Nat /\ mu[nx[x]] \in Nat
      BY <1>3 DEF Descends
<1>5. mu[nx[x]] \in N BY <1>4
<1> HIDE DEF N
<1> QED BY <1>2, <1>3, <1>4, <1>5

\* A loop has the value of the place where it stops.
Loops(D, stop, nx, base, f) == \A x \in D : f[x] = IF x \in stop THEN base[x] ELSE f[nx[x]]

LEMMA LoopExists ==
    ASSUME NEW D, NEW stop, NEW nx, NEW mu, Descends(D, stop, nx, mu),
           NEW V, NEW base \in [D -> V]
    PROVE  \E f \in [D -> V] : Loops(D, stop, nx, base, f)
<1> DEFINE same == [v \in V |-> v]
           g    == [x \in D |-> same]
<1>1. /\ g \in [D -> [V -> V]]
      /\ \A x \in D : g[x] = same
      /\ \A v \in V : same[v] = v
      OBVIOUS
<1> HIDE DEF g, same
<1>2. PICK f \in [D -> V] : Recurses(D, stop, nx, base, g, f) BY <1>1, DescentExists
<1>3. ASSUME NEW x \in D PROVE f[x] = IF x \in stop THEN base[x] ELSE f[nx[x]]
  <2>1. nx[x] \in D /\ f[nx[x]] \in V BY DEF Descends
  <2>2. f[x] = IF x \in stop THEN base[x] ELSE g[x][f[nx[x]]] BY <1>2 DEF Recurses, Unfolded
  <2> QED BY <1>1, <2>1, <2>2
<1> QED BY <1>3 DEF Loops

\* What holds at the start of a loop, and after each turn, holds where it stops.
LEMMA LoopEnds ==
    ASSUME NEW D, NEW stop, NEW nx, NEW mu, Descends(D, stop, nx, mu),
           NEW base, NEW f, Loops(D, stop, nx, base, f),
           NEW I, I \subseteq D, \A x \in I \ stop : nx[x] \in I, NEW x \in I
    PROVE  \E y \in I \cap stop : f[x] = base[y]
<1> DEFINE S == {z \in D : z \in I => \E y \in I \cap stop : f[z] = base[y]}
<1>1. ASSUME NEW z \in D, z \in stop \/ nx[z] \in S PROVE z \in S
  <2> SUFFICES ASSUME z \in I PROVE \E y \in I \cap stop : f[z] = base[y] OBVIOUS
  <2>1. CASE z \in stop BY <2>1 DEF Loops
  <2>2. CASE z \notin stop
    <3>1. nx[z] \in I /\ f[z] = f[nx[z]] BY <2>2 DEF Loops
    <3> QED BY <1>1, <2>2, <3>1
  <2> QED BY <2>1, <2>2
<1> HIDE DEF S
<1>2. D \subseteq S BY <1>1, DescentCovers
<1> USE DEF S
<1> QED BY <1>2
=============================================================================
