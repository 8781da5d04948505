--------------------------- MODULE AutomataProofs ---------------------------
(***************************************************************************)
(* The counts and the chains of the PDA store: for any number of states,     *)
(* transitions, handles and generators, no transition is freed while it is    *)
(* held, each is freed when nobody holds it, and the automaton has exactly     *)
(* what was added and not removed.  Then NFA_DOMINATORS: for every automaton   *)
(* it ends, and leaves the dominator tree.                                    *)
(***************************************************************************)
EXTENDS PDAStore, Dominators, FiniteSetTheorems, SequenceTheorems, WellOrder

Fields == {"source", "read", "pop", "push", "sink"}

TransOrNone == Trans \cup {None}

Stores == [list : [StateIds -> Seq(Trans)], ref : [Trans -> Nat], del : [Trans -> BOOLEAN],
           first : TransOrNone, num : 0 .. Width - 1, states : Nat, alive : BOOLEAN]

\* Each chain has transitions of its state, to states that are there, none
\* twice; a dead automaton has none.  A new search begins at a live one.
Shape(st) ==
    /\ st \in Stores
    /\ 0 .. st.states - 1 \subseteq StateIds
    /\ \A q \in StateIds : \A i \in DOMAIN st.list[q] :
          /\ st.list[q][i].source = q
          /\ q < st.states /\ st.list[q][i].sink < st.states
    /\ \A q \in StateIds : TwinFree(st.list[q])
    /\ st.first # None => st.first \in Live(st)
    /\ ~ st.alive => \A q \in StateIds : st.list[q] = <<>>

Pointing(p, t) == {o \in Owners : p[o] = t}

\* What one pointer adds to the count of t, and what the automaton does.
One(u, t) == IF u = t THEN 1 ELSE 0
Own(st, t) == IF t \in Live(st) THEN 1 ELSE 0

\* Each count is right.
Counted(st, p) ==
    \A t \in Trans :
        /\ st.ref[t] = Cardinality(Pointing(p, t)) + Own(st, t)
        /\ st.alive => (t \in Listed(st) <=> st.ref[t] > 0)

\* A store and the pointers into it as every operation leaves them.
Sane(st, p) == Shape(st) /\ p \in [Owners -> TransOrNone] /\ Counted(st, p)

-----------------------------------------------------------------------------
(* Pointers                                                                *)

LEMMA PointingFinite ==
    ASSUME NEW p, NEW t
    PROVE  IsFiniteSet(Pointing(p, t)) /\ Cardinality(Pointing(p, t)) \in Nat
BY PDAAssumption, FS_Subset, FS_CardinalityType DEF Pointing, Owners

\* When o goes from one transition to another the first loses a pointer and
\* the other gets one.
LEMMA PointingMove ==
    ASSUME NEW p \in [Owners -> TransOrNone], NEW o \in Owners, NEW u \in TransOrNone,
           NEW t \in Trans
    PROVE  Cardinality(Pointing([p EXCEPT ![o] = u], t))
             = Cardinality(Pointing(p, t)) - One(p[o], t) + One(u, t)
<1> DEFINE b    == [p EXCEPT ![o] = u]
           rest == Pointing(p, t) \ {o}
<1>1. IsFiniteSet(rest) /\ Cardinality(rest) \in Nat /\ o \notin rest
  BY PointingFinite, FS_Subset, FS_CardinalityType
<1>2. Cardinality(Pointing(p, t)) = Cardinality(rest) + One(p[o], t)
  <2>1. CASE p[o] = t
    <3>1. Pointing(p, t) = rest \cup {o}
      BY <2>1 DEF Pointing
    <3> HIDE DEF rest
    <3> QED  BY <1>1, <2>1, <3>1, FS_AddElement DEF One, Own
  <2>2. CASE p[o] # t
    <3>1. Pointing(p, t) = rest
      BY <2>2 DEF Pointing
    <3> HIDE DEF rest
    <3> QED  BY <1>1, <2>2, <3>1 DEF One, Own
  <2> QED  BY <2>1, <2>2
<1>3. Cardinality(Pointing(b, t)) = Cardinality(rest) + One(u, t)
  <2>1. CASE u = t
    <3>1. Pointing(b, t) = rest \cup {o}
      BY <2>1 DEF Pointing
    <3> HIDE DEF rest, b
    <3> QED  BY <1>1, <2>1, <3>1, FS_AddElement DEF One, Own
  <2>2. CASE u # t
    <3>1. Pointing(b, t) = rest
      BY <2>2 DEF Pointing
    <3> HIDE DEF rest, b
    <3> QED  BY <1>1, <2>2, <3>1 DEF One, Own
  <2> QED  BY <2>1, <2>2
<1> HIDE DEF rest, b
<1>4. One(p[o], t) \in Int /\ One(u, t) \in Int
  BY DEF One, Own
<1> QED  BY <1>1, <1>2, <1>3, <1>4 DEF b

LEMMA PointedAreCounted ==
    ASSUME NEW p, NEW o \in Owners
    PROVE  Cardinality(Pointing(p, p[o])) > 0
<1>1. o \in Pointing(p, p[o])
  BY DEF Pointing
<1>2. Cardinality(Pointing(p, p[o])) # 0
  BY <1>1, PointingFinite, FS_EmptySet
<1> QED  BY <1>2, PointingFinite

-----------------------------------------------------------------------------
(* Transitions and chains                                                  *)

LEMMA TransFields ==
    ASSUME NEW t \in Trans
    PROVE  /\ DOMAIN t = Fields
           /\ \A f \in Fields : t[f] \in Nat
           /\ t.source \in StateIds /\ t.sink \in StateIds
           /\ t.source \in Nat /\ t.sink \in Nat
           /\ t.read \in Nat /\ t.pop \in Nat /\ t.push \in Nat
BY PDAAssumption DEF Fields

LEMMA SameFields ==
    ASSUME NEW t \in Trans, NEW u \in Trans, \A f \in Fields : t[f] = u[f]
    PROVE  t = u
BY PDAAssumption DEF Fields

\* What a store lists stands in the chain of its source.
LEMMA ListedIn ==
    ASSUME NEW st, Shape(st), NEW t
    PROVE  t \in Listed(st) <=> /\ t \in Trans
                                /\ \E i \in DOMAIN st.list[t.source] : st.list[t.source][i] = t
<1>1. ASSUME NEW q \in StateIds, NEW i \in DOMAIN st.list[q]
      PROVE  st.list[q][i] \in Trans /\ st.list[q][i].source = q
  BY DEF Shape, Stores
<1>2. ASSUME t \in Listed(st)
      PROVE  t \in Trans /\ \E i \in DOMAIN st.list[t.source] : st.list[t.source][i] = t
  <2>1. PICK q \in StateIds : t \in ToSet(st.list[q])
    BY <1>2 DEF Listed
  <2>2. PICK i \in DOMAIN st.list[q] : st.list[q][i] = t
    BY <2>1 DEF ToSet
  <2> QED  BY <1>1, <2>2
<1>3. ASSUME t \in Trans, NEW i \in DOMAIN st.list[t.source], st.list[t.source][i] = t
      PROVE  t \in Listed(st)
  BY <1>3, TransFields DEF Listed, ToSet
<1> QED  BY <1>2, <1>3

\* No chain has the same transition twice.
LEMMA NoneTwiceIn ==
    ASSUME NEW l \in Seq(Trans), TwinFree(l), NEW i \in DOMAIN l, NEW j \in DOMAIN l,
           l[i] = l[j]
    PROVE  i = j
<1>1. \A f \in DOMAIN l[i] : l[i][f] \in Nat
  BY TransFields
<1>2. ~ (i < j) /\ ~ (j < i)
  BY <1>1 DEF TwinFree
<1> QED  BY <1>2

LEMMA PosIn ==
    ASSUME NEW l \in Seq(Trans), NEW i \in DOMAIN l
    PROVE  Pos(l, l[i]) \in DOMAIN l /\ l[Pos(l, l[i])] = l[i]
BY DEF Pos

-----------------------------------------------------------------------------
(* Taking a transition out of its chain and putting one in                 *)

LEMMA RemoveAtIs ==
    ASSUME NEW l \in Seq(Trans), NEW i \in DOMAIN l
    PROVE  /\ RemoveAt(l, i) \in Seq(Trans)
           /\ Len(RemoveAt(l, i)) = Len(l) - 1
           /\ \A j \in 1 .. Len(l) - 1 :
                 RemoveAt(l, i)[j] = IF j < i THEN l[j] ELSE l[j + 1]
<1> DEFINE a == SubSeq(l, 1, i - 1)
           b == SubSeq(l, i + 1, Len(l))
<1>1. i \in 1 .. Len(l) /\ Len(l) \in Nat
  OBVIOUS
<1>2. a \in Seq(Trans) /\ Len(a) = i - 1 /\ \A j \in 1 .. i - 1 : a[j] = l[j]
  BY <1>1, SubSeqProperties
<1>3. b \in Seq(Trans) /\ Len(b) = Len(l) - i /\ \A j \in 1 .. Len(l) - i : b[j] = l[i + j]
  BY <1>1, SubSeqProperties
<1> HIDE DEF a, b
<1>4. /\ a \o b \in Seq(Trans) /\ Len(a \o b) = Len(l) - 1
      /\ \A j \in 1 .. Len(l) - 1 :
            (a \o b)[j] = IF j <= Len(a) THEN a[j] ELSE b[j - Len(a)]
  BY SMTT(40), <1>1, <1>2, <1>3, ConcatProperties
<1>5. ASSUME NEW j \in 1 .. Len(l) - 1
      PROVE  (a \o b)[j] = IF j < i THEN l[j] ELSE l[j + 1]
  <2>1. CASE j < i
    BY <1>1, <1>2, <1>4, <2>1
  <2>2. CASE ~ (j < i)
    <3>1. j - (i - 1) \in 1 .. Len(l) - i
      BY <1>1, <2>2
    <3>2. b[j - (i - 1)] = l[i + (j - (i - 1))]
      BY <1>3, <3>1
    <3>3. (a \o b)[j] = b[j - (i - 1)]
      BY <1>1, <1>2, <1>4, <2>2
    <3>4. i + (j - (i - 1)) = j + 1
      BY <1>1
    <3> QED  BY <2>2, <3>2, <3>3, <3>4
  <2> QED  BY <2>1, <2>2
<1>6. RemoveAt(l, i) = a \o b
  BY DEF RemoveAt, a, b
<1> QED  BY <1>4, <1>5, <1>6

LEMMA InsertAtIs ==
    ASSUME NEW l \in Seq(Trans), NEW i \in 1 .. Len(l) + 1, NEW t \in Trans
    PROVE  /\ InsertAt(l, i, t) \in Seq(Trans)
           /\ Len(InsertAt(l, i, t)) = Len(l) + 1
           /\ \A j \in 1 .. Len(l) + 1 :
                 InsertAt(l, i, t)[j] = IF j < i THEN l[j]
                                        ELSE IF j = i THEN t ELSE l[j - 1]
<1> DEFINE a == SubSeq(l, 1, i - 1)
           b == SubSeq(l, i, Len(l))
           c == a \o <<t>>
<1>1. Len(l) \in Nat
  OBVIOUS
<1>2. a \in Seq(Trans) /\ Len(a) = i - 1 /\ \A j \in 1 .. i - 1 : a[j] = l[j]
  BY <1>1, SubSeqProperties
<1>3. /\ b \in Seq(Trans) /\ Len(b) = Len(l) - i + 1
      /\ \A j \in 1 .. Len(l) - i + 1 : b[j] = l[i + j - 1]
  BY <1>1, SubSeqProperties
<1> HIDE DEF a, b
<1>4. /\ c \in Seq(Trans) /\ Len(c) = i
      /\ \A j \in 1 .. i : c[j] = IF j <= Len(a) THEN a[j] ELSE <<t>>[j - Len(a)]
  <2>1. <<t>> \in Seq(Trans) /\ Len(<<t>>) = 1
    OBVIOUS
  <2> QED  BY <1>2, <2>1, ConcatProperties
<1>5. \A j \in 1 .. i : c[j] = IF j < i THEN l[j] ELSE t
  BY <1>2, <1>4
<1> HIDE DEF c
<1>6. /\ c \o b \in Seq(Trans) /\ Len(c \o b) = Len(l) + 1
      /\ \A j \in 1 .. Len(l) + 1 :
            (c \o b)[j] = IF j <= Len(c) THEN c[j] ELSE b[j - Len(c)]
  <2>1. Len(c) + Len(b) = Len(l) + 1
    BY <1>1, <1>3, <1>4
  <2> QED  BY <1>3, <1>4, <2>1, ConcatProperties
<1>7. ASSUME NEW j \in 1 .. Len(l) + 1
      PROVE  (c \o b)[j] = IF j < i THEN l[j] ELSE IF j = i THEN t ELSE l[j - 1]
  <2>1. CASE j <= i
    BY <1>1, <1>4, <1>5, <1>6, <2>1
  <2>2. CASE ~ (j <= i)
    <3>1. j - i \in 1 .. Len(l) - i + 1
      BY <1>1, <2>2
    <3>2. b[j - i] = l[i + (j - i) - 1]
      BY <1>3, <3>1
    <3>3. (c \o b)[j] = b[j - i]
      BY <1>1, <1>4, <1>6, <2>2
    <3>4. i + (j - i) - 1 = j - 1
      BY <1>1
    <3> QED  BY <2>2, <3>2, <3>3, <3>4
  <2> QED  BY <2>1, <2>2
<1>8. InsertAt(l, i, t) = c \o b
  BY DEF InsertAt, a, b, c
<1> QED  BY <1>6, <1>7, <1>8

\* Without its i-th transition a chain has the others, in their order.
LEMMA RemoveKeeps ==
    ASSUME NEW l \in Seq(Trans), TwinFree(l), NEW i \in DOMAIN l
    PROVE  /\ TwinFree(RemoveAt(l, i))
           /\ ToSet(RemoveAt(l, i)) = ToSet(l) \ {l[i]}
<1> DEFINE m == RemoveAt(l, i)
           from(j) == IF j < i THEN j ELSE j + 1
<1>1. /\ m \in Seq(Trans) /\ DOMAIN m = 1 .. Len(l) - 1
      /\ \A j \in DOMAIN m : from(j) \in DOMAIN l /\ m[j] = l[from(j)] /\ from(j) # i
  <2>1. m \in Seq(Trans) /\ Len(m) = Len(l) - 1
    BY RemoveAtIs
  <2>2. \A j \in 1 .. Len(l) - 1 : m[j] = l[from(j)]
    BY RemoveAtIs
  <2>3. \A j \in 1 .. Len(l) - 1 : from(j) \in 1 .. Len(l) /\ from(j) # i
    OBVIOUS
  <2> HIDE DEF m, from
  <2> QED  BY <2>1, <2>2, <2>3
<1>2. i \in Nat /\ \A j, k \in DOMAIN m : j < k => from(j) < from(k)
  BY <1>1
<1>3. \A j \in DOMAIN l : j # i => \E k \in DOMAIN m : from(k) = j
  <2> TAKE j \in DOMAIN l
  <2> HAVE j # i
  <2> DEFINE k == IF j < i THEN j ELSE j - 1
  <2>1. k \in DOMAIN m /\ from(k) = j
    BY <1>1
  <2> QED  BY <2>1
<1> HIDE DEF m, from
<1>4. TwinFree(m)
  BY <1>1, <1>2 DEF TwinFree
<1>5. \A j \in DOMAIN l : l[j] = l[i] => j = i
  BY NoneTwiceIn
<1>6. ToSet(m) = ToSet(l) \ {l[i]}
  BY <1>1, <1>3, <1>5 DEF ToSet
<1> QED  BY <1>4, <1>6 DEF m

\* The walk of make_transition stops at t itself if the chain has it.
LEMMA PlaceIn ==
    ASSUME NEW l \in Seq(Trans), TwinFree(l), NEW t \in Trans,
           \A i \in DOMAIN l : l[i].source = t.source
    PROVE  /\ Place(l, t) \in 1 .. Len(l) + 1
           /\ \A j \in DOMAIN l : j < Place(l, t) => Skips(t, l[j])
           /\ Place(l, t) <= Len(l) => ~ Skips(t, l[Place(l, t)])
           /\ t \in ToSet(l) <=> Place(l, t) <= Len(l) /\ l[Place(l, t)] = t
<1> DEFINE stop == {i \in 1 .. Len(l) : ~ Skips(t, l[i])}
           p    == Place(l, t)
<1>1. CASE stop = {}
  <2>1. p = Len(l) + 1
    BY <1>1 DEF Place
  <2>2. \A j \in DOMAIN l : Skips(t, l[j])
    BY <1>1
  <2>3. ~ Skips(t, t)
    BY TransFields DEF Skips
  <2>4. t \notin ToSet(l)
    BY <2>2, <2>3 DEF ToSet
  <2> QED  BY <2>1, <2>2, <2>4
<1>2. CASE stop # {}
  <2>1. \E i \in stop : \A j \in stop : i <= j
    <3>1. stop \in SUBSET Nat
      OBVIOUS
    <3> HIDE DEF stop
    <3> QED  BY <1>2, <3>1, LeastExists
  <2>2. p = CHOOSE i \in stop : \A j \in stop : i <= j
    BY <1>2 DEF Place
  <2>3. p \in stop /\ \A j \in stop : p <= j
    <3> HIDE DEF p, stop
    <3> QED  BY <2>1, <2>2
  <2>4. p \in DOMAIN l /\ ~ Skips(t, l[p]) /\ \A j \in DOMAIN l : j < p => Skips(t, l[j])
    <3> HIDE DEF p
    <3>1. p \in 1 .. Len(l) /\ ~ Skips(t, l[p])
      BY <2>3
    <3>2. ASSUME NEW j \in 1 .. Len(l), j < p PROVE Skips(t, l[j])
      <4>1. j \notin stop
        <5> HIDE DEF stop
        <5> QED  BY <2>3, <3>1, <3>2
      <4> QED  BY <4>1
    <3> QED  BY <3>1, <3>2
  <2>5. ASSUME NEW k \in DOMAIN l, l[k] = t
        PROVE  l[p] = t
    <3> HIDE DEF p, stop
    <3>1. ~ (k < p)
      <4>1. ~ Skips(t, t)
        BY SMTT(40), TransFields DEF Skips
      <4> QED  BY <2>4, <2>5, <4>1
    <3>2. CASE p < k
      <4>1. PICK f \in DOMAIN t : t[f] > l[p][f]
        BY <2>4, <2>5, <3>2 DEF TwinFree
      <4>2. f \in Fields /\ l[p] \in Trans /\ l[p].source = t.source
        BY <2>4, TransFields
      <4>3. f # "source"
        BY <4>1, <4>2, TransFields
      <4> QED  BY <2>4, <4>1, <4>2, <4>3 DEF Skips, Fields
    <3> QED  BY <2>4, <2>5, <3>1, <3>2
  <2> HIDE DEF p
  <2>6. t \in ToSet(l) <=> l[p] = t
    BY <2>4, <2>5 DEF ToSet
  <2> QED  BY <2>4, <2>6 DEF p
<1> QED  BY <1>1, <1>2

\* make_transition keeps the order of a chain.
LEMMA InsertKeeps ==
    ASSUME NEW l \in Seq(Trans), TwinFree(l), NEW t \in Trans, t \notin ToSet(l),
           \A i \in DOMAIN l : l[i].source = t.source
    PROVE  /\ InsertAt(l, Place(l, t), t) \in Seq(Trans)
           /\ TwinFree(InsertAt(l, Place(l, t), t))
           /\ ToSet(InsertAt(l, Place(l, t), t)) = ToSet(l) \cup {t}
<1> DEFINE p == Place(l, t)
           m == InsertAt(l, p, t)
           from(j) == IF j < p THEN j ELSE j - 1
<1>1. /\ p \in 1 .. Len(l) + 1
      /\ \A j \in DOMAIN l : j < p => Skips(t, l[j])
      /\ p \in DOMAIN l => ~ Skips(t, l[p]) /\ l[p] # t
  BY PlaceIn
<1> HIDE DEF p
<1>2. m \in Seq(Trans) /\ Len(m) = Len(l) + 1
  BY <1>1, InsertAtIs
<1>3. \A j \in 1 .. Len(l) + 1 : m[j] = IF j = p THEN t ELSE l[from(j)]
  <2>1. \A j \in 1 .. Len(l) + 1 :
           m[j] = IF j < p THEN l[j] ELSE IF j = p THEN t ELSE l[j - 1]
    <3> HIDE DEF from
    <3> QED  BY <1>1, InsertAtIs
  <2> HIDE DEF m
  <2> QED  BY <1>1, <2>1
<1>4. \A j \in 1 .. Len(l) + 1 : j # p => from(j) \in DOMAIN l
  BY <1>1
<1>5. \A j, k \in 1 .. Len(l) + 1 : j # p /\ k # p /\ j < k => from(j) < from(k)
  BY <1>1
<1>6. \A j \in 1 .. Len(l) + 1 : j < p => from(j) = j
  OBVIOUS
<1>7. \A j \in 1 .. Len(l) + 1 : p < j => p \in DOMAIN l /\ p <= from(j)
  BY <1>1
<1>8. \A j \in DOMAIN l : \E k \in 1 .. Len(l) + 1 : k # p /\ from(k) = j
  <2> TAKE j \in DOMAIN l
  <2> DEFINE k == IF j < p THEN j ELSE j + 1
  <2>1. k \in 1 .. Len(l) + 1 /\ k # p /\ from(k) = j
    BY <1>1
  <2> QED  BY <2>1
<1>9. DOMAIN m = 1 .. Len(l) + 1 /\ p \in DOMAIN m
  BY <1>1, <1>2
<1> HIDE DEF m, from
<1>10. ASSUME NEW u \in Trans, u.source = t.source, Skips(t, u)
       PROVE  \E f \in DOMAIN t : t[f] > u[f]
  BY <1>10, TransFields DEF Skips, Fields
<1>11. ASSUME NEW u \in Trans, ~ Skips(t, u), u.source = t.source
       PROVE  \A f \in Fields : t[f] <= u[f]
  BY <1>11, TransFields DEF Skips, Fields
<1>12. TwinFree(m)
  <2> SUFFICES ASSUME NEW i \in DOMAIN m, NEW j \in DOMAIN m, i < j
               PROVE  \E f \in DOMAIN m[j] : m[j][f] > m[i][f]
    BY DEF TwinFree
  <2>1. CASE i # p /\ j # p
    BY <1>3, <1>4, <1>5, <1>9, <2>1 DEF TwinFree
  <2>2. CASE j = p
    <3>1. m[j] = t /\ m[i] = l[i] /\ i \in DOMAIN l /\ Skips(t, l[i])
      BY <1>1, <1>3, <1>4, <1>6, <1>9, <2>2
    <3> QED  BY <1>10, <3>1
  <2>3. CASE i = p
    <3>1. /\ m[i] = t /\ m[j] = l[from(j)] /\ from(j) \in DOMAIN l
          /\ p \in DOMAIN l /\ p <= from(j)
      BY <1>3, <1>4, <1>7, <1>9, <2>3
    <3>2. l[p] \in Trans /\ l[from(j)] \in Trans /\ l[p].source = t.source
      BY <3>1
    <3>3. \A f \in Fields : t[f] <= l[p][f]
      BY <1>1, <1>11, <3>1, <3>2
    <3>4. CASE p = from(j)
      <4>1. PICK f \in Fields : t[f] # l[p][f]
        BY <1>1, <3>1, <3>2, SameFields
      <4>2. t[f] \in Nat /\ l[p][f] \in Nat /\ f \in DOMAIN l[p]
        BY <3>2, <4>1, TransFields
      <4> QED  BY <3>1, <3>3, <3>4, <4>1, <4>2
    <3>5. CASE p < from(j)
      <4>1. PICK f \in DOMAIN l[from(j)] : l[from(j)][f] > l[p][f]
        BY <3>1, <3>5 DEF TwinFree
      <4>2. f \in Fields /\ t[f] \in Nat /\ l[p][f] \in Nat /\ l[from(j)][f] \in Nat
        BY <3>2, <4>1, TransFields
      <4> QED  BY <3>1, <3>3, <4>1, <4>2
    <3>6. p \in Nat /\ from(j) \in Nat
      BY <3>1
    <3> QED  BY <3>1, <3>4, <3>5, <3>6
  <2> QED  BY <2>1, <2>2, <2>3
<1>13. ToSet(m) = ToSet(l) \cup {t}
  <2>1. \A j \in DOMAIN m : m[j] \in ToSet(l) \cup {t}
    BY <1>3, <1>4, <1>9 DEF ToSet
  <2>2. t \in ToSet(m)
    BY <1>3, <1>9 DEF ToSet
  <2>3. \A j \in DOMAIN l : l[j] \in ToSet(m)
    <3> TAKE j \in DOMAIN l
    <3>1. PICK k \in DOMAIN m : k # p /\ from(k) = j
      BY <1>8, <1>9
    <3>2. m[k] = l[j]
      BY <1>3, <1>9, <3>1
    <3> QED  BY <3>2 DEF ToSet
  <2> QED  BY <2>1, <2>2, <2>3 DEF ToSet
<1> QED  BY <1>2, <1>12, <1>13 DEF m, p

-----------------------------------------------------------------------------
(* The walks                                                               *)

\* Of some that are listed one comes first, and Nearest is one of them.
LEMMA NearestIn ==
    ASSUME NEW st, Shape(st), NEW ts, ts \subseteq Listed(st)
    PROVE  Nearest(st, ts) \in ts \cup {None}
<1>1. CASE ts = {}
  BY <1>1 DEF Nearest
<1>2. CASE ts # {}
  <2> DEFINE sources == {t.source : t \in ts}
  <2>1. /\ ts \subseteq Trans
        /\ \A t \in ts : \E i \in DOMAIN st.list[t.source] : st.list[t.source][i] = t
    BY ListedIn
  <2>2. PICK q \in sources : \A r \in sources : q <= r
    <3>1. \A t \in ts : t.source \in Nat
      BY <2>1, TransFields
    <3>2. sources \in SUBSET Nat /\ sources # {}
      BY <1>2, <3>1
    <3> HIDE DEF sources
    <3> QED  BY <3>2, LeastExists
  <2> DEFINE l == st.list[q]
             here == {i \in DOMAIN l : l[i] \in ts}
  <2>3. q \in StateIds /\ l \in Seq(Trans) /\ TwinFree(l)
    BY <2>1, <2>2, TransFields DEF Shape, Stores
  <2>4. \A i \in DOMAIN l : l[i].source = q
    BY <2>3 DEF Shape
  <2>5. PICK i \in here : \A j \in here : i <= j
    <3>1. PICK t \in ts : t.source = q
      BY <2>2
    <3>2. \E k \in DOMAIN l : l[k] = t
      BY <2>1, <3>1
    <3>3. here \in SUBSET Nat /\ here # {}
      BY <2>3, <3>2
    <3> HIDE DEF here
    <3> QED  BY <3>3, LeastExists
  <2>6. ASSUME NEW j \in DOMAIN l
        PROVE  Pos(l, l[j]) = j
    <3> HIDE DEF l
    <3> QED  BY <2>3, NoneTwiceIn, PosIn
  <2>7. ASSUME NEW v \in ts \ {l[i]}
        PROVE  Beyond(st, l[i], v)
    <3>1. v \in Trans /\ v.source \in Nat /\ q \in Nat /\ q <= v.source
      BY <2>1, <2>2, TransFields
    <3>2. l[i].source = q
      BY <2>4
    <3>3. CASE v.source = q
      <4>1. PICK j \in DOMAIN l : l[j] = v
        BY <2>1, <3>3
      <4>2. j \in here /\ i # j /\ i <= j /\ i \in Nat /\ j \in Nat
        BY <2>3, <2>5, <4>1
      <4>3. Pos(l, l[i]) = i /\ Pos(l, v) = j
        BY <2>6, <4>1
      <4> HIDE DEF l, here
      <4> QED  BY <3>2, <3>3, <4>2, <4>3 DEF Beyond, l
    <3>4. CASE v.source # q
      BY <3>1, <3>2, <3>4 DEF Beyond
    <3> QED  BY <3>3, <3>4
  <2>8. \E u \in ts : \A v \in ts \ {u} : Beyond(st, u, v)
    BY <2>7
  <2> QED  BY <1>2, <2>8 DEF Nearest
<1> QED  BY <1>1, <1>2

\* Nothing walks from a transition to itself.
LEMMA NotBeyondItself ==
    ASSUME NEW st, NEW t \in Trans, Shape(st), t \in Listed(st)
    PROVE  ~ Beyond(st, t, t)
<1>1. st.list[t.source] \in Seq(Trans)
  BY TransFields DEF Shape, Stores
<1>2. PICK i \in DOMAIN st.list[t.source] : st.list[t.source][i] = t
  BY ListedIn
<1>3. Pos(st.list[t.source], t) \in Nat /\ t.source \in Nat
  BY <1>1, <1>2, PosIn, TransFields
<1> QED  BY <1>3 DEF Beyond

\* Every search goes from a transition to another one that is live, or ends.
LEMMA WalksToLive ==
    ASSUME NEW st, Shape(st), NEW t \in Listed(st), NEW g
    PROVE  /\ FindNextTransition(st, t) \in (Live(st) \ {t}) \cup {None}
           /\ NextFor(st, g, t) \in (Live(st) \ {t}) \cup {None}
           /\ Seek(st, g, t) \in Live(st) \cup {t, None}
<1>1. t \in Trans /\ ~ Beyond(st, t, t)
  BY ListedIn, NotBeyondItself
<1>2. Live(st) \subseteq Listed(st) /\ Ahead(st, t) \subseteq Live(st) \ {t}
  BY <1>1 DEF Live, Ahead
<1>3. Walked(st, g, t) \subseteq Ahead(st, t)
  BY DEF Walked
<1>4. Nearest(st, Ahead(st, t)) \in Ahead(st, t) \cup {None}
  BY <1>2, NearestIn
<1>5. Nearest(st, Walked(st, g, t)) \in Walked(st, g, t) \cup {None}
  BY <1>2, <1>3, NearestIn
<1>6. Seek(st, g, t) \in Walked(st, g, t) \cup {t, None}
  <2> DEFINE ts == {u \in Walked(st, g, t) : Matches(g, u)}
  <2>1. ts \subseteq Walked(st, g, t)
    OBVIOUS
  <2>2. Nearest(st, ts) \in ts \cup {None}
    <3> HIDE DEF ts
    <3> QED  BY <1>2, <1>3, <2>1, NearestIn
  <2> QED  BY <2>1, <2>2 DEF Seek
<1> QED  BY <1>2, <1>3, <1>4, <1>5, <1>6 DEF FindNextTransition, NextFor

-----------------------------------------------------------------------------
(* Counting                                                                *)

LEMMA StoreFields ==
    ASSUME NEW st \in Stores
    PROVE  /\ st.list \in [StateIds -> Seq(Trans)] /\ st.ref \in [Trans -> Nat]
           /\ st.del \in [Trans -> BOOLEAN] /\ st.first \in TransOrNone
           /\ st.num \in 0 .. Width - 1 /\ st.states \in Nat /\ st.alive \in BOOLEAN
BY DEF Stores

\* Counts have no part in the shape of a store.
LEMMA CountsOnly ==
    ASSUME NEW st, Shape(st), NEW r \in [Trans -> Nat]
    PROVE  /\ Shape([st EXCEPT !.ref = r])
           /\ Listed([st EXCEPT !.ref = r]) = Listed(st)
           /\ Live([st EXCEPT !.ref = r]) = Live(st)
<1> DEFINE x == [st EXCEPT !.ref = r]
<1>1. /\ x \in Stores /\ x.list = st.list /\ x.del = st.del /\ x.first = st.first
      /\ x.states = st.states /\ x.alive = st.alive
  BY DEF Shape, Stores
<1> HIDE DEF x
<1>2. Listed(x) = Listed(st) /\ Live(x) = Live(st)
  BY <1>1 DEF Listed, Live
<1>3. Shape(x)
  BY <1>1, <1>2 DEF Shape
<1> QED  BY <1>2, <1>3 DEF x

\* Of a transition that somebody points to: it is listed and counted.
LEMMA PointedAreListed ==
    ASSUME NEW st, NEW p, Sane(st, p), NEW o \in Owners, p[o] # None
    PROVE  p[o] \in Trans /\ st.ref[p[o]] \in Nat \ {0} /\ (st.alive => p[o] \in Listed(st))
<1>1. p[o] \in Trans
  BY DEF Sane, TransOrNone
<1>2. st.ref[p[o]] = Cardinality(Pointing(p, p[o])) + Own(st, p[o])
  BY <1>1 DEF Sane, Counted
<1>3. Cardinality(Pointing(p, p[o])) > 0 /\ Cardinality(Pointing(p, p[o])) \in Nat
  BY PointedAreCounted, PointingFinite
<1>4. Own(st, p[o]) \in Nat
  BY DEF One, Own
<1>5. st.ref[p[o]] \in Nat \ {0}
  BY <1>2, <1>3, <1>4
<1> QED  BY <1>1, <1>5 DEF Sane, Counted

LEMMA HoldKeeps ==
    ASSUME NEW st, NEW p, Sane(st, p), NEW o \in Owners, p[o] = None,
           NEW t \in TransOrNone, t # None /\ st.alive => t \in Listed(st)
    PROVE  /\ Sane(Hold(st, t), [p EXCEPT ![o] = t])
           /\ Live(Hold(st, t)) = Live(st) /\ Listed(Hold(st, t)) = Listed(st)
           /\ Hold(st, t).alive = st.alive
<1> DEFINE pp == [p EXCEPT ![o] = t]
<1>1. CASE t = None
  <2>1. Hold(st, t) = st
    BY <1>1 DEF Hold
  <2>2. pp = p
    BY <1>1 DEF Sane
  <2> QED  BY <2>1, <2>2
<1>2. CASE t # None
  <2> DEFINE r == [st.ref EXCEPT ![t] = @ + 1]
             x == [st EXCEPT !.ref = r]
  <2>1. t \in Trans /\ st \in Stores /\ p \in [Owners -> TransOrNone] /\ Shape(st)
    BY <1>2 DEF TransOrNone, Sane, Shape
  <2>2. Hold(st, t) = x
    BY <1>2, <2>1 DEF Hold, Stores
  <2>3. r \in [Trans -> Nat] /\ \A u \in Trans : r[u] = st.ref[u] + One(u, t)
    BY <2>1, StoreFields DEF One, Own
  <2>4. x.ref = r /\ x.alive = st.alive
    BY <2>1 DEF Stores
  <2> HIDE DEF r
  <2>5. Shape(x) /\ Listed(x) = Listed(st) /\ Live(x) = Live(st)
    BY <2>1, <2>3, CountsOnly
  <2>6. /\ pp \in [Owners -> TransOrNone]
        /\ \A u \in Trans : Cardinality(Pointing(pp, u))
                              = Cardinality(Pointing(p, u)) - One(p[o], u) + One(t, u)
    BY <2>1, PointingMove
  <2> HIDE DEF x, pp
  <2>7. Counted(x, pp)
    <3> SUFFICES ASSUME NEW u \in Trans
                 PROVE  /\ x.ref[u] = Cardinality(Pointing(pp, u)) + Own(x, u)
                        /\ x.alive => (u \in Listed(x) <=> x.ref[u] > 0)
      BY DEF Counted
    <3>1. Cardinality(Pointing(pp, u))
             = Cardinality(Pointing(p, u)) - One(p[o], u) + One(t, u)
      BY <2>6
    <3>2. One(p[o], u) = 0 /\ One(t, u) = One(u, t)
      BY PDAAssumption DEF One, Own
    <3>3. /\ st.ref[u] = Cardinality(Pointing(p, u)) + Own(st, u)
          /\ st.alive => (u \in Listed(st) <=> st.ref[u] > 0)
      BY DEF Sane, Counted
    <3>4. x.ref[u] = st.ref[u] + One(u, t) /\ One(u, t) \in Nat /\ st.ref[u] \in Nat
      BY <2>1, <2>3, <2>4, StoreFields DEF One, Own
    <3>5. Cardinality(Pointing(p, u)) \in Nat /\ Own(st, u) \in Nat /\ Own(x, u) = Own(st, u)
      BY <2>5, PointingFinite DEF Own
    <3>6. x.ref[u] = Cardinality(Pointing(pp, u)) + Own(x, u)
      BY <2>5, <3>1, <3>2, <3>3, <3>4, <3>5
    <3>7. ASSUME x.alive PROVE u \in Listed(x) <=> x.ref[u] > 0
      <4>1. CASE u = t
        BY <1>2, <2>4, <2>5, <3>3, <3>4, <3>7, <4>1
      <4>2. CASE u # t
        BY <2>4, <2>5, <3>3, <3>4, <3>7, <4>2 DEF One, Own
      <4> QED  BY <4>1, <4>2
    <3> QED  BY <3>6, <3>7
  <2> QED  BY <2>2, <2>4, <2>5, <2>6, <2>7 DEF Sane, pp
<1> QED  BY <1>1, <1>2

\* A transition that only o counts goes out of its chain.
LEMMA FreedOne ==
    ASSUME NEW st, NEW p, Sane(st, p), NEW o \in Owners, p[o] # None,
           ~ (st.ref[p[o]] > 1 \/ ~ st.alive)
    PROVE  /\ Shape(Release(st, p[o]))
           /\ Listed(Release(st, p[o])) = Listed(st) \ {p[o]}
           /\ Live(Release(st, p[o])) = Live(st)
           /\ Release(st, p[o]).ref = [st.ref EXCEPT ![p[o]] = 0]
           /\ Release(st, p[o]).alive = st.alive
           /\ st.ref[p[o]] = 1
<1> DEFINE t == p[o]
           q == t.source
           l == st.list[q]
           m == RemoveAt(l, Pos(l, t))
           x == Release(st, t)
<1>1. /\ t \in Trans /\ st.ref[t] \in Nat \ {0} /\ st.alive /\ t \in Listed(st)
      /\ st.ref[t] = 1
  BY PointedAreListed, StoreFields DEF Sane, Shape
<1>2. Shape(st) /\ st \in Stores /\ q \in StateIds /\ l \in Seq(Trans) /\ TwinFree(l)
  BY <1>1, TransFields, StoreFields DEF Sane, Shape
<1>3. t \notin Live(st)
  <2>1. st.ref[t] = Cardinality(Pointing(p, t)) + Own(st, t)
    BY <1>1 DEF Sane, Counted
  <2>2. Cardinality(Pointing(p, t)) > 0 /\ Cardinality(Pointing(p, t)) \in Nat
    BY PointedAreCounted, PointingFinite
  <2> QED  BY <1>1, <2>1, <2>2 DEF Own
<1>4. /\ m \in Seq(Trans) /\ TwinFree(m) /\ ToSet(m) = ToSet(l) \ {t}
  <2>1. PICK i \in DOMAIN l : l[i] = t
    BY <1>1, <1>2, ListedIn
  <2>2. Pos(l, t) \in DOMAIN l /\ l[Pos(l, t)] = t
    BY <1>2, <2>1, PosIn
  <2> HIDE DEF t, l
  <2> QED  BY <1>2, <2>2, RemoveAtIs, RemoveKeeps
<1>5. /\ x \in Stores /\ x.list = [st.list EXCEPT ![q] = m]
      /\ x.ref = [st.ref EXCEPT ![t] = 0] /\ x.del = [st.del EXCEPT ![t] = FALSE]
      /\ x.first = st.first /\ x.states = st.states /\ x.alive = st.alive
  <2>1. x = [st EXCEPT !.ref[t] = 0, !.del[t] = FALSE, !.list[q] = m]
    <3>1. t # None
      OBVIOUS
    <3> QED  BY <3>1 DEF Release
  <2> HIDE DEF x, m, l, t, q
  <2> QED  BY <1>1, <1>2, <1>4, <2>1 DEF Stores
<1> HIDE DEF x, m
<1>6. \A r \in StateIds : x.list[r] = IF r = q THEN m ELSE st.list[r]
  <2>1. st.list \in [StateIds -> Seq(Trans)]
    BY <1>2 DEF Stores
  <2> QED  BY <1>5, <2>1
<1>7. \A r \in StateIds : \A u \in ToSet(x.list[r]) : u \in ToSet(st.list[r])
  BY <1>4, <1>6
<1>8. Listed(x) = Listed(st) \ {t}
  <2>1. \A r \in StateIds \ {q} : t \notin ToSet(st.list[r])
    BY <1>2 DEF Shape, ToSet
  <2> HIDE DEF t, l, q
  <2>2. \A r \in StateIds : ToSet(x.list[r]) = ToSet(st.list[r]) \ {t}
    BY <1>4, <1>6, <2>1 DEF l
  <2> QED  BY <2>2 DEF Listed
<1>9. Live(x) = Live(st)
  <2>1. \A u \in Trans \ {t} : x.del[u] = st.del[u]
    <3>1. x.del = [st.del EXCEPT ![t] = FALSE] /\ st.del \in [Trans -> BOOLEAN]
      BY <1>2, <1>5 DEF Stores
    <3> HIDE DEF t
    <3> QED  BY <3>1
  <2>2. Listed(st) \subseteq Trans
    BY <1>2, ListedIn
  <2> HIDE DEF t
  <2> QED  BY <1>3, <1>8, <2>1, <2>2 DEF Live
<1>10. Shape(x)
  <2>1. ASSUME NEW r \in StateIds, NEW i \in DOMAIN x.list[r]
        PROVE  x.list[r][i].source = r /\ r < x.states /\ x.list[r][i].sink < x.states
    <3>1. x.list[r][i] \in ToSet(st.list[r])
      BY <1>7 DEF ToSet
    <3>2. PICK j \in DOMAIN st.list[r] : st.list[r][j] = x.list[r][i]
      BY <3>1 DEF ToSet
    <3> QED  BY <1>2, <1>5, <3>2 DEF Shape
  <2>2. \A r \in StateIds : TwinFree(x.list[r])
    BY <1>2, <1>4, <1>6 DEF Shape
  <2>3. 0 .. x.states - 1 \subseteq StateIds /\ (x.first # None => x.first \in Live(x))
    BY <1>2, <1>5, <1>9 DEF Shape
  <2> QED  BY <1>1, <1>5, <2>1, <2>2, <2>3 DEF Shape
<1> QED  BY <1>1, <1>5, <1>8, <1>9, <1>10 DEF x

\* A pointer is let go: what it pointed to may go, nothing else does.
LEMMA ReleaseKeeps ==
    ASSUME NEW st, NEW p, Sane(st, p), NEW o \in Owners
    PROVE  /\ Sane(Release(st, p[o]), [p EXCEPT ![o] = None])
           /\ Live(Release(st, p[o])) = Live(st)
           /\ Listed(st) \ {p[o]} \subseteq Listed(Release(st, p[o]))
           /\ Listed(Release(st, p[o])) \subseteq Listed(st)
           /\ Release(st, p[o]).alive = st.alive
<1> DEFINE t == p[o]
           x == Release(st, t)
           pp == [p EXCEPT ![o] = None]
<1>1. CASE t = None
  <2>1. x = st
    BY <1>1 DEF Release
  <2>2. pp = p
    BY <1>1 DEF Sane
  <2> QED  BY <2>1, <2>2
<1>2. CASE t # None
  <2>1. /\ t \in Trans /\ st.ref[t] \in Nat \ {0} /\ (st.alive => t \in Listed(st))
        /\ p \in [Owners -> TransOrNone] /\ Shape(st) /\ st \in Stores
    BY <1>2, PointedAreListed DEF Sane, Shape
  <2>2. pp \in [Owners -> TransOrNone]
    BY <2>1 DEF TransOrNone
  <2>3. \A u \in Trans : Cardinality(Pointing(pp, u)) = Cardinality(Pointing(p, u)) - One(t, u)
    <3> TAKE u \in Trans
    <3>1. Cardinality(Pointing(pp, u)) = Cardinality(Pointing(p, u)) - One(t, u) + One(None, u)
      <4>1. None \in TransOrNone
        BY DEF TransOrNone
      <4> HIDE DEF t
      <4> QED  BY <2>1, <4>1, PointingMove DEF t
    <3>2. One(None, u) = 0 /\ One(t, u) \in Nat /\ Cardinality(Pointing(p, u)) \in Nat
      BY PDAAssumption, PointingFinite DEF One
    <3> QED  BY <3>1, <3>2
  <2>4. /\ Shape(x) /\ Live(x) = Live(st) /\ x.alive = st.alive
        /\ Listed(st) \ {t} \subseteq Listed(x) /\ Listed(x) \subseteq Listed(st)
        /\ x.ref \in [Trans -> Nat]
        /\ \A u \in Trans : x.ref[u] = st.ref[u] - One(t, u)
        /\ st.alive => (t \in Listed(x) <=> st.ref[t] > 1)
    <3>1. CASE st.ref[t] > 1 \/ ~ st.alive
      <4> DEFINE r == [st.ref EXCEPT ![t] = @ - 1]
      <4>1. x = [st EXCEPT !.ref = r]
        BY <1>2, <2>1, <3>1 DEF Release, Stores
      <4>2. r \in [Trans -> Nat] /\ \A u \in Trans : r[u] = st.ref[u] - One(t, u)
        BY <2>1, StoreFields DEF One
      <4>3. x.ref = r /\ x.alive = st.alive
        BY <2>1, <4>1 DEF Stores
      <4> HIDE DEF r
      <4>4. Shape(x) /\ Listed(x) = Listed(st) /\ Live(x) = Live(st)
        BY <2>1, <4>1, <4>2, CountsOnly
      <4> QED  BY <2>1, <3>1, <4>2, <4>3, <4>4
    <3>2. CASE ~ (st.ref[t] > 1 \/ ~ st.alive)
      <4>1. /\ Shape(x) /\ Listed(x) = Listed(st) \ {t} /\ Live(x) = Live(st)
            /\ x.ref = [st.ref EXCEPT ![t] = 0] /\ x.alive = st.alive /\ st.ref[t] = 1
        BY <1>2, <3>2, FreedOne
      <4> HIDE DEF x
      <4> QED  BY <2>1, <4>1, StoreFields DEF One
    <3> QED  BY <3>1, <3>2
  <2> HIDE DEF x, pp
  <2>5. Counted(x, pp)
    <3> SUFFICES ASSUME NEW u \in Trans
                 PROVE  /\ x.ref[u] = Cardinality(Pointing(pp, u)) + Own(x, u)
                        /\ x.alive => (u \in Listed(x) <=> x.ref[u] > 0)
      BY DEF Counted
    <3>1. /\ st.ref[u] = Cardinality(Pointing(p, u)) + Own(st, u)
          /\ st.alive => (u \in Listed(st) <=> st.ref[u] > 0)
      BY DEF Sane, Counted
    <3>2. /\ st.ref[u] \in Nat /\ One(t, u) \in Nat /\ Cardinality(Pointing(p, u)) \in Nat
          /\ Own(st, u) \in Nat /\ Own(x, u) = Own(st, u)
      BY <2>1, <2>4, StoreFields, PointingFinite DEF One, Own
    <3>3. x.ref[u] = Cardinality(Pointing(pp, u)) + Own(x, u)
      BY <2>3, <2>4, <3>1, <3>2
    <3>4. ASSUME x.alive PROVE u \in Listed(x) <=> x.ref[u] > 0
      <4>1. CASE u = t
        <5>1. x.ref[t] = st.ref[t] - 1
          BY <2>1, <2>4 DEF One
        <5> QED  BY <2>1, <2>4, <3>4, <4>1, <5>1
      <4>2. CASE u # t
        <5>1. x.ref[u] = st.ref[u]
          BY <2>4, <3>2, <4>2 DEF One
        <5> QED  BY <2>4, <3>1, <3>4, <4>2, <5>1
      <4> QED  BY <4>1, <4>2
    <3> QED  BY <3>3, <3>4
  <2> QED  BY <2>2, <2>4, <2>5 DEF Sane, x, pp
<1> QED  BY <1>1, <1>2

LEMMA AssignKeeps ==
    ASSUME NEW st, NEW p, Sane(st, p), NEW o \in Owners,
           NEW t \in TransOrNone, t # None /\ st.alive => t \in Listed(st)
    PROVE  /\ Sane(Assign(st, p[o], t), [p EXCEPT ![o] = t])
           /\ Live(Assign(st, p[o], t)) = Live(st)
           /\ Assign(st, p[o], t).alive = st.alive
<1>1. p \in [Owners -> TransOrNone]
  BY DEF Sane
<1>2. CASE t = p[o]
  <2>1. Assign(st, p[o], t) = st /\ [p EXCEPT ![o] = t] = p
    BY <1>1, <1>2 DEF Assign
  <2> QED  BY <2>1
<1>3. CASE t # p[o]
  <2> DEFINE x == Release(st, p[o])
             y == [p EXCEPT ![o] = None]
  <2>1. /\ Sane(x, y) /\ Live(x) = Live(st) /\ x.alive = st.alive
        /\ Listed(st) \ {p[o]} \subseteq Listed(x) /\ Listed(x) \subseteq Listed(st)
    BY ReleaseKeeps
  <2>2. y[o] = None /\ [y EXCEPT ![o] = t] = [p EXCEPT ![o] = t]
    BY <1>1
  <2>3. Assign(st, p[o], t) = Hold(x, t)
    BY <1>3 DEF Assign
  <2>4. t # None /\ x.alive => t \in Listed(x)
    BY <1>3, <2>1
  <2> HIDE DEF x, y
  <2>5. /\ Sane(Hold(x, t), [y EXCEPT ![o] = t]) /\ Live(Hold(x, t)) = Live(x)
        /\ Listed(Hold(x, t)) = Listed(x) /\ Hold(x, t).alive = x.alive
    BY <2>1, <2>2, <2>4, HoldKeeps
  <2> QED  BY <2>1, <2>2, <2>3, <2>5
<1> QED  BY <1>2, <1>3

-----------------------------------------------------------------------------
(* Adding                                                                  *)

\* make_transition links a transition in, or finds the live one that is there.
LEMMA MakeKeeps ==
    ASSUME NEW st, NEW p, Sane(st, p), st.alive,
           NEW t \in Trans, t.source < st.states, t.sink < st.states,
           t \in Listed(st) => t \in Live(st)
    PROVE  /\ Sane(MakeTransition(st, t), p)
           /\ Live(MakeTransition(st, t)) = Live(st) \cup {t}
           /\ Listed(MakeTransition(st, t)) = Listed(st) \cup {t}
           /\ MakeTransition(st, t).alive /\ MakeTransition(st, t).states = st.states
           /\ MakeTransition(st, t).num = st.num
<1> DEFINE q == t.source
           l == st.list[q]
           i == Place(l, t)
           m == InsertAt(l, i, t)
           x == MakeTransition(st, t)
<1>1. /\ Shape(st) /\ st \in Stores /\ q \in StateIds /\ l \in Seq(Trans) /\ TwinFree(l)
      /\ \A j \in DOMAIN l : l[j].source = q
  BY TransFields, StoreFields DEF Sane, Shape
<1>2. t \in ToSet(l) <=> i <= Len(l) /\ l[i] = t
  BY <1>1, PlaceIn
<1>3. t \in ToSet(l) <=> t \in Listed(st)
  BY <1>1, ListedIn DEF ToSet
<1>4. ASSUME NEW y \in Stores, Shape([y EXCEPT !.first = None]), Live(y) = Live(st) \cup {t},
             y.first = st.first
      PROVE  /\ Shape(SetFirst(y, t)) /\ Live(SetFirst(y, t)) = Live(y)
             /\ Listed(SetFirst(y, t)) = Listed(y)
             /\ SetFirst(y, t).ref = y.ref /\ SetFirst(y, t).alive = y.alive
             /\ SetFirst(y, t).states = y.states /\ SetFirst(y, t).num = y.num
  <2> DEFINE z == SetFirst(y, t)
             w == [y EXCEPT !.first = None]
  <2>1. /\ z \in Stores /\ z.list = y.list /\ z.ref = y.ref /\ z.del = y.del
        /\ z.alive = y.alive /\ z.states = y.states /\ z.num = y.num
        /\ z.first \in {t, st.first}
    BY <1>4 DEF SetFirst, Stores, TransOrNone
  <2>2. w.list = y.list /\ w.alive = y.alive /\ w.states = y.states
    BY DEF Stores
  <2> HIDE DEF z, w
  <2>3. Listed(z) = Listed(y) /\ Live(z) = Live(y)
    BY <2>1 DEF Listed, Live
  <2>4. z.first # None => z.first \in Live(z)
    BY <1>1, <1>4, <2>1, <2>3 DEF Shape
  <2>5. Shape(w)
    BY <1>4 DEF w
  <2>6. Shape(z)
    BY <2>1, <2>2, <2>4, <2>5 DEF Shape
  <2> QED  BY <2>1, <2>3, <2>6 DEF z
<1>5. CASE t \in Listed(st)
  <2> DEFINE y == [st EXCEPT !.del[t] = FALSE]
  <2>1. st.del[t] = FALSE /\ st.del \in [Trans -> BOOLEAN]
    BY <1>1, <1>5, StoreFields DEF Live
  <2>2. y = st
    BY <1>1, <2>1 DEF Stores
  <2>3. x = SetFirst(st, t)
    BY <1>2, <1>3, <1>5, <2>2 DEF MakeTransition
  <2>4. Live(st) = Live(st) \cup {t} /\ Listed(st) = Listed(st) \cup {t}
    BY <1>5
  <2>5. Shape([st EXCEPT !.first = None])
    <3> DEFINE w == [st EXCEPT !.first = None]
    <3>1. /\ w \in Stores /\ w.list = st.list /\ w.alive = st.alive /\ w.states = st.states
          /\ w.first = None
      BY <1>1 DEF Stores, TransOrNone
    <3> HIDE DEF w
    <3>2. Shape(w)
      BY <1>1, <3>1 DEF Shape
    <3> QED  BY <3>2 DEF w
  <2> HIDE DEF x
  <2>6. /\ Shape(x) /\ Live(x) = Live(st) /\ Listed(x) = Listed(st) /\ x.ref = st.ref
        /\ x.alive = st.alive /\ x.states = st.states /\ x.num = st.num
    BY <1>1, <1>4, <2>3, <2>4, <2>5
  <2>7. Counted(x, p)
    BY <2>6 DEF Sane, Counted, Own
  <2> QED  BY <2>4, <2>6, <2>7 DEF Sane, x
<1>6. CASE t \notin Listed(st)
  <2> DEFINE y == [st EXCEPT !.list[q] = m, !.ref[t] = 1, !.del[t] = FALSE]
             w == [y EXCEPT !.first = None]
  <2>1. x = SetFirst(y, t)
    BY <1>2, <1>3, <1>6 DEF MakeTransition
  <2>2. m \in Seq(Trans) /\ TwinFree(m) /\ ToSet(m) = ToSet(l) \cup {t}
    <3> HIDE DEF l, q
    <3> QED  BY <1>1, <1>3, <1>6, InsertKeeps DEF q
  <2> HIDE DEF m
  <2>3. /\ y \in Stores /\ y.list = [st.list EXCEPT ![q] = m]
        /\ y.ref = [st.ref EXCEPT ![t] = 1] /\ y.del = [st.del EXCEPT ![t] = FALSE]
        /\ y.first = st.first /\ y.states = st.states /\ y.alive = st.alive
        /\ y.num = st.num
    BY <1>1, <2>2 DEF Stores
  <2> HIDE DEF y
  <2>4. /\ w \in Stores /\ w.list = y.list /\ w.alive = y.alive /\ w.states = y.states
        /\ w.first = None
    BY <2>3 DEF Stores, TransOrNone
  <2> HIDE DEF w
  <2>5. \A r \in StateIds : y.list[r] = IF r = q THEN m ELSE st.list[r]
    BY <1>1, <2>3, StoreFields
  <2>6. /\ \A r \in StateIds \ {q} : ToSet(y.list[r]) = ToSet(st.list[r])
        /\ ToSet(y.list[q]) = ToSet(st.list[q]) \cup {t}
    BY <1>1, <2>2, <2>5
  <2>7. Listed(y) = Listed(st) \cup {t}
    <3> HIDE DEF q, l
    <3>1. Listed(y) \subseteq Listed(st) \cup {t}
      BY <2>6 DEF Listed
    <3>2. Listed(st) \cup {t} \subseteq Listed(y)
      BY <1>1, <2>6 DEF Listed
    <3> QED  BY <3>1, <3>2
  <2>8. Live(y) = Live(st) \cup {t}
    <3>1. ~ y.del[t] /\ \A u \in Trans \ {t} : y.del[u] = st.del[u]
      <4>1. st.del \in [Trans -> BOOLEAN]
        BY <1>1, StoreFields
      <4> QED  BY <2>3, <4>1
    <3>2. Listed(st) \subseteq Trans
      BY <1>1, ListedIn
    <3> QED  BY <1>6, <2>7, <3>1, <3>2 DEF Live
  <2>9. Shape(w)
    <3>1. ASSUME NEW r \in StateIds, NEW j \in DOMAIN w.list[r]
          PROVE  /\ w.list[r][j].source = r
                 /\ r < w.states /\ w.list[r][j].sink < w.states
      <4>1. w.list[r][j] \in ToSet(st.list[r]) \/ (r = q /\ w.list[r][j] = t)
        <5>1. w.list[r][j] \in ToSet(y.list[r])
          BY <2>4 DEF ToSet
        <5> QED  BY <2>6, <5>1
      <4>2. CASE w.list[r][j] \in ToSet(st.list[r])
        <5>1. PICK k \in DOMAIN st.list[r] : st.list[r][k] = w.list[r][j]
          BY <4>2 DEF ToSet
        <5> QED  BY <1>1, <2>3, <2>4, <5>1 DEF Shape
      <4>3. CASE r = q /\ w.list[r][j] = t
        BY <2>3, <2>4, <4>3
      <4> QED  BY <4>1, <4>2, <4>3
    <3>2. \A r \in StateIds : TwinFree(w.list[r])
      BY <1>1, <2>2, <2>4, <2>5 DEF Shape
    <3>3. 0 .. w.states - 1 \subseteq StateIds
      BY <1>1, <2>3, <2>4 DEF Shape
    <3> QED  BY <2>3, <2>4, <3>1, <3>2, <3>3 DEF Shape
  <2>10. Shape([y EXCEPT !.first = None])
    BY <2>9 DEF w
  <2> HIDE DEF x
  <2>11. /\ Shape(x) /\ Live(x) = Live(y) /\ Listed(x) = Listed(y) /\ x.ref = y.ref
         /\ x.alive = y.alive /\ x.states = y.states /\ x.num = y.num
    BY <1>4, <2>1, <2>3, <2>8, <2>10
  <2>12. Counted(x, p)
    <3> SUFFICES ASSUME NEW u \in Trans
                 PROVE  /\ x.ref[u] = Cardinality(Pointing(p, u)) + Own(x, u)
                        /\ u \in Listed(x) <=> x.ref[u] > 0
      BY <2>3, <2>11 DEF Counted
    <3>1. /\ st.ref[u] = Cardinality(Pointing(p, u)) + Own(st, u)
          /\ u \in Listed(st) <=> st.ref[u] > 0
      BY DEF Sane, Counted
    <3>2. Cardinality(Pointing(p, u)) \in Nat /\ st.ref[u] \in Nat
      BY <1>1, PointingFinite, StoreFields
    <3>3. CASE u = t
      <4>1. Own(st, u) = 0 /\ Own(x, u) = 1
        BY <1>6, <2>8, <2>11, <3>3 DEF Own, Live
      <4>2. x.ref[u] = 1
        BY <1>1, <2>3, <2>11, <3>3, StoreFields
      <4> QED  BY <1>6, <2>7, <2>11, <3>1, <3>2, <3>3, <4>1, <4>2
    <3>4. CASE u # t
      <4>1. Own(x, u) = Own(st, u)
        BY <2>8, <2>11, <3>4 DEF Own
      <4>2. x.ref[u] = st.ref[u]
        BY <1>1, <2>3, <2>11, <3>4, StoreFields
      <4> QED  BY <2>7, <2>11, <3>1, <3>4, <4>1, <4>2
    <3> QED  BY <3>3, <3>4
  <2> QED  BY <2>3, <2>7, <2>8, <2>11, <2>12 DEF Sane, x
<1> QED  BY <1>5, <1>6

\* add_transition counts what it made.
LEMMA AddKeeps ==
    ASSUME NEW st, NEW p, Sane(st, p), st.alive,
           NEW t \in Trans, t.source < st.states, t.sink < st.states,
           t \in Listed(st) => t \in Live(st)
    PROVE  /\ Sane(AddTo(st, t), p)
           /\ Live(AddTo(st, t)) = Live(st) \cup {t}
           /\ Listed(AddTo(st, t)) = Listed(st) \cup {t}
           /\ AddTo(st, t).alive /\ AddTo(st, t).states = st.states
<1> DEFINE y == MakeTransition(st, t)
           x == AddTo(st, t)
<1>1. /\ Sane(y, p) /\ Live(y) = Live(st) \cup {t} /\ Listed(y) = Listed(st) \cup {t}
      /\ y.alive /\ y.states = st.states /\ y.num = st.num
  BY MakeKeeps
<1>2. y \in Stores /\ (y.num + 1) % Width \in 0 .. Width - 1
  <2>1. y \in Stores
    BY <1>1 DEF Sane, Shape
  <2>2. y.num \in Nat /\ Width \in Nat \ {0}
    BY <2>1, StoreFields, PDAAssumption
  <2> HIDE DEF y
  <2> QED  BY <2>1, <2>2
<1>3. x = [y EXCEPT !.num = (@ + 1) % Width]
  BY DEF AddTo
<1> HIDE DEF y, x
<1>4. /\ x \in Stores /\ x.list = y.list /\ x.ref = y.ref /\ x.del = y.del
      /\ x.first = y.first /\ x.states = y.states /\ x.alive = y.alive
  BY <1>2, <1>3 DEF Stores
<1>5. Listed(x) = Listed(y) /\ Live(x) = Live(y)
  BY <1>4 DEF Listed, Live
<1>6. Shape(x) /\ Counted(x, p)
  BY <1>1, <1>4, <1>5 DEF Sane, Shape, Counted, Own
<1> QED  BY <1>1, <1>4, <1>5, <1>6 DEF Sane, x

\* A further state changes nothing else.
LEMMA StateKeeps ==
    ASSUME NEW st, NEW p, Sane(st, p), st.states \in StateIds, st.alive
    PROVE  LET x == [st EXCEPT !.states = @ + 1]
           IN  /\ Sane(x, p) /\ Live(x) = Live(st) /\ Listed(x) = Listed(st)
               /\ x.alive /\ x.states = st.states + 1
<1> DEFINE x == [st EXCEPT !.states = @ + 1]
<1>1. Shape(st) /\ st \in Stores
  BY DEF Sane, Shape
<1>2. /\ x \in Stores /\ x.list = st.list /\ x.ref = st.ref /\ x.del = st.del
      /\ x.first = st.first /\ x.states = st.states + 1 /\ x.alive = st.alive
      /\ st.states \in Nat
  <2> DEFINE n == st.states + 1
  <2>1. st.states \in Nat /\ n \in Nat
    BY <1>1, StoreFields
  <2>2. x = [st EXCEPT !.states = n]
    OBVIOUS
  <2> HIDE DEF n, x
  <2>3. /\ x \in Stores /\ x.list = st.list /\ x.ref = st.ref /\ x.del = st.del
        /\ x.first = st.first /\ x.states = n /\ x.alive = st.alive
    BY <1>1, <2>1, <2>2 DEF Stores
  <2> QED  BY <2>1, <2>3 DEF n
<1> HIDE DEF x
<1>3. Listed(x) = Listed(st) /\ Live(x) = Live(st)
  BY <1>2 DEF Listed, Live
<1>4. ASSUME NEW t \in Trans, t.source < st.states, t.sink < st.states
      PROVE  t.source < x.states /\ t.sink < x.states
  BY <1>2, <1>4, TransFields
<1>5. \A q \in StateIds : \A i \in DOMAIN st.list[q] : st.list[q][i] \in Trans
  BY <1>1, StoreFields
<1>6. 0 .. x.states - 1 \subseteq StateIds
  <2>1. \A n \in 0 .. st.states : n = st.states \/ n \in 0 .. st.states - 1
    BY <1>2
  <2> QED  BY <1>1, <1>2, <2>1 DEF Shape
<1>7. ASSUME NEW q \in StateIds, NEW i \in DOMAIN x.list[q]
      PROVE  x.list[q][i].source = q /\ q < x.states /\ x.list[q][i].sink < x.states
  <2>1. /\ x.list[q][i] \in Trans /\ x.list[q][i].source = q
        /\ q < st.states /\ x.list[q][i].sink < st.states
    BY <1>1, <1>2, <1>5 DEF Shape
  <2> QED  BY <1>4, <2>1
<1>8. Shape(x)
  BY <1>1, <1>2, <1>3, <1>6, <1>7 DEF Shape
<1>9. Counted(x, p)
  BY <1>2, <1>3 DEF Sane, Counted, Own
<1> QED  BY <1>2, <1>3, <1>8, <1>9 DEF Sane, x

-----------------------------------------------------------------------------
(* Generators                                                              *)

\* A binder is a handle, never a cursor.
LEMMA BinderIs ==
    ASSUME NEW g \in Gens
    PROVE  /\ g \in Owners /\ Binder[g] # g
           /\ Binder[g] # None => Binder[g] \in Owners
BY PDAAssumption DEF Owners

LEMMA BoundKeeps ==
    ASSUME NEW x, Sane(x.st, x.ptr), NEW g \in Gens, NEW t \in TransOrNone,
           t # None /\ x.st.alive => t \in Listed(x.st)
    PROVE  LET y == Bound(x, Binder[g], t)
           IN  /\ Sane(y.st, y.ptr) /\ Live(y.st) = Live(x.st) /\ y.st.alive = x.st.alive
               /\ y.ptr[g] = x.ptr[g]
               /\ t # None /\ x.st.alive => t \in Listed(y.st)
<1> DEFINE y == Bound(x, Binder[g], t)
<1>1. CASE Binder[g] = None
  <2>1. y = x
    BY <1>1 DEF Bound
  <2> QED  BY <2>1
<1>2. CASE Binder[g] # None
  <2> DEFINE h == Binder[g]
  <2>1. h \in Owners /\ h # g /\ g \in Owners
    BY <1>2, BinderIs
  <2>2. y.st = Assign(x.st, x.ptr[h], t) /\ y.ptr = [x.ptr EXCEPT ![h] = t]
    BY <1>2 DEF Bound
  <2> HIDE DEF h, y
  <2>3. /\ Sane(Assign(x.st, x.ptr[h], t), [x.ptr EXCEPT ![h] = t])
        /\ Live(Assign(x.st, x.ptr[h], t)) = Live(x.st)
        /\ Assign(x.st, x.ptr[h], t).alive = x.st.alive
    BY <2>1, AssignKeeps
  <2>4. y.ptr[g] = x.ptr[g] /\ y.ptr[h] = t
    BY <2>1, <2>2 DEF Sane
  <2>5. t # None /\ x.st.alive => t \in Listed(y.st)
    <3> SUFFICES ASSUME t # None, x.st.alive PROVE t \in Listed(y.st)
      OBVIOUS
    <3>1. Sane(y.st, y.ptr) /\ y.st.alive
      BY <2>2, <2>3
    <3> QED  BY <2>1, <2>4, <3>1, PointedAreListed
  <2>6. Sane(y.st, y.ptr) /\ Live(y.st) = Live(x.st) /\ y.st.alive = x.st.alive
    BY <2>2, <2>3
  <2> QED  BY <2>4, <2>5, <2>6 DEF y
<1> QED  BY <1>1, <1>2

LEMMA FreedKeeps ==
    ASSUME NEW x, Sane(x.st, x.ptr), NEW g \in Gens
    PROVE  LET y == Freed(x, g)
           IN  /\ Sane(y.st, y.ptr) /\ Live(y.st) = Live(x.st) /\ y.st.alive = x.st.alive
               /\ y.ptr[g] = None
<1> DEFINE z == [st |-> Release(x.st, x.ptr[g]), ptr |-> [x.ptr EXCEPT ![g] = None]]
           y == Bound(z, Binder[g], None)
<1>1. g \in Owners /\ x.ptr \in [Owners -> TransOrNone] /\ None \in TransOrNone
  BY BinderIs DEF Sane, TransOrNone
<1>2. Sane(z.st, z.ptr) /\ Live(z.st) = Live(x.st) /\ z.st.alive = x.st.alive
  BY <1>1, ReleaseKeeps
<1>3. z.ptr[g] = None
  BY <1>1
<1> HIDE DEF z
<1>4. /\ Sane(y.st, y.ptr) /\ Live(y.st) = Live(z.st) /\ y.st.alive = z.st.alive
      /\ y.ptr[g] = z.ptr[g]
  BY <1>1, <1>2, BoundKeeps
<1>5. Freed(x, g) = y
  BY DEF Freed, z
<1> HIDE DEF y
<1> QED  BY <1>2, <1>3, <1>4, <1>5

\* A search starts at a listed transition, or is over.
LEMMA StartsListed ==
    ASSUME NEW st, Shape(st), st.alive, NEW g \in Gens
    PROVE  StartOf(st, g) \in Listed(st) \cup {None}
<1>1. CASE g \in Plain \/ Pattern[g].source = Wild
  BY <1>1 DEF StartOf, Shape, Live
<1>2. CASE ~ (g \in Plain \/ Pattern[g].source = Wild)
  <2> DEFINE q == Pattern[g].source
             l == st.list[q]
  <2>1. q \in StateIds
    BY <1>2, PDAAssumption
  <2>2. l \in Seq(Trans)
    BY <2>1, StoreFields DEF Shape
  <2>3. StartOf(st, g) = IF l = <<>> THEN None ELSE Head(l)
    BY <1>2 DEF StartOf, Head1
  <2>4. l # <<>> => 1 \in DOMAIN l /\ Head(l) = l[1]
    <3> HIDE DEF l
    <3> QED  BY <2>2
  <2>5. l # <<>> => Head(l) \in Listed(st)
    BY <2>1, <2>4 DEF Listed, ToSet
  <2> QED  BY <2>3, <2>5
<1> QED  BY <1>1, <1>2

LEMMA ResetKeeps ==
    ASSUME NEW x, Sane(x.st, x.ptr), x.st.alive, NEW g \in Gens
    PROVE  LET y == Reset(x, g)
           IN  Sane(y.st, y.ptr) /\ Live(y.st) = Live(x.st) /\ y.st.alive
<1> DEFINE y == Freed(x, g)
           c == StartOf(y.st, g)
           z == Reset(x, g)
<1>1. Sane(y.st, y.ptr) /\ Live(y.st) = Live(x.st) /\ y.st.alive /\ y.ptr[g] = None
  BY FreedKeeps
<1>2. z = [st |-> Hold(y.st, c), ptr |-> [y.ptr EXCEPT ![g] = c]]
  BY DEF Reset
<1> HIDE DEF y, z
<1>3. c \in Listed(y.st) \cup {None}
  BY <1>1, StartsListed DEF Sane
<1>4. c \in TransOrNone
  BY <1>1, <1>3, ListedIn DEF Sane, TransOrNone
<1> HIDE DEF c
<1>5. /\ Sane(Hold(y.st, c), [y.ptr EXCEPT ![g] = c])
      /\ Live(Hold(y.st, c)) = Live(y.st) /\ Hold(y.st, c).alive = y.st.alive
  BY <1>1, <1>3, <1>4, BinderIs, HoldKeeps
<1>6. Sane(z.st, z.ptr) /\ Live(z.st) = Live(x.st) /\ z.st.alive
  BY <1>1, <1>2, <1>5
<1> QED  BY <1>6 DEF z

\* A step of a generator: its results are transitions that are still there, the
\* cursor is counted where it goes and not where it was, and nothing live goes.
LEMMA StepKeeps ==
    ASSUME NEW x, Sane(x.st, x.ptr), x.st.alive, NEW g \in Gens, x.ptr[g] # None,
           NEW r \in Step(x, g)
    PROVE  /\ Sane(r.st, r.ptr) /\ Live(r.st) = Live(x.st) /\ r.st.alive
           /\ r.out \in TransOrNone
<1> DEFINE t == Target(x.st, g, x.ptr[g])
           y == Bound(x, Binder[g], t)
           z == Release(y.st, x.ptr[g])
           Next1(st) == IF g \in Plain THEN FindNextTransition(st, t) ELSE NextFor(st, g, t)
           nexts == IF t = None THEN {None}
                    ELSE IF t \in Listed(z) THEN {Next1(z)} ELSE {Next1(y.st), None}
           p == [y.ptr EXCEPT ![g] = None]
<1>1. /\ g \in Owners /\ Shape(x.st)
      /\ x.ptr[g] \in Listed(x.st)
  BY BinderIs, PointedAreListed DEF Sane
<1>2. t \in Listed(x.st) \cup {None}
  <2>1. Live(x.st) \subseteq Listed(x.st)
    BY DEF Live
  <2> QED  BY <1>1, <2>1, WalksToLive DEF Target
<1>3. t \in TransOrNone
  BY <1>1, <1>2, ListedIn DEF TransOrNone
<1>4. PICK n \in nexts : r = [st |-> Hold(z, n), ptr |-> [y.ptr EXCEPT ![g] = n], out |-> t]
  BY DEF Step
<1> HIDE DEF t
<1>5. /\ Sane(y.st, y.ptr) /\ Live(y.st) = Live(x.st) /\ y.st.alive
      /\ y.ptr[g] = x.ptr[g] /\ (t # None => t \in Listed(y.st))
  BY <1>2, <1>3, BoundKeeps
<1> HIDE DEF y
<1>6. /\ Sane(z, p) /\ Live(z) = Live(y.st) /\ z.alive = y.st.alive
      /\ Listed(y.st) \ {y.ptr[g]} \subseteq Listed(z)
  <2>1. z = Release(y.st, y.ptr[g])
    BY <1>5
  <2> HIDE DEF z
  <2> QED  BY <1>1, <1>5, <2>1, ReleaseKeeps
<1>7. p \in [Owners -> TransOrNone] /\ p[g] = None /\ [p EXCEPT ![g] = n] = [y.ptr EXCEPT ![g] = n]
  BY <1>1, <1>5 DEF Sane, TransOrNone
<1>8. n \in Listed(z) \cup {None}
  <2>1. CASE t = None
    BY <1>4, <2>1
  <2>2. CASE t # None /\ t \in Listed(z)
    <3>1. FindNextTransition(z, t) \in Live(z) \cup {None} /\ NextFor(z, g, t) \in Live(z) \cup {None}
      BY <1>6, <2>2, WalksToLive DEF Sane
    <3>2. n \in {FindNextTransition(z, t), NextFor(z, g, t), None}
      BY <1>4, <2>2
    <3> QED  BY <3>1, <3>2 DEF Live
  <2>3. CASE t # None /\ t \notin Listed(z)
    <3>1. /\ FindNextTransition(y.st, t) \in Live(y.st) \cup {None}
          /\ NextFor(y.st, g, t) \in Live(y.st) \cup {None}
      BY <1>5, <2>3, WalksToLive DEF Sane
    <3>2. n \in {FindNextTransition(y.st, t), NextFor(y.st, g, t), None}
      BY <1>4, <2>3
    <3>3. Live(y.st) \subseteq Listed(z)
      BY <1>6 DEF Live
    <3> QED  BY <3>1, <3>2, <3>3
  <2> QED  BY <2>1, <2>2, <2>3
<1>9. n \in TransOrNone
  BY <1>6, <1>8, ListedIn DEF Sane, TransOrNone
<1> HIDE DEF z, p, nexts
<1>10. /\ Sane(Hold(z, n), [p EXCEPT ![g] = n])
       /\ Live(Hold(z, n)) = Live(z) /\ Hold(z, n).alive = z.alive
  BY <1>1, <1>6, <1>7, <1>8, <1>9, HoldKeeps
<1> QED  BY <1>3, <1>4, <1>5, <1>6, <1>7, <1>10

-----------------------------------------------------------------------------
(* Removing, and the end of the automaton                                  *)

\* t is marked, the count of transitions is n and searches begin behind t.
Deleted(st, t, n) ==
    [st EXCEPT !.del[t] = TRUE, !.num = n,
               !.first = IF @ = t THEN FindNextTransition(st, t) ELSE @]

\* remove_transition: the handle keeps what it removes.
LEMMA DeleteKeeps ==
    ASSUME NEW st, NEW p, Sane(st, p), st.alive, NEW o \in Owners,
           p[o] # None, ~ st.del[p[o]], NEW n \in 0 .. Width - 1
    PROVE  LET x == Release(Deleted(st, p[o], n), p[o])
           IN  Sane(x, p) /\ Live(x) = Live(st) \ {p[o]} /\ x.alive
<1> DEFINE t == p[o]
           f == IF st.first = t THEN FindNextTransition(st, t) ELSE st.first
           y == [st EXCEPT !.del[t] = TRUE, !.num = n, !.first = f]
           r == [st.ref EXCEPT ![t] = @ - 1]
           x == Release(y, t)
<1>1. t \in Trans /\ t \in Live(st) /\ Shape(st) /\ st \in Stores /\ t \in Listed(st)
  BY PointedAreListed DEF Sane, Shape, Live
<1>2. st.ref[t] \in Nat /\ st.ref[t] > 1
  <2>1. st.ref[t] = Cardinality(Pointing(p, t)) + Own(st, t)
    BY <1>1 DEF Sane, Counted
  <2>2. Own(st, t) = 1
    BY <1>1 DEF Own
  <2>3. Cardinality(Pointing(p, t)) > 0 /\ Cardinality(Pointing(p, t)) \in Nat
    BY PointedAreCounted, PointingFinite
  <2> QED  BY <2>1, <2>2, <2>3
<1>3. f \in (Live(st) \ {t}) \cup {None}
  BY <1>1, WalksToLive DEF Shape
<1>4. f \in TransOrNone
  BY <1>1, <1>3, ListedIn DEF Live, TransOrNone
<1> HIDE DEF f
<1>5. /\ y \in Stores /\ y.list = st.list /\ y.ref = st.ref
      /\ y.del = [st.del EXCEPT ![t] = TRUE] /\ y.first = f
      /\ y.states = st.states /\ y.alive = st.alive
  BY <1>1, <1>4 DEF Stores
<1>6. x = [y EXCEPT !.ref = r]
  <2> HIDE DEF y
  <2>1. x = [y EXCEPT !.ref[t] = @ - 1]
    BY <1>2, <1>5 DEF Release
  <2> QED  BY <1>5, <2>1
<1>7. r \in [Trans -> Nat] /\ \A u \in Trans : r[u] = st.ref[u] - One(t, u)
  BY <1>1, <1>2, StoreFields DEF One
<1> HIDE DEF y, x, r
<1>8. Listed(y) = Listed(st)
  BY <1>5 DEF Listed
<1>9. Live(y) = Live(st) \ {t}
  <2>1. y.del[t] /\ \A u \in Trans \ {t} : y.del[u] = st.del[u]
    <3>1. st.del \in [Trans -> BOOLEAN]
      BY <1>1, StoreFields
    <3> QED  BY <1>1, <1>5, <3>1
  <2>2. Listed(st) \subseteq Trans
    BY <1>1, ListedIn
  <2> HIDE DEF t
  <2> QED  BY <1>8, <2>1, <2>2 DEF Live
<1>10. Shape(y)
  BY <1>1, <1>3, <1>5, <1>9 DEF Shape
<1>11. Shape(x) /\ Listed(x) = Listed(y) /\ Live(x) = Live(y)
  BY <1>6, <1>7, <1>10, CountsOnly
<1>12. x.ref = r /\ x.alive
  BY <1>5, <1>6 DEF Stores
<1>13. Counted(x, p)
  <2> SUFFICES ASSUME NEW u \in Trans
               PROVE  /\ x.ref[u] = Cardinality(Pointing(p, u)) + Own(x, u)
                      /\ u \in Listed(x) <=> x.ref[u] > 0
    BY DEF Counted
  <2>1. /\ st.ref[u] = Cardinality(Pointing(p, u)) + Own(st, u)
        /\ u \in Listed(st) <=> st.ref[u] > 0
    BY DEF Sane, Counted
  <2>2. st.ref[u] \in Nat /\ Cardinality(Pointing(p, u)) \in Nat
    BY <1>1, StoreFields, PointingFinite
  <2>3. CASE u = t
    <3>1. Own(st, u) = 1 /\ Own(x, u) = 0
      BY <1>1, <1>9, <1>11, <2>3 DEF Own
    <3>2. x.ref[u] = st.ref[u] - 1
      BY <1>7, <1>12, <2>3 DEF One
    <3> HIDE DEF t
    <3> QED  BY <1>1, <1>2, <1>8, <1>11, <2>1, <2>2, <2>3, <3>1, <3>2
  <2>4. CASE u # t
    <3>1. Own(x, u) = Own(st, u)
      BY <1>9, <1>11, <2>4 DEF Own
    <3>2. x.ref[u] = st.ref[u]
      BY <1>7, <1>12, <2>2, <2>4 DEF One
    <3> QED  BY <1>8, <1>11, <2>1, <3>1, <3>2
  <2> QED  BY <2>3, <2>4
<1>14. Sane(x, p) /\ Live(x) = Live(st) \ {t} /\ x.alive
  BY <1>9, <1>11, <1>12, <1>13 DEF Sane
<1>15. Deleted(st, t, n) = y
  BY DEF Deleted, y, f
<1> QED  BY <1>14, <1>15 DEF x

\* ~PDA: what was live has one less to count it.
LEMMA DestroyKeeps ==
    ASSUME NEW st, NEW p, Sane(st, p), NEW x,
           x = [st EXCEPT !.alive = FALSE, !.list = [q \in StateIds |-> <<>>],
                          !.first = None,
                          !.ref = [t \in Trans |-> IF t \in Live(st) THEN @[t] - 1 ELSE @[t]]]
    PROVE  Sane(x, p) /\ ~ x.alive
<1> DEFINE r == [t \in Trans |-> IF t \in Live(st) THEN st.ref[t] - 1 ELSE st.ref[t]]
           none == [q \in StateIds |-> <<>>]
<1>1. Shape(st) /\ st \in Stores
  BY DEF Sane, Shape
<1>2. ASSUME NEW t \in Trans
      PROVE  r[t] \in Nat /\ r[t] = Cardinality(Pointing(p, t))
  <2>1. st.ref[t] = Cardinality(Pointing(p, t)) + Own(st, t)
    BY DEF Sane, Counted
  <2>2. st.ref[t] \in Nat /\ Cardinality(Pointing(p, t)) \in Nat
    BY <1>1, StoreFields, PointingFinite
  <2> QED  BY <2>1, <2>2 DEF Own
<1>3. r \in [Trans -> Nat]
  BY <1>2
<1>4. x = [st EXCEPT !.alive = FALSE, !.list = none, !.first = None, !.ref = r]
  BY <1>1 DEF Stores
<1>5. none \in [StateIds -> Seq(Trans)] /\ \A q \in StateIds : none[q] = <<>>
  OBVIOUS
<1> HIDE DEF r, none
<1>6. /\ x \in Stores /\ x.list = none /\ x.ref = r
       /\ x.first = None /\ x.states = st.states /\ x.alive = FALSE
  <2>1. None \in TransOrNone
    BY DEF TransOrNone
  <2> QED  BY <1>1, <1>3, <1>4, <1>5, <2>1 DEF Stores
<1>7. \A q \in StateIds : x.list[q] = <<>> /\ DOMAIN x.list[q] = {}
  BY <1>5, <1>6
<1>8. Live(x) = {}
  BY <1>7 DEF Live, Listed, ToSet
<1>9. Shape(x)
  <2>1. \A q \in StateIds : TwinFree(x.list[q])
    BY <1>7 DEF TwinFree
  <2>2. 0 .. x.states - 1 \subseteq StateIds
    BY <1>1, <1>6 DEF Shape
  <2> QED  BY <1>6, <1>7, <2>1, <2>2 DEF Shape
<1>10. Counted(x, p)
  <2>1. ASSUME NEW t \in Trans
        PROVE  x.ref[t] = Cardinality(Pointing(p, t)) + Own(x, t)
    <3>1. Own(x, t) = 0
      BY <1>8 DEF Own
    <3>2. Cardinality(Pointing(p, t)) \in Nat
      BY PointingFinite
    <3> QED  BY <1>2, <1>6, <3>1, <3>2
  <2> QED  BY <1>6, <2>1 DEF Counted
<1> QED  BY <1>6, <1>9, <1>10 DEF Sane

-----------------------------------------------------------------------------
(* The invariant                                                           *)

\* While a transition that was removed and is still held is not added again.
IInv ==
    /\ Sane(s, ptr)
    /\ used \in [Gens -> BOOLEAN] /\ owed \in [Gens -> SUBSET Trans]
    /\ kept \subseteq Trans
    /\ s.alive => Live(s) = kept

LEMMA InitIInv == Init => IInv
<1> SUFFICES ASSUME Init PROVE IInv
  OBVIOUS
<1> DEFINE none == [q \in StateIds |-> <<>>]
           zero == [t \in Trans |-> 0]
           no   == [t \in Trans |-> FALSE]
<1>1. /\ none \in [StateIds -> Seq(Trans)] /\ (\A q \in StateIds : none[q] = <<>>)
      /\ zero \in [Trans -> Nat] /\ (\A t \in Trans : zero[t] = 0)
      /\ no \in [Trans -> BOOLEAN] /\ None \in TransOrNone /\ 0 \in 0 .. Width - 1
  BY PDAAssumption DEF TransOrNone
<1>2. s = [list |-> none, ref |-> zero, del |-> no, first |-> None, num |-> 0,
           states |-> 1, alive |-> TRUE]
  BY DEF Init
<1> HIDE DEF none, zero, no
<1>3. s \in Stores
  BY <1>1, <1>2 DEF Stores
<1>4. \A q \in StateIds : s.list[q] = <<>> /\ DOMAIN s.list[q] = {}
  BY <1>1, <1>2
<1>5. Listed(s) = {} /\ Live(s) = {}
  BY <1>4 DEF Listed, Live, ToSet
<1>6. Shape(s)
  <2>1. 0 .. s.states - 1 \subseteq StateIds
    BY <1>2, PDAAssumption
  <2>2. \A q \in StateIds : TwinFree(s.list[q])
    BY <1>4 DEF TwinFree
  <2>3. s.first = None /\ s.alive
    BY <1>2
  <2> QED  BY <1>3, <1>4, <2>1, <2>2, <2>3 DEF Shape
<1>7. ptr \in [Owners -> TransOrNone] /\ \A o \in Owners : ptr[o] = None
  BY <1>1 DEF Init
<1>8. Counted(s, ptr)
  <2>1. ASSUME NEW t \in Trans
        PROVE  s.ref[t] = Cardinality(Pointing(ptr, t)) + Own(s, t) /\ ~ (s.ref[t] > 0)
    <3>1. Pointing(ptr, t) = {}
      BY <1>7, PDAAssumption DEF Pointing
    <3>2. Cardinality(Pointing(ptr, t)) = 0
      BY <3>1, FS_EmptySet
    <3>3. Own(s, t) = 0 /\ s.ref[t] = 0
      BY <1>1, <1>2, <1>5 DEF Own
    <3> QED  BY <3>2, <3>3
  <2> QED  BY <1>5, <2>1 DEF Counted
<1>9. /\ used \in [Gens -> BOOLEAN] /\ owed \in [Gens -> SUBSET Trans]
      /\ kept \subseteq Trans /\ kept = {}
  BY DEF Init
<1> QED  BY <1>5, <1>6, <1>7, <1>8, <1>9 DEF IInv, Sane

\* What add_transition and add_start_state ask of a transition.
LEMMA MayAddIs ==
    ASSUME IInv, ~ Revives, NEW t \in Trans, MayAdd(t), t \in kept'
    PROVE  /\ s.alive /\ t.source < s.states /\ t.sink < s.states
           /\ t \in Listed(s) => t \in Live(s)
<1>1. t.source \in Nat /\ t.sink \in Nat /\ s.states \in Nat
  BY TransFields, StoreFields DEF IInv, Sane, Shape
<1> QED  BY <1>1 DEF IInv, MayAdd, Live, Revives

\* What a generator is owed never grows when transitions are added.
LEMMA StillOwedIn ==
    ASSUME IInv, NEW st
    PROVE  StillOwed(st) \in [Gens -> SUBSET Trans]
BY DEF IInv, StillOwed

LEMMA AddTransitionStep ==
    ASSUME IInv, ~ Revives,
           NEW t \in Trans, NEW h \in Handles \cup {None}, AddTransition(t, h)
    PROVE  IInv'
<1> DEFINE st == AddTo(s, t)
<1>1. /\ s.alive /\ t.source < s.states /\ t.sink < s.states
      /\ t \in Listed(s) => t \in Live(s)
  BY MayAddIs DEF AddTransition
<1>2. Sane(s, ptr) /\ Live(s) = kept
  BY <1>1 DEF IInv
<1>3. /\ Sane(st, ptr) /\ Live(st) = Live(s) \cup {t} /\ Listed(st) = Listed(s) \cup {t}
      /\ st.alive
  BY <1>1, <1>2, AddKeeps
<1>4. /\ used' = used /\ owed' \in [Gens -> SUBSET Trans] /\ kept' = kept \cup {t}
      /\ h = None => s' = st /\ ptr' = ptr
      /\ h # None => s' = Assign(st, ptr[h], t) /\ ptr' = [ptr EXCEPT ![h] = t]
  BY StillOwedIn DEF AddTransition
<1> HIDE DEF st
<1>5. Sane(s', ptr') /\ Live(s') = Live(st) /\ s'.alive
  <2>1. CASE h = None
    BY <1>3, <1>4, <2>1
  <2>2. CASE h # None
    <3>1. h \in Owners /\ t \in TransOrNone /\ t \in Listed(st)
      BY <1>3, <2>2 DEF Owners, TransOrNone
    <3>2. /\ Sane(Assign(st, ptr[h], t), [ptr EXCEPT ![h] = t])
          /\ Live(Assign(st, ptr[h], t)) = Live(st)
          /\ Assign(st, ptr[h], t).alive = st.alive
      BY <1>3, <3>1, AssignKeeps
    <3> QED  BY <1>3, <1>4, <2>2, <3>2
  <2> QED  BY <2>1, <2>2
<1> QED  BY <1>2, <1>3, <1>4, <1>5 DEF IInv

LEMMA AddStartStateStep ==
    ASSUME IInv, ~ Revives, NEW q \in Starts, AddStartState(q)
    PROVE  IInv'
<1> DEFINE t == [source |-> 0, read |-> 0, pop |-> 0, push |-> 0, sink |-> q]
<1>1. t \in Trans
  BY PDAAssumption
<1>2. /\ MayAdd(t) /\ s' = MakeTransition(s, t) /\ kept' = kept \cup {t}
      /\ ptr' = ptr /\ used' = used /\ owed' \in [Gens -> SUBSET Trans]
  BY StillOwedIn DEF AddStartState
<1> HIDE DEF t
<1>3. /\ s.alive /\ t.source < s.states /\ t.sink < s.states
      /\ t \in Listed(s) => t \in Live(s)
  BY <1>1, <1>2, MayAddIs
<1>4. Sane(s, ptr) /\ Live(s) = kept
  BY <1>3 DEF IInv
<1>5. /\ Sane(MakeTransition(s, t), ptr)
      /\ Live(MakeTransition(s, t)) = Live(s) \cup {t}
  BY <1>1, <1>3, <1>4, MakeKeeps
<1> QED  BY <1>1, <1>2, <1>4, <1>5 DEF IInv

\* Through the new state: the first transition goes to it and the second comes
\* from it, so neither is there yet.
LEMMA AddPushingStep ==
    ASSUME IInv, NEW src, NEW read, NEW pop, NEW b, NEW sink,
           AddPushing(src, read, pop, b, sink)
    PROVE  IInv'
<1> DEFINE q  == s.states
           t1 == [source |-> src, read |-> read, pop |-> pop, push |-> b[2], sink |-> q]
           t2 == [source |-> q, read |-> 0, pop |-> 0, push |-> b[1], sink |-> sink]
           s0 == [s EXCEPT !.states = @ + 1]
           s1 == AddTo(s0, t1)
           s2 == AddTo(s1, t2)
<1>1. /\ s.alive /\ q \in StateIds /\ src \in 0 .. q - 1 /\ sink \in 0 .. q - 1
      /\ t1 \in Trans /\ t2 \in Trans
      /\ s' = s2 /\ kept' = kept \cup {t1, t2}
      /\ ptr' = ptr /\ used' = used /\ owed' \in [Gens -> SUBSET Trans]
  BY StillOwedIn DEF AddPushing
<1>2. t1.source = src /\ t1.sink = q /\ t2.source = q /\ t2.sink = sink
  OBVIOUS
<1> HIDE DEF t1, t2
<1>3. Sane(s, ptr) /\ Live(s) = kept /\ q \in Nat
  BY <1>1, StoreFields DEF IInv, Sane, Shape
<1>4. /\ Sane(s0, ptr) /\ Live(s0) = Live(s) /\ Listed(s0) = Listed(s)
      /\ s0.alive /\ s0.states = q + 1
  BY <1>1, <1>3, StateKeeps
<1>5. t1 \notin Listed(s) /\ t2 \notin Listed(s)
  <2>1. ASSUME NEW t \in Listed(s)
        PROVE  t.source < q /\ t.sink < q
    <3>1. /\ t \in Trans
          /\ \E i \in DOMAIN s.list[t.source] : s.list[t.source][i] = t
      BY <1>3, ListedIn DEF Sane
    <3> QED  BY <1>3, <3>1, TransFields DEF Sane, Shape
  <2> QED  BY <1>2, <1>3, <2>1
<1> HIDE DEF s0
<1>6. /\ Sane(s1, ptr) /\ Live(s1) = Live(s0) \cup {t1} /\ Listed(s1) = Listed(s0) \cup {t1}
      /\ s1.alive /\ s1.states = s0.states
  <2>1. t1.source < s0.states /\ t1.sink < s0.states
    BY <1>1, <1>2, <1>3, <1>4
  <2> QED  BY <1>1, <1>4, <1>5, <2>1, AddKeeps
<1> HIDE DEF s1
<1>7. Sane(s2, ptr) /\ Live(s2) = Live(s1) \cup {t2}
  <2>1. t2.source < s1.states /\ t2.sink < s1.states /\ t1 # t2
    BY <1>1, <1>2, <1>3, <1>4, <1>6
  <2>2. t2 \notin Listed(s1)
    BY <1>4, <1>5, <1>6, <2>1
  <2> QED  BY <1>1, <1>6, <2>1, <2>2, AddKeeps
<1> HIDE DEF s2
<1>8. Live(s2) = kept \cup {t1, t2}
  BY <1>3, <1>4, <1>6, <1>7
<1> QED  BY <1>1, <1>7, <1>8 DEF IInv

LEMMA RemoveTransitionStep ==
    ASSUME IInv, NEW h \in Handles, RemoveTransition(h)
    PROVE  IInv'
<1> DEFINE n == (s.num + Width - 1) % Width
<1>1. /\ s.alive /\ ptr[h] # None /\ ~ s.del[ptr[h]]
      /\ s' = Release(Deleted(s, ptr[h], n), ptr[h])
      /\ kept' = kept \ {ptr[h]} /\ owed' = [g \in Gens |-> owed[g] \ {ptr[h]}]
      /\ ptr' = ptr /\ used' = used
  BY DEF RemoveTransition, Deleted
<1>2. Sane(s, ptr) /\ Live(s) = kept /\ h \in Owners /\ s \in Stores
  BY <1>1 DEF IInv, Owners, Sane, Shape
<1>3. n \in 0 .. Width - 1
  <2>1. s.num \in Nat /\ Width \in Nat \ {0}
    BY <1>2, StoreFields, PDAAssumption
  <2> QED  BY <2>1
<1> HIDE DEF n
<1>4. Sane(s', ptr) /\ Live(s') = Live(s) \ {ptr[h]} /\ s'.alive
  BY <1>1, <1>2, <1>3, DeleteKeeps
<1>5. owed' \in [Gens -> SUBSET Trans] /\ kept' \subseteq Trans
  BY <1>1 DEF IInv
<1> QED  BY <1>1, <1>2, <1>4, <1>5 DEF IInv

LEMMA HandleStep ==
    ASSUME IInv, NEW h \in Handles, ClearHandle(h) \/ \E i \in Handles : CopyHandle(h, i)
    PROVE  IInv'
<1>1. Sane(s, ptr) /\ h \in Owners
  BY DEF IInv, Owners
<1>2. UNCHANGED <<used, kept, owed>>
  BY DEF ClearHandle, CopyHandle
<1>3. CASE ClearHandle(h)
  <2>1. s' = Release(s, ptr[h]) /\ ptr' = [ptr EXCEPT ![h] = None]
    BY <1>3 DEF ClearHandle
  <2>2. Sane(s', ptr') /\ Live(s') = Live(s) /\ s'.alive = s.alive
    BY <1>1, <2>1, ReleaseKeeps
  <2> QED  BY <1>2, <2>2 DEF IInv
<1>4. ASSUME NEW i \in Handles, CopyHandle(h, i) PROVE IInv'
  <2>1. s' = Assign(s, ptr[h], ptr[i]) /\ ptr' = [ptr EXCEPT ![h] = ptr[i]]
    BY <1>4 DEF CopyHandle
  <2>2. ptr[i] \in TransOrNone /\ (ptr[i] # None /\ s.alive => ptr[i] \in Listed(s))
    BY <1>1, PointedAreListed DEF Sane, Owners
  <2>3. /\ Sane(Assign(s, ptr[h], ptr[i]), [ptr EXCEPT ![h] = ptr[i]])
        /\ Live(Assign(s, ptr[h], ptr[i])) = Live(s)
        /\ Assign(s, ptr[h], ptr[i]).alive = s.alive
    BY <1>1, <2>2, AssignKeeps
  <2> QED  BY <1>2, <2>1, <2>3 DEF IInv
<1> QED  BY <1>3, <1>4

LEMMA MatchNextStep ==
    ASSUME IInv, NEW g \in Gens, MatchNext(g)
    PROVE  IInv'
<1> DEFINE x == [st |-> s, ptr |-> ptr]
           y == IF used[g] THEN x ELSE Reset(x, g)
           z == Bound(y, Binder[g], None)
           ends == {[st |-> z.st, ptr |-> z.ptr, out |-> None]}
<1>1. s.alive
  BY DEF MatchNext
<1>2. PICK r \in IF y.ptr[g] = None THEN ends ELSE Step(y, g) :
         /\ s' = r.st /\ ptr' = r.ptr
         /\ owed' = [owed EXCEPT ![g] = (IF used[g] THEN @ ELSE Wanted(s, g)) \ {r.out}]
  BY DEF MatchNext
<1>3. kept' = kept /\ used' = [used EXCEPT ![g] = TRUE]
  BY DEF MatchNext
<1>4. Sane(x.st, x.ptr) /\ x.st.alive /\ x.st = s
  BY <1>1 DEF IInv
<1>5. Sane(y.st, y.ptr) /\ Live(y.st) = Live(s) /\ y.st.alive
  <2>1. CASE used[g]
    BY <1>4, <2>1
  <2>2. CASE ~ used[g]
    <3>1. Sane(Reset(x, g).st, Reset(x, g).ptr) /\ Live(Reset(x, g).st) = Live(x.st)
          /\ Reset(x, g).st.alive
      <4> HIDE DEF x
      <4> QED  BY <1>4, ResetKeeps
    <3> QED  BY <1>4, <2>2, <3>1
  <2> QED  BY <2>1, <2>2
<1> HIDE DEF x, y
<1>6. Sane(r.st, r.ptr) /\ Live(r.st) = Live(y.st) /\ r.st.alive
  <2>1. CASE y.ptr[g] = None
    <3>1. r.st = z.st /\ r.ptr = z.ptr
      BY <1>2, <2>1
    <3>2. Sane(z.st, z.ptr) /\ Live(z.st) = Live(y.st) /\ z.st.alive = y.st.alive
      <4>1. None \in TransOrNone
        BY DEF TransOrNone
      <4> QED  BY <1>5, <4>1, BoundKeeps
    <3> HIDE DEF z
    <3> QED  BY <1>5, <3>1, <3>2
  <2>2. CASE y.ptr[g] # None
    <3>1. r \in Step(y, g)
      BY <1>2, <2>2
    <3> QED  BY <1>5, <2>2, <3>1, StepKeeps
  <2> QED  BY <2>1, <2>2
<1>7. owed' \in [Gens -> SUBSET Trans]
  <2>1. Wanted(s, g) \subseteq Trans
    BY <1>4, ListedIn DEF Wanted, Live, Sane
  <2>2. owed \in [Gens -> SUBSET Trans]
    BY DEF IInv
  <2>3. (IF used[g] THEN owed[g] ELSE Wanted(s, g)) \ {r.out} \in SUBSET Trans
    BY <2>1, <2>2
  <2> QED  BY <1>2, <2>2, <2>3
<1> QED  BY <1>1, <1>2, <1>3, <1>5, <1>6, <1>7 DEF IInv

LEMMA GeneratorStep ==
    ASSUME IInv, NEW g \in Gens, Rewind(g) \/ FreeGenerator(g)
    PROVE  IInv'
<1> DEFINE x == [st |-> s, ptr |-> ptr]
<1>1. Sane(x.st, x.ptr) /\ x.st = s
  BY DEF IInv
<1> HIDE DEF x
<1>2. CASE Rewind(g)
  <2>1. /\ s' = Reset(x, g).st /\ ptr' = Reset(x, g).ptr /\ s.alive
        /\ owed' = [owed EXCEPT ![g] = Wanted(s, g)] /\ used' = used /\ kept' = kept
    BY <1>2 DEF Rewind, x
  <2>2. /\ Sane(Reset(x, g).st, Reset(x, g).ptr) /\ Live(Reset(x, g).st) = Live(s)
        /\ Reset(x, g).st.alive
    BY <1>1, <2>1, ResetKeeps
  <2>3. Wanted(s, g) \subseteq Trans
    BY <1>1, ListedIn DEF Wanted, Live, Sane
  <2>4. owed' \in [Gens -> SUBSET Trans]
    BY <2>1, <2>3 DEF IInv
  <2> QED  BY <2>1, <2>2, <2>4 DEF IInv
<1>3. CASE FreeGenerator(g)
  <2>1. /\ s' = Freed(x, g).st /\ ptr' = Freed(x, g).ptr
        /\ owed' = [owed EXCEPT ![g] = {}] /\ used' = [used EXCEPT ![g] = FALSE]
        /\ kept' = kept
    BY <1>3 DEF FreeGenerator, x
  <2>2. /\ Sane(Freed(x, g).st, Freed(x, g).ptr) /\ Live(Freed(x, g).st) = Live(s)
        /\ Freed(x, g).st.alive = s.alive
    BY <1>1, FreedKeeps
  <2>3. owed' \in [Gens -> SUBSET Trans] /\ used' \in [Gens -> BOOLEAN]
    BY <2>1 DEF IInv
  <2> QED  BY <2>1, <2>2, <2>3 DEF IInv
<1> QED  BY <1>2, <1>3

LEMMA StateStep ==
    ASSUME IInv, AddState \/ Destroy
    PROVE  IInv'
<1>1. Sane(s, ptr) /\ s.alive
  BY DEF IInv, AddState, Destroy
<1>2. CASE AddState
  <2>1. s' = [s EXCEPT !.states = @ + 1] /\ s.states \in StateIds
    BY <1>2 DEF AddState
  <2>2. Sane(s', ptr) /\ Live(s') = Live(s) /\ s'.alive
    BY <1>1, <2>1, StateKeeps
  <2> QED  BY <1>1, <1>2, <2>2 DEF IInv, AddState
<1>3. CASE Destroy
  <2>1. s' = [s EXCEPT !.alive = FALSE, !.list = [q \in StateIds |-> <<>>],
                       !.first = None,
                       !.ref = [t \in Trans |-> IF t \in Live(s) THEN @[t] - 1 ELSE @[t]]]
    BY <1>3 DEF Destroy
  <2>2. /\ ptr' = ptr /\ used' = used /\ kept' = {} /\ owed' \in [Gens -> SUBSET Trans]
    BY <1>3 DEF Destroy
  <2>3. Sane(s', ptr) /\ ~ s'.alive
    BY <1>1, <2>1, DestroyKeeps
  <2> QED  BY <2>2, <2>3 DEF IInv
<1> QED  BY <1>2, <1>3

LEMMA NextIInv == IInv /\ [Next]_vars /\ [~ Revives]_vars => IInv'
<1> SUFFICES ASSUME IInv, [Next]_vars, ~ Revives \/ UNCHANGED vars PROVE IInv'
  OBVIOUS
<1>1. ASSUME AddState \/ Destroy PROVE IInv'
  BY <1>1, StateStep
<1>2. ASSUME ~ Revives, NEW q \in Starts, AddStartState(q) PROVE IInv'
  BY <1>2, AddStartStateStep
<1>3. ASSUME ~ Revives,
             NEW t \in Trans, NEW h \in Handles \cup {None}, AddTransition(t, h)
      PROVE  IInv'
  BY <1>3, AddTransitionStep
<1>4. ASSUME NEW t \in Trans, NEW b \in Pushed, NEW q \in StateIds,
             AddPushing(t.source, t.read, t.pop, b, q)
      PROVE  IInv'
  BY <1>4, AddPushingStep
<1>5. ASSUME NEW h \in Handles, RemoveTransition(h) PROVE IInv'
  BY <1>5, RemoveTransitionStep
<1>6. ASSUME NEW h \in Handles, ClearHandle(h) \/ \E i \in Handles : CopyHandle(h, i)
      PROVE  IInv'
  BY <1>6, HandleStep
<1>7. ASSUME NEW g \in Gens, MatchNext(g) PROVE IInv'
  BY <1>7, MatchNextStep
<1>8. ASSUME NEW g \in Gens, Rewind(g) \/ FreeGenerator(g) PROVE IInv'
  BY <1>8, GeneratorStep
<1>9. ASSUME UNCHANGED vars PROVE IInv'
  <2>1. s' = s /\ ptr' = ptr /\ used' = used /\ kept' = kept /\ owed' = owed
    BY <1>9 DEF vars
  <2> QED  BY <2>1 DEF IInv
<1> QED
  BY <1>1, <1>2, <1>3, <1>4, <1>5, <1>6, <1>7, <1>8, <1>9 DEF Next

-----------------------------------------------------------------------------

\* The inductive invariant: the counts, and the chains that they are about.  It
\* and what follows from it need that no step revives a transition that was
\* removed and is still held; make_transition gives such a one no count.
THEOREM Invariance == Spec /\ [][~ Revives]_vars => []IInv
<1>1. Init => IInv
  BY InitIInv
<1>2. IInv /\ [Next]_vars /\ [~ Revives]_vars => IInv'
  BY NextIInv
<1> QED  BY <1>1, <1>2, PTL DEF Spec

\* Every count of a transition is the number of its handles, of the cursors on
\* it and of the automaton, and it is in a chain exactly while it is counted
\* (Transition::hold and release), while no step revives a removed one.
THEOREM CountsExact == Spec /\ [][~ Revives]_vars => []RefExact
<1>1. IInv => RefExact
  <2> SUFFICES ASSUME IInv PROVE RefExact
    OBVIOUS
  <2>1. Sane(s, ptr) /\ s \in Stores
    BY DEF IInv, Sane, Shape
  <2>2. TypeOK
    BY <2>1, StoreFields DEF TypeOK, IInv, Sane, TransOrNone
  <2>3. ASSUME NEW t \in Trans
        PROVE  s.ref[t] = Cardinality({o \in Owners : ptr[o] = t})
                          + IF t \in Live(s) THEN 1 ELSE 0
    BY <2>1 DEF Sane, Counted, Pointing, Own
  <2>4. \A t \in Trans : s.alive => (t \in Listed(s) <=> s.ref[t] > 0)
    BY <2>1 DEF Sane, Counted
  <2> QED  BY <2>2, <2>3, <2>4 DEF RefExact
<1> QED  BY <1>1, Invariance, PTL

\* The automaton has what was added and not removed, each transition once
\* (make_transition, remove_transition), while no step revives a removed one.
THEOREM TransitionsAreKept == Spec /\ [][~ Revives]_vars => []TransitionsKept
<1>1. IInv => TransitionsKept
  BY DEF IInv, Sane, Shape, TransitionsKept, NoTwins
<1> QED  BY <1>1, Invariance, PTL

\* No handle and no cursor is on a transition that was freed (Transition::release),
\* while no step revives a removed one; after such a step one may be.
THEOREM NothingFreedEarly == Spec /\ [][~ Revives]_vars => []Sound
<1>1. IInv => Sound
  BY PointedAreListed DEF IInv, Sound
<1> QED  BY <1>1, Invariance, PTL

-----------------------------------------------------------------------------
(* Domination.  What is reached past A is the least closed set.               *)

LEMMA TransitionEnds ==
    ASSUME NEW G, IsGraph(G), NEW t \in Transitions(G)
    PROVE  t.source \in Nodes(G) /\ t.sink \in Nodes(G) /\ t \in ToSet(G.out[t.source])
<1>1. PICK q \in Nodes(G) : t \in ToSet(G.out[q]) BY DEF Transitions
<1> QED BY <1>1 DEF IsGraph

LEMMA ReachedClosed ==
    ASSUME NEW G, IsGraph(G), NEW A
    PROVE  Closed(G, A, Reached(G, A)) /\ Reached(G, A) \in SUBSET Nodes(G)
<1>1. G.start \in Nodes(G) BY DEF IsGraph
<1>2. G.start \in A \/ G.start \in Reached(G, A) BY <1>1 DEF Reached, Closed
<1>3. ASSUME NEW t \in Transitions(G), t.source \in Reached(G, A), t.sink \notin A
      PROVE  t.sink \in Reached(G, A)
  <2>1. t.sink \in Nodes(G) BY TransitionEnds
  <2>2. ASSUME NEW S \in SUBSET Nodes(G), Closed(G, A, S) PROVE t.sink \in S
    <3>1. t.source \in S BY <1>3, <2>2 DEF Reached
    <3> QED BY <1>3, <2>2, <3>1 DEF Closed
  <2> QED BY <2>1, <2>2 DEF Reached
<1>4. Reached(G, A) \in SUBSET Nodes(G) BY DEF Reached
<1> QED BY <1>2, <1>3, <1>4 DEF Closed

LEMMA ReachedLeast ==
    ASSUME NEW G, NEW A, NEW S \in SUBSET Nodes(G), Closed(G, A, S)
    PROVE  Reached(G, A) \subseteq S
BY DEF Reached

\* The start state dominates every state, and no other dominates it.
LEMMA StartDominates ==
    ASSUME NEW G, NEW q
    PROVE  Dominates(G, G.start, q)
<1>1. Closed(G, {G.start}, {}) BY DEF Closed
<1>2. Reached(G, {G.start}) \subseteq {} BY <1>1, ReachedLeast
<1> QED BY <1>2 DEF Dominates

LEMMA StartDominated ==
    ASSUME NEW G, IsGraph(G), NEW d, Dominates(G, d, G.start)
    PROVE  d = G.start
<1>1. G.start \in {d} \/ G.start \in Reached(G, {d}) BY ReachedClosed DEF Closed
<1> QED BY <1>1 DEF Dominates

\* What dominates a state, and is not it, dominates its predecessors.
LEMMA DominatesBack ==
    ASSUME NEW G, IsGraph(G), NEW t \in Transitions(G), NEW d, d # t.sink,
           Dominates(G, d, t.sink)
    PROVE  Dominates(G, d, t.source)
<1>1. Closed(G, {d}, Reached(G, {d})) BY ReachedClosed
<1> QED BY <1>1 DEF Dominates, Closed

LEMMA DominatesTransitive ==
    ASSUME NEW G, IsGraph(G), NEW c, NEW d, NEW q, Dominates(G, c, d), Dominates(G, d, q)
    PROVE  Dominates(G, c, q)
<1> SUFFICES ASSUME c # d, d # q, c # q, q \in Reached(G, {c}) PROVE FALSE
    BY DEF Dominates
<1> DEFINE S == Reached(G, {c}) \cap Reached(G, {d})
<1>1. d \notin Reached(G, {c}) /\ q \notin Reached(G, {d}) BY DEF Dominates
<1>2. Closed(G, {c}, Reached(G, {c})) /\ Closed(G, {d}, Reached(G, {d})) BY ReachedClosed
<1>3. Closed(G, {c}, S) BY <1>1, <1>2 DEF Closed
<1>4. S \in SUBSET Nodes(G) BY ReachedClosed
<1>5. Reached(G, {c}) \subseteq S
  <2> HIDE DEF S
  <2> QED BY <1>3, <1>4, ReachedLeast
<1> QED BY <1>1, <1>5

\* What dominates a state that is reached is reached.
LEMMA DominatorReached ==
    ASSUME NEW G, IsGraph(G), NEW d, NEW q \in Reached(G, {}), Dominates(G, d, q)
    PROVE  d \in Reached(G, {})
<1> SUFFICES ASSUME d \notin Reached(G, {}) PROVE FALSE OBVIOUS
<1> DEFINE S == Reached(G, {}) \cap Reached(G, {d})
<1>1. q \notin Reached(G, {d}) BY DEF Dominates
<1>2. Closed(G, {}, Reached(G, {})) /\ Closed(G, {d}, Reached(G, {d})) BY ReachedClosed
<1>3. Closed(G, {}, S) BY <1>2 DEF Closed
<1>4. S \in SUBSET Nodes(G) BY ReachedClosed
<1>5. Reached(G, {}) \subseteq S
  <2> HIDE DEF S
  <2> QED BY <1>3, <1>4, ReachedLeast
<1> QED BY <1>1, <1>5

\* Two states that dominate one that is reached: one dominates the other.
LEMMA DominatorsCompare ==
    ASSUME NEW G, IsGraph(G), NEW c, NEW d, NEW q \in Reached(G, {}), c # q, d # q,
           Dominates(G, c, q), Dominates(G, d, q)
    PROVE  Dominates(G, c, d) \/ Dominates(G, d, c)
<1> SUFFICES ASSUME c # d, d \in Reached(G, {c}), c \in Reached(G, {d}) PROVE FALSE
    BY DEF Dominates
<1> DEFINE S == Reached(G, {c}) \cup Reached(G, {d})
<1>1. q \notin S BY DEF Dominates
<1>2. Closed(G, {c}, Reached(G, {c})) /\ Closed(G, {d}, Reached(G, {d})) BY ReachedClosed
<1>3. Closed(G, {}, S) BY <1>2 DEF Closed
<1>4. S \in SUBSET Nodes(G) BY ReachedClosed
<1>5. Reached(G, {}) \subseteq S
  <2> HIDE DEF S
  <2> QED BY <1>3, <1>4, ReachedLeast
<1> QED BY <1>1, <1>5

LEMMA DominatesAntisymmetric ==
    ASSUME NEW G, IsGraph(G), NEW c \in Reached(G, {}), NEW d, Dominates(G, c, d), Dominates(G, d, c)
    PROVE  c = d
<1> SUFFICES ASSUME c # d PROVE FALSE OBVIOUS
<1> DEFINE S == Reached(G, {c}) \cap Reached(G, {d})
<1>1. d \notin Reached(G, {c}) /\ c \notin Reached(G, {d}) BY DEF Dominates
<1>2. Closed(G, {c}, Reached(G, {c})) /\ Closed(G, {d}, Reached(G, {d})) BY ReachedClosed
<1>3. c # G.start /\ d # G.start BY <1>1, <1>2, StartDominated
<1>4. Closed(G, {}, S) BY <1>1, <1>2, <1>3 DEF Closed
<1>5. S \in SUBSET Nodes(G) BY ReachedClosed
<1>6. Reached(G, {}) \subseteq S
  <2> HIDE DEF S
  <2> QED BY <1>4, <1>5, ReachedLeast
<1> QED BY <1>1, <1>6

-----------------------------------------------------------------------------
(* The immediate dominator.                                                   *)

\* What is left of a set after a turn of the loop.
Left(dom, D) ==
    LET p == Min(D)  q == Min(D \ {p})
    IN  D \ {IF q \notin dom[p] THEN p ELSE q}

LEMMA MinIn ==
    ASSUME NEW D \in SUBSET Nat, D # {}
    PROVE  Min(D) \in D
<1>1. \E n \in D : \A m \in D : n <= m BY LeastExists
<1> QED BY <1>1 DEF Min

LEMMA TwoLeast ==
    ASSUME NEW D \in SUBSET Nat, IsFiniteSet(D), ~ Cardinality(D) <= 1
    PROVE  Min(D) \in D /\ Min(D \ {Min(D)}) \in D \ {Min(D)}
<1>1. D # {} BY FS_EmptySet
<1>2. Min(D) \in D BY <1>1, MinIn
<1>3. D \ {Min(D)} # {}
  <2> SUFFICES ASSUME D = {Min(D)} PROVE FALSE BY <1>2
  <2>1. Cardinality({Min(D)}) = 1 BY FS_Singleton
  <2> QED BY <2>1
<1>4. D \ {Min(D)} \in SUBSET Nat OBVIOUS
<1>5. Min(D \ {Min(D)}) \in D \ {Min(D)}
  <2> DEFINE E == D \ {Min(D)}
  <2>1. E \in SUBSET Nat /\ E # {} BY <1>3, <1>4
  <2> HIDE DEF E
  <2>2. Min(E) \in E BY <2>1, MinIn
  <2> QED BY <2>2 DEF E
<1> QED BY <1>2, <1>5

LEMMA LeftSmaller ==
    ASSUME NEW D \in SUBSET Nat, IsFiniteSet(D), ~ Cardinality(D) <= 1, NEW dom
    PROVE  /\ Left(dom, D) \in SUBSET D
           /\ Cardinality(Left(dom, D)) < Cardinality(D)
<1> DEFINE p == Min(D)
           q == Min(D \ {p})
           r == IF q \notin dom[p] THEN p ELSE q
<1>1. p \in D /\ q \in D \ {p} BY TwoLeast
<1>2. Left(dom, D) = D \ {r} BY DEF Left
<1> HIDE DEF p, q
<1>3. r \in D BY <1>1
<1> HIDE DEF r
<1>4. Cardinality(D \ {r}) = Cardinality(D) - 1 /\ Cardinality(D) \in Nat
      BY <1>3, FS_RemoveElement, FS_CardinalityType
<1> QED BY <1>2, <1>4

\* What holds of the set at first, and after each turn, holds of the set whose
\* one member is returned.
LEMMA ClosestStops ==
    ASSUME NEW S \in SUBSET Nat, IsFiniteSet(S), NEW dom, NEW I \in SUBSET SUBSET S, S \in I,
           \A D \in I : ~ Cardinality(D) <= 1 => Left(dom, D) \in I
    PROVE  \E D \in I : Cardinality(D) <= 1 /\ Closest(dom, S) = CHOOSE q \in D : TRUE
<1> DEFINE P      == SUBSET S
           stop   == {D \in P : Cardinality(D) <= 1}
           any(D) == CHOOSE q \in D : TRUE
           base   == [D \in P |-> any(D)]
           V      == {any(D) : D \in P}
           nx     == [D \in P |-> IF Cardinality(D) <= 1 THEN D ELSE Left(dom, D)]
           mu     == [D \in P |-> Cardinality(D)]
           F(f)   == [D \in P |-> IF Cardinality(D) <= 1 THEN any(D) ELSE f[Left(dom, D)]]
           loop   == CHOOSE f : f = F(f)
<1>1. Closest(dom, S) = loop[S]
  <2>1. Closest(dom, S)
        = (CHOOSE f : f = [D \in SUBSET S |->
              IF Cardinality(D) <= 1 THEN CHOOSE q \in D : TRUE
              ELSE f[D \ {IF Min(D \ {Min(D)}) \notin dom[Min(D)] THEN Min(D) ELSE Min(D \ {Min(D)})}]])[S]
        BY Zenon DEF Closest
  <2> QED BY <2>1, Zenon DEF Left
<1>2. ASSUME NEW D \in P PROVE D \in SUBSET Nat /\ IsFiniteSet(D) /\ Cardinality(D) \in Nat
  <2>1. IsFiniteSet(D) BY FS_Subset
  <2> QED BY <2>1, FS_CardinalityType
<1>3. Descends(P, stop, nx, mu)
  <2> HIDE DEF P
  <2>1. ASSUME NEW D \in P, ~ Cardinality(D) <= 1
        PROVE  Left(dom, D) \in P /\ Cardinality(Left(dom, D)) < Cardinality(D)
    <3>1. Left(dom, D) \in SUBSET D /\ Cardinality(Left(dom, D)) < Cardinality(D)
          BY <1>2, <2>1, LeftSmaller
    <3> QED BY <3>1 DEF P
  <2>2. nx \in [P -> P] BY <2>1
  <2>3. mu \in [P -> Nat] BY <1>2
  <2>4. \A D \in P \ stop : mu[nx[D]] < mu[D] BY <2>1
  <2> QED BY <2>2, <2>3, <2>4 DEF Descends
<1>4. base \in [P -> V] OBVIOUS
<1>5. PICK f \in [P -> V] : Loops(P, stop, nx, base, f)
  <2> HIDE DEF P, stop, nx, mu, base, V
  <2> QED BY <1>3, <1>4, LoopExists
<1>6. ASSUME NEW D \in P PROVE f[D] = F(f)[D]
  <2>1. f[D] = IF D \in stop THEN base[D] ELSE f[nx[D]]
    <3> HIDE DEF P, stop, nx, base
    <3> QED BY <1>5 DEF Loops
  <2> QED BY <2>1
<1>7. f = F(f)
  <2> HIDE DEF P, V
  <2> QED BY <1>6
<1>8. loop = F(loop)
  <2> HIDE DEF F
  <2> QED BY <1>7
<1> HIDE DEF loop
<1>9. Loops(P, stop, nx, base, loop)
  <2>1. ASSUME NEW D \in P PROVE loop[D] = IF D \in stop THEN base[D] ELSE loop[nx[D]]
    <3>1. loop[D] = F(loop)[D] BY <1>8, Zenon
    <3> QED BY <3>1
  <2> HIDE DEF P, stop, nx, base
  <2> QED BY <2>1 DEF Loops
<1>10. I \subseteq P /\ \A D \in I \ stop : nx[D] \in I OBVIOUS
<1>11. PICK D \in I \cap stop : loop[S] = base[D]
  <2> HIDE DEF P, stop, nx, mu, base
  <2> QED BY <1>3, <1>9, <1>10, LoopEnds
<1>12. D \in I /\ Cardinality(D) <= 1 /\ base[D] = CHOOSE q \in D : TRUE BY <1>11
<1> QED BY <1>1, <1>11, <1>12

\* Of the strict dominators of a state that is reached, the loop finds the one
\* that all dominate.
LEMMA ClosestRight ==
    ASSUME NEW G, IsGraph(G), NEW q \in Reached(G, {}), q # G.start,
           NEW dom, \A p \in Nodes(G) : dom[p] = {d \in Nodes(G) : Dominates(G, d, p)}
    PROVE  /\ ImmediateDominator(dom, q) \in Strict(G, q)
           /\ \A c \in Strict(G, q) : Dominates(G, c, ImmediateDominator(dom, q))
<1> DEFINE S == Strict(G, q)
           Led(D) == \A c \in S : \E d \in D : Dominates(G, c, d)
           I == {D \in SUBSET S : D # {} /\ Led(D)}
<1>1. q \in Nodes(G) /\ G.start \in Nodes(G) BY DEF IsGraph, Reached
<1>2. dom[q] \ {q} = S BY <1>1 DEF Strict
<1>3. S \in SUBSET Nat /\ IsFiniteSet(S) /\ S \in SUBSET Nodes(G)
  <2>1. S \in SUBSET Nodes(G) BY DEF Strict
  <2> QED BY <2>1, FS_Subset DEF IsGraph
<1>4. S \in I
  <2>1. G.start \in S BY <1>1, StartDominates DEF Strict
  <2>2. \A c \in S : Dominates(G, c, c) BY DEF Dominates
  <2> QED BY <2>1, <2>2
<1>5. ASSUME NEW D \in I, ~ Cardinality(D) <= 1 PROVE Left(dom, D) \in I
  <2> DEFINE p == Min(D)
             r == Min(D \ {p})
  <2>1. D \in SUBSET S /\ D # {} /\ Led(D) OBVIOUS
  <2>2. D \in SUBSET Nat /\ IsFiniteSet(D) BY <1>3, <2>1, FS_Subset
  <2>3. p \in D /\ r \in D /\ p # r BY <1>5, <2>2, TwoLeast
  <2>4. Left(dom, D) = D \ {IF r \notin dom[p] THEN p ELSE r} BY DEF Left
  <2> HIDE DEF p, r, I, Led, S
  <2>5. /\ p \in Nodes(G) /\ p # q /\ Dominates(G, p, q)
        /\ r \in Nodes(G) /\ r # q /\ Dominates(G, r, q)
        BY <2>1, <2>3 DEF S, Strict
  <2>6. r \in dom[p] <=> Dominates(G, r, p) BY <2>5
  <2>7. Dominates(G, p, r) \/ Dominates(G, r, p) BY <2>5, DominatorsCompare
  <2>8. ASSUME NEW x \in D, NEW y \in D, x # y, Dominates(G, x, y) PROVE D \ {x} \in I
    <3>1. ASSUME NEW c \in S PROVE \E d \in D \ {x} : Dominates(G, c, d)
      <4>1. PICK d \in D : Dominates(G, c, d) BY <2>1 DEF Led
      <4>2. CASE d # x BY <4>1, <4>2
      <4>3. CASE d = x
        <5>1. Dominates(G, c, y) BY <2>8, <4>1, <4>3, DominatesTransitive
        <5> QED BY <2>8, <5>1
      <4> QED BY <4>2, <4>3
    <3> QED BY <2>1, <2>8, <3>1 DEF I, Led
  <2> QED BY <2>3, <2>4, <2>6, <2>7, <2>8
<1>6. PICK D \in I : Cardinality(D) <= 1 /\ Closest(dom, S) = CHOOSE d \in D : TRUE
  <2>1. I \in SUBSET SUBSET S OBVIOUS
  <2> HIDE DEF I, S
  <2> QED BY <1>3, <1>4, <1>5, <2>1, ClosestStops
<1>7. PICK d : D = {d}
  <2>1. D \in SUBSET S /\ D # {} OBVIOUS
  <2>2. IsFiniteSet(D) BY <1>3, <2>1, FS_Subset
  <2>3. Cardinality(D) # 0 /\ Cardinality(D) \in Nat BY <2>1, <2>2, FS_EmptySet, FS_CardinalityType
  <2>4. Cardinality(D) = 1 BY <1>6, <2>3
  <2> QED BY <2>2, <2>4, FS_Singleton
<1>8. Closest(dom, S) = d BY <1>6, <1>7
<1>9. ImmediateDominator(dom, q) = d BY <1>2, <1>8 DEF ImmediateDominator
<1> QED BY <1>7, <1>9

-----------------------------------------------------------------------------
(* The successors that are enqueued.                                          *)

LEMMA AppendedSet ==
    ASSUME NEW V, NEW u \in Seq(V), NEW v \in V
    PROVE  Append(u, v) \in Seq(V) /\ ToSet(Append(u, v)) = ToSet(u) \cup {v}
           /\ Len(Append(u, v)) = Len(u) + 1
<1>1. /\ Append(u, v) \in Seq(V) /\ Len(Append(u, v)) = Len(u) + 1
      /\ \A i \in 1 .. Len(u) : Append(u, v)[i] = u[i]
      /\ Append(u, v)[Len(u) + 1] = v
      BY AppendProperties
<1>2. DOMAIN u = 1 .. Len(u) /\ DOMAIN Append(u, v) = 1 .. Len(u) + 1 /\ Len(u) \in Nat
      BY <1>1, LenProperties
<1>3. 1 .. Len(u) + 1 = (1 .. Len(u)) \cup {Len(u) + 1} BY <1>2
<1> QED BY <1>1, <1>2, <1>3 DEF ToSet

LEMMA SuccessorsRight ==
    ASSUME NEW T, NEW l \in Seq(T), NEW q
    PROVE  /\ Successors(l, q) \in Seq({l[i].sink : i \in DOMAIN l})
           /\ ToSet(Successors(l, q)) = {l[i].sink : i \in DOMAIN l} \ {q}
           /\ Len(Successors(l, q)) <= Len(l)
<1> DEFINE n    == Len(l)
           D    == 0 .. n
           V    == {l[i].sink : i \in DOMAIN l}
           step(i, v) == IF i = 0 THEN v ELSE IF l[i].sink = q THEN v ELSE Append(v, l[i].sink)
           nx   == [i \in D |-> IF i = 0 THEN 0 ELSE i - 1]
           mu   == [i \in D |-> i]
           base == [i \in D |-> <<>>]
           g    == [i \in D |-> [v \in Seq(V) |-> step(i, v)]]
           F(f) == [i \in D |-> IF i = 0 THEN <<>>
                                ELSE IF l[i].sink = q THEN f[i - 1] ELSE Append(f[i - 1], l[i].sink)]
           after == CHOOSE f : f = F(f)
<1>1. n \in Nat /\ DOMAIN l = 1 .. n /\ n \in D /\ \A i \in D : i # 0 => i - 1 \in D /\ i \in DOMAIN l
      BY LenProperties
<1>2. Successors(l, q) = after[n] BY Zenon DEF Successors
<1>3. <<>> \in Seq(V) /\ ToSet(<<>>) = {} /\ Len(<<>>) = 0 BY DEF ToSet
<1>4. ASSUME NEW i \in D, NEW v \in Seq(V) PROVE step(i, v) \in Seq(V)
  <2>1. CASE i = 0 BY <2>1
  <2>2. CASE i # 0
    <3>1. l[i].sink \in V BY <1>1, <2>2
    <3> HIDE DEF V
    <3> QED BY <2>2, <3>1, AppendedSet
  <2> QED BY <2>1, <2>2
<1>5. Descends(D, {0}, nx, mu)
  <2>1. nx \in [D -> D] /\ mu \in [D -> Nat] /\ \A i \in D : mu[i] = i /\ (i # 0 => nx[i] = i - 1)
        BY <1>1
  <2> HIDE DEF nx, mu
  <2> QED BY <1>1, <2>1 DEF Descends
<1>6. base \in [D -> Seq(V)] /\ g \in [D -> [Seq(V) -> Seq(V)]]
  <2> HIDE DEF step, D, V
  <2> QED BY <1>3, <1>4
<1>7. PICK f \in [D -> Seq(V)] : Recurses(D, {0}, nx, base, g, f)
  <2> HIDE DEF D, nx, mu, base, g, V
  <2> QED BY <1>5, <1>6, DescentExists
<1>8. ASSUME NEW i \in D PROVE f[i] = F(f)[i]
  <2>1. f[i] = Unfolded({0}, nx, base, g, f, i)
    <3> HIDE DEF D, nx, base, g, V
    <3> QED BY <1>7 DEF Recurses
  <2>2. base[i] = <<>> /\ nx[i] = (IF i = 0 THEN 0 ELSE i - 1) OBVIOUS
  <2>3. CASE i = 0
    <3>1. f[i] = base[i]
      <4> HIDE DEF base, nx, g, D, V
      <4> QED BY <2>1, <2>3 DEF Unfolded
    <3> QED BY <2>2, <2>3, <3>1
  <2>4. CASE i # 0
    <3>1. i - 1 \in D /\ f[i - 1] \in Seq(V) BY <1>1, <2>4
    <3>2. g[i][f[i - 1]] = step(i, f[i - 1]) BY <3>1
    <3>3. f[i] = step(i, f[i - 1])
      <4> HIDE DEF base, nx, g, D, V, step
      <4> QED BY <2>1, <2>2, <2>4, <3>2 DEF Unfolded
    <3> QED BY <2>4, <3>3
  <2> QED BY <2>3, <2>4
<1>9. f = F(f)
  <2> HIDE DEF V, D
  <2> QED BY <1>8
<1>10. after = F(after)
  <2> HIDE DEF F
  <2> QED BY <1>9
<1> HIDE DEF after
<1>11. \A i \in D : after[i] = IF i = 0 THEN <<>>
                               ELSE IF l[i].sink = q THEN after[i - 1] ELSE Append(after[i - 1], l[i].sink)
  <2>1. \A i \in D : after[i] = F(after)[i] BY <1>10, Zenon
  <2> HIDE DEF D
  <2> QED BY <2>1
<1> DEFINE U(i) == {l[j].sink : j \in 1 .. i} \ {q}
           Good(i) == after[i] \in Seq(V) /\ ToSet(after[i]) = U(i) /\ Len(after[i]) <= i
           S == {i \in D : Good(i)}
<1>12. ASSUME NEW i \in D, i \in {0} \/ nx[i] \in S PROVE i \in S
  <2>1. CASE i = 0
    <3>1. after[i] = <<>> BY <1>11, <2>1
    <3>2. U(0) = {} OBVIOUS
    <3> QED BY <1>3, <2>1, <3>1, <3>2
  <2>2. CASE i # 0
    <3>1. i - 1 \in D /\ i \in Nat /\ i \in DOMAIN l /\ nx[i] = i - 1 BY <1>1, <2>2
    <3>2. Good(i - 1) BY <1>12, <2>2, <3>1
    <3>3. U(i) = U(i - 1) \cup ({l[i].sink} \ {q})
      <4>1. 1 .. i = (1 .. i - 1) \cup {i} BY <2>2, <3>1
      <4> QED BY <4>1
    <3>4. l[i].sink \in V BY <3>1
    <3> DEFINE b == after[i - 1]
    <3>5. b \in Seq(V) /\ ToSet(b) = U(i - 1) /\ Len(b) <= i - 1 /\ Len(b) \in Nat
          BY <3>2, LenProperties
    <3>6. after[i] = IF l[i].sink = q THEN b ELSE Append(b, l[i].sink) BY <1>11, <2>2
    <3> HIDE DEF b, U, V
    <3>7. CASE l[i].sink = q
      <4>1. U(i) = U(i - 1) BY <3>3, <3>7
      <4>2. Len(after[i]) <= i BY <3>1, <3>5, <3>6, <3>7
      <4> QED BY <3>5, <3>6, <3>7, <4>1, <4>2
    <3>8. CASE l[i].sink # q
      <4>1. U(i) = U(i - 1) \cup {l[i].sink} BY <3>3, <3>8
      <4>2. /\ Append(b, l[i].sink) \in Seq(V) /\ ToSet(Append(b, l[i].sink)) = ToSet(b) \cup {l[i].sink}
            /\ Len(Append(b, l[i].sink)) = Len(b) + 1
            BY <3>4, <3>5, AppendedSet
      <4>3. Len(after[i]) <= i BY <3>1, <3>5, <3>6, <3>8, <4>2
      <4> QED BY <3>5, <3>6, <3>8, <4>1, <4>2, <4>3
    <3> QED BY <3>7, <3>8
  <2> QED BY <2>1, <2>2
<1>13. D \subseteq S
  <2> HIDE DEF S, D, nx, mu
  <2> QED BY <1>5, <1>12, DescentCovers
<1>14. Good(n) BY <1>1, <1>13
<1> QED BY <1>1, <1>2, <1>14

-----------------------------------------------------------------------------
(* How long the loop turns.  There is room for t and d while the state d is   *)
(* among the dominators of the source of t and is not that source.             *)

Room(G, dom) ==
    {p \in Transitions(G) \X Nodes(G) : p[2] \in dom[p[1].source] /\ p[2] # p[1].source}

LEMMA ChainCount ==
    ASSUME NEW G, IsGraph(G), NEW q \in Nodes(G)
    PROVE  /\ ToSet(G.out[q]) \in SUBSET Transitions(G) /\ \A t \in ToSet(G.out[q]) : t.source = q
           /\ IsFiniteSet(ToSet(G.out[q])) /\ Cardinality(ToSet(G.out[q])) = Len(G.out[q])
           /\ Len(G.out[q]) \in Nat
<1> DEFINE l == G.out[q]
           D == 1 .. Len(l)
<1>1. /\ l \in Seq(Transitions(G)) /\ \A i, j \in DOMAIN l : l[i] = l[j] => i = j
      /\ \A t \in ToSet(l) : t.source = q
      BY DEF IsGraph, IsInjective
<1>2. ToSet(l) \in SUBSET Transitions(G) BY DEF Transitions
<1> HIDE DEF l
<1>3. DOMAIN l = D /\ Len(l) \in Nat BY <1>1, LenProperties
<1>4. IsFiniteSet(D) /\ Cardinality(D) = Len(l)
  <2> DEFINE n == Len(l)
  <2>1. n \in Int /\ 1 \in Int /\ 0 <= n BY <1>3
  <2> HIDE DEF n
  <2>2. IsFiniteSet(1 .. n) /\ Cardinality(1 .. n) = IF 1 > n THEN 0 ELSE n - 1 + 1
        BY <2>1, FS_Interval
  <2>3. Cardinality(1 .. n) = n BY <2>1, <2>2
  <2> QED BY <2>2, <2>3 DEF n
<1> DEFINE f == [i \in D |-> l[i]]
<1>5. f \in Bijection(D, ToSet(l))
  <2>1. f \in [D -> ToSet(l)] BY <1>3 DEF ToSet
  <2>2. \A i, j \in D : f[i] = f[j] => i = j BY <1>1, <1>3
  <2>3. \A t \in ToSet(l) : \E i \in D : f[i] = t BY <1>3 DEF ToSet
  <2> HIDE DEF D, f
  <2>4. IsInjective(f)
    <3>1. DOMAIN f = D BY <2>1
    <3> QED BY <2>2, <3>1 DEF IsInjective
  <2> QED BY <2>1, <2>3, <2>4 DEF Bijection, Injection, Surjection
<1>6. ExistsBijection(D, ToSet(l))
  <2> HIDE DEF D, f
  <2> QED BY <1>5 DEF ExistsBijection
<1>7. IsFiniteSet(ToSet(l)) /\ Cardinality(ToSet(l)) = Cardinality(D)
  <2> HIDE DEF D
  <2> QED BY <1>4, <1>6, FS_Bijection
<1> QED BY <1>1, <1>2, <1>3, <1>4, <1>7 DEF l

LEMMA TransitionsFinite ==
    ASSUME NEW G, IsGraph(G)
    PROVE  IsFiniteSet(Transitions(G))
<1> DEFINE N == Nodes(G)
           C == {ToSet(G.out[q]) : q \in N}
           f == [q \in N |-> ToSet(G.out[q])]
<1>1. IsFiniteSet(N) BY DEF IsGraph
<1>2. f \in Surjection(N, C)
  <2>1. f \in [N -> C] OBVIOUS
  <2>2. \A c \in C : \E q \in N : f[q] = c OBVIOUS
  <2> HIDE DEF f, C, N
  <2> QED BY <2>1, <2>2 DEF Surjection
<1>3. IsFiniteSet(C)
  <2> HIDE DEF f, C, N
  <2> QED BY <1>1, <1>2, FS_Surjection
<1>4. \A c \in C : IsFiniteSet(c) BY ChainCount
<1>5. IsFiniteSet(UNION C)
  <2> HIDE DEF C
  <2> QED BY <1>3, <1>4, FS_UNION
<1> QED BY <1>5 DEF Transitions

\* The chain of q with one state is as large as the chain.
LEMMA ChainTimesOne ==
    ASSUME NEW G, IsGraph(G), NEW q \in Nodes(G), NEW d
    PROVE  IsFiniteSet(ToSet(G.out[q]) \X {d}) /\ Cardinality(ToSet(G.out[q]) \X {d}) = Len(G.out[q])
<1> DEFINE C == ToSet(G.out[q])
           P == C \X {d}
<1>1. IsFiniteSet(C) /\ Cardinality(C) = Len(G.out[q]) /\ Len(G.out[q]) \in Nat BY ChainCount
<1>2. IsFiniteSet({d}) /\ Cardinality({d}) = 1 BY FS_Singleton
<1> HIDE DEF C
<1>3. IsFiniteSet(P) /\ Cardinality(P) = Cardinality(C) * Cardinality({d}) BY <1>1, <1>2, FS_Product
<1> QED BY <1>1, <1>2, <1>3 DEF C

\* Of two disjoint parts of a finite set.
LEMMA PartsCount ==
    ASSUME NEW S, IsFiniteSet(S), NEW A \in SUBSET S, NEW B \in SUBSET S, A \cap B = {}
    PROVE  /\ Cardinality(A) + Cardinality(B) <= Cardinality(S)
           /\ Cardinality(A) \in Nat /\ Cardinality(B) \in Nat /\ Cardinality(S) \in Nat
<1>1. IsFiniteSet(A) /\ IsFiniteSet(B) BY FS_Subset
<1>2. Cardinality(A \cup B) = Cardinality(A) + Cardinality(B) - Cardinality(A \cap B)
      BY <1>1, FS_Union
<1>3. Cardinality(A \cap B) = 0 BY FS_EmptySet
<1>4. A \cup B \in SUBSET S OBVIOUS
<1>5. Cardinality(A \cup B) <= Cardinality(S) BY <1>4, FS_Subset
<1>6. Cardinality(A) \in Nat /\ Cardinality(B) \in Nat /\ Cardinality(S) \in Nat
      BY <1>1, FS_CardinalityType
<1> QED BY <1>2, <1>3, <1>5, <1>6

LEMMA RoomFinite ==
    ASSUME NEW G, IsGraph(G), NEW dom
    PROVE  IsFiniteSet(Room(G, dom)) /\ Cardinality(Room(G, dom)) \in Nat
<1>1. IsFiniteSet(Transitions(G) \X Nodes(G)) BY TransitionsFinite, FS_Product DEF IsGraph
<1>2. Room(G, dom) \in SUBSET (Transitions(G) \X Nodes(G)) BY DEF Room
<1>3. IsFiniteSet(Room(G, dom)) BY <1>1, <1>2, FS_Subset
<1> QED BY <1>3, FS_CardinalityType

LEMMA RoomAtFirst ==
    ASSUME NEW G, IsGraph(G), NEW dom, dom[G.start] = {G.start}
    PROVE  Cardinality(Room(G, dom)) + Len(G.out[G.start]) <= Cardinality(Transitions(G)) * Cardinality(Nodes(G))
<1> DEFINE T == Transitions(G)
           N == Nodes(G)
           A == Room(G, dom)
           B == ToSet(G.out[G.start]) \X {G.start}
<1>1. G.start \in N /\ IsFiniteSet(N) /\ IsFiniteSet(T) BY TransitionsFinite DEF IsGraph
<1>2. IsFiniteSet(T \X N) /\ Cardinality(T \X N) = Cardinality(T) * Cardinality(N)
  <2> HIDE DEF T, N
  <2> QED BY <1>1, FS_Product
<1>3. A \in SUBSET (T \X N) BY DEF Room
<1>4. B \in SUBSET (T \X N) /\ \A p \in B : p[1].source = G.start BY <1>1, ChainCount
<1>5. A \cap B = {} BY <1>4 DEF Room
<1>6. Cardinality(B) = Len(G.out[G.start]) BY <1>1, ChainTimesOne
<1>7. Cardinality(A) + Cardinality(B) <= Cardinality(T \X N)
  <2> HIDE DEF A, B, T, N
  <2> QED BY <1>2, <1>3, <1>4, <1>5, PartsCount
<1> QED BY <1>2, <1>6, <1>7

\* When a set of dominators shrinks, there is less room by its successors.
LEMMA RoomShrinks ==
    ASSUME NEW G, IsGraph(G), NEW dom \in [Nodes(G) -> SUBSET Nodes(G)],
           NEW q \in Nodes(G), NEW D \in SUBSET dom[q], q \in D, D # dom[q]
    PROVE  Cardinality(Room(G, [dom EXCEPT ![q] = D])) + Len(G.out[q]) <= Cardinality(Room(G, dom))
<1> DEFINE T == Transitions(G)
           N == Nodes(G)
           e == [dom EXCEPT ![q] = D]
           A == Room(G, e)
<1>1. PICK d \in dom[q] : d \notin D OBVIOUS
<1> DEFINE B == ToSet(G.out[q]) \X {d}
<1>2. e[q] = D /\ \A p \in N : e[p] \in SUBSET dom[p] OBVIOUS
<1>3. \A t \in T : t.source \in N BY TransitionEnds
<1> HIDE DEF e
<1>4. A \in SUBSET Room(G, dom) BY <1>2, <1>3 DEF Room
<1>5. \A p \in B : p[1] \in T /\ p[1].source = q /\ p[2] = d BY ChainCount
<1>6. B \in SUBSET Room(G, dom)
  <2>1. d \in N /\ d # q BY <1>1
  <2>2. B \in SUBSET (T \X N) BY <1>5, <2>1
  <2> QED BY <1>1, <1>5, <2>1, <2>2 DEF Room
<1>7. A \cap B = {} BY <1>1, <1>2, <1>5 DEF Room
<1>8. Cardinality(B) = Len(G.out[q]) BY ChainTimesOne
<1>9. Cardinality(A) + Cardinality(B) <= Cardinality(Room(G, dom))
  <2> HIDE DEF A, B
  <2> QED BY <1>4, <1>6, <1>7, RoomFinite, PartsCount
<1> QED BY <1>8, <1>9 DEF e

LEMMA RoomKept ==
    ASSUME NEW G, IsGraph(G), NEW dom \in [Nodes(G) -> SUBSET Nodes(G)],
           NEW q \in Nodes(G), NEW D \in SUBSET dom[q]
    PROVE  Cardinality(Room(G, [dom EXCEPT ![q] = D])) <= Cardinality(Room(G, dom))
<1> DEFINE e == [dom EXCEPT ![q] = D]
<1>1. \A p \in Nodes(G) : e[p] \in SUBSET dom[p] OBVIOUS
<1>2. \A t \in Transitions(G) : t.source \in Nodes(G) BY TransitionEnds
<1> HIDE DEF e
<1>3. Room(G, e) \in SUBSET Room(G, dom) BY <1>1, <1>2 DEF Room
<1>4. Cardinality(Room(G, e)) <= Cardinality(Room(G, dom)) BY <1>3, RoomFinite, FS_Subset
<1> QED BY <1>4 DEF e

-----------------------------------------------------------------------------
(* The invariant of the algorithm.                                            *)

Tree(G, dom) ==
    {<<t.source, t.sink>> : t \in Transitions(G) \ ToSet(G.found)}
        \cup {<<ImmediateDominator(dom, q), q>> : q \in Nodes(G) \ {G.start}}

DomTypeOK ==
    /\ graph \in Graphs
    /\ doms \in [Nodes(graph) -> SUBSET Nodes(graph)]
    /\ queue \in Seq(Nodes(graph))
    /\ visits \in Nat
    /\ domPhase \in {"meet", "done"}

\* No dominator was taken away, and the start state has itself alone.
Kept ==
    /\ \A q \in Nodes(graph) : \A d \in Nodes(graph) : Dominates(graph, d, q) => d \in doms[q]
    /\ doms[graph.start] = {graph.start}

\* What t leads to has but dominators of the source of t, and itself.
Settled(dom, t) == dom[t.sink] \subseteq dom[t.source] \cup {t.sink}

\* If it has not, then it is in the queue, or the loop has not turned yet.
Pending ==
    NoneMissed(graph) =>
        \A t \in Transitions(graph) :
            \/ t.source = t.sink \/ Settled(doms, t)
            \/ t.sink \in ToSet(queue)
            \/ (force /\ t.source = graph.start)

FirstTurn == force => queue = <<graph.start>> /\ visits = 0

\* A state is enqueued in the room a set of dominators has lost.
Budget ==
    ~ force => visits + Len(queue) + Cardinality(Room(graph, doms))
               <= 1 + Cardinality(Transitions(graph)) * Cardinality(Nodes(graph))

TreeMade == domPhase = "done" => queue = <<>> /\ edges = Tree(graph, doms)

DomInv == DomTypeOK /\ Kept /\ Pending /\ FirstTurn /\ Budget /\ TreeMade

LEMMA DomInvInit == DomInit => DomInv
<1> SUFFICES ASSUME DomInit PROVE DomInv OBVIOUS
<1>1. graph \in Graphs /\ IsGraph(graph) BY GraphsAssumption DEF DomInit
<1>2. graph.start \in Nodes(graph) BY <1>1 DEF IsGraph
<1>3. DomTypeOK BY <1>1, <1>2 DEF DomTypeOK, DomInit
<1>4. doms[graph.start] = {graph.start} BY <1>2 DEF DomInit
<1>5. Kept
  <2>1. ASSUME NEW q \in Nodes(graph), NEW d \in Nodes(graph), Dominates(graph, d, q)
        PROVE d \in doms[q]
    <3>1. CASE q = graph.start
      <4>1. d = graph.start BY <1>1, <2>1, <3>1, StartDominated
      <4> QED BY <1>4, <3>1, <4>1
    <3>2. CASE q # graph.start BY <3>2 DEF DomInit
    <3> QED BY <3>1, <3>2
  <2> QED BY <1>4, <2>1 DEF Kept
<1>6. Pending
  <2>1. ASSUME NEW t \in Transitions(graph) PROVE Settled(doms, t) \/ (force /\ t.source = graph.start)
    <3>1. t.source \in Nodes(graph) /\ t.sink \in Nodes(graph) BY <1>1, TransitionEnds
    <3>2. CASE t.source = graph.start BY <3>2 DEF DomInit
    <3>3. CASE t.source # graph.start
      <4>1. doms[t.source] = Nodes(graph) BY <3>1, <3>3 DEF DomInit
      <4>2. doms[t.sink] \subseteq Nodes(graph) BY <1>3, <3>1 DEF DomTypeOK
      <4> QED BY <4>1, <4>2 DEF Settled
    <3> QED BY <3>2, <3>3
  <2> QED BY <2>1 DEF Pending
<1> QED BY <1>3, <1>5, <1>6 DEF DomInv, FirstTurn, Budget, TreeMade, DomInit

LEMMA QueueAfter ==
    ASSUME NEW N, NEW u \in Seq(N), u # <<>>, NEW v \in Seq(N)
    PROVE  /\ Head(u) \in N /\ Len(u) \in Nat /\ Len(v) \in Nat
           /\ Tail(u) \o v \in Seq(N) /\ Len(Tail(u) \o v) = Len(u) - 1 + Len(v)
           /\ ToSet(u) \ {Head(u)} \subseteq ToSet(Tail(u) \o v)
           /\ ToSet(v) \subseteq ToSet(Tail(u) \o v)
<1> DEFINE w == Tail(u)
           z == w \o v
<1>1. /\ Head(u) = u[1] /\ Head(u) \in N /\ Len(u) \in Nat /\ Len(u) # 0 /\ Len(v) \in Nat
      /\ w \in Seq(N) /\ Len(w) = Len(u) - 1 /\ \A i \in 1 .. Len(w) : w[i] = u[i + 1]
      BY HeadTailProperties, EmptySeq, LenProperties
<1> HIDE DEF w
<1>2. /\ z \in Seq(N) /\ Len(z) = Len(w) + Len(v)
      /\ \A i \in 1 .. Len(w) : z[i] = w[i]
      /\ \A i \in 1 .. Len(v) : z[Len(w) + i] = v[i]
  <2>1. /\ z \in Seq(N) /\ Len(z) = Len(w) + Len(v)
        /\ \A i \in 1 .. Len(w) + Len(v) : z[i] = IF i <= Len(w) THEN w[i] ELSE v[i - Len(w)]
        BY <1>1, ConcatProperties
  <2>2. Len(w) \in Nat BY <1>1, LenProperties
  <2> HIDE DEF z
  <2>3. \A i \in 1 .. Len(w) : z[i] = w[i] BY <1>1, <2>1, <2>2
  <2>4. ASSUME NEW i \in 1 .. Len(v) PROVE z[Len(w) + i] = v[i]
    <3>1. Len(w) + i \in 1 .. Len(w) + Len(v) /\ ~ Len(w) + i <= Len(w) /\ Len(w) + i - Len(w) = i
          BY <1>1, <2>2
    <3> QED BY <2>1, <3>1
  <2> QED BY <2>1, <2>3, <2>4
<1>3. DOMAIN u = 1 .. Len(u) /\ DOMAIN v = 1 .. Len(v) /\ DOMAIN z = 1 .. Len(z) /\ Len(w) \in Nat
      BY <1>1, <1>2, LenProperties
<1> HIDE DEF z
<1>4. ASSUME NEW i \in 1 .. Len(u), u[i] # u[1] PROVE u[i] \in ToSet(z)
  <2>1. i - 1 \in 1 .. Len(w) /\ i - 1 \in 1 .. Len(z) /\ (i - 1) + 1 = i BY <1>1, <1>2, <1>4
  <2>2. w[i - 1] = u[i] BY <1>1, <2>1
  <2>3. z[i - 1] = u[i] BY <1>2, <2>1, <2>2
  <2> QED BY <1>3, <2>1, <2>3 DEF ToSet
<1>5. ASSUME NEW i \in 1 .. Len(v) PROVE v[i] \in ToSet(z)
  <2>1. Len(w) + i \in 1 .. Len(z) BY <1>1, <1>2, <1>3
  <2> QED BY <1>2, <1>3, <2>1 DEF ToSet
<1>6. ToSet(u) \ {Head(u)} \subseteq ToSet(z) BY <1>1, <1>3, <1>4 DEF ToSet
<1>7. ToSet(v) \subseteq ToSet(z) BY <1>3, <1>5 DEF ToSet
<1> QED BY <1>1, <1>2, <1>6, <1>7 DEF w, z

\* What a turn does, of the values that it starts from.
LEMMA MeetRight ==
    ASSUME NEW G, IsGraph(G), NEW dom \in [Nodes(G) -> SUBSET Nodes(G)], NEW q \in Nodes(G),
           \A p \in Nodes(G) : \A d \in Nodes(G) : Dominates(G, d, p) => d \in dom[p]
    PROVE  /\ Meet(dom, q, G.found) \in SUBSET dom[q] /\ q \in Meet(dom, q, G.found)
           /\ \A d \in Nodes(G) : Dominates(G, d, q) => d \in Meet(dom, q, G.found)
           /\ \A t \in ToSet(G.found) : t.sink = q /\ t.source # q =>
                  Meet(dom, q, G.found) \subseteq dom[t.source] \cup {q}
<1>1. q \in dom[q] BY DEF Dominates
<1>2. \A t \in ToSet(G.found) : t \in Transitions(G)
  <2>1. G.found \in Seq(Transitions(G)) BY DEF IsGraph
  <2>2. \A i \in DOMAIN G.found : G.found[i] \in Transitions(G) BY <2>1
  <2> QED BY <2>2 DEF ToSet
<1>3. ASSUME NEW d \in Nodes(G), Dominates(G, d, q) PROVE d \in Meet(dom, q, G.found)
  <2>1. CASE d = q BY <2>1 DEF Meet
  <2>2. CASE d # q
    <3>1. ASSUME NEW t \in ToSet(G.found), t.sink = q PROVE d \in dom[t.source]
      <4>1. t \in Transitions(G) /\ t.source \in Nodes(G) BY <1>2, TransitionEnds
      <4>2. Dominates(G, d, t.source) BY <1>3, <2>2, <3>1, <4>1, DominatesBack
      <4> QED BY <4>1, <4>2
    <3>2. d \in dom[q] BY <1>3
    <3> QED BY <3>1, <3>2 DEF Meet
  <2> QED BY <2>1, <2>2
<1> QED BY <1>1, <1>3 DEF Meet

LEMMA TurnKeeps == DomInv /\ DominatorsTurn => DomInv'
<1> SUFFICES ASSUME DomInv, DominatorsTurn PROVE DomInv' OBVIOUS
<1> DEFINE G == graph
           N == Nodes(G)
           q == Head(queue)
           D == Meet(doms, q, G.found)
           l == G.out[q]
           shrinks == Cardinality(D) < Cardinality(doms[q])
           v == IF force \/ shrinks THEN Successors(l, q) ELSE <<>>
           room == Cardinality(Room(G, doms))
           most == Cardinality(Transitions(G)) * Cardinality(N)
<1>1. /\ domPhase = "meet" /\ queue # <<>>
      /\ doms' = [doms EXCEPT ![q] = D] /\ queue' = Tail(queue) \o v
      /\ force' = FALSE /\ visits' = visits + 1
      /\ graph' = graph /\ edges' = edges /\ domPhase' = domPhase
      BY DEF DominatorsTurn
<1>2. G \in Graphs /\ IsGraph(G) BY GraphsAssumption DEF DomInv, DomTypeOK
<1>3. doms \in [N -> SUBSET N] /\ queue \in Seq(N) /\ visits \in Nat BY DEF DomInv, DomTypeOK
<1>4. q \in N /\ Len(queue) \in Nat /\ Len(queue) # 0
  <2>1. <<>> \in Seq(N) OBVIOUS
  <2>2. q \in N /\ Len(queue) \in Nat BY <1>1, <1>3, <2>1, QueueAfter
  <2> QED BY <1>1, <1>3, <2>2, EmptySeq
<1>5. /\ D \in SUBSET doms[q] /\ q \in D
      /\ \A d \in N : Dominates(G, d, q) => d \in D
      /\ \A t \in ToSet(G.found) : t.sink = q /\ t.source # q => D \subseteq doms[t.source] \cup {q}
  <2> HIDE DEF q
  <2> QED BY <1>2, <1>3, <1>4, MeetRight DEF DomInv, Kept
<1>6. /\ Successors(l, q) \in Seq(N) /\ Len(Successors(l, q)) <= Len(l)
      /\ ToSet(Successors(l, q)) = {t.sink : t \in ToSet(l)} \ {q}
      /\ Len(l) \in Nat
  <2> DEFINE V == {l[i].sink : i \in DOMAIN l}
             p == Successors(l, q)
  <2>1. l \in Seq(Transitions(G)) /\ \A t \in ToSet(l) : t.sink \in N BY <1>2, <1>4 DEF IsGraph
  <2> HIDE DEF l, q
  <2>2. p \in Seq(V) /\ ToSet(p) = V \ {q} /\ Len(p) <= Len(l) /\ Len(l) \in Nat
        BY <2>1, SuccessorsRight
  <2>3. V = {t.sink : t \in ToSet(l)} BY DEF ToSet
  <2>4. V \in SUBSET N BY <2>1, <2>3
  <2> HIDE DEF V, p, N
  <2>5. p \in Seq(N)
    <3>1. p \in [1 .. Len(p) -> V] /\ Len(p) \in Nat BY <2>2
    <3>2. p \in [1 .. Len(p) -> N] BY <2>4, <3>1
    <3> QED BY <3>1, <3>2
  <2> QED BY <2>2, <2>3, <2>5 DEF p
<1>7. v \in Seq(N) /\ Len(v) \in Nat BY <1>6
<1> HIDE DEF v, D
<1>8. /\ queue' \in Seq(N) /\ Len(queue') = Len(queue) - 1 + Len(v)
      /\ ToSet(queue) \ {q} \subseteq ToSet(queue') /\ ToSet(v) \subseteq ToSet(queue')
  <2> HIDE DEF N
  <2> QED BY <1>1, <1>3, <1>7, QueueAfter
<1>9. /\ doms' \in [N -> SUBSET N] /\ doms'[q] = D /\ \A p \in N : p # q => doms'[p] = doms[p]
      /\ \A p \in N : doms'[p] \subseteq doms[p]
  <2> HIDE DEF q, N
  <2>1. D \in SUBSET N BY <1>3, <1>4, <1>5
  <2> QED BY <1>1, <1>3, <1>4, <1>5, <2>1
<1>10. D = doms[q] \/ shrinks
  <2>1. IsFiniteSet(doms[q])
    <3>1. IsFiniteSet(N) /\ doms[q] \in SUBSET N BY <1>2, <1>3, <1>4 DEF IsGraph
    <3> HIDE DEF N, q
    <3> QED BY <3>1, FS_Subset
  <2>2. IsFiniteSet(D) /\ Cardinality(D) <= Cardinality(doms[q])
        /\ (Cardinality(doms[q]) = Cardinality(D) => doms[q] = D)
        BY <1>5, <2>1, FS_Subset
  <2>3. Cardinality(D) \in Nat /\ Cardinality(doms[q]) \in Nat BY <2>1, <2>2, FS_CardinalityType
  <2> QED BY <2>2, <2>3
<1> HIDE DEF q, N, l
<1>11. DomTypeOK' BY <1>1, <1>2, <1>3, <1>8, <1>9 DEF DomTypeOK, DomInv, N
<1>12. Kept'
  <2>1. ASSUME NEW p \in N, NEW d \in N, Dominates(G, d, p) PROVE d \in doms'[p]
    <3>1. CASE p = q BY <1>5, <1>9, <2>1, <3>1
    <3>2. CASE p # q
      <4>1. d \in doms[p] BY <2>1 DEF DomInv, Kept, N
      <4> QED BY <1>9, <3>2, <4>1
    <3> QED BY <3>1, <3>2
  <2>2. doms'[G.start] = {G.start}
    <3>1. doms[G.start] = {G.start} /\ G.start \in N BY <1>2 DEF DomInv, Kept, IsGraph, N
    <3>2. G.start \in doms'[G.start] BY <2>1, <3>1 DEF Dominates
    <3> QED BY <1>9, <3>1, <3>2
  <2> QED BY <1>1, <2>1, <2>2 DEF Kept, N
<1>13. Pending'
  <2> SUFFICES ASSUME NoneMissed(G), NEW t \in Transitions(G), t.source # t.sink
               PROVE  Settled(doms', t) \/ t.sink \in ToSet(queue')
      BY <1>1 DEF Pending
  <2>1. t.source \in N /\ t.sink \in N /\ t \in ToSet(G.out[t.source])
        BY <1>2, TransitionEnds DEF N
  <2>2. \/ Settled(doms, t) \/ t.sink \in ToSet(queue) \/ (force /\ t.source = G.start)
        BY DEF DomInv, Pending
  <2>3. CASE t.sink = q
    <3>1. D \subseteq doms[t.source] \cup {q} BY <1>5, <2>3 DEF NoneMissed
    <3>2. doms'[t.source] = doms[t.source] /\ doms'[t.sink] = D BY <1>9, <2>1, <2>3
    <3> QED BY <2>3, <3>1, <3>2 DEF Settled
  <2>4. CASE t.sink # q /\ t.source = q
    <3>1. t.sink \in ToSet(Successors(l, q)) BY <1>6, <2>1, <2>4 DEF l
    <3>2. CASE force \/ shrinks BY <1>8, <3>1, <3>2 DEF v
    <3>3. CASE ~ (force \/ shrinks)
      <4>1. D = doms[q] BY <1>10, <3>3
      <4>2. doms'[t.source] = doms[t.source] /\ doms'[t.sink] = doms[t.sink] BY <1>9, <2>1, <2>4, <4>1
      <4>3. CASE Settled(doms, t) BY <4>2, <4>3 DEF Settled
      <4>4. CASE t.sink \in ToSet(queue) BY <1>8, <2>4, <4>4
      <4> QED BY <2>2, <3>3, <4>3, <4>4
    <3> QED BY <3>2, <3>3
  <2>5. CASE t.sink # q /\ t.source # q
    <3>1. doms'[t.source] = doms[t.source] /\ doms'[t.sink] = doms[t.sink] BY <1>9, <2>1, <2>5
    <3>2. CASE Settled(doms, t) BY <3>1, <3>2 DEF Settled
    <3>3. CASE t.sink \in ToSet(queue) BY <1>8, <2>5, <3>3
    <3>4. CASE force /\ t.source = G.start
      <4>1. queue = <<G.start>> BY <3>4 DEF DomInv, FirstTurn
      <4>2. q = G.start BY <4>1 DEF q
      <4> QED BY <2>5, <3>4, <4>2
    <3> QED BY <2>2, <3>2, <3>3, <3>4
  <2> QED BY <2>3, <2>4, <2>5
<1>14. FirstTurn' BY <1>1 DEF FirstTurn
<1>15. Budget'
  <2> DEFINE room2 == Cardinality(Room(G, [doms EXCEPT ![q] = D]))
  <2>1. room \in Nat /\ room2 \in Nat BY <1>2, RoomFinite
  <2>2. most \in Nat
    <3>1. Cardinality(Transitions(G)) \in Nat /\ Cardinality(N) \in Nat
          BY <1>2, TransitionsFinite, FS_CardinalityType DEF IsGraph, N
    <3> QED BY <3>1
  <2>3. Len(v) <= Len(l) /\ (~ force /\ ~ shrinks => Len(v) = 0)
    <3>1. Len(<<>>) = 0 OBVIOUS
    <3> QED BY <1>6, <3>1 DEF v
  <2>4. room2 <= room BY <1>2, <1>3, <1>4, <1>5, RoomKept DEF N
  <2>5. D # doms[q] => room2 + Len(l) <= room BY <1>2, <1>3, <1>4, <1>5, RoomShrinks DEF N, l
  <2>6. shrinks => D # doms[q]
    <3> SUFFICES ASSUME D = doms[q], shrinks PROVE FALSE OBVIOUS
    <3>1. Cardinality(D) < Cardinality(D) /\ Cardinality(D) \in Nat
      <4>1. IsFiniteSet(N) /\ D \in SUBSET N BY <1>2, <1>3, <1>4, <1>5 DEF IsGraph, N
      <4>2. IsFiniteSet(D) BY <4>1, FS_Subset
      <4> QED BY <4>2, FS_CardinalityType
    <3> QED BY <3>1
  <2> HIDE DEF room, room2, most, shrinks
  <2>7. visits + 1 + Len(queue') + room2 <= 1 + most
    <3>1. CASE force
      <4>1. queue = <<G.start>> /\ visits = 0 BY <3>1 DEF DomInv, FirstTurn
      <4>2. q = G.start /\ Len(queue) = 1 BY <4>1 DEF q
      <4>3. room + Len(l) <= most
            BY <1>2, <4>2, RoomAtFirst DEF DomInv, Kept, room, most, N, l
      <4> QED BY <1>6, <1>7, <1>8, <2>1, <2>2, <2>3, <2>4, <4>1, <4>2, <4>3
    <3>2. CASE ~ force
      <4>1. visits + Len(queue) + room <= 1 + most BY <3>2 DEF DomInv, Budget, room, most, N
      <4>2. CASE shrinks
            BY <1>3, <1>4, <1>6, <1>7, <1>8, <2>1, <2>2, <2>3, <2>5, <2>6, <4>1, <4>2
      <4>3. CASE ~ shrinks
            BY <1>3, <1>4, <1>6, <1>7, <1>8, <2>1, <2>2, <2>3, <2>4, <3>2, <4>1, <4>3
      <4> QED BY <4>2, <4>3
    <3> QED BY <3>1, <3>2
  <2> QED BY <1>1, <2>7 DEF Budget, room2, most, N
<1>16. TreeMade' BY <1>1 DEF TreeMade
<1> QED BY <1>11, <1>12, <1>13, <1>14, <1>15, <1>16 DEF DomInv

LEMMA TreeKeeps == DomInv /\ DominatorTree => DomInv'
<1> SUFFICES ASSUME DomInv, DominatorTree PROVE DomInv' OBVIOUS
<1>1. /\ queue = <<>> /\ edges' = Tree(graph, doms) /\ domPhase' = "done"
      /\ UNCHANGED <<graph, doms, queue, force, visits>>
      BY DEF DominatorTree, Tree
<1>2. TreeMade' BY <1>1 DEF TreeMade
<1> QED BY <1>1, <1>2 DEF DomInv, DomTypeOK, Kept, Pending, FirstTurn, Budget

LEMMA DomInvStep == DomInv /\ [DomNext]_domVars => DomInv'
<1>1. DomInv /\ UNCHANGED domVars => DomInv'
      BY DEF domVars, DomInv, DomTypeOK, Kept, Pending, FirstTurn, Budget, TreeMade
<1> QED BY <1>1, TurnKeeps, TreeKeeps DEF DomNext, DomDone

\* When the queue is empty, the sets hold the dominators and no other state: the
\* states not dominated by d in the end are closed, if d is avoided.
LEMMA DominatorsRight ==
    ASSUME NEW G, IsGraph(G), NEW dom \in [Nodes(G) -> SUBSET Nodes(G)],
           \A q \in Nodes(G) : \A d \in Nodes(G) : Dominates(G, d, q) => d \in dom[q],
           dom[G.start] = {G.start},
           \A t \in Transitions(G) : t.source = t.sink \/ Settled(dom, t),
           NEW q \in Nodes(G)
    PROVE  dom[q] = {d \in Nodes(G) : Dominates(G, d, q)}
<1> SUFFICES ASSUME NEW d \in dom[q], d # q, q \in Reached(G, {d}) PROVE FALSE
    BY DEF Dominates
<1> DEFINE S == {p \in Nodes(G) : d \notin dom[p]}
<1>1. G.start = d \/ G.start \in S BY DEF IsGraph
<1>2. ASSUME NEW t \in Transitions(G), t.source \in S, t.sink # d PROVE t.sink \in S
  <2>1. t.sink \in Nodes(G) BY TransitionEnds
  <2> QED BY <1>2, <2>1 DEF Settled
<1>3. Closed(G, {d}, S) BY <1>1, <1>2 DEF Closed
<1>4. S \in SUBSET Nodes(G) /\ q \notin S OBVIOUS
<1> HIDE DEF S
<1> QED BY <1>3, <1>4, ReachedLeast

LEMMA DomInvTreeRight == DomInv => TreeRight
<1> SUFFICES ASSUME DomInv PROVE TreeRight OBVIOUS
<1> DEFINE G == graph
           N == Nodes(G)
           most == Cardinality(Transitions(G)) * Cardinality(N)
           room == Cardinality(Room(G, doms))
<1>1. IsGraph(G) BY GraphsAssumption DEF DomInv, DomTypeOK
<1>2. doms \in [N -> SUBSET N] /\ queue \in Seq(N) /\ visits \in Nat BY DEF DomInv, DomTypeOK
<1>3. VisitsBounded
  <2>1. most \in Nat
    <3>1. Cardinality(Transitions(G)) \in Nat /\ Cardinality(N) \in Nat
          BY <1>1, TransitionsFinite, FS_CardinalityType DEF IsGraph
    <3> QED BY <3>1
  <2>2. room \in Nat BY <1>1, RoomFinite
  <2>3. Len(queue) \in Nat BY <1>2, LenProperties
  <2>4. ~ force => visits + Len(queue) + room <= 1 + most BY DEF DomInv, Budget
  <2>5. force => visits = 0 BY DEF DomInv, FirstTurn
  <2> HIDE DEF most, room
  <2>6. visits <= 1 + most BY <1>2, <2>1, <2>2, <2>3, <2>4, <2>5
  <2> QED BY <2>6 DEF VisitsBounded, most
<1>4. ASSUME domPhase = "done", NoneMissed(G), NEW q \in Reached(G, {}) \ {G.start}
      PROVE {e[1] : e \in {e \in edges : e[2] = q}}
            = {d \in Strict(G, q) : \A c \in Strict(G, q) : Dominates(G, c, d)}
  <2> DEFINE i == ImmediateDominator(doms, q)
  <2>1. queue = <<>> /\ edges = Tree(G, doms) BY <1>4 DEF DomInv, TreeMade
  <2>2. \A t \in Transitions(G) : t.source = t.sink \/ Settled(doms, t)
    <3>1. ToSet(queue) = {} BY <2>1 DEF ToSet
    <3>2. ~ force BY <2>1 DEF DomInv, FirstTurn
    <3> QED BY <1>4, <3>1, <3>2 DEF DomInv, Pending
  <2>3. \A p \in N : doms[p] = {d \in N : Dominates(G, d, p)}
        BY <1>1, <1>2, <2>2, DominatorsRight DEF DomInv, Kept
  <2>4. i \in Strict(G, q) /\ \A c \in Strict(G, q) : Dominates(G, c, i)
        BY <1>1, <1>4, <2>3, ClosestRight
  <2>5. q \in N \ {G.start} BY <1>4 DEF Reached
  <2>6. edges = {<<ImmediateDominator(doms, p), p>> : p \in N \ {G.start}}
        BY <1>4, <2>1 DEF Tree, NoneMissed
  <2>7. {e[1] : e \in {e \in edges : e[2] = q}} = {i}
    <3> DEFINE E == {e \in edges : e[2] = q}
    <3> HIDE DEF N
    <3>1. <<i, q>> \in E BY <2>5, <2>6
    <3>2. \A e \in E : e = <<i, q>> BY <2>6
    <3> HIDE DEF i, E
    <3>3. E = {<<i, q>>} BY <3>1, <3>2
    <3>4. {e[1] : e \in {<<i, q>>}} = {i} OBVIOUS
    <3> QED BY <3>3, <3>4 DEF E
  <2> HIDE DEF i
  <2>8. ASSUME NEW d \in Strict(G, q), \A c \in Strict(G, q) : Dominates(G, c, d) PROVE d = i
    <3>1. Dominates(G, i, d) /\ Dominates(G, d, i) /\ Dominates(G, d, q) BY <2>4, <2>8 DEF Strict
    <3>2. d \in Reached(G, {}) BY <1>1, <1>4, <3>1, DominatorReached
    <3> QED BY <1>1, <3>1, <3>2, DominatesAntisymmetric
  <2> QED BY <2>4, <2>7, <2>8
<1> QED BY <1>3, <1>4 DEF TreeRight, NoneMissed

\* The sets of dominators only lose states that do not dominate, each that is not
\* settled has its state in the queue, and the queue has room.
THEOREM DominatorsInvariant == DomSpec => []DomInv
<1> QED BY DomInvInit, DomInvStep, PTL DEF DomSpec

\* NFA_DOMINATORS ends, and leaves the dominator tree if its search finds all.
THEOREM TreeIsRight == DomSpec => []TreeRight
<1>1. DomSpec => []DomInv BY DominatorsInvariant
<1> QED BY <1>1, DomInvTreeRight, PTL
=============================================================================
