--------------------------- MODULE ObjectsProofs ---------------------------
(***************************************************************************)
(* Symbol strings, names and TDOP grammars.  For any number of strings,      *)
(* symbols and places for arrays, what is shared is never lost, freed early  *)
(* or written to; for any names and letters, a name and a symbol lead to     *)
(* each other; for any rules, handles and searches, chains stay sorted and   *)
(* linked, and a search binds all that it is to bind, and once.              *)
(***************************************************************************)
EXTENDS Strings, Names, TDOPStore, WellOrder, FiniteSetTheorems, TLAPS

PlaceOrNil == Places \cup {Nil}
Memory     == [Places -> [refs : Int, syms : Seq(Letter)]]

Shape ==
    /\ arr \in [Strings -> PlaceOrNil]
    /\ mem \in Memory
    /\ value \in [Strings -> Seq(Letter)]

IInv == Shape /\ buf \in Seq(Letter) /\ StringsRight

Users(a, p) == {x \in Strings : a[x] = p}

\* How many references x has to p when its array is q: one or none.
One(q, p) == IF q = p THEN 1 ELSE 0

-----------------------------------------------------------------------------
(* How many strings share an array.                                         *)

LEMMA UsersFinite ==
    ASSUME NEW a, NEW p
    PROVE  IsFiniteSet(Users(a, p)) /\ Cardinality(Users(a, p)) \in Nat
BY StringsAssumption, FS_Subset, FS_CardinalityType DEF Users

\* When x goes from its array to q, the first loses a user and q gets one.
LEMMA UsersMove ==
    ASSUME NEW a \in [Strings -> PlaceOrNil], NEW x \in Strings, NEW q \in PlaceOrNil,
           NEW p \in Places
    PROVE  Cardinality(Users([a EXCEPT ![x] = q], p))
             = Cardinality(Users(a, p)) - One(a[x], p) + One(q, p)
<1> DEFINE b    == [a EXCEPT ![x] = q]
           rest == Users(a, p) \ {x}
<1>1. IsFiniteSet(rest) /\ Cardinality(rest) \in Nat /\ x \notin rest
  BY UsersFinite, FS_Subset, FS_CardinalityType
<1>2. Cardinality(Users(a, p)) = Cardinality(rest) + One(a[x], p)
  <2>1. CASE a[x] = p
    <3>1. Users(a, p) = rest \cup {x}
      BY <2>1 DEF Users
    <3> HIDE DEF rest
    <3> QED  BY <1>1, <2>1, <3>1, FS_AddElement DEF One
  <2>2. CASE a[x] # p
    <3>1. Users(a, p) = rest
      BY <2>2 DEF Users
    <3> HIDE DEF rest
    <3> QED  BY <1>1, <2>2, <3>1 DEF One
  <2> QED  BY <2>1, <2>2
<1>3. Cardinality(Users(b, p)) = Cardinality(rest) + One(q, p)
  <2>1. CASE q = p
    <3>1. Users(b, p) = rest \cup {x}
      BY <2>1 DEF Users
    <3> HIDE DEF rest, b
    <3> QED  BY <1>1, <2>1, <3>1, FS_AddElement DEF One
  <2>2. CASE q # p
    <3>1. Users(b, p) = rest
      BY <2>2 DEF Users
    <3> HIDE DEF rest, b
    <3> QED  BY <1>1, <2>2, <3>1 DEF One
  <2> QED  BY <2>1, <2>2
<1> HIDE DEF rest, b
<1>4. One(a[x], p) \in Int /\ One(q, p) \in Int
  BY DEF One
<1> QED  BY <1>1, <1>2, <1>3, <1>4 DEF b

\* An array that nobody but x is counted for has no other user.
LEMMA NobodyElse ==
    ASSUME IInv, NEW x \in Strings, NEW p \in Places, mem[p].refs = One(arr[x], p),
           NEW y \in Strings \ {x}
    PROVE  arr[y] # p
<1> SUFFICES ASSUME arr[y] = p PROVE FALSE
  OBVIOUS
<1> DEFINE rest == Users(arr, p) \ {x}
<1>1. IsFiniteSet(rest) /\ y \in rest
  <2>1. IsFiniteSet(Users(arr, p))
    BY UsersFinite
  <2>2. IsFiniteSet(rest)
    BY <2>1, FS_Subset
  <2> QED  BY <2>2 DEF Users
<1>2. Cardinality(Users(arr, p)) = One(arr[x], p)
  BY DEF IInv, StringsRight, Users
<1>3. CASE arr[x] = p
  <2>1. x \in Users(arr, p)
    BY <1>3 DEF Users
  <2>2. Cardinality(rest) = 0
    <3>1. IsFiniteSet(Users(arr, p))
      BY UsersFinite
    <3>2. Cardinality(rest) = Cardinality(Users(arr, p)) - 1
      BY <2>1, <3>1, FS_RemoveElement
    <3> HIDE DEF rest
    <3> QED  BY <1>2, <1>3, <3>2 DEF One
  <2> HIDE DEF rest
  <2> QED  BY <1>1, <2>2, FS_EmptySet
<1>4. CASE arr[x] # p
  <2>1. Users(arr, p) = {}
    BY <1>2, <1>4, UsersFinite, FS_EmptySet DEF One
  <2> QED  BY <1>1, <2>1
<1> QED  BY <1>3, <1>4

-----------------------------------------------------------------------------
(* The steps.                                                               *)

\* x goes to the array q, which holds the symbols s that x ought to hold.
Moves(x, q, s) ==
    /\ arr' = [arr EXCEPT ![x] = q]
    /\ value' = [value EXCEPT ![x] = s]
    /\ mem' \in Memory
    /\ \A p \in Places : mem'[p].refs = mem[p].refs - One(arr[x], p) + One(q, p)
    /\ \A y \in Strings \ {x} : arr[y] # Nil => mem'[arr[y]].syms = mem[arr[y]].syms
    /\ IF q = Nil THEN s = <<>> ELSE mem'[q].syms = s

LEMMA MovesRight ==
    ASSUME IInv, NEW x \in Strings, NEW q \in PlaceOrNil, NEW s \in Seq(Letter), Moves(x, q, s)
    PROVE  Shape' /\ StringsRight'
<1>1. Shape'
  BY DEF Moves, IInv, Shape
<1>2. ASSUME NEW y \in Strings PROVE Content(y)' = value'[y]
  <2>1. CASE y = x
    BY <2>1 DEF Moves, IInv, Shape, Content
  <2>2. CASE y # x
    <3>1. arr'[y] = arr[y] /\ value'[y] = value[y]
      BY <2>2 DEF Moves, IInv, Shape
    <3>2. arr[y] # Nil => mem'[arr[y]].syms = mem[arr[y]].syms
      BY <2>2 DEF Moves
    <3> QED  BY <3>1, <3>2 DEF Content, IInv, StringsRight
  <2> QED  BY <2>1, <2>2
<1>3. ASSUME NEW p \in Places PROVE mem'[p].refs = Cardinality(Users(arr', p))
  <2>1. mem[p].refs = Cardinality(Users(arr, p))
    BY DEF IInv, StringsRight, Users
  <2>2. Cardinality(Users(arr', p)) = Cardinality(Users(arr, p)) - One(arr[x], p) + One(q, p)
    BY UsersMove DEF Moves, IInv, Shape
  <2> QED  BY <2>1, <2>2 DEF Moves
<1> QED  BY <1>1, <1>2, <1>3 DEF StringsRight, Users

LEMMA ContentType ==
    ASSUME IInv, NEW y \in Strings
    PROVE  Content(y) = value[y] /\ Content(y) \in Seq(Letter)
BY DEF IInv, Shape, StringsRight

LEMMA CountType ==
    ASSUME NEW m \in Memory, NEW p \in PlaceOrNil
    PROVE  /\ Decref(m, p) \in Memory
           /\ Incref(m, p) \in Memory
           /\ \A r \in Places : /\ Decref(m, p)[r].refs = m[r].refs - One(p, r)
                                /\ Incref(m, p)[r].refs = m[r].refs + One(p, r)
                                /\ Decref(m, p)[r].syms = m[r].syms
                                /\ Incref(m, p)[r].syms = m[r].syms
BY SMTT(40), StringsAssumption DEF Decref, Incref, Memory, PlaceOrNil, One

\* x comes to hold s in a place nobody else uses.
LEMMA PlacedMoves ==
    ASSUME IInv, NEW x \in Strings, NEW s \in Seq(Letter), NEW p \in Places,
           mem[p].refs = One(arr[x], p),
           arr' = [arr EXCEPT ![x] = p],
           mem' = [Decref(mem, arr[x]) EXCEPT ![p] = [refs |-> 1, syms |-> s]],
           value' = [value EXCEPT ![x] = s]
    PROVE  Shape' /\ StringsRight'
<1> DEFINE m == Decref(mem, arr[x])
<1>1. /\ m \in Memory
      /\ \A r \in Places : m[r].refs = mem[r].refs - One(arr[x], r) /\ m[r].syms = mem[r].syms
  BY CountType DEF IInv, Shape
<1>2. p # Nil /\ p \in PlaceOrNil
  BY StringsAssumption DEF PlaceOrNil
<1> HIDE DEF m
<1>3. mem' = [m EXCEPT ![p] = [refs |-> 1, syms |-> s]]
  BY DEF m
<1>4. mem' \in Memory /\ mem'[p] = [refs |-> 1, syms |-> s]
  <2>1. [refs |-> 1, syms |-> s] \in [refs : Int, syms : Seq(Letter)]
    OBVIOUS
  <2> QED  BY <1>1, <1>3, <2>1, Zenon DEF Memory
<1>5. ASSUME NEW r \in Places
      PROVE  mem'[r].refs = mem[r].refs - One(arr[x], r) + One(p, r)
  <2>1. mem[r].refs \in Int /\ One(arr[x], r) \in Int
    BY DEF IInv, Shape, Memory, One
  <2>2. CASE r = p
    BY <1>4, <2>1, <2>2 DEF One
  <2>3. CASE r # p
    BY <1>1, <1>3, <2>1, <2>3 DEF One, Memory
  <2> QED  BY <2>2, <2>3
<1>6. ASSUME NEW y \in Strings \ {x}, arr[y] # Nil
      PROVE  mem'[arr[y]].syms = mem[arr[y]].syms
  <2>1. arr[y] # p
    BY NobodyElse
  <2>2. arr[y] \in Places
    BY <1>6 DEF IInv, Shape, PlaceOrNil
  <2> QED  BY <1>1, <1>3, <2>1, <2>2 DEF Memory
<1>7. Moves(x, p, s)
  BY <1>2, <1>4, <1>5, <1>6 DEF Moves
<1> QED  BY <1>2, <1>7, MovesRight

\* x comes to hold nothing.
LEMMA EmptiedMoves ==
    ASSUME IInv, NEW x \in Strings,
           arr' = [arr EXCEPT ![x] = Nil],
           mem' = Decref(mem, arr[x]),
           value' = [value EXCEPT ![x] = <<>>]
    PROVE  Shape' /\ StringsRight'
<1>1. /\ mem' \in Memory
      /\ \A r \in Places : mem'[r].refs = mem[r].refs - One(arr[x], r) /\ mem'[r].syms = mem[r].syms
  BY CountType DEF IInv, Shape
<1>2. \A r \in Places : mem'[r].refs = mem[r].refs - One(arr[x], r) + One(Nil, r)
  BY <1>1, StringsAssumption DEF One, IInv, Shape, Memory
<1>3. \A y \in Strings \ {x} : arr[y] # Nil => mem'[arr[y]].syms = mem[arr[y]].syms
  BY <1>1 DEF IInv, Shape, PlaceOrNil
<1>4. <<>> \in Seq(Letter) /\ Nil \in PlaceOrNil
  BY DEF PlaceOrNil
<1>5. Moves(x, Nil, <<>>)
  BY <1>1, <1>2, <1>3 DEF Moves
<1> QED  BY <1>4, <1>5, MovesRight

\* x shares the array of y, in whichever order the two counts are changed.
LEMMA SharedMoves ==
    ASSUME IInv, NEW x \in Strings, NEW y \in Strings,
           arr' = [arr EXCEPT ![x] = arr[y]],
           \/ mem' = Incref(Decref(mem, arr[x]), arr[y])
           \/ mem' = Decref(Incref(mem, arr[y]), arr[x]),
           value' = [value EXCEPT ![x] = value[y]]
    PROVE  Shape' /\ StringsRight'
<1>1. mem \in Memory /\ arr[x] \in PlaceOrNil /\ arr[y] \in PlaceOrNil
  BY DEF IInv, Shape
<1>2. /\ mem' \in Memory
      /\ \A r \in Places : /\ mem'[r].refs = mem[r].refs - One(arr[x], r) + One(arr[y], r)
                           /\ mem'[r].syms = mem[r].syms
  <2>1. \A r \in Places : mem[r].refs \in Int /\ One(arr[x], r) \in Int /\ One(arr[y], r) \in Int
    BY <1>1 DEF Memory, One
  <2>2. CASE mem' = Incref(Decref(mem, arr[x]), arr[y])
    <3> DEFINE m == Decref(mem, arr[x])
    <3>1. m \in Memory /\ \A r \in Places : /\ m[r].refs = mem[r].refs - One(arr[x], r)
                                           /\ m[r].syms = mem[r].syms
      BY <1>1, CountType
    <3> HIDE DEF m
    <3>2. mem' = Incref(m, arr[y])
      BY <2>2 DEF m
    <3>3. /\ mem' \in Memory
          /\ \A r \in Places : mem'[r].refs = m[r].refs + One(arr[y], r) /\ mem'[r].syms = m[r].syms
      BY <1>1, <3>1, <3>2, CountType
    <3> QED  BY <2>1, <3>1, <3>3
  <2>3. CASE mem' = Decref(Incref(mem, arr[y]), arr[x])
    <3> DEFINE m == Incref(mem, arr[y])
    <3>1. m \in Memory /\ \A r \in Places : /\ m[r].refs = mem[r].refs + One(arr[y], r)
                                           /\ m[r].syms = mem[r].syms
      BY <1>1, CountType
    <3> HIDE DEF m
    <3>2. mem' = Decref(m, arr[x])
      BY <2>3 DEF m
    <3>3. /\ mem' \in Memory
          /\ \A r \in Places : mem'[r].refs = m[r].refs - One(arr[x], r) /\ mem'[r].syms = m[r].syms
      BY <1>1, <3>1, <3>2, CountType
    <3> QED  BY <2>1, <3>1, <3>3
  <2> QED  BY <2>2, <2>3
<1>3. \A z \in Strings : arr[z] # Nil => mem'[arr[z]].syms = mem[arr[z]].syms
  BY <1>2 DEF IInv, Shape, PlaceOrNil
<1>4. value[y] \in Seq(Letter)
  BY ContentType
<1>5. IF arr[y] = Nil THEN value[y] = <<>> ELSE mem'[arr[y]].syms = value[y]
  BY <1>3, ContentType DEF Content
<1>6. Moves(x, arr[y], value[y])
  BY <1>2, <1>3, <1>5 DEF Moves
<1> QED  BY <1>1, <1>4, <1>6, MovesRight

LEMMA FreshRight ==
    ASSUME IInv, NEW x \in Strings, NEW s \in Seq(Letter), Fresh(x, s),
           value' = [value EXCEPT ![x] = s]
    PROVE  Shape' /\ StringsRight'
<1>1. CASE s = <<>>
  BY <1>1, EmptiedMoves DEF Fresh
<1>2. CASE s # <<>>
  <2>1. PICK p \in FreePlaces(Decref(mem, arr[x])) :
            /\ arr' = [arr EXCEPT ![x] = p]
            /\ mem' = [Decref(mem, arr[x]) EXCEPT ![p] = [refs |-> 1, syms |-> s]]
    BY <1>2 DEF Fresh
  <2>2. p \in Places /\ Decref(mem, arr[x])[p].refs = 0
    <3>1. Decref(mem, arr[x]) \in Memory
      BY CountType DEF IInv, Shape
    <3> QED  BY <2>1, <3>1 DEF FreePlaces, Memory
  <2>3. mem[p].refs = One(arr[x], p)
    <3>1. Decref(mem, arr[x])[p].refs = mem[p].refs - One(arr[x], p)
      BY <2>2, CountType DEF IInv, Shape
    <3> QED  BY <2>2, <3>1 DEF IInv, Shape, Memory, One
  <2> QED  BY <2>1, <2>2, <2>3, PlacedMoves
<1> QED  BY <1>1, <1>2

LEMMA TakesRight ==
    ASSUME IInv, NEW x \in Strings, NEW s \in Seq(Letter), Takes(x, s),
           value' = [value EXCEPT ![x] = s]
    PROVE  Shape' /\ StringsRight'
<1>1. CASE s = <<>>
  BY <1>1, EmptiedMoves DEF Takes
<1>2. CASE s # <<>>
  <2>1. PICK p \in FreePlaces(mem) :
            /\ arr' = [arr EXCEPT ![x] = p]
            /\ mem' = [Decref(mem, arr[x]) EXCEPT ![p] = [refs |-> 1, syms |-> s]]
    BY <1>2 DEF Takes
  <2>2. p \in Places /\ mem[p].refs = 0
    BY <2>1 DEF FreePlaces, IInv, Shape, Memory
  <2>3. arr[x] # p
    <3>1. Cardinality(Users(arr, p)) = 0
      BY <2>2 DEF IInv, StringsRight, Users
    <3>2. Users(arr, p) = {}
      BY <3>1, UsersFinite, FS_EmptySet
    <3> QED  BY <3>2 DEF Users
  <2>4. mem[p].refs = One(arr[x], p)
    BY <2>2, <2>3 DEF One
  <2> QED  BY <2>1, <2>2, <2>4, PlacedMoves
<1> QED  BY <1>1, <1>2

\* substring of the whole of a string is the string.
LEMMA SubstringRight ==
    ASSUME IInv, NEW x \in Strings, NEW y \in Strings, NEW start \in 0..Longest,
           NEW stride \in 0..Longest, Substring(x, y, start, stride)
    PROVE  Shape' /\ StringsRight'
<1>1. Content(y) = value[y] /\ value[y] \in Seq(Letter)
  BY ContentType
<1>2. start + stride <= Len(value[y])
  BY <1>1 DEF Substring
<1>3. CASE stride = Len(Content(y)) /\ stride # 0
  <2>1. start = 0 /\ stride = Len(value[y])
    BY <1>1, <1>2, <1>3, StringsAssumption
  <2>2. SubSeq(value[y], start + 1, start + stride) = value[y]
    BY <1>1, <2>1
  <2> QED  BY <1>3, <2>2, SharedMoves DEF Substring
<1>4. CASE ~ (stride = Len(Content(y)) /\ stride # 0)
  <2>1. SubSeq(value[y], start + 1, start + stride) \in Seq(Letter)
    BY <1>1, <1>2, StringsAssumption
  <2> QED  BY <1>1, <1>4, <2>1, TakesRight DEF Substring
<1> QED  BY <1>3, <1>4

LEMMA SymbolType ==
    ASSUME NEW s \in Symbol0or1
    PROVE  s \in Seq(Letter)
<1>1. <<>> \in Seq(Letter) /\ \A a \in Letter : <<a>> \in Seq(Letter)
  OBVIOUS
<1> QED  BY <1>1, Zenon DEF Symbol0or1

LEMMA StepRight ==
    ASSUME IInv, StringsNext
    PROVE  IInv'
<1>1. ASSUME NEW x \in Strings, ClearString(x) PROVE IInv'
  BY <1>1, EmptiedMoves DEF ClearString, IInv
<1>2. ASSUME NEW x \in Strings, BuilderSymbols(x) PROVE IInv'
  BY <1>2, TakesRight DEF BuilderSymbols, IInv
<1>3. ASSUME NEW s \in Seq(Letter), BuilderAppend(s) PROVE IInv'
  BY <1>3 DEF BuilderAppend, IInv, Shape, StringsRight, Content
<1>4. ASSUME NEW x \in Strings, NEW s \in Symbol0or1, AssignSymbol(x, s) PROVE IInv'
  BY <1>4, FreshRight, SymbolType DEF AssignSymbol, IInv
<1>5. ASSUME NEW x \in Strings, NEW y \in Strings, AssignString(x, y) PROVE IInv'
  BY <1>5, SharedMoves DEF AssignString, IInv
<1>6. ASSUME NEW x \in Strings, NEW y \in Strings, CopyString(x, y) PROVE IInv'
  <2>1. Content(y) = value[y] /\ value[y] \in Seq(Letter)
    BY ContentType
  <2> QED  BY <1>6, <2>1, FreshRight DEF CopyString, IInv
<1>7. ASSUME NEW x \in Strings, NEW y \in Strings, Compare(x, y) PROVE IInv'
  <2>1. PICK l \in Strings, w \in Strings :
            /\ Content(l) = Content(w)
            /\ arr' = [arr EXCEPT ![l] = arr[w]]
            /\ mem' = Incref(Decref(mem, arr[l]), arr[w])
            /\ UNCHANGED <<buf, value>>
    BY <1>7 DEF Compare, Same
  <2>2. value' = [value EXCEPT ![l] = value[w]]
    BY <2>1, ContentType DEF IInv, Shape
  <2> QED  BY <2>1, <2>2, SharedMoves DEF IInv
<1>8. ASSUME NEW x \in Strings, NEW y \in Strings, NEW z \in Strings, Concatenate(x, y, z)
      PROVE  IInv'
  <2>1. /\ Content(y) = value[y] /\ value[y] \in Seq(Letter)
        /\ Content(z) = value[z] /\ value[z] \in Seq(Letter)
    BY ContentType
  <2>2. value[y] \o value[z] \in Seq(Letter)
    BY <2>1
  <2> QED  BY <1>8, <2>1, <2>2, TakesRight DEF Concatenate, IInv
<1>9. ASSUME NEW x \in Strings, NEW y \in Strings, NEW s \in Symbol0or1,
             AppendSymbol(x, y, s) \/ PrependSymbol(x, s, y)
      PROVE  IInv'
  <2>1. Content(y) = value[y] /\ value[y] \in Seq(Letter) /\ s \in Seq(Letter)
    BY ContentType, SymbolType
  <2>2. value[y] \o s \in Seq(Letter) /\ s \o value[y] \in Seq(Letter)
    BY <2>1
  <2> QED  BY <1>9, <2>1, <2>2, TakesRight DEF AppendSymbol, PrependSymbol, IInv
<1>10. ASSUME NEW x \in Strings, NEW y \in Strings, NEW start \in 0..Longest,
              NEW stride \in 0..Longest, Substring(x, y, start, stride)
       PROVE  IInv'
  <2>1. buf' = buf
    BY <1>10 DEF Substring
  <2> QED  BY <1>10, <2>1, SubstringRight DEF IInv
<1>11. CASE BuilderClear
  BY <1>11 DEF BuilderClear, IInv, Shape, StringsRight, Content
<1>12. \A x \in Strings : Content(x) \in Seq(Letter)
  BY ContentType
<1> QED  BY <1>1, <1>2, <1>3, <1>4, <1>5, <1>6, <1>7, <1>8, <1>9, <1>10, <1>11, <1>12, SymbolType
         DEF StringsNext

-----------------------------------------------------------------------------
\* However many strings share however many arrays, each holds what it would
\* hold with an array of its own, and an array is free exactly when no string
\* refers to it (SymbolString::incref, decref and the operators that share).
THEOREM SharingIsRight == StringsSpec => []StringsRight
<1>1. StringsInit => IInv
  <2> SUFFICES ASSUME StringsInit PROVE IInv
    OBVIOUS
  <2>1. Shape /\ buf \in Seq(Letter)
    BY DEF StringsInit, Shape, Memory, PlaceOrNil
  <2>2. \A x \in Strings : Content(x) = value[x]
    BY DEF StringsInit, Content
  <2>3. ASSUME NEW p \in Places PROVE mem[p].refs = Cardinality({x \in Strings : arr[x] = p})
    <3>1. {x \in Strings : arr[x] = p} = {}
      BY StringsAssumption DEF StringsInit
    <3> QED  BY <3>1, FS_EmptySet DEF StringsInit
  <2> QED  BY <2>1, <2>2, <2>3 DEF IInv, StringsRight
<1>2. IInv /\ [StringsNext]_stringVars => IInv'
  <2>1. CASE UNCHANGED stringVars
    BY <2>1 DEF stringVars, IInv, Shape, StringsRight, Content
  <2> QED  BY <2>1, StepRight
<1>3. IInv => StringsRight
  BY DEF IInv
<1> QED  BY <1>1, <1>2, <1>3, PTL DEF StringsSpec

-----------------------------------------------------------------------------
(* Names.  The two maps lead to places of terminal_map, and every element of  *)
(* the alphabet that is there is known to its map.                            *)

Terminal == [letter : Letters0 \cup {NoLetter}, name : Int]

\* What is looked up as k in the map f, by field.
LeadsTo(f, k, field) ==
    /\ f[k] \in Int
    /\ -f[k] \in DOMAIN terms
    /\ terms[-f[k]][field] = k

TermsInv ==
    /\ terms \in Seq(Terminal)
    /\ nextTerm = -(Len(terms) + 1)
    /\ DOMAIN letters \subseteq Letters0
    /\ \A x \in DOMAIN letters : LeadsTo(letters, x, "letter")
    /\ \A n \in DOMAIN namedTerms : LeadsTo(namedTerms, n, "name")
    /\ \A i \in DOMAIN terms : terms[i].letter # NoLetter => terms[i].letter \in DOMAIN letters
    /\ \A i, j \in DOMAIN terms :
           terms[i].letter # NoLetter /\ terms[i].letter = terms[j].letter => i = j

LEMMA TermsInvRight == TermsInv => TerminalsRight
<1> SUFFICES ASSUME TermsInv PROVE TerminalsRight
  OBVIOUS
<1>1. ASSUME NEW x \in DOMAIN letters PROVE <<-letters[x], x>> \in TermsBy("letter")
  BY DEF TermsInv, LeadsTo, TermsBy
<1>2. ASSUME NEW n \in DOMAIN namedTerms PROVE <<-namedTerms[n], n>> \in TermsBy("name")
  BY DEF TermsInv, LeadsTo, TermsBy
<1> QED  BY <1>1, <1>2 DEF TermsInv, TerminalsRight

\* A terminal that is made leaves the ids of the others as they were.
LEMMA NewTerminalKeeps ==
    ASSUME TermsInv, NEW l \in Letters0 \cup {NoLetter}, NEW n \in Int, NewTerminal(l, n)
    PROVE  /\ terms' \in Seq(Terminal)
           /\ nextTerm' = -(Len(terms') + 1)
           /\ DOMAIN terms' = DOMAIN terms \cup {Len(terms) + 1}
           /\ terms'[Len(terms) + 1] = [letter |-> l, name |-> n]
           /\ \A i \in DOMAIN terms : i # Len(terms) + 1 /\ terms'[i] = terms[i]
           /\ -nextTerm = Len(terms) + 1 /\ nextTerm \in Int
<1> DEFINE t == [letter |-> l, name |-> n]
<1>1. terms \in Seq(Terminal) /\ t \in Terminal /\ terms' = Append(terms, t)
  BY DEF TermsInv, NewTerminal, Terminal
<1> HIDE DEF t
<1>2. Len(terms) \in Nat /\ DOMAIN terms = 1..Len(terms)
  BY <1>1
<1>3. Len(terms') = Len(terms) + 1 /\ terms' \in Seq(Terminal)
  BY <1>1
<1>4. terms'[Len(terms) + 1] = t /\ \A i \in DOMAIN terms : terms'[i] = terms[i]
  BY <1>1, <1>2
<1>5. DOMAIN terms' = DOMAIN terms \cup {Len(terms) + 1}
  BY <1>1, <1>2, <1>3
<1>6. nextTerm' = nextTerm - 1 /\ nextTerm = -(Len(terms) + 1)
  BY DEF TermsInv, NewTerminal
<1> QED  BY <1>2, <1>3, <1>4, <1>5, <1>6 DEF t

\* get_terminal, for an element of the alphabet that is not there.
LEMMA LetterRight ==
    ASSUME TermsInv, NEW l \in Letters0, GetTerminal(l)
    PROVE  TermsInv'
<1> DEFINE new == Len(terms) + 1
<1>1. /\ terms' \in Seq(Terminal)
      /\ nextTerm' = -(Len(terms') + 1)
      /\ DOMAIN terms' = DOMAIN terms \cup {new}
      /\ terms'[new] = [letter |-> l, name |-> NoName]
      /\ \A i \in DOMAIN terms : i # new /\ terms'[i] = terms[i]
      /\ -nextTerm = new /\ nextTerm \in Int
  <2>1. NoName \in Int /\ NewTerminal(l, NoName)
    BY DEF NoName, GetTerminal
  <2> QED  BY <2>1, NewTerminalKeeps
<1> HIDE DEF new
<1>2. /\ DOMAIN letters' = DOMAIN letters \cup {l}
      /\ letters'[l] = nextTerm
      /\ \A x \in DOMAIN letters : x # l /\ letters'[x] = letters[x]
  BY DEF GetTerminal, Entered
<1>3. DOMAIN letters' \subseteq Letters0
  BY <1>2 DEF TermsInv
<1>4. ASSUME NEW x \in DOMAIN letters' PROVE LeadsTo(letters, x, "letter")'
  BY <1>1, <1>2 DEF TermsInv, LeadsTo
<1>5. ASSUME NEW n \in DOMAIN namedTerms' PROVE LeadsTo(namedTerms, n, "name")'
  BY <1>1 DEF TermsInv, LeadsTo, GetTerminal
<1>6. ASSUME NEW i \in DOMAIN terms', terms'[i].letter # NoLetter
      PROVE  terms'[i].letter \in DOMAIN letters'
  BY <1>1, <1>2, <1>6 DEF TermsInv
<1>7. ASSUME NEW i \in DOMAIN terms', NEW j \in DOMAIN terms',
             terms'[i].letter # NoLetter, terms'[i].letter = terms'[j].letter
      PROVE  i = j
  <2>1. \A k \in DOMAIN terms : terms[k].letter # l
    BY NamesAssumption DEF TermsInv, GetTerminal
  <2> QED  BY <1>1, <1>7, <2>1 DEF TermsInv
<1> QED  BY <1>1, <1>3, <1>4, <1>5, <1>6, <1>7 DEF TermsInv

\* A variable terminal, whether the map of names learns of it or not.
LEMMA VariableTerminalRight ==
    ASSUME TermsInv, NEW n \in Int, NewTerminal(NoLetter, n), letters' = letters,
           namedTerms' = namedTerms \/ namedTerms' = Entered(namedTerms, n, nextTerm)
    PROVE  TermsInv'
<1> DEFINE new == Len(terms) + 1
<1>1. /\ terms' \in Seq(Terminal)
      /\ nextTerm' = -(Len(terms') + 1)
      /\ DOMAIN terms' = DOMAIN terms \cup {new}
      /\ terms'[new] = [letter |-> NoLetter, name |-> n]
      /\ \A i \in DOMAIN terms : i # new /\ terms'[i] = terms[i]
      /\ -nextTerm = new /\ nextTerm \in Int
  BY NewTerminalKeeps
<1> HIDE DEF new
<1>2. ASSUME NEW x \in DOMAIN letters' PROVE LeadsTo(letters, x, "letter")'
  BY <1>1 DEF TermsInv, LeadsTo
<1>3. ASSUME NEW k \in DOMAIN namedTerms' PROVE LeadsTo(namedTerms, k, "name")'
  <2>1. CASE k \in DOMAIN namedTerms /\ namedTerms'[k] = namedTerms[k]
    BY <1>1, <2>1 DEF TermsInv, LeadsTo
  <2>2. CASE k = n /\ namedTerms'[k] = nextTerm
    BY <1>1, <2>2 DEF LeadsTo
  <2>3. k \in DOMAIN namedTerms \/ k = n
    BY DEF Entered
  <2>4. namedTerms' = namedTerms \/ namedTerms'[k] = IF k = n THEN nextTerm ELSE namedTerms[k]
    BY DEF Entered
  <2> QED  BY <2>1, <2>2, <2>3, <2>4
<1>4. DOMAIN letters' \subseteq Letters0
  BY DEF TermsInv
<1>5. ASSUME NEW i \in DOMAIN terms', terms'[i].letter # NoLetter
      PROVE  terms'[i].letter \in DOMAIN letters'
  BY <1>1, <1>5 DEF TermsInv
<1>6. ASSUME NEW i \in DOMAIN terms', NEW j \in DOMAIN terms',
             terms'[i].letter # NoLetter, terms'[i].letter = terms'[j].letter
      PROVE  i = j
  BY <1>1, <1>6 DEF TermsInv
<1> QED  BY <1>1, <1>2, <1>3, <1>4, <1>5, <1>6 DEF TermsInv

\* upper is within Int, which is all that the ids need to know of it.
LEMMA TermsStep ==
    ASSUME TermsInv, upper \in Int, NamesNext
    PROVE  TermsInv'
<1>1. ASSUME UNCHANGED termPart PROVE TermsInv'
  BY <1>1 DEF termPart, TermsInv, LeadsTo
<1>2. CASE AddUnnamed
  BY <1>1, <1>2 DEF AddUnnamed
<1>3. CASE AddVariableTerminal
  BY <1>3, VariableTerminalRight DEF AddVariableTerminal
<1>4. ASSUME NEW name \in ReadNames, GetVariable(name) PROVE TermsInv'
  BY <1>1, <1>4 DEF GetVariable
<1>5. ASSUME NEW name \in ReadNames, GetVariableSymbol(name) PROVE TermsInv'
  BY <1>5, VariableTerminalRight, NamesAssumption DEF GetVariableSymbol, NoName
<1>6. ASSUME NEW letter \in Letters0, GetTerminal(letter) PROVE TermsInv'
  BY <1>6, LetterRight
<1>7. ASSUME NEW id \in DOMAIN varNames, ForgetVariable(id) PROVE TermsInv'
  BY <1>1, <1>7 DEF ForgetVariable
<1>8. ASSUME NEW id \in DOMAIN varNames, NameVariable(id) PROVE TermsInv'
  BY <1>1, <1>8 DEF NameVariable
<1> QED  BY <1>2, <1>3, <1>4, <1>5, <1>6, <1>7, <1>8 DEF NamesNext

LEMMA UpperStep ==
    ASSUME upper \in Int, NamesNext
    PROVE  upper' \in Int
<1>1. ASSUME NEW name \in ReadNames PROVE Bound(name) \in Int
  BY NamesAssumption DEF Bound, NoName
<1>2. upper + 1 \in Int
  OBVIOUS
<1>3. upper' = upper \/ upper' = upper + 1 \/ \E name \in ReadNames : upper' = Bound(name)
  BY DEF NamesNext, AddUnnamed, AddVariableTerminal, GetVariable, GetVariableSymbol, GetTerminal,
         ForgetVariable, NameVariable
<1> QED  BY <1>1, <1>2, <1>3

\* Whatever is named, looked up, made and removed, in any order: the id of a
\* terminal is where it stands, and an element of the alphabet or a name leads
\* to the terminal that was made for it (CFG::get_terminal,
\* CFG::get_variable_symbol, CFG::add_variable_terminal).
THEOREM TerminalsAreRight == NamesSpec => []TerminalsRight
<1>1. NamesInit => TermsInv /\ upper \in Int
  BY DEF NamesInit, TermsInv, Nowhere
<1>2. (TermsInv /\ upper \in Int) /\ [NamesNext]_nameVars => (TermsInv /\ upper \in Int)'
  <2>1. CASE UNCHANGED nameVars
    BY <2>1 DEF nameVars, termPart, TermsInv, LeadsTo
  <2> QED  BY <2>1, TermsStep, UpperStep
<1>3. TermsInv => TerminalsRight
  BY TermsInvRight
<1> QED  BY <1>1, <1>2, <1>3, PTL DEF NamesSpec

-----------------------------------------------------------------------------
(* Which names are taken.                                                   *)

\* No number that is read or made has two digits, so that the order of texts is
\* the order of numbers.
OneDigit == MostNumber <= 9 /\ \A n \in ReadNames : n <= 9

NamesInv ==
    /\ OneDigit
    /\ upper \in 0..9
    /\ varNames \in Seq(Int)
    /\ \A i \in DOMAIN varNames : varNames[i] <= upper
    /\ \A i \in DOMAIN terms : terms[i].name <= upper

LEMMA KnownNames ==
    ASSUME NamesInv, TermsInv
    PROVE  /\ \A i \in DOMAIN varNames : varNames[i] \in Int /\ varNames[i] <= upper
           /\ \A i \in DOMAIN terms : terms[i].name \in Int /\ terms[i].name <= upper
<1>1. \A i \in DOMAIN terms : terms[i] \in Terminal
  BY DEF TermsInv
<1>2. \A t \in Terminal : t.name \in Int
  BY DEF Terminal
<1>3. \A i \in DOMAIN varNames : varNames[i] \in Int
  BY DEF NamesInv
<1> QED  BY <1>1, <1>2, <1>3 DEF NamesInv

\* A name from outside moves the bound up to it, if it is above.
LEMMA BoundRight ==
    ASSUME NamesInv, NEW name \in ReadNames
    PROVE  Bound(name) \in 0..9 /\ upper <= Bound(name) /\ name <= Bound(name)
<1>1. name \in Int /\ name <= 9 /\ upper \in Int /\ 0 <= upper /\ upper <= 9
  BY NamesAssumption DEF NamesInv, OneDigit, NoName
<1>2. CASE name < 0
  <2>1. Bound(name) = upper
    BY <1>1, <1>2 DEF Bound
  <2> QED  BY <1>1, <1>2, <2>1
<1>3. CASE name >= 0
  <2>1. Rank(name) = 11 * name /\ Rank(upper) = 11 * upper
    BY <1>1, <1>3 DEF Rank
  <2>2. Bound(name) = IF name > upper THEN name ELSE upper
    BY <1>1, <1>3, <2>1 DEF Bound
  <2>3. CASE name > upper
    BY <1>1, <1>3, <2>2, <2>3
  <2>4. CASE ~(name > upper)
    BY <1>1, <1>3, <2>2, <2>4
  <2> QED  BY <2>3, <2>4
<1> QED  BY <1>1, <1>2, <1>3

\* A variable takes the name, or keeps the one that its id had.
LEMMA NamedRight ==
    ASSUME NamesInv, NEW name \in Int, Named(name), upper' \in 0..9,
           upper <= upper', name <= upper'
    PROVE  varNames' \in Seq(Int) /\ \A i \in DOMAIN varNames' : varNames'[i] <= upper'
<1>1. varNames \in Seq(Int) /\ DOMAIN varNames = 1..Len(varNames) /\ upper \in Int
  BY DEF NamesInv
<1>2. CASE unused = <<>>
  <2>1. varNames' = Append(varNames, name)
    BY <1>2 DEF Named
  <2> QED  BY <1>1, <2>1 DEF NamesInv
<1>3. CASE unused # <<>>
  <2>1. varNames' = [varNames EXCEPT ![Added] = IF name = NoName THEN @ ELSE name]
    BY <1>3 DEF Named
  <2>2. DOMAIN varNames' = DOMAIN varNames
    BY <2>1
  <2>3. ASSUME NEW i \in DOMAIN varNames
        PROVE  varNames'[i] = varNames[i] \/ varNames'[i] = name
    BY <2>1
  <2>4. ASSUME NEW i \in DOMAIN varNames PROVE varNames'[i] \in Int /\ varNames'[i] <= upper'
    <3>1. varNames[i] \in Int /\ varNames[i] <= upper
      BY <1>1 DEF NamesInv
    <3> QED  BY <1>1, <2>3, <3>1
  <2>5. varNames' \in Seq(Int)
    <3>1. varNames' \in [1..Len(varNames) -> Int]
      BY <1>1, <2>1, <2>4
    <3> QED  BY <1>1, <3>1
  <2> QED  BY <2>2, <2>4, <2>5
<1> QED  BY <1>2, <1>3

LEMMA TermNamesRight ==
    ASSUME NamesInv, TermsInv, NEW l \in Letters0 \cup {NoLetter}, NEW n \in Int,
           NewTerminal(l, n), upper' \in 0..9, upper <= upper', n <= upper'
    PROVE  \A i \in DOMAIN terms' : terms'[i].name <= upper'
<1>1. \A i \in DOMAIN terms : terms[i].name \in Int /\ terms[i].name <= upper
  BY KnownNames
<1>2. /\ DOMAIN terms' = DOMAIN terms \cup {Len(terms) + 1}
      /\ terms'[Len(terms) + 1] = [letter |-> l, name |-> n]
      /\ \A i \in DOMAIN terms : terms'[i] = terms[i]
  BY NewTerminalKeeps
<1>3. ASSUME NEW i \in DOMAIN terms' PROVE terms'[i].name <= upper'
  <2>1. CASE i = Len(terms) + 1
    BY <1>2, <2>1
  <2>2. CASE i \in DOMAIN terms
    BY <1>1, <1>2, <2>2 DEF NamesInv
  <2> QED  BY <1>2, <2>1, <2>2
<1> QED  BY <1>3

LEMMA NamesStep ==
    ASSUME NamesInv, TermsInv, NamesNext
    PROVE  NamesInv'
<1> USE DEF varPart, termPart
<1>1. OneDigit' /\ upper \in 0..9 /\ varNames \in Seq(Int) /\ NoName \in Int /\ NoName <= upper
  BY DEF NamesInv, OneDigit, NoName
<1>2. MostNumber \in 1..9
  <2>1. MostNumber \in 1..99 /\ MostNumber <= 9
    BY NamesAssumption DEF NamesInv, OneDigit
  <2> QED  BY <2>1
<1>3. CASE AddUnnamed
  <2>1. varNames' \in Seq(Int) /\ \A i \in DOMAIN varNames' : varNames'[i] <= upper'
    BY <1>1, <1>3, NamedRight DEF AddUnnamed
  <2> QED  BY <1>1, <1>3, <2>1 DEF AddUnnamed, NamesInv
<1>4. CASE AddVariableTerminal
  <2>1. upper' = upper + 1 /\ upper' \in 0..9
    BY <1>1, <1>2, <1>4 DEF AddVariableTerminal
  <2>2. \A i \in DOMAIN terms' : terms'[i].name <= upper'
    <3>1. NewTerminal(NoLetter, upper + 1) /\ upper + 1 \in Int /\ upper <= upper' /\ upper + 1 <= upper'
      BY <1>1, <1>4, <2>1 DEF AddVariableTerminal
    <3> QED  BY <2>1, <3>1, TermNamesRight
  <2>3. \A i \in DOMAIN varNames : varNames[i] \in Int /\ varNames[i] <= upper
    BY DEF NamesInv
  <2> QED  BY <1>1, <1>4, <2>1, <2>2, <2>3 DEF AddVariableTerminal, NamesInv
<1>5. ASSUME NEW name \in ReadNames, GetVariable(name) PROVE NamesInv'
  <2>1. upper' = Bound(name) /\ upper' \in 0..9 /\ upper <= upper' /\ name <= upper' /\ name \in Int
    BY <1>5, BoundRight, NamesAssumption DEF GetVariable, NoName
  <2>2. varNames' \in Seq(Int) /\ \A i \in DOMAIN varNames' : varNames'[i] <= upper'
    BY <1>5, <2>1, NamedRight DEF GetVariable
  <2>3. \A i \in DOMAIN terms : terms[i].name \in Int /\ terms[i].name <= upper
    BY KnownNames
  <2> QED  BY <1>1, <1>5, <2>1, <2>2, <2>3 DEF GetVariable, NamesInv
<1>6. ASSUME NEW name \in ReadNames, GetVariableSymbol(name) PROVE NamesInv'
  <2>1. upper' = Bound(name) /\ upper' \in 0..9 /\ upper <= upper' /\ name <= upper' /\ name \in Int
    BY <1>6, BoundRight, NamesAssumption DEF GetVariableSymbol, NoName
  <2>2. \A i \in DOMAIN terms' : terms'[i].name <= upper'
    BY <1>6, <2>1, TermNamesRight DEF GetVariableSymbol
  <2>3. \A i \in DOMAIN varNames : varNames[i] \in Int /\ varNames[i] <= upper
    BY DEF NamesInv
  <2> QED  BY <1>1, <1>6, <2>1, <2>2, <2>3 DEF GetVariableSymbol, NamesInv
<1>7. ASSUME NEW letter \in Letters0, GetTerminal(letter) PROVE NamesInv'
  <2>1. \A i \in DOMAIN terms' : terms'[i].name <= upper'
    BY <1>1, <1>7, TermNamesRight DEF GetTerminal
  <2> QED  BY <1>1, <1>7, <2>1 DEF GetTerminal, NamesInv
<1>8. ASSUME NEW id \in DOMAIN varNames, ForgetVariable(id) PROVE NamesInv'
  BY <1>1, <1>8 DEF ForgetVariable, NamesInv
<1>9. ASSUME NEW id \in DOMAIN varNames, NameVariable(id) PROVE NamesInv'
  <2>1. upper' = upper + 1 /\ upper' \in 0..9 /\ varNames' = [varNames EXCEPT ![id] = upper + 1]
    BY <1>1, <1>2, <1>9 DEF NameVariable
  <2>2. varNames' \in Seq(Int) /\ DOMAIN varNames' = DOMAIN varNames
    BY <1>1, <2>1
  <2>3. \A i \in DOMAIN varNames : varNames[i] \in Int /\ varNames[i] <= upper
    BY DEF NamesInv
  <2>4. ASSUME NEW i \in DOMAIN varNames PROVE varNames'[i] <= upper'
    BY SMTT(40), <1>1, <2>1, <2>3
  <2>5. \A i \in DOMAIN terms : terms[i].name \in Int /\ terms[i].name <= upper
    BY KnownNames
  <2>6. terms' = terms
    BY <1>9 DEF NameVariable
  <2> QED  BY SMTT(40), <1>1, <2>1, <2>2, <2>4, <2>5, <2>6 DEF NamesInv
<1> QED  BY <1>3, <1>4, <1>5, <1>6, <1>7, <1>8, <1>9 DEF NamesNext

-----------------------------------------------------------------------------
(* Where the names of variables lead.                                       *)

VarsInv ==
    /\ varNames \in Seq(Int)
    /\ \A i \in DOMAIN unused : unused[i] \in DOMAIN varNames
    /\ unused \in Seq(Int)
    /\ DOMAIN named \subseteq ReadNames
    /\ VariablesRight

LEMMA AddedIn ==
    ASSUME VarsInv, NEW name \in Int, Named(name)
    PROVE  /\ varNames' \in Seq(Int) /\ DOMAIN varNames' = DOMAIN varNames \cup {Added}
           /\ unused' \in Seq(Int) /\ \A i \in DOMAIN unused' : unused'[i] \in DOMAIN varNames'
           /\ \A i \in DOMAIN varNames : i # Added \/ name = NoName => varNames'[i] = varNames[i]
           /\ name # NoName => varNames'[Added] = name
<1>1. varNames \in Seq(Int) /\ unused \in Seq(Int) /\ DOMAIN varNames = 1..Len(varNames)
  BY DEF VarsInv
<1>2. CASE unused = <<>>
  <2>1. varNames' = Append(varNames, name) /\ unused' = <<>> /\ Added = Len(varNames) + 1
    BY <1>2 DEF Named, Added
  <2> QED  BY <1>1, <2>1
<1>3. CASE unused # <<>>
  <2>1. Added = Head(unused) /\ Added = unused[1] /\ 1 \in DOMAIN unused
    BY <1>1, <1>3 DEF Added
  <2>2. Added \in DOMAIN varNames
    BY <2>1 DEF VarsInv
  <2>3. /\ varNames' = [varNames EXCEPT ![Added] = IF name = NoName THEN @ ELSE name]
        /\ unused' = Tail(unused)
    BY <1>3 DEF Named
  <2>4. /\ DOMAIN varNames' = DOMAIN varNames
        /\ \A i \in DOMAIN varNames : i # Added => varNames'[i] = varNames[i]
        /\ varNames'[Added] = IF name = NoName THEN varNames[Added] ELSE name
    BY <2>2, <2>3
  <2>5. varNames' \in Seq(Int)
    <3>1. \A i \in 1..Len(varNames) : varNames'[i] \in Int
      BY <1>1, <2>4
    <3>2. varNames' \in [1..Len(varNames) -> Int]
      BY <1>1, <2>3, <3>1
    <3> QED  BY <1>1, <3>2
  <2>6. unused' \in Seq(Int) /\ \A i \in DOMAIN unused' : unused'[i] \in DOMAIN varNames
    <3>1. \A i \in DOMAIN Tail(unused) : i + 1 \in DOMAIN unused /\ Tail(unused)[i] = unused[i + 1]
      BY <1>1, <1>3
    <3> QED  BY <1>1, <1>3, <2>3, <3>1 DEF VarsInv
  <2> QED  BY <2>2, <2>4, <2>5, <2>6
<1> QED  BY <1>2, <1>3

LEMMA VarsStep ==
    ASSUME VarsInv, NamesNext, upper \in Int
    PROVE  VarsInv'
<1> USE DEF varPart, termPart
<1>1. CASE AddUnnamed
  <2>1. Named(NoName) /\ NoName \in Int /\ named' = named
    BY <1>1 DEF AddUnnamed, NoName
  <2>2. /\ varNames' \in Seq(Int) /\ DOMAIN varNames \subseteq DOMAIN varNames'
        /\ unused' \in Seq(Int) /\ \A i \in DOMAIN unused' : unused'[i] \in DOMAIN varNames'
        /\ \A i \in DOMAIN varNames : varNames'[i] = varNames[i]
    BY <2>1, AddedIn
  <2> QED  BY <2>1, <2>2 DEF VarsInv, VariablesRight
<1>2. ASSUME NEW name \in ReadNames, GetVariable(name) PROVE VarsInv'
  <2>1. /\ name \in Int /\ name # NoName /\ name \notin DOMAIN named /\ Named(name)
        /\ named' = Entered(named, name, Added)
    BY <1>2, NamesAssumption DEF GetVariable, NoName
  <2>2. /\ varNames' \in Seq(Int) /\ DOMAIN varNames' = DOMAIN varNames \cup {Added}
        /\ unused' \in Seq(Int) /\ \A i \in DOMAIN unused' : unused'[i] \in DOMAIN varNames'
        /\ \A i \in DOMAIN varNames : i # Added => varNames'[i] = varNames[i]
        /\ varNames'[Added] = name
    BY <2>1, AddedIn
  <2>3. /\ DOMAIN named' = DOMAIN named \cup {name} /\ named'[name] = Added
        /\ \A n \in DOMAIN named : named'[n] = named[n]
    BY <2>1 DEF Entered
  <2>4. ASSUME NEW n \in DOMAIN named'
        PROVE  /\ named'[n] \in DOMAIN varNames'
               /\ varNames'[named'[n]] \in DOMAIN named'
               /\ named'[varNames'[named'[n]]] = named'[n]
    <3>1. CASE named'[n] = Added
      BY <2>2, <2>3, <3>1
    <3>2. CASE named'[n] # Added
      <4>1. n \in DOMAIN named /\ named'[n] = named[n]
        BY <2>3, <3>2
      <4>2. /\ named[n] \in DOMAIN varNames /\ varNames[named[n]] \in DOMAIN named
            /\ named[varNames[named[n]]] = named[n]
        BY <4>1 DEF VarsInv, VariablesRight
      <4> QED  BY <2>2, <2>3, <3>2, <4>1, <4>2
    <3> QED  BY <3>1, <3>2
  <2> QED  BY <2>2, <2>3, <2>4 DEF VarsInv, VariablesRight
<1>3. ASSUME NEW id \in DOMAIN varNames, ForgetVariable(id) PROVE VarsInv'
  <2>1. varNames' = varNames /\ named' = named /\ unused' = <<id>> \o unused
    BY <1>3 DEF ForgetVariable
  <2>2. id \in Int /\ unused \in Seq(Int)
    BY DEF VarsInv
  <2>3. unused' \in Seq(Int) /\ Len(unused') = Len(unused) + 1
    BY <2>1, <2>2
  <2>4. ASSUME NEW i \in DOMAIN unused' PROVE unused'[i] \in DOMAIN varNames
    <3>1. i \in 1..Len(unused) + 1 /\ Len(unused) \in Nat /\ DOMAIN unused = 1..Len(unused)
      BY <2>2, <2>3
    <3>2. CASE i = 1
      BY <2>1, <2>2, <3>2
    <3>3. CASE i # 1
      <4>1. i - 1 \in DOMAIN unused
        BY <3>1, <3>3
      <4>2. unused'[i] = unused[i - 1]
        BY <2>1, <2>2, <3>1, <3>3
      <4> QED  BY <4>1, <4>2 DEF VarsInv
    <3> QED  BY <3>2, <3>3
  <2> QED  BY <2>1, <2>3, <2>4 DEF VarsInv, VariablesRight
<1>4. ASSUME NEW id \in DOMAIN varNames, NameVariable(id) PROVE VarsInv'
  <2>1. /\ varNames[id] = NoName /\ varNames' = [varNames EXCEPT ![id] = upper + 1]
        /\ named' = named /\ unused' = unused
    BY <1>4 DEF NameVariable
  <2>2. varNames' \in Seq(Int) /\ DOMAIN varNames' = DOMAIN varNames
    BY <2>1 DEF VarsInv
  <2>3. ASSUME NEW n \in DOMAIN named PROVE varNames'[named[n]] = varNames[named[n]]
    <3>1. named[n] \in DOMAIN varNames /\ varNames[named[n]] \in ReadNames
      BY DEF VarsInv, VariablesRight
    <3>2. NoName \notin ReadNames
      BY NamesAssumption DEF NoName
    <3> QED  BY <2>1, <3>1, <3>2
  <2> QED  BY <2>1, <2>2, <2>3 DEF VarsInv, VariablesRight
<1>5. CASE UNCHANGED varPart
  BY <1>5 DEF VarsInv, VariablesRight
<1> QED
  BY <1>1, <1>2, <1>3, <1>4, <1>5
  DEF NamesNext, AddVariableTerminal, GetVariableSymbol, GetTerminal

-----------------------------------------------------------------------------
\* A terminal and what it stands for lead to each other, the name of a variable
\* leads to its id; and while no number has two digits, the name that would be
\* made next belongs to no symbol, in whatever order names are read and made,
\* variables removed and their ids used again (CFG::get_variable, CFG::get_name,
\* CFG::add_variable_terminal).
THEOREM NamesAreRight == OneDigit /\ NamesSpec => []NamesRight
<1> DEFINE Both == TermsInv /\ NamesInv /\ VarsInv
<1>1. OneDigit /\ NamesInit => Both
  BY DEF NamesInit, TermsInv, NamesInv, Nowhere, VarsInv, VariablesRight
<1>2. Both /\ [NamesNext]_nameVars => Both'
  <2>1. CASE UNCHANGED nameVars
    BY <2>1
    DEF nameVars, varPart, termPart, TermsInv, NamesInv, VarsInv, VariablesRight, LeadsTo, OneDigit
  <2>2. TermsInv /\ NamesInv /\ VarsInv /\ NamesNext => TermsInv' /\ NamesInv' /\ VarsInv'
    BY TermsStep, NamesStep, VarsStep DEF NamesInv
  <2> QED  BY <2>1, <2>2
<1>3. Both => NamesRight
  <2> SUFFICES ASSUME TermsInv, NamesInv, VarsInv PROVE NamesRight
    OBVIOUS
  <2>1. ASSUME NEW i \in DOMAIN varNames PROVE varNames[i] # upper + 1
    <3>1. varNames[i] \in Int /\ varNames[i] <= upper /\ upper \in Int
      BY DEF NamesInv
    <3> QED  BY <3>1
  <2>2. ASSUME NEW i \in DOMAIN terms PROVE terms[i].name # upper + 1
    <3>1. terms[i].name \in Int /\ terms[i].name <= upper /\ upper \in Int
      BY KnownNames DEF NamesInv
    <3> QED  BY <3>1
  <2> QED  BY <2>1, <2>2, TermsInvRight DEF NamesRight, NextNameFree, Taken, VarsInv
<1> QED  BY <1>1, <1>2, <1>3, PTL DEF NamesSpec

-----------------------------------------------------------------------------
(* Rules of TDOP grammars.  Their order is strict and total, up to bounds    *)
(* and strings.                                                             *)

Ops    == Int \X Int
Keys   == [ub : Nat \cup {INITIAL}, str : Seq(Ops)]
KeyOf(a) == [ub |-> a.ub, str |-> a.str]
Keyed(a) == a.ub \in Nat \cup {INITIAL} /\ a.str \in Seq(Ops)

\* Where two strings come apart.
Agree(a, b, k) == \A i \in 1 .. k : a[i] = b[i]
Apart(a, b, k) ==
    /\ k \in 0 .. Len(a) /\ k < Len(b) /\ Agree(a, b, k)
    /\ k = Len(a) \/ OperatorLess(a[k + 1], b[k + 1])

LEMMA OperatorOrder ==
    ASSUME NEW a \in Ops, NEW b \in Ops, NEW c \in Ops
    PROVE  /\ ~ OperatorLess(a, a)
           /\ OperatorLess(a, b) /\ OperatorLess(b, c) => OperatorLess(a, c)
           /\ OperatorLess(a, b) \/ OperatorLess(b, a) \/ a = b
BY DEF OperatorLess, Ops

LEMMA SameFront ==
    ASSUME NEW a \in Seq(Ops), NEW b \in Seq(Ops), NEW k \in Nat, k <= Len(a), k <= Len(b)
    PROVE  SubSeq(a, 1, k) = SubSeq(b, 1, k) <=> Agree(a, b, k)
<1> DEFINE s == SubSeq(a, 1, k)
           t == SubSeq(b, 1, k)
<1>1. /\ s \in Seq(Ops) /\ Len(s) = k /\ \A i \in 1 .. k : s[i] = a[i]
      /\ t \in Seq(Ops) /\ Len(t) = k /\ \A i \in 1 .. k : t[i] = b[i]
      OBVIOUS
<1> HIDE DEF s, t
<1>2. Agree(a, b, k) => s = t BY <1>1 DEF Agree
<1>3. s = t => Agree(a, b, k) BY <1>1 DEF Agree
<1> QED BY <1>2, <1>3 DEF s, t

LEMMA LessApart ==
    ASSUME NEW a \in Seq(Ops), NEW b \in Seq(Ops)
    PROVE  StringLess(a, b) <=> \E k \in Nat : Apart(a, b, k)
<1>1. Len(a) \in Nat /\ Len(b) \in Nat OBVIOUS
<1>2. ASSUME NEW k \in 0 .. Len(a), k < Len(b)
      PROVE  SubSeq(a, 1, k) = SubSeq(b, 1, k) <=> Agree(a, b, k)
      BY <1>1, <1>2, SameFront
<1> QED BY <1>1, <1>2 DEF StringLess, Apart

LEMMA StringOrder ==
    ASSUME NEW a \in Seq(Ops), NEW b \in Seq(Ops), NEW c \in Seq(Ops)
    PROVE  /\ ~ StringLess(a, a)
           /\ StringLess(a, b) /\ StringLess(b, c) => StringLess(a, c)
           /\ StringLess(a, b) \/ StringLess(b, a) \/ a = b
<1>0. Len(a) \in Nat /\ Len(b) \in Nat /\ Len(c) \in Nat OBVIOUS
<1>1. ~ StringLess(a, a)
  <2> SUFFICES ASSUME NEW k \in Nat, Apart(a, a, k) PROVE FALSE BY LessApart
  <2>1. k + 1 \in 1 .. Len(a) /\ OperatorLess(a[k + 1], a[k + 1]) BY <1>0 DEF Apart
  <2>2. a[k + 1] \in Ops BY <2>1
  <2> QED BY <2>1, <2>2, OperatorOrder
<1>2. ASSUME StringLess(a, b), StringLess(b, c) PROVE StringLess(a, c)
  <2>1. PICK k \in Nat : Apart(a, b, k) BY <1>2, LessApart
  <2>2. PICK m \in Nat : Apart(b, c, m) BY <1>2, LessApart
  <2>3. CASE k < m
    <3>1. Agree(a, c, k) BY <1>0, <2>1, <2>2, <2>3 DEF Apart, Agree
    <3>2. k < Len(c) /\ b[k + 1] = c[k + 1] BY <1>0, <2>1, <2>2, <2>3 DEF Apart, Agree
    <3> QED BY <1>0, <2>1, <3>1, <3>2, LessApart DEF Apart
  <2>4. CASE m < k
    <3>1. Agree(a, c, m) BY <1>0, <2>1, <2>2, <2>4 DEF Apart, Agree
    <3>2. m \in 0 .. Len(a) /\ m < Len(c) /\ a[m + 1] = b[m + 1] /\ m # Len(b)
          BY <1>0, <2>1, <2>2, <2>4 DEF Apart, Agree
    <3> QED BY <1>0, <2>2, <3>1, <3>2, LessApart DEF Apart
  <2>5. CASE m = k
    <3>1. Agree(a, c, k) /\ k \in 0 .. Len(a) /\ k < Len(c) /\ k # Len(b)
          BY <1>0, <2>1, <2>2, <2>5 DEF Apart, Agree
    <3>2. CASE k = Len(a) BY <3>1, <3>2, LessApart DEF Apart
    <3>3. CASE k # Len(a)
      <4>1. k + 1 \in 1 .. Len(a) /\ k + 1 \in 1 .. Len(b) /\ k + 1 \in 1 .. Len(c)
            BY <1>0, <2>1, <3>1, <3>3 DEF Apart
      <4>2. a[k + 1] \in Ops /\ b[k + 1] \in Ops /\ c[k + 1] \in Ops BY <4>1
      <4>3. OperatorLess(a[k + 1], c[k + 1])
            BY <2>1, <2>2, <2>5, <3>1, <3>3, <4>2, OperatorOrder DEF Apart
      <4> QED BY <3>1, <4>3, LessApart DEF Apart
    <3> QED BY <3>2, <3>3
  <2> QED BY <2>3, <2>4, <2>5
<1>3. ASSUME a # b PROVE StringLess(a, b) \/ StringLess(b, a)
  <2> DEFINE Ends(k) == k = Len(a) \/ k = Len(b) \/ a[k + 1] # b[k + 1]
             N == {k \in Nat : Ends(k)}
  <2>1. N \in SUBSET Nat /\ Len(a) \in N BY <1>0
  <2>2. PICK k \in N : \A m \in N : k <= m
    <3> HIDE DEF N
    <3> QED BY <2>1, LeastExists
  <2>3. k \in Nat /\ k <= Len(a) /\ k <= Len(b) /\ Ends(k)
    <3>1. Len(b) \in N BY <1>0
    <3>2. k \in Nat /\ Ends(k) OBVIOUS
    <3> HIDE DEF N, Ends
    <3> QED BY <1>0, <2>1, <2>2, <3>1, <3>2
  <2>4. Agree(a, b, k) /\ Agree(b, a, k)
    <3>1. ASSUME NEW i \in 1 .. k PROVE a[i] = b[i]
      <4>1. i - 1 \in Nat /\ ~ k <= i - 1 /\ (i - 1) + 1 = i BY <2>3
      <4>2. i - 1 \notin N BY <2>2, <4>1
      <4>3. ~ Ends(i - 1) BY <4>1, <4>2
      <4> QED BY <4>1, <4>3
    <3> QED BY <3>1 DEF Agree
  <2>5. CASE k = Len(a)
    <3>1. k # Len(b)
      <4> SUFFICES ASSUME k = Len(b) PROVE FALSE OBVIOUS
      <4>1. \A i \in 1 .. Len(a) : a[i] = b[i] BY <2>4, <2>5 DEF Agree
      <4>2. Len(a) = Len(b) BY <2>5
      <4> HIDE DEF N
      <4>3. a = b BY <4>1, <4>2
      <4> QED BY <1>3, <4>3
    <3>2. Apart(a, b, k) BY <1>0, <2>3, <2>4, <2>5, <3>1 DEF Apart
    <3> QED BY <2>3, <3>2, LessApart
  <2>6. CASE k = Len(b) /\ k # Len(a)
    <3>1. Apart(b, a, k) BY <1>0, <2>3, <2>4, <2>6 DEF Apart
    <3> QED BY <2>3, <3>1, LessApart
  <2>7. CASE k # Len(a) /\ k # Len(b)
    <3>1. k + 1 \in 1 .. Len(a) /\ k + 1 \in 1 .. Len(b) /\ a[k + 1] # b[k + 1]
          BY <1>0, <2>3, <2>7
    <3>2. a[k + 1] \in Ops /\ b[k + 1] \in Ops BY <3>1
    <3>3. Apart(a, b, k) \/ Apart(b, a, k)
          BY <1>0, <2>3, <2>4, <2>7, <3>1, <3>2, OperatorOrder DEF Apart
    <3> QED BY <2>3, <3>3, LessApart
  <2> QED BY <2>5, <2>6, <2>7
<1> QED BY <1>1, <1>2, <1>3

LEMMA RuleOrder ==
    ASSUME NEW a, Keyed(a), NEW b, Keyed(b), NEW c, Keyed(c)
    PROVE  /\ ~ IsLessThan(a, a)
           /\ IsLessThan(a, b) /\ IsLessThan(b, c) => IsLessThan(a, c)
           /\ IsLessThan(a, b) \/ IsLessThan(b, a) \/ (a.ub = b.ub /\ a.str = b.str)
           /\ a.ub = INITIAL /\ b.ub # INITIAL => IsLessThan(a, b)
<1>1. /\ ~ StringLess(a.str, a.str)
      /\ StringLess(a.str, b.str) /\ StringLess(b.str, c.str) => StringLess(a.str, c.str)
      /\ StringLess(a.str, b.str) \/ StringLess(b.str, a.str) \/ a.str = b.str
      BY StringOrder DEF Keyed
<1> QED BY <1>1 DEF Keyed, IsLessThan, INITIAL

-----------------------------------------------------------------------------
(* The chains of rules.                                                     *)

Rule == [cat : Nat, ub : Nat \cup {INITIAL}, str : Seq(Ops), prev : Nat, next : Nat,
         deleted : BOOLEAN]

Less(rs, r, s) == IsLessThan(rs[r], rs[s])
Mine(rs, c, list) == {r \in DOMAIN rs : rs[r].cat = c /\ List(rs[r].ub) = list}

\* Behind the head each rule leads to the next greater one of its list, and
\* there are no two that are equal; what is less than the head leads up to it.
ChainOK(rs, head, mine) ==
    /\ head \in mine \/ (head = 0 /\ mine = {})
    /\ \A r \in mine : rs[r].next # 0 => rs[r].next \in mine /\ Less(rs, r, rs[r].next)
    /\ \A r, s \in mine :
           ~ Less(rs, r, head) /\ Less(rs, r, s) => rs[r].next # 0 /\ ~ Less(rs, s, rs[r].next)
    /\ \A r \in mine : ~ Less(rs, r, head) /\ rs[r].next # 0 => rs[rs[r].next].prev = r
    /\ \A r, s \in mine :
           r # s /\ ~ Less(rs, r, head) /\ ~ Less(rs, s, head) => Less(rs, r, s) \/ Less(rs, s, r)

StoreOK(hs, rs) ==
    /\ hs \in Seq([Lists -> Nat]) /\ rs \in Seq(Rule)
    /\ \A r \in DOMAIN rs : rs[r].cat \in DOMAIN hs
    /\ \A c \in DOMAIN hs, list \in Lists : ChainOK(rs, hs[c][list], Mine(rs, c, list))

LEMMA RulesKeyed ==
    ASSUME NEW rs \in Seq(Rule), NEW r \in DOMAIN rs
    PROVE  rs[r] \in Rule /\ Keyed(rs[r]) /\ List(rs[r].ub) \in Lists
<1>1. rs[r] \in Rule OBVIOUS
<1> QED BY <1>1 DEF Rule, Keyed, List, Lists

LEMMA LessOrder ==
    ASSUME NEW rs \in Seq(Rule)
    PROVE  /\ \A r \in DOMAIN rs : ~ Less(rs, r, r)
           /\ \A r, s, t \in DOMAIN rs : Less(rs, r, s) /\ Less(rs, s, t) => Less(rs, r, t)
           /\ \A r, s \in DOMAIN rs :
                  Less(rs, r, s) \/ Less(rs, s, r) \/ (rs[r].ub = rs[s].ub /\ rs[r].str = rs[s].str)
BY RulesKeyed, RuleOrder DEF Less

\* Rules that are equal are alike to a third.
LEMMA EqualKeys ==
    ASSUME NEW a, NEW b, NEW c, a.ub = b.ub, a.str = b.str
    PROVE  /\ IsLessThan(a, c) <=> IsLessThan(b, c)
           /\ IsLessThan(c, a) <=> IsLessThan(c, b)
BY DEF IsLessThan

\* What of a rule the chains are about.
Skeleton(a) == <<a.cat, a.ub, a.str, a.prev, a.next>>

LEMMA ChainFrame ==
    ASSUME NEW rs, NEW rs2, NEW mine, NEW head, ChainOK(rs, head, mine),
           \A r \in mine : Skeleton(rs2[r]) = Skeleton(rs[r])
    PROVE  ChainOK(rs2, head, mine)
<1>1. \A r \in mine : /\ rs2[r].ub = rs[r].ub /\ rs2[r].str = rs[r].str
                      /\ rs2[r].prev = rs[r].prev /\ rs2[r].next = rs[r].next
      BY DEF Skeleton
<1>2. \A r, s \in mine : Less(rs2, r, s) <=> Less(rs, r, s)
      BY <1>1 DEF Less, IsLessThan
<1>3. \A r \in mine : Less(rs2, r, head) <=> Less(rs, r, head)
      BY <1>2 DEF ChainOK
<1> QED BY <1>1, <1>2, <1>3 DEF ChainOK

LEMMA MarkOK ==
    ASSUME NEW hs, NEW rs, StoreOK(hs, rs), NEW rs2 \in Seq(Rule), DOMAIN rs2 = DOMAIN rs,
           \A r \in DOMAIN rs : Skeleton(rs2[r]) = Skeleton(rs[r])
    PROVE  StoreOK(hs, rs2)
<1>1. \A r \in DOMAIN rs : rs2[r].cat = rs[r].cat /\ rs2[r].ub = rs[r].ub
      BY DEF Skeleton
<1>2. ASSUME NEW c \in DOMAIN hs, NEW list \in Lists
      PROVE  ChainOK(rs2, hs[c][list], Mine(rs2, c, list))
  <2>1. Mine(rs2, c, list) = Mine(rs, c, list) BY <1>1 DEF Mine
  <2>2. ChainOK(rs, hs[c][list], Mine(rs, c, list)) BY DEF StoreOK
  <2>3. Mine(rs, c, list) \subseteq DOMAIN rs BY DEF Mine
  <2> QED BY <2>1, <2>2, <2>3, ChainFrame
<1>3. \A r \in DOMAIN rs2 : rs2[r].cat \in DOMAIN hs BY <1>1 DEF StoreOK
<1> QED BY <1>2, <1>3 DEF StoreOK

LEMMA CategoryOK ==
    ASSUME NEW hs, NEW rs, StoreOK(hs, rs)
    PROVE  StoreOK(Append(hs, [list \in Lists |-> 0]), rs)
<1> DEFINE new == [list \in Lists |-> 0]
           hs2 == Append(hs, new)
<1>1. new \in [Lists -> Nat] /\ hs \in Seq([Lists -> Nat]) BY DEF StoreOK
<1>2. /\ hs2 \in Seq([Lists -> Nat]) /\ DOMAIN hs2 = DOMAIN hs \cup {Len(hs) + 1}
      /\ \A c \in DOMAIN hs : hs2[c] = hs[c]
      /\ hs2[Len(hs) + 1] = new /\ Len(hs) + 1 \notin DOMAIN hs
  <2> HIDE DEF new
  <2> QED BY <1>1
<1> HIDE DEF hs2
<1>3. ASSUME NEW c \in DOMAIN hs2, NEW list \in Lists
      PROVE  ChainOK(rs, hs2[c][list], Mine(rs, c, list))
  <2>1. CASE c \in DOMAIN hs BY <1>2, <2>1 DEF StoreOK
  <2>2. CASE c = Len(hs) + 1
    <3>1. Mine(rs, c, list) = {} BY <1>2, <2>2 DEF StoreOK, Mine
    <3>2. hs2[c][list] = 0 BY <1>2, <2>2
    <3> QED BY <3>1, <3>2 DEF ChainOK
  <2> QED BY <1>2, <2>1, <2>2
<1>4. StoreOK(hs2, rs) BY <1>2, <1>3 DEF StoreOK
<1> QED BY <1>4 DEF hs2

\* Where add_rule puts a rule that is not there: behind p, or in front of the head.
Spot(rs, head, mine, key, p, m) ==
    /\ \/ p = 0 /\ m = head
       \/ p \in mine /\ ~ Less(rs, p, head) /\ IsLessThan(rs[p], key) /\ m = rs[p].next
    /\ m # 0 => ~ IsLessThan(rs[m], key)

\* What PutBetween makes of the rules.
PutRight(rule, p, m, n, rs2) ==
    /\ rs2 \in Seq(Rule) /\ Len(rs2) = n /\ DOMAIN rs2 = DOMAIN rules \cup {n}
    /\ n \in Nat /\ n # 0 /\ n \notin DOMAIN rules /\ rs2[n] = rule
    /\ \A r \in DOMAIN rules :
           /\ rs2[r].cat = rules[r].cat /\ rs2[r].ub = rules[r].ub
           /\ rs2[r].str = rules[r].str /\ rs2[r].deleted = rules[r].deleted
           /\ rs2[r].prev = IF r = m THEN n ELSE rules[r].prev
           /\ rs2[r].next = IF r = p THEN n ELSE rules[r].next

LEMMA PutRules ==
    ASSUME rules \in Seq(Rule), NEW rule \in Rule, NEW p \in RulesOrNull, NEW m \in RulesOrNull,
           NEW n, n = Len(rules) + 1, p = 0 \/ p # m,
           NEW rs2, rs2 = PutBetween(rule, p, m, n)
    PROVE  PutRight(rule, p, m, n, rs2)
<1>0. Len(rules) \in Nat /\ n \in Nat /\ n # 0 /\ n \notin DOMAIN rules OBVIOUS
<1> DEFINE linked == IF m = 0 THEN rules ELSE [rules EXCEPT ![m].prev = n]
           new    == Append(linked, rule)
           out    == IF p = 0 THEN new ELSE [new EXCEPT ![p].next = n]
<1>1. \A r \in DOMAIN rules : rules[r] \in Rule OBVIOUS
<1>2. /\ linked \in Seq(Rule) /\ Len(linked) = Len(rules)
      /\ \A r \in DOMAIN rules : linked[r] = [rules[r] EXCEPT !.prev = IF r = m THEN n ELSE @]
  <2>1. CASE m = 0
    <3>1. \A r \in DOMAIN rules : r # m BY <2>1
    <3> QED BY <1>1, <2>1, <3>1 DEF Rule
  <2>2. CASE m # 0
    <3>1. m \in DOMAIN rules BY <2>2 DEF RulesOrNull
    <3>2. [rules[m] EXCEPT !.prev = n] \in Rule BY <1>0, <1>1, <3>1 DEF Rule
    <3>3. linked = [rules EXCEPT ![m] = [rules[m] EXCEPT !.prev = n]] BY <2>2
    <3>4. linked \in Seq(Rule) /\ Len(linked) = Len(rules) BY <3>1, <3>2, <3>3
    <3>5. ASSUME NEW r \in DOMAIN rules
          PROVE  linked[r] = [rules[r] EXCEPT !.prev = IF r = m THEN n ELSE @]
      <4>1. CASE r = m BY <3>1, <3>3, <4>1
      <4>2. CASE r # m
        <5>1. linked[r] = rules[r] BY <3>1, <3>3, <4>2
        <5>2. rules[r] \in Rule BY <1>1
        <5> QED BY <4>2, <5>1, <5>2 DEF Rule
      <4> QED BY <4>1, <4>2
    <3> QED BY <3>4, <3>5
  <2> QED BY <2>1, <2>2
<1> HIDE DEF linked
<1>3. /\ new \in Seq(Rule) /\ Len(new) = n /\ new[n] = rule
      /\ \A r \in DOMAIN rules : new[r] = linked[r]
      BY <1>0, <1>2
<1> HIDE DEF new
<1>4. /\ out \in Seq(Rule) /\ Len(out) = n /\ out[n] = rule
      /\ \A r \in DOMAIN rules : out[r] = IF r = p THEN [new[r] EXCEPT !.next = n] ELSE new[r]
  <2>1. CASE p = 0
    <3>1. \A r \in DOMAIN rules : r # p BY <2>1
    <3> QED BY <1>3, <2>1, <3>1
  <2>2. CASE p # 0
    <3>1. p \in DOMAIN rules /\ p \in DOMAIN new /\ p # n BY <1>0, <1>3, <2>2 DEF RulesOrNull
    <3>2. new[p] \in Rule BY <1>3, <3>1
    <3>3. [new[p] EXCEPT !.next = n] \in Rule BY <1>0, <3>2 DEF Rule
    <3>4. out = [new EXCEPT ![p] = [new[p] EXCEPT !.next = n]] BY <2>2
    <3> QED BY <1>0, <1>3, <3>1, <3>3, <3>4, SMTT(30)
  <2> QED BY <2>1, <2>2
<1>5. rs2 = out BY DEF PutBetween, linked, new
<1>5a. /\ rs2 \in Seq(Rule) /\ Len(rs2) = n /\ rs2[n] = rule
      /\ \A r \in DOMAIN rules : rs2[r] = IF r = p THEN [new[r] EXCEPT !.next = n] ELSE new[r]
  <2> HIDE DEF out
  <2> QED BY <1>4, <1>5
<1> HIDE DEF out
<1>6. DOMAIN rs2 = DOMAIN rules \cup {n}
  <2>1. DOMAIN rs2 = 1 .. n /\ DOMAIN rules = 1 .. Len(rules) BY <1>5a
  <2>2. \A k \in Nat : 1 .. k + 1 = (1 .. k) \cup {k + 1} OBVIOUS
  <2>3. 1 .. n = (1 .. Len(rules)) \cup {n} BY <1>0, <2>2
  <2> QED BY <2>1, <2>3
<1>7. ASSUME NEW r \in DOMAIN rules
      PROVE  /\ rs2[r].cat = rules[r].cat /\ rs2[r].ub = rules[r].ub
             /\ rs2[r].str = rules[r].str /\ rs2[r].deleted = rules[r].deleted
             /\ rs2[r].prev = IF r = m THEN n ELSE rules[r].prev
             /\ rs2[r].next = IF r = p THEN n ELSE rules[r].next
  <2>1. new[r] = [rules[r] EXCEPT !.prev = IF r = m THEN n ELSE @] /\ rules[r] \in Rule
        BY <1>1, <1>2, <1>3
  <2>2. rs2[r] = IF r = p THEN [new[r] EXCEPT !.next = n] ELSE new[r] BY <1>5a
  <2>3. /\ new[r] \in Rule
        /\ new[r].cat = rules[r].cat /\ new[r].ub = rules[r].ub
        /\ new[r].str = rules[r].str /\ new[r].deleted = rules[r].deleted
        /\ new[r].prev = IF r = m THEN n ELSE rules[r].prev
        /\ new[r].next = rules[r].next
        BY <1>0, <2>1 DEF Rule
  <2> HIDE DEF new
  <2>4. CASE r = p
    <3>1. rs2[r] = [new[r] EXCEPT !.next = n] BY <2>2, <2>4
    <3>2. /\ rs2[r].cat = new[r].cat /\ rs2[r].ub = new[r].ub /\ rs2[r].str = new[r].str
          /\ rs2[r].deleted = new[r].deleted /\ rs2[r].prev = new[r].prev /\ rs2[r].next = n
          BY <2>3, <3>1 DEF Rule
    <3> QED BY <2>3, <2>4, <3>2
  <2>5. CASE r # p BY <2>2, <2>3, <2>5
  <2> QED BY <2>4, <2>5
<1> QED BY <1>0, <1>5a, <1>6, <1>7 DEF PutRight

\* A rule put there leaves a chain that is right.
LEMMA InsertChain ==
    ASSUME rules \in Seq(Rule), NEW head, NEW mine, mine \subseteq DOMAIN rules,
           ChainOK(rules, head, mine), NEW rule \in Rule,
           NEW p \in RulesOrNull, NEW m \in RulesOrNull,
           Spot(rules, head, mine, rule, p, m), rule.prev = p, rule.next = m,
           m # 0 => IsLessThan(rule, rules[m]),
           NEW n, NEW rs2, PutRight(rule, p, m, n, rs2)
    PROVE  /\ head = 0 => ChainOK(rs2, n, mine \cup {n})
           /\ head # 0 => ChainOK(rs2, head, mine \cup {n})
<1>0. /\ rs2 \in Seq(Rule) /\ DOMAIN rs2 = DOMAIN rules \cup {n}
      /\ n # 0 /\ n \notin DOMAIN rules /\ rs2[n] = rule
      /\ \A r \in DOMAIN rules :
             /\ rs2[r].ub = rules[r].ub /\ rs2[r].str = rules[r].str
             /\ rs2[r].prev = IF r = m THEN n ELSE rules[r].prev
             /\ rs2[r].next = IF r = p THEN n ELSE rules[r].next
  BY DEF PutRight
<1>1. /\ \A r, s \in DOMAIN rules : Less(rs2, r, s) <=> Less(rules, r, s)
      /\ \A r \in DOMAIN rules : /\ Less(rs2, r, n) <=> IsLessThan(rules[r], rule)
                                 /\ Less(rs2, n, r) <=> IsLessThan(rule, rules[r])
      BY <1>0 DEF Less, IsLessThan
<1>2. /\ \A r \in DOMAIN rs2 : ~ Less(rs2, r, r)
      /\ \A r, s, t \in DOMAIN rs2 : Less(rs2, r, s) /\ Less(rs2, s, t) => Less(rs2, r, t)
      BY <1>0, LessOrder
<1>3. ASSUME NEW r \in DOMAIN rs2, NEW s \in DOMAIN rs2, NEW t \in DOMAIN rs2,
             ~ Less(rs2, s, r), Less(rs2, s, t)
      PROVE  Less(rs2, r, t)
  <2>1. CASE Less(rs2, r, s) BY <1>2, <1>3, <2>1
  <2>2. CASE rs2[r].ub = rs2[s].ub /\ rs2[r].str = rs2[s].str
        BY <1>3, <2>2, EqualKeys DEF Less
  <2> QED BY <1>0, <1>3, <2>1, <2>2, LessOrder
<1>4. /\ rs2[n].prev = p /\ rs2[n].next = m
      /\ m # 0 => Less(rs2, n, m) /\ ~ Less(rs2, m, n)
      /\ p # 0 => Less(rs2, p, n)
  <2>1. m # 0 => m \in DOMAIN rules BY DEF RulesOrNull
  <2>2. p # 0 => p \in DOMAIN rules BY DEF RulesOrNull
  <2> QED BY <1>0, <1>1, <2>1, <2>2 DEF Spot
<1>5. CASE head = 0
  <2>1. mine = {} /\ p = 0 /\ m = 0 BY <1>0, <1>5 DEF ChainOK, Spot
  <2> QED BY <1>0, <1>2, <1>4, <1>5, <2>1 DEF ChainOK
<1>6. CASE head # 0
  <2> DEFINE all == mine \cup {n}
             Kept(r) == ~ Less(rs2, r, head)
  <2>1. head \in mine /\ head \in DOMAIN rs2 /\ mine \subseteq DOMAIN rs2 /\ all \subseteq DOMAIN rs2
        /\ n \notin mine /\ 0 \notin mine
        BY <1>0, <1>6 DEF ChainOK
  <2>2. /\ \A r \in mine : rules[r].next # 0 => rules[r].next \in mine /\ Less(rs2, r, rules[r].next)
        /\ \A r, s \in mine :
               Kept(r) /\ Less(rs2, r, s) => rules[r].next # 0 /\ ~ Less(rs2, s, rules[r].next)
        /\ \A r \in mine : Kept(r) /\ rules[r].next # 0 => rules[rules[r].next].prev = r
        /\ \A r, s \in mine : r # s /\ Kept(r) /\ Kept(s) => Less(rs2, r, s) \/ Less(rs2, s, r)
        BY <1>0, <1>1, <2>1 DEF ChainOK
  <2>3. /\ p = 0 => m = head
        /\ p # 0 => p \in mine /\ Kept(p) /\ m = rules[p].next
        BY <1>0, <1>1, <2>1, <1>6 DEF Spot
  <2>4. /\ p # 0 => Kept(n) /\ n # p
        /\ p = 0 => ~ Kept(n)
        /\ m # 0 => m \in mine
    <3>1. CASE p = 0 BY <1>4, <1>6, <2>1, <2>3, <3>1
    <3>2. CASE p # 0 BY <1>2, <1>4, <2>1, <2>2, <2>3, <3>2
    <3> QED BY <3>1, <3>2
  <2> HIDE DEF Kept
  <2>5. ASSUME NEW r \in all, rs2[r].next # 0
        PROVE  rs2[r].next \in all /\ Less(rs2, r, rs2[r].next)
    <3>1. CASE r = n BY <1>4, <2>4, <2>5, <3>1
    <3>2. CASE r = p /\ r # n BY <1>0, <1>4, <2>1, <2>3, <2>4, <2>5, <3>2
    <3>3. CASE r # p /\ r # n BY <1>0, <2>1, <2>2, <2>5, <3>3
    <3> QED BY <3>1, <3>2, <3>3
  <2>6. ASSUME p # 0, NEW r \in mine, Kept(r)
        PROVE  /\ Less(rs2, r, n) => r = p \/ (rules[r].next # 0 /\ ~ Less(rs2, n, rules[r].next))
               /\ Less(rs2, n, r) => m # 0 /\ ~ Less(rs2, r, m)
               /\ Less(rs2, n, r) \/ Less(rs2, r, n)
    <3>1. p \in mine /\ Kept(p) /\ m = rules[p].next BY <2>3, <2>6
    <3>2. CASE r = p BY <1>2, <1>4, <2>1, <2>4, <2>6, <3>1, <3>2
    <3>3. CASE r # p /\ Less(rs2, p, r)
      <4>1. m # 0 /\ ~ Less(rs2, r, m) BY <2>2, <2>6, <3>1, <3>3
      <4>2. Less(rs2, n, r)
        <5>1. m \in DOMAIN rs2 /\ r \in DOMAIN rs2 /\ n \in DOMAIN rs2 BY <2>1, <2>4, <4>1
        <5>2. CASE Less(rs2, m, r) BY <1>2, <1>4, <4>1, <5>1, <5>2
        <5>3. CASE rs2[r].ub = rs2[m].ub /\ rs2[r].str = rs2[m].str
              BY <1>4, <4>1, <5>3, EqualKeys DEF Less
        <5> QED BY <1>0, <4>1, <5>1, <5>2, <5>3, LessOrder
      <4> QED BY <1>2, <2>1, <4>1, <4>2
    <3>4. CASE r # p /\ Less(rs2, r, p)
      <4>1. rules[r].next # 0 /\ ~ Less(rs2, p, rules[r].next) /\ rules[r].next \in mine
            BY <2>2, <2>6, <3>1, <3>4
      <4>2. Less(rs2, r, n) BY <1>2, <1>4, <2>1, <2>6, <3>1, <3>4
      <4>3. ~ Less(rs2, n, rules[r].next) BY <1>2, <1>4, <2>1, <2>6, <3>1, <4>1
      <4> QED BY <1>2, <2>1, <4>1, <4>2, <4>3
    <3> QED BY <2>2, <2>6, <3>1, <3>2, <3>3, <3>4
  <2>7. ASSUME NEW r \in all, NEW s \in all, Kept(r), Less(rs2, r, s)
        PROVE  rs2[r].next # 0 /\ ~ Less(rs2, s, rs2[r].next)
    <3>1. CASE r = n
      <4>1. p # 0 BY <2>4, <2>7, <3>1
      <4>2. s \in mine /\ Kept(s)
        <5>1. s # n BY <1>2, <2>1, <2>7, <3>1
        <5>2. ~ Less(rs2, s, head) BY <1>2, <2>1, <2>7, <3>1 DEF Kept
        <5> QED BY <5>1, <5>2 DEF Kept
      <4> QED BY <1>4, <2>6, <2>7, <3>1, <4>1, <4>2
    <3>2. CASE r = p /\ r # n
      <4>1. rs2[r].next = n /\ p # 0 BY <1>0, <2>1, <3>2
      <4>2. CASE s = n BY <1>0, <1>2, <2>1, <4>1, <4>2
      <4>3. CASE s # n
        <5>1. s \in mine /\ Kept(s)
              BY <1>2, <2>1, <2>7, <4>3 DEF Kept
        <5>2. m # 0 /\ ~ Less(rs2, s, m) BY <2>2, <2>3, <2>7, <3>2, <4>1, <5>1
        <5> QED BY <1>0, <1>2, <1>4, <2>1, <2>4, <4>1, <5>1, <5>2
      <4> QED BY <4>2, <4>3
    <3>3. CASE r # p /\ r # n
      <4>1. r \in mine /\ rs2[r].next = rules[r].next BY <1>0, <2>1, <3>3
      <4>2. CASE s = n
        <5>1. p # 0
          <6>1. Kept(n) BY <1>2, <2>1, <2>7, <4>2 DEF Kept
          <6> QED BY <2>4, <6>1
        <5> QED BY <2>6, <2>7, <3>3, <4>1, <4>2, <5>1
      <4>3. CASE s # n BY <2>2, <2>7, <4>1, <4>3
      <4> QED BY <4>2, <4>3
    <3> QED BY <3>1, <3>2, <3>3
  <2>8. ASSUME NEW r \in all, Kept(r), rs2[r].next # 0
        PROVE  rs2[rs2[r].next].prev = r
    <3>1. CASE r = n
      <4>1. m # 0 /\ m \in DOMAIN rules BY <1>0, <1>4, <2>1, <2>4, <2>8, <3>1
      <4> QED BY <1>0, <1>4, <3>1, <4>1
    <3>2. CASE r = p /\ r # n BY <1>0, <1>4, <2>1, <3>2
    <3>3. CASE r # p /\ r # n
      <4>1. r \in mine /\ rs2[r].next = rules[r].next /\ rules[r].next \in mine
            /\ rules[rules[r].next].prev = r
            BY <1>0, <2>1, <2>2, <2>8, <3>3
      <4>2. rules[r].next # m
        <5> SUFFICES ASSUME rules[r].next = m PROVE FALSE OBVIOUS
        <5>1. Less(rs2, r, m) BY <2>2, <2>8, <4>1
        <5>2. CASE p = 0 BY <2>3, <2>8, <5>1, <5>2 DEF Kept
        <5>3. CASE p # 0
          <6>1. p \in mine /\ Kept(p) /\ m = rules[p].next /\ m # 0 BY <2>1, <2>3, <4>1, <5>3
          <6>2. rules[m].prev = p BY <2>2, <6>1
          <6> QED BY <3>3, <4>1, <6>2
        <5> QED BY <5>2, <5>3
      <4> QED BY <1>0, <2>1, <4>1, <4>2
    <3> QED BY <3>1, <3>2, <3>3
  <2>9. ASSUME NEW r \in all, NEW s \in all, r # s, Kept(r), Kept(s)
        PROVE  Less(rs2, r, s) \/ Less(rs2, s, r)
    <3>1. CASE r = n BY <2>1, <2>4, <2>6, <2>9, <3>1
    <3>2. CASE s = n BY <2>1, <2>4, <2>6, <2>9, <3>2
    <3>3. CASE r # n /\ s # n BY <2>2, <2>9, <3>3
    <3> QED BY <3>1, <3>2, <3>3
  <2> QED BY <1>6, <2>1, <2>5, <2>7, <2>8, <2>9 DEF ChainOK, Kept
<1> QED BY <1>5, <1>6

-----------------------------------------------------------------------------
(* Walks along the chains come to their end.                                *)

Above(rs, r) == {s \in DOMAIN rs : Less(rs, r, s)}
\* How far it is from a rule to the end of its chain, at most.
ToGo(rs, r) == IF r = 0 THEN 0 ELSE 1 + Cardinality(Above(rs, r))

LEMMA AboveRight ==
    ASSUME NEW rs \in Seq(Rule), NEW r \in DOMAIN rs, NEW s \in DOMAIN rs
    PROVE  /\ ToGo(rs, r) \in Nat /\ ToGo(rs, 0) = 0 /\ 0 < ToGo(rs, r)
           /\ Less(rs, r, s) => ToGo(rs, s) < ToGo(rs, r)
<1>1. IsFiniteSet(DOMAIN rs) /\ r # 0 /\ s # 0
  <2>1. DOMAIN rs = 1 .. Len(rs) /\ Len(rs) \in Nat OBVIOUS
  <2>2. r # 0 /\ s # 0 BY <2>1
  <2>3. 0 \in Int /\ 1 \in Int /\ Len(rs) \in Int BY <2>1
  <2>4. IsFiniteSet(1 .. Len(rs)) BY <2>3, FS_Interval
  <2> QED BY <2>1, <2>2, <2>4
<1>2. \A q \in DOMAIN rs : IsFiniteSet(Above(rs, q)) /\ Cardinality(Above(rs, q)) \in Nat
      BY <1>1, FS_Subset, FS_CardinalityType DEF Above
<1>3. ASSUME Less(rs, r, s) PROVE Cardinality(Above(rs, s)) < Cardinality(Above(rs, r))
  <2>1. Above(rs, s) \subseteq Above(rs, r) BY <1>3, LessOrder DEF Above
  <2>2. s \in Above(rs, r) /\ s \notin Above(rs, s) BY <1>3, LessOrder DEF Above
  <2>3. /\ Cardinality(Above(rs, s)) <= Cardinality(Above(rs, r))
        /\ Cardinality(Above(rs, s)) = Cardinality(Above(rs, r)) => Above(rs, s) = Above(rs, r)
        BY <1>2, <2>1, FS_Subset
  <2> QED BY <1>2, <2>2, <2>3
<1> QED BY <1>1, <1>2, <1>3 DEF ToGo

\* Where a rule leads to.
LEMMA NextRight ==
    ASSUME NEW hs, NEW rs, StoreOK(hs, rs), NEW r \in DOMAIN rs
    PROVE  /\ rs[r].next \in 0 .. Len(rs) /\ ToGo(rs, rs[r].next) < ToGo(rs, r)
           /\ rs[r].next # 0 => /\ Less(rs, r, rs[r].next) /\ rs[r].next \in DOMAIN rs
                                /\ rs[rs[r].next].cat = rs[r].cat
                                /\ List(rs[rs[r].next].ub) = List(rs[r].ub)
<1> DEFINE c    == rs[r].cat
           list == List(rs[r].ub)
<1>1. rs \in Seq(Rule) /\ c \in DOMAIN hs /\ list \in Lists /\ rs[r].next \in Nat
      BY RulesKeyed DEF StoreOK, Rule
<1>2. r \in Mine(rs, c, list) BY DEF Mine
<1>3. rs[r].next # 0 => rs[r].next \in Mine(rs, c, list) /\ Less(rs, r, rs[r].next)
      BY <1>1, <1>2 DEF StoreOK, ChainOK
<1>4. CASE rs[r].next = 0 BY <1>1, <1>4, AboveRight
<1>5. CASE rs[r].next # 0
  <2>1. rs[r].next \in DOMAIN rs /\ Less(rs, r, rs[r].next) BY <1>3, <1>5 DEF Mine
  <2>2. DOMAIN rs = 1 .. Len(rs) BY <1>1
  <2> QED BY <1>1, <1>3, <2>1, <2>2, AboveRight DEF Mine
<1> QED BY <1>4, <1>5

LEMMA HeadRight ==
    ASSUME NEW hs, NEW rs, StoreOK(hs, rs), NEW c \in DOMAIN hs, NEW list \in Lists
    PROVE  /\ hs[c][list] \in 0 .. Len(rs)
           /\ hs[c][list] # 0 => hs[c][list] \in Mine(rs, c, list)
<1>1. rs \in Seq(Rule) /\ ChainOK(rs, hs[c][list], Mine(rs, c, list)) BY DEF StoreOK
<1>2. DOMAIN rs = 1 .. Len(rs) /\ Len(rs) \in Nat BY <1>1
<1> QED BY <1>1, <1>2 DEF ChainOK, Mine

\* The search for a rule ends at its place.
LEMMA StopRight ==
    ASSUME StoreOK(heads, rules), NEW c \in DOMAIN heads, NEW list \in Lists, NEW key
    PROVE  LET first == heads[c][list]
               at    == Stop(key, first)
           IN  /\ at \in RulesOrNull \X RulesOrNull /\ (at[1] = 0 \/ at[1] # at[2])
               /\ Spot(rules, first, Mine(rules, c, list), key, at[1], at[2])
<1> DEFINE first == heads[c][list]
           mine  == Mine(rules, c, list)
           D     == RulesOrNull \X RulesOrNull
           Eq(h) == h = [at \in D |->
                           IF at[2] # 0 /\ IsLessThan(rules[at[2]], key) THEN h[<<at[2], rules[at[2]].next>>]
                           ELSE at]
           walk  == CHOOSE h : Eq(h)
           stop  == {x \in D : ~ (x[2] # 0 /\ IsLessThan(rules[x[2]], key))}
           nx    == [x \in D |-> IF x[2] = 0 THEN x ELSE <<x[2], rules[x[2]].next>>]
           mu    == [x \in D |-> ToGo(rules, x[2])]
           base  == [x \in D |-> x]
<1>1. Stop(key, first) = walk[<<0, first>>] BY DEF Stop
<1>2. rules \in Seq(Rule) /\ ChainOK(rules, first, mine) BY DEF StoreOK
<1>3. /\ RulesOrNull = 0 .. Len(rules) /\ Len(rules) \in Nat
      /\ \A r \in RulesOrNull : r # 0 => r \in DOMAIN rules
      BY <1>2 DEF RulesOrNull
<1>4. Descends(D, stop, nx, mu)
  <2>1. nx \in [D -> D] BY <1>3, NextRight
  <2>2. mu \in [D -> Nat]
    <3>1. ToGo(rules, 0) \in Nat BY DEF ToGo
    <3>2. \A r \in RulesOrNull : ToGo(rules, r) \in Nat BY <1>2, <1>3, <3>1, AboveRight
    <3> QED BY <3>2
  <2>3. ASSUME NEW x \in D \ stop PROVE mu[nx[x]] < mu[x]
    <3>1. x[2] \in DOMAIN rules /\ x[2] # 0 /\ nx[x] = <<x[2], rules[x[2]].next>> BY <1>3
    <3>2. nx[x] \in D BY <2>1
    <3>3. mu[nx[x]] = ToGo(rules, rules[x[2]].next) /\ mu[x] = ToGo(rules, x[2]) BY <3>1, <3>2
    <3> HIDE DEF mu, nx, stop, D
    <3> QED BY <3>1, <3>3, NextRight
  <2> HIDE DEF mu, nx, stop, D
  <2> QED BY <2>1, <2>2, <2>3 DEF Descends
<1>5. Loops(D, stop, nx, base, walk)
  <2>1. base \in [D -> D] OBVIOUS
  <2>2. PICK f \in [D -> D] : Loops(D, stop, nx, base, f)
    <3> HIDE DEF D, stop, nx, mu, base
    <3> QED BY <1>4, <2>1, LoopExists
  <2>3. \A h : Eq(h) <=> h = [x \in D |-> IF x \in stop THEN base[x] ELSE h[nx[x]]]
    <3> SUFFICES ASSUME NEW h
                 PROVE  \A x \in D :
                          (IF x[2] # 0 /\ IsLessThan(rules[x[2]], key) THEN h[<<x[2], rules[x[2]].next>>] ELSE x)
                            = IF x \in stop THEN base[x] ELSE h[nx[x]]
          OBVIOUS
    <3> QED OBVIOUS
  <2> HIDE DEF Eq, stop, nx, mu, base, D
  <2>4. f = [x \in D |-> IF x \in stop THEN base[x] ELSE f[nx[x]]] BY <2>2 DEF Loops
  <2>5. Eq(walk) BY <2>3, <2>4
  <2>6. walk = [x \in D |-> IF x \in stop THEN base[x] ELSE walk[nx[x]]] BY <2>3, <2>5
  <2> HIDE DEF walk
  <2> QED BY <2>6 DEF Loops
<1> DEFINE I == {x \in D : /\ x[1] = 0 \/ x[1] # x[2]
                           /\ \/ x[1] = 0 /\ x[2] = first
                              \/ /\ x[1] \in mine /\ ~ Less(rules, x[1], first)
                                 /\ IsLessThan(rules[x[1]], key) /\ x[2] = rules[x[1]].next}
<1>6. <<0, first>> \in I
  <2>1. first \in RulesOrNull BY HeadRight DEF RulesOrNull
  <2> QED BY <1>3, <2>1
<1>7. ASSUME NEW x \in I \ stop PROVE nx[x] \in I
  <2>1. x \in D /\ x[2] \in DOMAIN rules /\ x[2] # 0 /\ nx[x] = <<x[2], rules[x[2]].next>>
        /\ IsLessThan(rules[x[2]], key)
        BY <1>3
  <2>2. nx[x] \in D BY <1>3, <2>1, NextRight
  <2>3. x[2] \in mine /\ ~ Less(rules, x[2], first)
    <3>1. mine \subseteq DOMAIN rules BY DEF Mine
    <3>2. CASE x[1] = 0 /\ x[2] = first BY <1>2, <2>1, <3>2, LessOrder DEF ChainOK
    <3>3. CASE x[1] \in mine /\ ~ Less(rules, x[1], first) /\ x[2] = rules[x[1]].next
      <4>1. x[2] \in mine /\ Less(rules, x[1], x[2]) /\ first \in DOMAIN rules /\ x[1] \in DOMAIN rules
            BY <1>2, <2>1, <3>1, <3>3 DEF ChainOK
      <4> HIDE DEF mine, first
      <4>2. ~ Less(rules, x[2], first) BY <1>2, <2>1, <3>3, <4>1, LessOrder
      <4> QED BY <4>1, <4>2
    <3> QED BY <3>2, <3>3
  <2>4. x[2] # rules[x[2]].next
    <3>1. rules[x[2]].next # 0 => Less(rules, x[2], rules[x[2]].next) BY <2>1, NextRight
    <3> QED BY <1>2, <2>1, <3>1, LessOrder
  <2> QED BY <2>1, <2>2, <2>3, <2>4
<1>8. \E y \in I \cap stop : walk[<<0, first>>] = base[y]
  <2>1. I \subseteq D OBVIOUS
  <2> HIDE DEF D, I, stop, nx, mu, base, walk, Eq
  <2> QED BY <1>4, <1>5, <1>6, <1>7, <2>1, LoopEnds
<1>9. PICK y \in I \cap stop : Stop(key, first) = y
  <2>1. \A y \in I : base[y] = y OBVIOUS
  <2> HIDE DEF D, I, stop, nx, mu, base, walk, Eq
  <2> QED BY <1>1, <1>8, <2>1
<1>10. y \in D /\ y \in I /\ y \in stop OBVIOUS
<1>11. Spot(rules, first, mine, key, y[1], y[2])
  <2> HIDE DEF first, mine
  <2> QED BY <1>10 DEF Spot
<1> QED BY <1>9, <1>10, <1>11

-----------------------------------------------------------------------------
(* The store is edited.                                                     *)

\* A rule that is in its chain.
Held(hs, rs, r) == r \in DOMAIN rs /\ ~ Less(rs, r, hs[rs[r].cat][List(rs[r].ub)])

\* Rules and heads stay what they are, and there may be more.
Grown(hs, rs, hs2, rs2) ==
    /\ DOMAIN hs \subseteq DOMAIN hs2 /\ DOMAIN rs \subseteq DOMAIN rs2
    /\ \A c \in DOMAIN hs, list \in Lists : hs[c][list] = 0 \/ hs2[c][list] = hs[c][list]
    /\ \A r \in DOMAIN rs :
           rs2[r].cat = rs[r].cat /\ rs2[r].ub = rs[r].ub /\ rs2[r].str = rs[r].str

LEMMA GrownKeeps ==
    ASSUME NEW hs, NEW rs, StoreOK(hs, rs), NEW hs2, NEW rs2, Grown(hs, rs, hs2, rs2)
    PROVE  /\ \A r, s \in DOMAIN rs : Less(rs2, r, s) <=> Less(rs, r, s)
           /\ \A r \in DOMAIN rs : Held(hs2, rs2, r) <=> Held(hs, rs, r)
<1>1. \A r, s \in DOMAIN rs : Less(rs2, r, s) <=> Less(rs, r, s)
      BY DEF Grown, Less, IsLessThan
<1>2. ASSUME NEW r \in DOMAIN rs PROVE Held(hs2, rs2, r) <=> Held(hs, rs, r)
  <2> DEFINE c    == rs[r].cat
             list == List(rs[r].ub)
             head == hs[c][list]
  <2>1. rs2[r].cat = c /\ List(rs2[r].ub) = list /\ r \in DOMAIN rs2 BY DEF Grown
  <2>2. c \in DOMAIN hs /\ list \in Lists /\ r \in Mine(rs, c, list)
        BY RulesKeyed DEF StoreOK, Mine
  <2>3. head # 0 /\ head \in DOMAIN rs
    <3>1. ChainOK(rs, head, Mine(rs, c, list)) /\ rs \in Seq(Rule) BY <2>2 DEF StoreOK
    <3>2. 0 \notin DOMAIN rs
      <4>1. DOMAIN rs = 1 .. Len(rs) BY <3>1
      <4> QED BY <4>1
    <3> QED BY <2>2, <3>1, <3>2 DEF ChainOK, Mine
  <2>4. hs2[c][list] = head BY <2>2, <2>3 DEF Grown
  <2> HIDE DEF c, list, head
  <2>5. Held(hs2, rs2, r) <=> ~ Less(rs2, r, head) BY <2>1, <2>4 DEF Held
  <2>6. Held(hs, rs, r) <=> ~ Less(rs, r, head) BY DEF Held, c, list, head
  <2> QED BY <1>1, <2>3, <2>5, <2>6
<1> QED BY <1>1, <1>2

NewRule(c, ub, str, at) ==
    [cat |-> c, ub |-> ub, str |-> str, prev |-> at[1], next |-> at[2], deleted |-> FALSE]

\* The heads when a list has got its first rule.
NewHeads(c, list, n, hs2) ==
    /\ hs2 \in Seq([Lists -> Nat]) /\ Len(hs2) = Len(heads) /\ DOMAIN hs2 = DOMAIN heads
    /\ hs2[c][list] = IF heads[c][list] = 0 THEN n ELSE heads[c][list]
    /\ \A d \in DOMAIN heads, l \in Lists : d # c \/ l # list => hs2[d][l] = heads[d][l]

LEMMA HeadsSet ==
    ASSUME heads \in Seq([Lists -> Nat]), NEW c \in DOMAIN heads, NEW list \in Lists, NEW n \in Nat
    PROVE  /\ heads[c][list] # 0 => NewHeads(c, list, n, heads)
           /\ heads[c][list] = 0 => NewHeads(c, list, n, [heads EXCEPT ![c][list] = n])
<1> DEFINE hs2 == [heads EXCEPT ![c][list] = n]
           row == [heads[c] EXCEPT ![list] = n]
<1>1. heads[c] \in [Lists -> Nat] OBVIOUS
<1>2. row \in [Lists -> Nat] /\ row[list] = n /\ \A l \in Lists : l # list => row[l] = heads[c][l]
      BY <1>1
<1>3. hs2 = [heads EXCEPT ![c] = row] OBVIOUS
<1> HIDE DEF row, hs2
<1>4. hs2 \in Seq([Lists -> Nat]) /\ Len(hs2) = Len(heads) /\ DOMAIN hs2 = DOMAIN heads
      /\ hs2[c] = row /\ \A d \in DOMAIN heads : d # c => hs2[d] = heads[d]
      BY <1>2, <1>3
<1>5. heads[c][list] = 0 => NewHeads(c, list, n, hs2) BY <1>2, <1>4 DEF NewHeads
<1>6. heads[c][list] # 0 => NewHeads(c, list, n, heads) BY DEF NewHeads
<1> QED BY <1>5, <1>6 DEF hs2

\* A new rule.
LEMMA NewRuleOK ==
    ASSUME StoreOK(heads, rules), NEW c \in DOMAIN heads, NEW list \in Lists,
           NEW rule \in Rule, rule.cat = c, List(rule.ub) = list,
           NEW at, at \in RulesOrNull \X RulesOrNull, rule.prev = at[1], rule.next = at[2],
           Spot(rules, heads[c][list], Mine(rules, c, list), rule, at[1], at[2]),
           at[2] # 0 => IsLessThan(rule, rules[at[2]]),
           NEW n, NEW rs2, PutRight(rule, at[1], at[2], n, rs2),
           NEW hs2, NewHeads(c, list, n, hs2)
    PROVE  StoreOK(hs2, rs2) /\ Grown(heads, rules, hs2, rs2)
<1> DEFINE head == heads[c][list]
           mine == Mine(rules, c, list)
           p    == at[1]
           m    == at[2]
<1>1. /\ p \in RulesOrNull /\ m \in RulesOrNull
      /\ Spot(rules, head, mine, rule, p, m) /\ (m # 0 => IsLessThan(rule, rules[m]))
      /\ rule.prev = p /\ rule.next = m /\ PutRight(rule, p, m, n, rs2)
      OBVIOUS
<1>2. /\ rules \in Seq(Rule) /\ heads \in Seq([Lists -> Nat]) /\ ChainOK(rules, head, mine)
      /\ mine \subseteq DOMAIN rules
      BY DEF StoreOK, Mine
<1> HIDE DEF head, mine, p, m
<1>3. /\ head = 0 => ChainOK(rs2, n, mine \cup {n})
      /\ head # 0 => ChainOK(rs2, head, mine \cup {n})
      BY <1>1, <1>2, InsertChain
<1>4. /\ DOMAIN rs2 = DOMAIN rules \cup {n} /\ n \notin DOMAIN rules
      /\ rs2[n].cat = c /\ List(rs2[n].ub) = list
      /\ \A r \in DOMAIN rules : rs2[r].cat = rules[r].cat /\ rs2[r].ub = rules[r].ub
      BY <1>1 DEF PutRight
<1>5. Grown(heads, rules, hs2, rs2)
  <2>1. DOMAIN heads \subseteq DOMAIN hs2 /\ DOMAIN rules \subseteq DOMAIN rs2
        BY <1>4 DEF NewHeads
  <2>2. \A d \in DOMAIN heads, l \in Lists : heads[d][l] = 0 \/ hs2[d][l] = heads[d][l]
        BY DEF NewHeads
  <2>3. \A r \in DOMAIN rules :
            rs2[r].cat = rules[r].cat /\ rs2[r].ub = rules[r].ub /\ rs2[r].str = rules[r].str
        BY <1>1 DEF PutRight
  <2> QED BY <2>1, <2>2, <2>3 DEF Grown
<1>6. ASSUME NEW d \in DOMAIN hs2, NEW l \in Lists PROVE ChainOK(rs2, hs2[d][l], Mine(rs2, d, l))
  <2>1. CASE d = c /\ l = list
    <3>1. Mine(rs2, d, l) = mine \cup {n} BY <1>4, <2>1 DEF Mine, mine
    <3>2. hs2[d][l] = IF head = 0 THEN n ELSE head BY <2>1 DEF NewHeads, head
    <3> QED BY <1>3, <3>1, <3>2
  <2>2. CASE d # c \/ l # list
    <3>1. Mine(rs2, d, l) = Mine(rules, d, l) BY <1>4, <2>2 DEF Mine
    <3>2. d \in DOMAIN heads /\ hs2[d][l] = heads[d][l] BY <2>2 DEF NewHeads
    <3>3. ChainOK(rules, heads[d][l], Mine(rules, d, l)) BY <3>2 DEF StoreOK
    <3>4. \A r \in Mine(rules, d, l) : r # p /\ r # m
      <4>1. p # 0 => p \in mine BY <1>1 DEF Spot
      <4>2. m # 0 => m \in mine BY <1>1, <1>2 DEF Spot, ChainOK
      <4>3. 0 \notin DOMAIN rules BY <1>2
      <4> QED BY <2>2, <4>1, <4>2, <4>3 DEF Mine, mine
    <3>5. \A r \in Mine(rules, d, l) : Skeleton(rs2[r]) = Skeleton(rules[r])
      <4>1. Mine(rules, d, l) \subseteq DOMAIN rules BY DEF Mine
      <4> QED BY <1>1, <3>4, <4>1 DEF PutRight, Skeleton
    <3>6. ChainOK(rs2, heads[d][l], Mine(rules, d, l)) BY <3>3, <3>5, ChainFrame
    <3> QED BY <3>1, <3>2, <3>6
  <2> QED BY <2>1, <2>2
<1>7. StoreOK(hs2, rs2)
  <2>1. \A r \in DOMAIN rs2 : rs2[r].cat \in DOMAIN hs2
    <3>1. \A r \in DOMAIN rules : rules[r].cat \in DOMAIN heads BY DEF StoreOK
    <3>2. DOMAIN hs2 = DOMAIN heads BY DEF NewHeads
    <3> QED BY <1>4, <3>1, <3>2
  <2>2. rs2 \in Seq(Rule) /\ hs2 \in Seq([Lists -> Nat]) BY <1>1 DEF PutRight, NewHeads
  <2> QED BY <1>6, <2>1, <2>2 DEF StoreOK
<1> QED BY <1>5, <1>7

-----------------------------------------------------------------------------
(* A chain has the rules of its list from the head on.                      *)

\* What neither is less than is between them.
LEMMA LessLeft ==
    ASSUME NEW rs \in Seq(Rule), NEW r \in DOMAIN rs, NEW s \in DOMAIN rs, NEW t \in DOMAIN rs,
           ~ Less(rs, s, r)
    PROVE  /\ Less(rs, s, t) => Less(rs, r, t)
           /\ Less(rs, t, r) => Less(rs, t, s)
<1>1. CASE Less(rs, r, s) BY <1>1, LessOrder
<1>2. CASE rs[r].ub = rs[s].ub /\ rs[r].str = rs[s].str BY <1>2, EqualKeys DEF Less
<1> QED BY <1>1, <1>2, LessOrder

InFrontOf(n, s, t) ==
    /\ t \in Seq(Nat) /\ Len(t) = Len(s) + 1 /\ t[1] = n /\ Len(s) \in Nat
    /\ \A i \in 1 .. Len(s) : t[i + 1] = s[i]
    /\ ToSet(t) = {n} \cup ToSet(s)

LEMMA InFront ==
    ASSUME NEW n \in Nat, NEW s \in Seq(Nat)
    PROVE  InFrontOf(n, s, <<n>> \o s)
<1> DEFINE t == <<n>> \o s
<1>1. /\ t \in Seq(Nat) /\ Len(t) = Len(s) + 1 /\ t[1] = n /\ Len(s) \in Nat
      /\ \A i \in 1 .. Len(s) : t[i + 1] = s[i]
      OBVIOUS
<1> HIDE DEF t
<1>2. DOMAIN t = 1 .. Len(s) + 1 /\ DOMAIN s = 1 .. Len(s) BY <1>1
<1>3. ASSUME NEW i \in 1 .. Len(s) + 1 PROVE t[i] \in {n} \cup ToSet(s)
  <2>1. CASE i = 1 BY <1>1, <2>1
  <2>2. CASE i # 1
    <3>1. i - 1 \in 1 .. Len(s) /\ (i - 1) + 1 = i BY <1>1, <2>2
    <3>2. t[i] = s[i - 1] BY <1>1, <3>1
    <3> QED BY <1>2, <3>1, <3>2 DEF ToSet
  <2> QED BY <2>1, <2>2
<1>4. n \in ToSet(t)
  <2>1. 1 \in DOMAIN t BY <1>1, <1>2
  <2> QED BY <1>1, <2>1 DEF ToSet
<1>5. ASSUME NEW i \in 1 .. Len(s) PROVE s[i] \in ToSet(t)
  <2>1. i + 1 \in DOMAIN t /\ t[i + 1] = s[i] BY <1>1, <1>2
  <2> QED BY <2>1 DEF ToSet
<1>6. ToSet(t) = {n} \cup ToSet(s) BY <1>2, <1>3, <1>4, <1>5 DEF ToSet
<1>7. InFrontOf(n, s, t) BY <1>1, <1>6 DEF InFrontOf
<1> QED BY <1>7 DEF t

Steps == [r \in RulesOrNull |-> IF r = 0 THEN 0 ELSE rules[r].next]
Far   == [r \in RulesOrNull |-> ToGo(rules, r)]

LEMMA StepsDescend ==
    ASSUME StoreOK(heads, rules)
    PROVE  Descends(RulesOrNull, {0}, Steps, Far)
<1>1. /\ rules \in Seq(Rule) /\ RulesOrNull = 0 .. Len(rules) /\ Len(rules) \in Nat
      /\ \A r \in RulesOrNull : r # 0 => r \in DOMAIN rules
      BY DEF RulesOrNull, StoreOK
<1>2. Steps \in [RulesOrNull -> RulesOrNull] BY <1>1, NextRight DEF Steps
<1>3. Far \in [RulesOrNull -> Nat]
  <2>1. ToGo(rules, 0) \in Nat BY DEF ToGo
  <2>2. \A r \in RulesOrNull : ToGo(rules, r) \in Nat BY <1>1, <2>1, AboveRight
  <2> QED BY <2>2 DEF Far
<1>4. ASSUME NEW r \in RulesOrNull \ {0} PROVE Far[Steps[r]] < Far[r]
  <2>1. r \in DOMAIN rules /\ Steps[r] = rules[r].next /\ rules[r].next \in RulesOrNull
        BY <1>1, NextRight DEF Steps
  <2> QED BY <2>1, NextRight DEF Far
<1> QED BY <1>2, <1>3, <1>4 DEF Descends

LEMMA ChainUnfolds ==
    ASSUME StoreOK(heads, rules)
    PROVE  /\ Chain \in [RulesOrNull -> Seq(Nat)] /\ Chain[0] = <<>>
           /\ \A r \in DOMAIN rules : Chain[r] = <<r>> \o Chain[rules[r].next]
<1> DEFINE Eq(h) == h = [n \in RulesOrNull |-> IF n = 0 THEN <<>> ELSE <<n>> \o h[rules[n].next]]
           base  == [r \in RulesOrNull |-> <<>>]
           add(r) == [v \in Seq(Nat) |-> <<r>> \o v]
           g     == [r \in RulesOrNull |-> add(r)]
<1>1. /\ rules \in Seq(Rule) /\ RulesOrNull = 0 .. Len(rules) /\ Len(rules) \in Nat
      /\ \A r \in RulesOrNull : r # 0 => r \in DOMAIN rules
      /\ \A r \in DOMAIN rules : r \in RulesOrNull /\ r # 0
      BY DEF RulesOrNull, StoreOK
<1>2. base \in [RulesOrNull -> Seq(Nat)] OBVIOUS
<1>3. \A r \in Nat : add(r) \in [Seq(Nat) -> Seq(Nat)] OBVIOUS
<1>4. g \in [RulesOrNull -> [Seq(Nat) -> Seq(Nat)]]
  <2> HIDE DEF add
  <2> QED BY <1>1, <1>3
<1>5. PICK f \in [RulesOrNull -> Seq(Nat)] : Recurses(RulesOrNull, {0}, Steps, base, g, f)
  <2> HIDE DEF base, g
  <2> QED BY <1>2, <1>4, StepsDescend, DescentExists
<1>6. ASSUME NEW r \in RulesOrNull
      PROVE  f[r] = IF r = 0 THEN <<>> ELSE <<r>> \o f[rules[r].next]
  <2>1. f[r] = IF r \in {0} THEN base[r] ELSE g[r][f[Steps[r]]] BY <1>5 DEF Recurses, Unfolded
  <2>2. CASE r = 0 BY <2>1, <2>2
  <2>3. CASE r # 0
    <3>1. r \in DOMAIN rules /\ Steps[r] = rules[r].next /\ rules[r].next \in RulesOrNull
          BY <1>1, <2>3, NextRight DEF Steps
    <3>2. f[Steps[r]] \in Seq(Nat) BY <3>1
    <3>3. g[r] = add(r) OBVIOUS
    <3>4. add(r)[f[Steps[r]]] = <<r>> \o f[Steps[r]] BY <3>2
    <3> HIDE DEF add, g, base
    <3> QED BY <2>1, <2>3, <3>1, <3>3, <3>4
  <2> QED BY <2>2, <2>3
<1>7. Eq(f) BY <1>6
<1>8. Eq(Chain)
  <2>1. Chain = CHOOSE h : Eq(h) BY DEF Chain
  <2> HIDE DEF Eq
  <2> QED BY <1>7, <2>1
<1>9. \A r \in RulesOrNull : Chain[r] = IF r = 0 THEN <<>> ELSE <<r>> \o Chain[rules[r].next]
      BY <1>8
<1>10. Chain \in [RulesOrNull -> Seq(Nat)]
  <2> DEFINE S == {r \in RulesOrNull : Chain[r] \in Seq(Nat)}
  <2>1. ASSUME NEW r \in RulesOrNull, r \in {0} \/ Steps[r] \in S PROVE r \in S
    <3>1. CASE r = 0
      <4>1. Chain[r] = <<>> BY <1>9, <3>1
      <4>2. <<>> \in Seq(Nat) OBVIOUS
      <4> QED BY <4>1, <4>2
    <3>2. CASE r # 0
      <4>1. Steps[r] = rules[r].next BY <3>2 DEF Steps
      <4>2. Chain[rules[r].next] \in Seq(Nat) /\ r \in Nat BY <1>1, <2>1, <3>2, <4>1
      <4>3. <<r>> \o Chain[rules[r].next] \in Seq(Nat) BY <4>2
      <4> QED BY <1>9, <3>2, <4>3
    <3> QED BY <3>1, <3>2
  <2>2. RulesOrNull \subseteq S
    <3> HIDE DEF S
    <3> QED BY <2>1, StepsDescend, DescentCovers
  <2>3. \A r \in RulesOrNull : Chain[r] \in Seq(Nat) BY <2>2
  <2>4. Chain = [r \in RulesOrNull |-> Chain[r]] BY <1>8
  <2> QED BY <2>3, <2>4
<1>11. 0 \in RulesOrNull BY <1>1
<1> HIDE DEF Eq, base, g, add
<1> QED BY <1>1, <1>9, <1>10, <1>11

\* The chain of a rule: it begins with the rule, rises, and leaves out nothing.
ChainIs(n, mine) ==
    /\ ToSet(Chain[n]) = {r \in mine : ~ Less(rules, r, n)}
    /\ Len(Chain[n]) > 0 /\ Chain[n][1] = n
    /\ \A i \in 1 .. Len(Chain[n]) - 1 :
           /\ Less(rules, Chain[n][i], Chain[n][i + 1])
           /\ rules[Chain[n][i + 1]].prev = Chain[n][i]

LEMMA ChainRight ==
    ASSUME StoreOK(heads, rules), NEW c \in DOMAIN heads, NEW list \in Lists,
           NEW n \in Mine(rules, c, list), ~ Less(rules, n, heads[c][list])
    PROVE  ChainIs(n, Mine(rules, c, list))
<1> DEFINE head == heads[c][list]
           mine == Mine(rules, c, list)
           Kept == {r \in mine : ~ Less(rules, r, head)}
           S    == {r \in RulesOrNull : r \in Kept => ChainIs(r, mine)}
<1>1. /\ rules \in Seq(Rule) /\ ChainOK(rules, head, mine) /\ mine \subseteq DOMAIN rules
      /\ \A r \in DOMAIN rules : r \in RulesOrNull /\ r # 0 /\ r \in Nat
      /\ \A r \in RulesOrNull : r # 0 => r \in DOMAIN rules
  <2>1. rules \in Seq(Rule) /\ ChainOK(rules, head, mine) BY DEF StoreOK
  <2>2. mine \subseteq DOMAIN rules BY DEF Mine
  <2>3. DOMAIN rules = 1 .. Len(rules) /\ Len(rules) \in Nat BY <2>1
  <2> HIDE DEF head, mine
  <2> QED BY <2>1, <2>2, <2>3 DEF RulesOrNull
<1>2. head \in DOMAIN rules
  <2>1. n \in mine OBVIOUS
  <2> HIDE DEF mine, head
  <2> QED BY <1>1, <2>1 DEF ChainOK
<1> HIDE DEF head, mine
\* What is from a rule of the chain on is the rule, and what is from the next on.
<1>3. ASSUME NEW r \in Kept, NEW s \in mine, ~ Less(rules, s, r), s # r
      PROVE  /\ Less(rules, r, s) /\ rules[r].next # 0 /\ ~ Less(rules, s, rules[r].next)
  <2>1. s \in DOMAIN rules /\ r \in DOMAIN rules BY <1>1, <1>3
  <2>2. ~ Less(rules, s, head) BY <1>1, <1>2, <1>3, <2>1, LessLeft
  <2>3. Less(rules, r, s) BY <1>1, <1>3, <2>2 DEF ChainOK
  <2> QED BY <1>1, <1>3, <2>3 DEF ChainOK
<1>4. ASSUME NEW r \in RulesOrNull, r \in {0} \/ Steps[r] \in S PROVE r \in S
  <2> SUFFICES ASSUME r \in Kept PROVE ChainIs(r, mine) OBVIOUS
  <2>1. r \in DOMAIN rules /\ r # 0 /\ r \in Nat BY <1>1
  <2> DEFINE m == rules[r].next
  <2>2. m \in RulesOrNull /\ Steps[r] = m BY <1>1, <2>1, NextRight DEF Steps, RulesOrNull
  <2>3. Chain[m] \in Seq(Nat) /\ Chain[r] \in Seq(Nat) /\ Chain[r] = <<r>> \o Chain[m]
        BY <2>1, <2>2, ChainUnfolds
  <2>4. /\ Chain[r] \in Seq(Nat) /\ Len(Chain[r]) = Len(Chain[m]) + 1 /\ Chain[r][1] = r
        /\ \A i \in 1 .. Len(Chain[m]) : Chain[r][i + 1] = Chain[m][i]
        /\ ToSet(Chain[r]) = {r} \cup ToSet(Chain[m]) /\ Len(Chain[m]) \in Nat
    <3>1. InFrontOf(r, Chain[m], <<r>> \o Chain[m]) BY <2>1, <2>3, InFront
    <3>2. InFrontOf(r, Chain[m], Chain[r]) BY <2>3, <3>1
    <3> QED BY <3>2 DEF InFrontOf
  <2>5. ~ Less(rules, r, r) BY <1>1, <2>1, LessOrder
  <2> HIDE DEF m
  <2>6. CASE m = 0
    <3>1. Chain[m] = <<>> BY <2>6, ChainUnfolds
    <3>2. Len(Chain[m]) = 0 /\ ToSet(Chain[m]) = {} BY <3>1 DEF ToSet
    <3>3. {s \in mine : ~ Less(rules, s, r)} = {r} BY <1>3, <2>5, <2>6 DEF m
    <3> QED BY <2>4, <3>2, <3>3 DEF ChainIs
  <2>7. CASE m # 0
    <3>1. m \in mine /\ Less(rules, r, m) /\ rules[m].prev = r /\ m \in DOMAIN rules
          BY <1>1, <2>7 DEF ChainOK, m
    <3>2. m \in Kept BY <1>1, <1>2, <2>1, <3>1, LessOrder
    <3>3. ChainIs(m, mine) BY <1>4, <2>1, <2>2, <3>2
    <3>4. {s \in mine : ~ Less(rules, s, r)} = {r} \cup {s \in mine : ~ Less(rules, s, m)}
      <4>1. ASSUME NEW s \in mine, ~ Less(rules, s, m) PROVE ~ Less(rules, s, r)
            BY <1>1, <2>1, <3>1, <4>1, LessOrder
      <4> QED BY <1>3, <2>5, <4>1 DEF m
    <3>5. ASSUME NEW i \in 1 .. Len(Chain[r]) - 1
          PROVE  /\ Less(rules, Chain[r][i], Chain[r][i + 1])
                 /\ rules[Chain[r][i + 1]].prev = Chain[r][i]
      <4>1. CASE i = 1
        <5>1. Chain[r][2] = m BY <2>4, <3>3, SMTT(30) DEF ChainIs
        <5> QED BY <2>4, <3>1, <4>1, <5>1
      <4>2. CASE i # 1
        <5>1. i - 1 \in 1 .. Len(Chain[m]) - 1 /\ i \in 1 .. Len(Chain[m]) /\ i - 1 \in 1 .. Len(Chain[m])
              /\ (i - 1) + 1 = i
              BY <2>4, <4>2
        <5>2. Chain[r][i] = Chain[m][i - 1] /\ Chain[r][i + 1] = Chain[m][i] BY <2>4, <5>1
        <5>3. /\ Less(rules, Chain[m][i - 1], Chain[m][(i - 1) + 1])
              /\ rules[Chain[m][(i - 1) + 1]].prev = Chain[m][i - 1]
              BY <3>3, <5>1 DEF ChainIs
        <5> QED BY <5>1, <5>2, <5>3
      <4> QED BY <4>1, <4>2
    <3> QED BY <2>4, <3>3, <3>4, <3>5 DEF ChainIs
  <2> QED BY <2>6, <2>7
<1>5. RulesOrNull \subseteq S
  <2> HIDE DEF S
  <2> QED BY <1>4, StepsDescend, DescentCovers
<1>6. n \in Kept /\ n \in RulesOrNull BY <1>1 DEF mine, head
<1>7. ChainIs(n, mine) BY <1>5, <1>6
<1> QED BY <1>7 DEF mine

LEMMA ChainsAreRight ==
    ASSUME StoreOK(heads, rules)
    PROVE  ChainsRight
<1> SUFFICES ASSUME NEW c \in DOMAIN heads, NEW list \in Lists
             PROVE  LET chain == Chain[heads[c][list]]
                        mine  == Mine(rules, c, list)
                    IN  /\ \A i \in 1 .. Len(chain) - 1 :
                              /\ Less(rules, chain[i], chain[i + 1])
                              /\ rules[chain[i + 1]].prev = chain[i]
                        /\ ToSet(chain) = {r \in mine : ~ Less(rules, r, chain[1])}
      BY DEF ChainsRight, Mine, Less
<1> DEFINE head  == heads[c][list]
           mine  == Mine(rules, c, list)
<1>1. rules \in Seq(Rule) /\ ChainOK(rules, head, mine) /\ mine \subseteq DOMAIN rules
      BY DEF StoreOK, Mine
<1> HIDE DEF head, mine
<1>2. CASE head = 0
  <2>1. 0 \notin DOMAIN rules BY <1>1
  <2>2. mine = {} BY <1>1, <1>2, <2>1 DEF ChainOK
  <2>3. Chain[head] = <<>> BY <1>2, ChainUnfolds
  <2>4. ToSet(Chain[head]) = {} /\ Len(Chain[head]) = 0 BY <2>3 DEF ToSet
  <2> QED BY <2>2, <2>4 DEF mine, head
<1>3. CASE head # 0
  <2>1. head \in mine /\ ~ Less(rules, head, head) BY <1>1, <1>3, LessOrder DEF ChainOK
  <2>2. ChainIs(head, mine) BY <2>1, ChainRight DEF mine, head
  <2> QED BY <2>2 DEF ChainIs, mine, head
<1> QED BY <1>2, <1>3

-----------------------------------------------------------------------------
(* Where a generator goes from a spot: a category and a rule, or no rule.   *)

Onward(at) == IF at[2] = 0 THEN NextFirst(at[1]) ELSE <<at[1], NextCatRule(at[1], at[2])>>

Later(at) ==
    {y \in Spots : \/ at[1] < y[1]
                   \/ at[1] = y[1] /\ at[2] # 0 /\ (y[2] = 0 \/ Less(rules, at[2], y[2]))}
\* How far it is from a spot to the end, at most.
SpotToGo(at) == IF at[1] = 0 THEN 0 ELSE 1 + Cardinality(Later(at))

LEMMA StoreFields ==
    ASSUME StoreOK(heads, rules)
    PROVE  /\ rules \in Seq(Rule) /\ heads \in Seq([Lists -> Nat])
           /\ Len(rules) \in Nat /\ Len(heads) \in Nat
           /\ DOMAIN rules = 1 .. Len(rules) /\ DOMAIN heads = 1 .. Len(heads)
           /\ \A r \in DOMAIN rules : r \in RulesOrNull /\ r # 0 /\ r \in Nat
           /\ \A r \in RulesOrNull : r # 0 => r \in DOMAIN rules
           /\ 0 \in RulesOrNull
           /\ \A at \in Spots : /\ at = <<at[1], at[2]>> /\ at[1] \in Nat /\ at[2] \in RulesOrNull
                                /\ at[1] # 0 => at[1] \in DOMAIN heads
           /\ \A c \in DOMAIN heads, r \in RulesOrNull : <<c, r>> \in Spots
           /\ <<0, 0>> \in Spots
<1>1. rules \in Seq(Rule) /\ heads \in Seq([Lists -> Nat]) BY DEF StoreOK
<1>2. /\ Len(rules) \in Nat /\ Len(heads) \in Nat
      /\ DOMAIN rules = 1 .. Len(rules) /\ DOMAIN heads = 1 .. Len(heads)
      BY <1>1
<1> QED BY <1>1, <1>2 DEF RulesOrNull, Spots

LEMMA LaterFinite ==
    ASSUME StoreOK(heads, rules), NEW at
    PROVE  IsFiniteSet(Later(at)) /\ Cardinality(Later(at)) \in Nat /\ SpotToGo(at) \in Nat
<1>1. IsFiniteSet(0 .. Len(heads)) /\ IsFiniteSet(RulesOrNull)
  <2>1. 0 \in Int /\ Len(heads) \in Int /\ Len(rules) \in Int BY StoreFields
  <2> QED BY <2>1, FS_Interval DEF RulesOrNull
<1>2. IsFiniteSet(Spots) BY <1>1, FS_Product DEF Spots
<1>3. Later(at) \in SUBSET Spots BY DEF Later
<1> QED BY <1>2, <1>3, FS_Subset, FS_CardinalityType DEF SpotToGo

\* The first rule of a category, and the rule behind one.
LEMMA FirstRuleRight ==
    ASSUME StoreOK(heads, rules), NEW c \in DOMAIN heads
    PROVE  /\ FirstRule(c) \in RulesOrNull
           /\ heads[c]["initial"] \in RulesOrNull /\ heads[c]["extension"] \in RulesOrNull
           /\ heads[c]["initial"] # 0 => heads[c]["initial"] \in Mine(rules, c, "initial")
           /\ heads[c]["extension"] # 0 => heads[c]["extension"] \in Mine(rules, c, "extension")
<1>1. "initial" \in Lists /\ "extension" \in Lists BY DEF Lists
<1>2. c # 0 BY StoreFields
<1> QED BY <1>1, <1>2, HeadRight DEF FirstRule, RulesOrNull

LEMMA InitialLess ==
    ASSUME NEW rs \in Seq(Rule), NEW r \in DOMAIN rs, NEW s \in DOMAIN rs,
           rs[r].ub < 0, List(rs[s].ub) = "extension"
    PROVE  Less(rs, r, s) /\ ~ Less(rs, s, r) /\ List(rs[r].ub) = "initial"
<1>1. rs[r].ub \in Nat \cup {INITIAL} /\ rs[s].ub \in Nat \cup {INITIAL}
      BY RulesKeyed DEF Keyed
<1>2. rs[r].ub = INITIAL /\ rs[s].ub # INITIAL BY <1>1 DEF INITIAL, List
<1>3. Less(rs, r, s) BY <1>2, RulesKeyed, RuleOrder DEF Less
<1> QED BY <1>2, <1>3, LessOrder DEF List

LEMMA OnwardRight ==
    ASSUME StoreOK(heads, rules), NEW at \in Spots, at[1] # 0
    PROVE  Onward(at) \in Spots /\ SpotToGo(Onward(at)) < SpotToGo(at)
<1> DEFINE c == at[1]
           r == at[2]
           y == Onward(at)
<1>1. c \in DOMAIN heads /\ r \in RulesOrNull /\ at = <<c, r>> /\ at \in Spots BY StoreFields
<1>2. /\ y \in Spots
      /\ y[1] # 0 => Later(y) \subseteq Later(at) /\ y \in Later(at) /\ y \notin Later(y)
  <2>1. CASE r = 0
    <3> DEFINE d == NextCategory(c)
    <3>1. y = <<d, FirstRule(d)>> BY <1>1, <2>1 DEF Onward, NextFirst
    <3>2. CASE c < Len(heads)
      <4>1. d = c + 1 /\ d \in DOMAIN heads /\ d \in Nat /\ c \in Nat
            BY <1>1, <3>2, StoreFields DEF NextCategory
      <4>2. y \in Spots /\ y[1] = c + 1 /\ y[2] = FirstRule(d) BY <3>1, <4>1, FirstRuleRight, StoreFields
      <4>3. \A z \in Spots : z[1] \in Nat /\ z[2] \in RulesOrNull BY StoreFields
      <4> HIDE DEF y, d
      <4>4. Later(y) \subseteq Later(at) BY <4>1, <4>2, <4>3 DEF Later
      <4>5. y \in Later(at) BY <4>1, <4>2 DEF Later
      <4>6. y \notin Later(y)
        <5>1. y[2] # 0 => ~ Less(rules, y[2], y[2]) BY <4>2, <4>3, StoreFields, LessOrder
        <5> QED BY <4>1, <4>2, <5>1 DEF Later
      <4> QED BY <4>2, <4>4, <4>5, <4>6
    <3>3. CASE ~ c < Len(heads)
      <4>1. d = 0 BY <3>3 DEF NextCategory
      <4>2. FirstRule(d) = 0 BY <4>1 DEF FirstRule
      <4> QED BY <3>1, <4>1, <4>2, StoreFields
    <3> QED BY <3>2, <3>3
  <2>2. CASE r # 0
    <3> DEFINE m == NextCatRule(c, r)
    <3>1. y = <<c, m>> /\ r \in DOMAIN rules BY <1>1, <2>2, StoreFields DEF Onward
    <3>2. m \in RulesOrNull /\ (m # 0 => Less(rules, r, m))
      <4>1. CASE rules[r].next # 0 BY <2>2, <3>1, <4>1, NextRight, StoreFields DEF NextCatRule
      <4>2. CASE rules[r].next = 0 /\ rules[r].ub < 0
        <5>1. m = heads[c]["extension"] BY <2>2, <4>2 DEF NextCatRule
        <5>2. m # 0 => m \in DOMAIN rules /\ List(rules[m].ub) = "extension"
              BY <1>1, <5>1, FirstRuleRight DEF Mine
        <5> HIDE DEF m
        <5>3. m # 0 => Less(rules, r, m) BY <3>1, <4>2, <5>2, InitialLess, StoreFields
        <5> QED BY <1>1, <5>1, <5>3, FirstRuleRight
      <4>3. CASE rules[r].next = 0 /\ ~ rules[r].ub < 0
            BY <2>2, <4>3, StoreFields DEF NextCatRule
      <4> QED BY <4>1, <4>2, <4>3
    <3> HIDE DEF m
    <3>3. y \in Spots /\ y[1] = c /\ y[2] = m BY <1>1, <3>1, <3>2, StoreFields
    <3>4. Later(y) \subseteq Later(at)
      <4> SUFFICES ASSUME NEW z \in Later(y) PROVE z \in Later(at) OBVIOUS
      <4>1. z \in Spots /\ z[1] \in Nat /\ z[2] \in RulesOrNull /\ (z[2] # 0 => z[2] \in DOMAIN rules)
            BY StoreFields DEF Later
      <4>2. m # 0 /\ z[2] # 0 /\ Less(rules, m, z[2]) => Less(rules, r, z[2])
        <5>1. rules \in Seq(Rule) /\ (m # 0 => m \in DOMAIN rules) BY <3>2, StoreFields
        <5> HIDE DEF c, r, y
        <5> QED BY <3>1, <3>2, <4>1, <5>1, LessOrder
      <4> HIDE DEF y
      <4> QED BY <2>2, <3>2, <3>3, <4>1, <4>2 DEF Later
    <3>5. y \in Later(at)
      <4> HIDE DEF y
      <4> QED BY <2>2, <3>2, <3>3 DEF Later
    <3>6. y \notin Later(y)
      <4>1. m # 0 => ~ Less(rules, m, m) BY <3>2, LessOrder, StoreFields
      <4>2. ~ c < c BY <1>1, StoreFields
      <4> HIDE DEF y
      <4> QED BY <3>3, <4>1, <4>2 DEF Later
    <3> QED BY <3>3, <3>4, <3>5, <3>6
  <2> QED BY <2>1, <2>2
<1>3. CASE y[1] = 0
  <2> HIDE DEF y
  <2> QED BY <1>2, <1>3, LaterFinite DEF SpotToGo, y
<1>4. CASE y[1] # 0
  <2>1. IsFiniteSet(Later(at)) /\ Cardinality(Later(at)) \in Nat /\ Cardinality(Later(y)) \in Nat
        BY LaterFinite
  <2>2. Later(y) \in SUBSET Later(at) /\ Later(y) # Later(at) BY <1>2, <1>4
  <2> HIDE DEF y
  <2>3. Cardinality(Later(y)) <= Cardinality(Later(at)) /\ Cardinality(Later(y)) # Cardinality(Later(at))
        BY <2>1, <2>2, FS_Subset
  <2>4. Cardinality(Later(y)) < Cardinality(Later(at)) BY <2>1, <2>3
  <2> QED BY <1>2, <1>4, <2>1, <2>4 DEF SpotToGo, y
<1> QED BY <1>2, <1>3, <1>4

-----------------------------------------------------------------------------
(* The loops of a generator come to their end.                              *)

Over   == <<0, END>>
SpotsOrOver == Spots \cup {Over}

LEMMA OverIsNone == Over[1] = 0 /\ Over[2] = END /\ END # 0 /\ END \notin Nat
BY DEF Over, END

OnwardOf == [x \in Spots |-> IF x[1] = 0 THEN x ELSE Onward(x)]
SpotsToGo == [x \in Spots |-> SpotToGo(x)]

LEMMA OnwardDescends ==
    ASSUME StoreOK(heads, rules), NEW stop, \A x \in Spots : x[1] = 0 => x \in stop
    PROVE  Descends(Spots, stop, OnwardOf, SpotsToGo)
<1>1. OnwardOf \in [Spots -> Spots] BY OnwardRight DEF OnwardOf
<1>2. SpotsToGo \in [Spots -> Nat] BY LaterFinite DEF SpotsToGo
<1>3. ASSUME NEW x \in Spots \ stop PROVE SpotsToGo[OnwardOf[x]] < SpotsToGo[x]
  <2>1. x \in Spots /\ x[1] # 0 OBVIOUS
  <2>2. OnwardOf[x] = Onward(x) /\ OnwardOf[x] \in Spots BY <1>1, <2>1 DEF OnwardOf
  <2>3. SpotsToGo[OnwardOf[x]] = SpotToGo(Onward(x)) /\ SpotsToGo[x] = SpotToGo(x)
        BY <2>1, <2>2 DEF SpotsToGo
  <2> QED BY <2>1, <2>3, OnwardRight
<1> QED BY <1>1, <1>2, <1>3 DEF Descends

\* The current rule is found among the spots that lead from one to the next.
LEMMA CurrentRight ==
    ASSUME StoreOK(heads, rules), NEW c, NEW r, NEW I \in SUBSET Spots, <<c, r>> \in I,
           \A x \in I : x[1] # 0 /\ (x[2] = 0 \/ rules[x[2]].deleted) => Onward(x) \in I
    PROVE  \E y \in I : \/ y[1] = 0 /\ Current(c, r) = Over
                        \/ y[1] # 0 /\ y[2] # 0 /\ ~ rules[y[2]].deleted /\ Current(c, r) = y
<1> DEFINE Turn(h, at) ==
             IF at[1] = 0 THEN <<0, END>>
             ELSE IF at[2] = 0 THEN h[NextFirst(at[1])]
             ELSE IF rules[at[2]].deleted THEN h[<<at[1], NextCatRule(at[1], at[2])>>]
             ELSE at
           Eq(h) == h = [at \in Spots |-> Turn(h, at)]
           walk  == CHOOSE h : Eq(h)
           stop  == {x \in Spots : x[1] = 0 \/ (x[2] # 0 /\ ~ rules[x[2]].deleted)}
           base  == [x \in Spots |-> IF x[1] = 0 THEN Over ELSE x]
<1>1. Current(c, r) = walk[<<c, r>>] BY DEF Current
<1>2. Descends(Spots, stop, OnwardOf, SpotsToGo)
  <2>1. \A x \in Spots : x[1] = 0 => x \in stop OBVIOUS
  <2> HIDE DEF stop
  <2> QED BY <2>1, OnwardDescends
<1>3. Loops(Spots, stop, OnwardOf, base, walk)
  <2>1. base \in [Spots -> SpotsOrOver] BY DEF SpotsOrOver
  <2>2. PICK f \in [Spots -> SpotsOrOver] : Loops(Spots, stop, OnwardOf, base, f)
    <3> HIDE DEF stop, base
    <3> QED BY <1>2, <2>1, LoopExists
  <2>3. \A h : Eq(h) <=> h = [x \in Spots |-> IF x \in stop THEN base[x] ELSE h[OnwardOf[x]]]
    <3> DEFINE Loop(h, x) == IF x \in stop THEN base[x] ELSE h[OnwardOf[x]]
    <3>1. ASSUME NEW h, NEW x \in Spots PROVE Turn(h, x) = Loop(h, x)
          BY DEF OnwardOf, Onward, Over
    <3> HIDE DEF Turn, Loop
    <3>2. ASSUME NEW h PROVE Eq(h) <=> h = [x \in Spots |-> Loop(h, x)] BY <3>1
    <3> QED BY <3>2 DEF Loop
  <2> HIDE DEF Eq, stop, base
  <2>4. f = [x \in Spots |-> IF x \in stop THEN base[x] ELSE f[OnwardOf[x]]] BY <2>2 DEF Loops
  <2>5. Eq(walk) BY <2>3, <2>4
  <2>6. walk = [x \in Spots |-> IF x \in stop THEN base[x] ELSE walk[OnwardOf[x]]] BY <2>3, <2>5
  <2> HIDE DEF walk
  <2> QED BY <2>6 DEF Loops
<1>4. \A x \in I \ stop : OnwardOf[x] \in I BY DEF OnwardOf
<1>5. \E y \in I \cap stop : walk[<<c, r>>] = base[y]
  <2> HIDE DEF stop, base, walk, Eq
  <2> QED BY <1>2, <1>3, <1>4, LoopEnds
<1>6. PICK y \in I \cap stop : Current(c, r) = base[y]
  <2> HIDE DEF stop, base, walk, Eq
  <2> QED BY <1>1, <1>5
<1>7. base[y] = (IF y[1] = 0 THEN Over ELSE y)
      /\ (y[1] = 0 \/ (y[2] # 0 /\ ~ rules[y[2]].deleted)) /\ y \in I
      OBVIOUS
<1> HIDE DEF base
<1> QED BY <1>6, <1>7

LEMMA FirstAfterRight ==
    ASSUME StoreOK(heads, rules), NEW c, NEW r, NEW I \in SUBSET Spots, <<c, r>> \in I,
           \A x \in I : x[1] # 0 /\ x[2] = 0 => Onward(x) \in I
    PROVE  \E y \in I : \/ y[1] = 0 /\ FirstAfter(c, r) = Over
                        \/ y[1] # 0 /\ y[2] # 0 /\ FirstAfter(c, r) = y
<1> DEFINE Turn(h, at) ==
             IF at[1] = 0 THEN <<0, END>>
             ELSE IF at[2] = 0 THEN h[NextFirst(at[1])]
             ELSE at
           Eq(h) == h = [at \in Spots |-> Turn(h, at)]
           walk  == CHOOSE h : Eq(h)
           stop  == {x \in Spots : x[1] = 0 \/ x[2] # 0}
           base  == [x \in Spots |-> IF x[1] = 0 THEN Over ELSE x]
<1>1. FirstAfter(c, r) = walk[<<c, r>>] BY DEF FirstAfter
<1>2. Descends(Spots, stop, OnwardOf, SpotsToGo)
  <2>1. \A x \in Spots : x[1] = 0 => x \in stop OBVIOUS
  <2> HIDE DEF stop
  <2> QED BY <2>1, OnwardDescends
<1>3. Loops(Spots, stop, OnwardOf, base, walk)
  <2>1. base \in [Spots -> SpotsOrOver] BY DEF SpotsOrOver
  <2>2. PICK f \in [Spots -> SpotsOrOver] : Loops(Spots, stop, OnwardOf, base, f)
    <3> HIDE DEF stop, base
    <3> QED BY <1>2, <2>1, LoopExists
  <2>3. \A h : Eq(h) <=> h = [x \in Spots |-> IF x \in stop THEN base[x] ELSE h[OnwardOf[x]]]
    <3> DEFINE Loop(h, x) == IF x \in stop THEN base[x] ELSE h[OnwardOf[x]]
    <3>1. ASSUME NEW h, NEW x \in Spots PROVE Turn(h, x) = Loop(h, x)
          BY DEF OnwardOf, Onward, Over
    <3> HIDE DEF Turn, Loop
    <3>2. ASSUME NEW h PROVE Eq(h) <=> h = [x \in Spots |-> Loop(h, x)] BY <3>1
    <3> QED BY <3>2 DEF Loop
  <2> HIDE DEF Eq, stop, base
  <2>4. f = [x \in Spots |-> IF x \in stop THEN base[x] ELSE f[OnwardOf[x]]] BY <2>2 DEF Loops
  <2>5. Eq(walk) BY <2>3, <2>4
  <2>6. walk = [x \in Spots |-> IF x \in stop THEN base[x] ELSE walk[OnwardOf[x]]] BY <2>3, <2>5
  <2> HIDE DEF walk
  <2> QED BY <2>6 DEF Loops
<1>4. \A x \in I \ stop : OnwardOf[x] \in I BY DEF OnwardOf
<1>5. \E y \in I \cap stop : walk[<<c, r>>] = base[y]
  <2> HIDE DEF stop, base, walk, Eq
  <2> QED BY <1>2, <1>3, <1>4, LoopEnds
<1>6. PICK y \in I \cap stop : FirstAfter(c, r) = base[y]
  <2> HIDE DEF stop, base, walk, Eq
  <2> QED BY <1>1, <1>5
<1>7. base[y] = (IF y[1] = 0 THEN Over ELSE y) /\ (y[1] = 0 \/ y[2] # 0) /\ y \in I
      OBVIOUS
<1> HIDE DEF base
<1> QED BY <1>6, <1>7

\* The current rule is no farther from the end, the one behind is nearer.
LEMMA CurrentSpot ==
    ASSUME StoreOK(heads, rules), NEW at \in Spots
    PROVE  LET x == Current(at[1], at[2])
           IN  \/ x = Over
               \/ x \in Spots /\ x[1] # 0 /\ x[2] # 0 /\ SpotToGo(x) <= SpotToGo(at)
<1> DEFINE I == {x \in Spots : SpotToGo(x) <= SpotToGo(at)}
           c == at[1]
           r == at[2]
<1>1. \A x \in Spots : SpotToGo(x) \in Nat BY LaterFinite
<1>2. at = <<c, r>> BY StoreFields
<1>3. <<c, r>> \in I /\ I \in SUBSET Spots BY <1>1, <1>2
<1>4. ASSUME NEW x \in I, x[1] # 0 PROVE Onward(x) \in I
  <2>1. Onward(x) \in Spots /\ SpotToGo(Onward(x)) < SpotToGo(x) BY <1>4, OnwardRight
  <2>2. SpotToGo(Onward(x)) \in Nat /\ SpotToGo(x) \in Nat /\ SpotToGo(at) \in Nat BY <1>1, <2>1
  <2>3. SpotToGo(x) <= SpotToGo(at) OBVIOUS
  <2> QED BY <2>1, <2>2, <2>3
<1>5. \A x \in I : x \in Spots /\ SpotToGo(x) <= SpotToGo(at) OBVIOUS
<1> HIDE DEF I, c, r
<1>6. \E y \in I : \/ y[1] = 0 /\ Current(c, r) = Over
                   \/ y[1] # 0 /\ y[2] # 0 /\ ~ rules[y[2]].deleted /\ Current(c, r) = y
      BY <1>3, <1>4, CurrentRight
<1> QED BY <1>5, <1>6 DEF c, r

LEMMA FollowingSpot ==
    ASSUME StoreOK(heads, rules), NEW at \in Spots, at[1] # 0, at[2] # 0
    PROVE  LET y == Following(at[1], at[2])
           IN  \/ y = Over
               \/ y \in Spots /\ y[1] # 0 /\ y[2] # 0 /\ SpotToGo(y) < SpotToGo(at)
<1> DEFINE I == {x \in Spots : SpotToGo(x) < SpotToGo(at)}
           c == at[1]
           r == NextCatRule(at[1], at[2])
<1>1. \A x \in Spots : SpotToGo(x) \in Nat BY LaterFinite
<1>2. Onward(at) = <<c, r>> BY DEF Onward
<1>3. <<c, r>> \in I /\ I \in SUBSET Spots BY <1>2, OnwardRight
<1>4. ASSUME NEW x \in I, x[1] # 0 PROVE Onward(x) \in I
  <2>1. Onward(x) \in Spots /\ SpotToGo(Onward(x)) < SpotToGo(x) BY <1>4, OnwardRight
  <2>2. SpotToGo(Onward(x)) \in Nat /\ SpotToGo(x) \in Nat /\ SpotToGo(at) \in Nat BY <1>1, <2>1
  <2>3. SpotToGo(x) < SpotToGo(at) OBVIOUS
  <2> QED BY <2>1, <2>2, <2>3
<1>5. \A x \in I : x \in Spots /\ SpotToGo(x) < SpotToGo(at) OBVIOUS
<1>6. Following(at[1], at[2]) = FirstAfter(c, r) BY DEF Following
<1> HIDE DEF I, c, r
<1>7. \E y \in I : \/ y[1] = 0 /\ FirstAfter(c, r) = Over
                   \/ y[1] # 0 /\ y[2] # 0 /\ FirstAfter(c, r) = y
      BY <1>3, <1>4, FirstAfterRight
<1> QED BY <1>5, <1>6, <1>7

\* A search: the turns that it takes, and where it goes on.
CurrentAt(at) == Current(at[1], at[2])
BehindIt(at)  == Following(CurrentAt(at)[1], CurrentAt(at)[2])

LEMMA BehindSpot ==
    ASSUME StoreOK(heads, rules), NEW at \in Spots, ~ Found(CurrentAt(at))
    PROVE  \/ BehindIt(at) = Over
           \/ BehindIt(at) \in Spots /\ SpotToGo(BehindIt(at)) < SpotToGo(at) /\ BehindIt(at)[2] # END
<1> DEFINE x == CurrentAt(at)
           y == BehindIt(at)
<1>1. x # Over BY OverIsNone DEF Found
<1>2. x \in Spots /\ x[1] # 0 /\ x[2] # 0 /\ SpotToGo(x) <= SpotToGo(at)
      BY <1>1, CurrentSpot DEF CurrentAt
<1>3. y = Over \/ (y \in Spots /\ SpotToGo(y) < SpotToGo(x))
      BY <1>2, FollowingSpot DEF BehindIt
<1>4. SpotToGo(x) \in Nat /\ SpotToGo(y) \in Nat /\ SpotToGo(at) \in Nat BY LaterFinite
<1> HIDE DEF x, y
<1>5. y \in Spots => y[2] # END BY StoreFields, OverIsNone DEF RulesOrNull
<1>6. y = Over \/ (y \in Spots /\ SpotToGo(y) < SpotToGo(at) /\ y[2] # END)
      BY <1>2, <1>3, <1>4, <1>5
<1> QED BY <1>6 DEF y

LEMMA SearchFromRight ==
    ASSUME StoreOK(heads, rules), NEW c, NEW r, NEW I \in SUBSET Spots, <<c, r>> \in I,
           \A x \in I : ~ Found(CurrentAt(x)) /\ BehindIt(x) # Over => BehindIt(x) \in I
    PROVE  \E x \in I : \/ Found(CurrentAt(x)) /\ SearchFrom(c, r) = CurrentAt(x)
                        \/ /\ ~ Found(CurrentAt(x)) /\ BehindIt(x) = Over
                           /\ SearchFrom(c, r) = Over
<1> DEFINE Turn(h, at) ==
             LET x == Current(at[1], at[2])
                 y == Following(x[1], x[2])
             IN  IF Found(x) THEN x ELSE IF y[2] = END THEN y ELSE h[y]
           Eq(h) == h = [at \in Spots |-> Turn(h, at)]
           walk  == CHOOSE h : Eq(h)
           stop  == {x \in Spots : Found(CurrentAt(x)) \/ BehindIt(x) = Over}
           base  == [x \in Spots |-> IF Found(CurrentAt(x)) THEN CurrentAt(x) ELSE Over]
           nx    == [x \in Spots |-> IF x \in stop THEN x ELSE BehindIt(x)]
<1>1. SearchFrom(c, r) = walk[<<c, r>>] BY DEF SearchFrom
<1>2. \A x \in Spots : x \in stop <=> Found(CurrentAt(x)) \/ BehindIt(x) = Over OBVIOUS
<1>3. Descends(Spots, stop, nx, SpotsToGo)
  <2>1. nx \in [Spots -> Spots] BY BehindSpot
  <2>2. SpotsToGo \in [Spots -> Nat] BY LaterFinite DEF SpotsToGo
  <2>3. ASSUME NEW x \in Spots \ stop PROVE SpotsToGo[nx[x]] < SpotsToGo[x]
    <3>1. nx[x] = BehindIt(x) /\ nx[x] \in Spots BY <2>1
    <3>2. SpotsToGo[nx[x]] = SpotToGo(BehindIt(x)) /\ SpotsToGo[x] = SpotToGo(x)
          BY <3>1 DEF SpotsToGo
    <3>3. ~ Found(CurrentAt(x)) /\ BehindIt(x) # Over OBVIOUS
    <3> HIDE DEF nx, stop
    <3> QED BY <3>2, <3>3, BehindSpot
  <2> HIDE DEF nx, stop
  <2> QED BY <2>1, <2>2, <2>3 DEF Descends
<1>4. Loops(Spots, stop, nx, base, walk)
  <2>1. base \in [Spots -> SpotsOrOver]
    <3>1. \A x \in Spots : CurrentAt(x) \in SpotsOrOver BY CurrentSpot DEF CurrentAt, SpotsOrOver
    <3> QED BY <3>1 DEF SpotsOrOver
  <2>2. PICK f \in [Spots -> SpotsOrOver] : Loops(Spots, stop, nx, base, f)
    <3> HIDE DEF stop, base, nx
    <3> QED BY <1>3, <2>1, LoopExists
  <2>3. \A h : Eq(h) <=> h = [x \in Spots |-> IF x \in stop THEN base[x] ELSE h[nx[x]]]
    <3> DEFINE Loop(h, x) == IF x \in stop THEN base[x] ELSE h[nx[x]]
    <3>1. ASSUME NEW h, NEW x \in Spots PROVE Turn(h, x) = Loop(h, x)
      <4>1. CASE Found(CurrentAt(x)) BY <4>1 DEF CurrentAt
      <4>2. CASE ~ Found(CurrentAt(x)) /\ BehindIt(x) = Over
        <5>1. BehindIt(x)[2] = END BY <4>2, OverIsNone
        <5>2. Turn(h, x) = Over BY <4>2, <5>1 DEF CurrentAt, BehindIt
        <5>3. Loop(h, x) = Over BY <4>2
        <5> QED BY <5>2, <5>3
      <4>3. CASE ~ Found(CurrentAt(x)) /\ BehindIt(x) # Over
        <5>1. BehindIt(x)[2] # END BY <4>3, BehindSpot
        <5>2. Turn(h, x) = h[BehindIt(x)] BY <4>3, <5>1 DEF CurrentAt, BehindIt
        <5>3. Loop(h, x) = h[BehindIt(x)] BY <4>3
        <5> QED BY <5>2, <5>3
      <4> QED BY <4>1, <4>2, <4>3
    <3> HIDE DEF Turn, Loop
    <3>2. ASSUME NEW h PROVE Eq(h) <=> h = [x \in Spots |-> Loop(h, x)] BY <3>1
    <3> QED BY <3>2 DEF Loop
  <2> HIDE DEF Eq, stop, base, nx
  <2>4. f = [x \in Spots |-> IF x \in stop THEN base[x] ELSE f[nx[x]]] BY <2>2 DEF Loops
  <2>5. Eq(walk) BY <2>3, <2>4
  <2>6. walk = [x \in Spots |-> IF x \in stop THEN base[x] ELSE walk[nx[x]]] BY <2>3, <2>5
  <2> HIDE DEF walk
  <2> QED BY <2>6 DEF Loops
<1>5. \A x \in I \ stop : nx[x] \in I BY <1>2
<1>6. \E x \in I \cap stop : walk[<<c, r>>] = base[x]
  <2> HIDE DEF stop, base, nx, walk, Eq
  <2> QED BY <1>3, <1>4, <1>5, LoopEnds
<1>7. PICK x \in I \cap stop : SearchFrom(c, r) = base[x]
  <2> HIDE DEF stop, base, nx, walk, Eq
  <2> QED BY <1>1, <1>6
<1>8. base[x] = (IF Found(CurrentAt(x)) THEN CurrentAt(x) ELSE Over) /\ x \in I
      /\ (Found(CurrentAt(x)) \/ BehindIt(x) = Over)
      BY <1>2
<1> HIDE DEF base
<1> QED BY <1>7, <1>8

-----------------------------------------------------------------------------
(* What a search has before it: the rules of its category that are not less *)
(* than the one it is on, and those of the categories behind.               *)

Valid(hs, rs, at) ==
    at[1] # 0 /\ at[2] # 0 => Held(hs, rs, at[2]) /\ rs[at[2]].cat = at[1]

Rest(hs, rs, at) ==
    {s \in DOMAIN rs :
        /\ Held(hs, rs, s) /\ at[1] # 0
        /\ \/ at[1] < rs[s].cat
           \/ rs[s].cat = at[1] /\ at[2] # 0 /\ ~ Less(rs, s, at[2])}

LEMMA HeldChain ==
    ASSUME NEW hs, NEW rs, StoreOK(hs, rs), NEW s, Held(hs, rs, s)
    PROVE  LET c    == rs[s].cat
               list == List(rs[s].ub)
           IN  /\ s \in DOMAIN rs /\ c \in DOMAIN hs /\ list \in Lists
               /\ s \in Mine(rs, c, list) /\ ~ Less(rs, s, hs[c][list])
               /\ hs[c][list] \in Mine(rs, c, list) /\ ChainOK(rs, hs[c][list], Mine(rs, c, list))
<1> DEFINE c    == rs[s].cat
           list == List(rs[s].ub)
<1>1. rs \in Seq(Rule) /\ s \in DOMAIN rs /\ c \in DOMAIN hs /\ ~ Less(rs, s, hs[c][list])
      BY DEF StoreOK, Held
<1>2. list \in Lists BY <1>1, RulesKeyed
<1>3. s \in Mine(rs, c, list) BY <1>1 DEF Mine
<1>4. ChainOK(rs, hs[c][list], Mine(rs, c, list)) BY <1>1, <1>2 DEF StoreOK
<1>5. hs[c][list] \in Mine(rs, c, list) BY <1>3, <1>4 DEF ChainOK
<1> HIDE DEF c, list
<1> QED BY <1>1, <1>2, <1>3, <1>4, <1>5 DEF c, list

\* The first rule of a category has all of them before it.
LEMMA RestOfCategory ==
    ASSUME StoreOK(heads, rules), NEW c \in DOMAIN heads
    PROVE  /\ Valid(heads, rules, <<c, FirstRule(c)>>)
           /\ \A s \in DOMAIN rules :
                  s \in Rest(heads, rules, <<c, FirstRule(c)>>)
                    <=> Held(heads, rules, s) /\ c <= rules[s].cat
<1> DEFINE a == heads[c]["initial"]
           b == heads[c]["extension"]
           m == FirstRule(c)
<1>1. rules \in Seq(Rule) /\ c # 0 /\ c \in Nat BY StoreFields
<1>2. m = IF a # 0 THEN a ELSE b BY <1>1 DEF FirstRule
<1>3. /\ a # 0 => a \in DOMAIN rules /\ rules[a].cat = c /\ List(rules[a].ub) = "initial"
      /\ b # 0 => b \in DOMAIN rules /\ rules[b].cat = c /\ List(rules[b].ub) = "extension"
      BY FirstRuleRight DEF Mine
<1>4. \A s \in DOMAIN rules : Held(heads, rules, s) /\ rules[s].cat = c =>
          \/ List(rules[s].ub) = "initial" /\ a # 0 /\ ~ Less(rules, s, a)
          \/ List(rules[s].ub) = "extension" /\ b # 0 /\ ~ Less(rules, s, b)
  <2> SUFFICES ASSUME NEW s \in DOMAIN rules, Held(heads, rules, s), rules[s].cat = c
               PROVE  \/ List(rules[s].ub) = "initial" /\ a # 0 /\ ~ Less(rules, s, a)
                      \/ List(rules[s].ub) = "extension" /\ b # 0 /\ ~ Less(rules, s, b)
        OBVIOUS
  <2>1. List(rules[s].ub) \in Lists /\ heads[c][List(rules[s].ub)] \in DOMAIN rules
        /\ ~ Less(rules, s, heads[c][List(rules[s].ub)])
        BY HeldChain DEF Mine
  <2>2. heads[c][List(rules[s].ub)] # 0 BY <2>1, StoreFields
  <2> QED BY <2>1, <2>2 DEF Lists
<1> HIDE DEF a, b, m
<1>5. m # 0 => Held(heads, rules, m) /\ rules[m].cat = c
  <2>1. \A r \in DOMAIN rules : ~ Less(rules, r, r) BY <1>1, LessOrder
  <2> QED BY <1>2, <1>3, <2>1 DEF Held, a, b
<1>6. \A s \in DOMAIN rules : Held(heads, rules, s) /\ rules[s].cat = c => m # 0 /\ ~ Less(rules, s, m)
  <2> SUFFICES ASSUME NEW s \in DOMAIN rules, Held(heads, rules, s), rules[s].cat = c
               PROVE  m # 0 /\ ~ Less(rules, s, m)
        OBVIOUS
  <2>1. CASE List(rules[s].ub) = "initial" BY <1>2, <1>4, <2>1
  <2>2. CASE List(rules[s].ub) = "extension" /\ a = 0 BY <1>2, <1>4, <2>2
  <2>3. CASE List(rules[s].ub) = "extension" /\ a # 0
    <3>1. rules[a].ub < 0
      <4>1. rules[a].ub = INITIAL BY <1>3, <2>3 DEF List
      <4> QED BY <4>1 DEF INITIAL
    <3> QED BY <1>1, <1>2, <1>3, <2>3, <3>1, InitialLess
  <2> QED BY <1>4, <2>1, <2>2, <2>3
<1>7. \A s \in DOMAIN rules : rules[s].cat \in Nat BY StoreFields DEF StoreOK
<1> DEFINE at == <<c, m>>
<1>8. at[1] = c /\ at[2] = m OBVIOUS
<1> HIDE DEF at
<1>9. Valid(heads, rules, at) BY <1>5, <1>8 DEF Valid
<1>10. \A s \in DOMAIN rules :
          s \in Rest(heads, rules, at) <=> Held(heads, rules, s) /\ c <= rules[s].cat
       BY <1>1, <1>6, <1>7, <1>8 DEF Rest
<1> QED BY <1>9, <1>10 DEF at, m

\* Where a search goes on from a category at its end.
LEMMA RestOnward ==
    ASSUME StoreOK(heads, rules), NEW at \in Spots, at[1] # 0, at[2] = 0
    PROVE  /\ Valid(heads, rules, Onward(at))
           /\ Rest(heads, rules, Onward(at)) = Rest(heads, rules, at)
<1> DEFINE c == at[1]
           d == NextCategory(c)
           y == Onward(at)
<1>1. c \in DOMAIN heads /\ c \in Nat /\ Len(heads) \in Nat /\ DOMAIN heads = 1 .. Len(heads)
      BY StoreFields
<1>2. y = <<d, FirstRule(d)>> BY DEF Onward, NextFirst
<1>3. \A s \in DOMAIN rules : rules[s].cat \in Nat /\ rules[s].cat <= Len(heads)
      BY <1>1 DEF StoreOK
<1>4. CASE c < Len(heads)
  <2>1. d = c + 1 /\ d \in DOMAIN heads BY <1>1, <1>4 DEF NextCategory
  <2>2. /\ Valid(heads, rules, y)
        /\ \A s \in DOMAIN rules : s \in Rest(heads, rules, y) <=> Held(heads, rules, s) /\ c < rules[s].cat
    <3>1. \A s \in DOMAIN rules : d <= rules[s].cat <=> c < rules[s].cat BY <1>1, <1>3, <2>1
    <3> HIDE DEF d, c, y
    <3> QED BY <1>2, <2>1, <3>1, RestOfCategory
  <2>3. \A s \in DOMAIN rules : s \in Rest(heads, rules, at) <=> Held(heads, rules, s) /\ c < rules[s].cat
        BY DEF Rest
  <2>4. Rest(heads, rules, y) \subseteq DOMAIN rules /\ Rest(heads, rules, at) \subseteq DOMAIN rules
        BY DEF Rest
  <2> HIDE DEF y, c
  <2>5. Rest(heads, rules, y) = Rest(heads, rules, at) BY <2>2, <2>3, <2>4
  <2> QED BY <2>2, <2>5 DEF y
<1>5. CASE ~ c < Len(heads)
  <2>1. y[1] = 0 BY <1>2, <1>5 DEF NextCategory
  <2> HIDE DEF y
  <2>2. Valid(heads, rules, y) /\ Rest(heads, rules, y) = {} BY <2>1 DEF Valid, Rest
  <2>3. \A s \in DOMAIN rules : ~ c < rules[s].cat BY <1>1, <1>3, <1>5
  <2>4. Rest(heads, rules, at) = {} BY <2>3 DEF Rest
  <2> QED BY <2>2, <2>4 DEF y
<1> QED BY <1>4, <1>5

\* Behind a rule there is all that was before the search, but that rule.
LEMMA RestBehind ==
    ASSUME StoreOK(heads, rules), NEW at \in Spots, at[1] # 0, at[2] # 0, Valid(heads, rules, at)
    PROVE  /\ Valid(heads, rules, Onward(at)) /\ at[2] \in Rest(heads, rules, at)
           /\ Rest(heads, rules, Onward(at)) = Rest(heads, rules, at) \ {at[2]}
<1> DEFINE c    == at[1]
           r    == at[2]
           m    == NextCatRule(c, r)
           list == List(rules[r].ub)
           mine == Mine(rules, c, list)
           b    == heads[c]["extension"]
           y    == Onward(at)
<1>1. /\ rules \in Seq(Rule) /\ r \in DOMAIN rules /\ Held(heads, rules, r) /\ rules[r].cat = c /\ r # 0
      /\ c \in DOMAIN heads /\ c \in Nat
      BY StoreFields DEF Valid
<1>2. y = <<c, m>> /\ y[1] = c /\ y[2] = m BY DEF Onward
<1>3. /\ list \in Lists /\ r \in mine /\ ~ Less(rules, r, heads[c][list])
      /\ heads[c][list] \in mine /\ ChainOK(rules, heads[c][list], mine)
      BY <1>1, HeldChain
<1>4. rules[r].ub \in Nat \cup {INITIAL} /\ (rules[r].ub < 0 <=> list = "initial")
      BY <1>1, RulesKeyed DEF Keyed, List, INITIAL
<1>5. m = IF rules[r].next # 0 THEN rules[r].next ELSE IF rules[r].ub < 0 THEN b ELSE 0
      BY <1>1 DEF NextCatRule
<1>6. b # 0 => b \in Mine(rules, c, "extension") BY <1>1, FirstRuleRight
<1> HIDE DEF c, r, m, list, mine, b, y
<1>7. \A s \in DOMAIN rules : s \notin mine /\ Held(heads, rules, s) /\ rules[s].cat = c =>
          \/ list = "initial" /\ Less(rules, r, s) /\ b # 0 /\ ~ Less(rules, s, b)
             /\ List(rules[s].ub) = "extension"
          \/ list = "extension" /\ Less(rules, s, r)
  <2> SUFFICES ASSUME NEW s \in DOMAIN rules, s \notin mine, Held(heads, rules, s), rules[s].cat = c
               PROVE  \/ /\ list = "initial" /\ Less(rules, r, s) /\ b # 0 /\ ~ Less(rules, s, b)
                         /\ List(rules[s].ub) = "extension"
                      \/ list = "extension" /\ Less(rules, s, r)
        OBVIOUS
  <2>1. List(rules[s].ub) \in Lists /\ List(rules[s].ub) # list
        BY RulesKeyed, <1>1 DEF Mine, mine
  <2>2. CASE list = "initial"
    <3>1. List(rules[s].ub) = "extension" BY <2>1, <2>2 DEF Lists
    <3>2. Less(rules, r, s) BY <1>1, <1>4, <2>2, <3>1, InitialLess
    <3>3. b \in DOMAIN rules /\ ~ Less(rules, s, b)
      <4>1. /\ heads[rules[s].cat][List(rules[s].ub)] \in DOMAIN rules
            /\ ~ Less(rules, s, heads[rules[s].cat][List(rules[s].ub)])
            BY HeldChain DEF Mine
      <4> QED BY <3>1, <4>1 DEF b
    <3> QED BY <2>2, <3>1, <3>2, <3>3, StoreFields
  <2>3. CASE list = "extension"
    <3>1. List(rules[s].ub) = "initial" BY <2>1, <2>3 DEF Lists
    <3>2. rules[s].ub < 0
      <4>1. rules[s].ub = INITIAL BY <3>1 DEF List
      <4> QED BY <4>1 DEF INITIAL
    <3> QED BY <1>1, <2>3, <3>2, InitialLess DEF list
  <2> QED BY <1>3, <2>2, <2>3 DEF Lists
<1>8. \A s \in mine : Held(heads, rules, s) /\ s # r => Less(rules, r, s) \/ Less(rules, s, r)
  <2>1. \A s \in mine : Held(heads, rules, s) => ~ Less(rules, s, heads[c][list])
        BY DEF Mine, mine, Held
  <2> QED BY <1>3, <2>1 DEF ChainOK
<1>9. m # 0 => m \in DOMAIN rules /\ Held(heads, rules, m) /\ rules[m].cat = c /\ Less(rules, r, m)
  <2>1. CASE rules[r].next # 0
    <3>1. m \in mine /\ Less(rules, r, m) BY <1>3, <1>5, <2>1 DEF ChainOK
    <3>2. m \in DOMAIN rules /\ rules[m].cat = c /\ List(rules[m].ub) = list BY <3>1 DEF Mine, mine
    <3>3. ~ Less(rules, m, heads[c][list])
      <4>1. heads[c][list] \in DOMAIN rules BY <1>3 DEF Mine, mine
      <4> QED BY <1>1, <1>3, <3>1, <3>2, <4>1, LessOrder
    <3> QED BY <3>1, <3>2, <3>3 DEF Held
  <2>2. CASE rules[r].next = 0 /\ m # 0
    <3>1. m = b /\ rules[r].ub < 0 BY <1>5, <2>2
    <3>2. m \in DOMAIN rules /\ rules[m].cat = c /\ List(rules[m].ub) = "extension"
          BY <1>6, <2>2, <3>1 DEF Mine
    <3>3. Less(rules, r, m) BY <1>1, <3>1, <3>2, InitialLess
    <3>4. Held(heads, rules, m) BY <1>1, <3>1, <3>2, LessOrder DEF Held, b
    <3> QED BY <3>2, <3>3, <3>4
  <2> QED BY <2>1, <2>2
<1>10. \A s \in DOMAIN rules : Held(heads, rules, s) /\ rules[s].cat = c =>
           ((m # 0 /\ ~ Less(rules, s, m)) <=> (s # r /\ ~ Less(rules, s, r)))
  <2> SUFFICES ASSUME NEW s \in DOMAIN rules, Held(heads, rules, s), rules[s].cat = c
               PROVE  (m # 0 /\ ~ Less(rules, s, m)) <=> (s # r /\ ~ Less(rules, s, r))
        OBVIOUS
  <2>1. ASSUME m # 0, ~ Less(rules, s, m) PROVE s # r /\ ~ Less(rules, s, r)
        BY <1>1, <1>9, <2>1, LessOrder
  <2>2. ASSUME s # r, ~ Less(rules, s, r) PROVE m # 0 /\ ~ Less(rules, s, m)
    <3>1. CASE s \in mine
      <4>1. Less(rules, r, s) BY <1>8, <2>2, <3>1
      <4>2. rules[r].next # 0 /\ ~ Less(rules, s, rules[r].next)
            BY <1>3, <3>1, <4>1 DEF ChainOK
      <4> QED BY <1>5, <4>2
    <3>2. CASE s \notin mine
      <4>1. list = "initial" /\ b # 0 /\ ~ Less(rules, s, b) /\ List(rules[s].ub) = "extension"
            BY <1>7, <2>2, <3>2
      <4>2. CASE rules[r].next = 0 BY <1>4, <1>5, <4>1, <4>2
      <4>3. CASE rules[r].next # 0
        <5>1. m \in mine /\ m # 0 BY <1>3, <1>5, <4>3 DEF ChainOK
        <5>2. m \in DOMAIN rules /\ List(rules[m].ub) = "initial" BY <4>1, <5>1 DEF Mine, mine
        <5>3. rules[m].ub < 0
          <6>1. rules[m].ub = INITIAL BY <5>2 DEF List
          <6> QED BY <6>1 DEF INITIAL
        <5>4. ~ Less(rules, s, m) BY <1>1, <4>1, <5>2, <5>3, InitialLess
        <5> QED BY <5>1, <5>4
      <4> QED BY <4>2, <4>3
    <3> QED BY <3>1, <3>2
  <2> QED BY <2>1, <2>2
<1>11. Valid(heads, rules, y) BY <1>2, <1>9 DEF Valid
<1>12. ~ Less(rules, r, r) BY <1>1, LessOrder
<1>13. at[1] = c /\ at[2] = r /\ c # 0 BY <1>1 DEF c, r
<1>14. r \in Rest(heads, rules, at) BY <1>1, <1>12, <1>13 DEF Rest
<1>15. Rest(heads, rules, y) = Rest(heads, rules, at) \ {r}
  <2>1. ~ c < c BY <1>1
  <2> QED BY <1>1, <1>2, <1>10, <1>13, <2>1 DEF Rest
<1> QED BY <1>11, <1>14, <1>15 DEF y, r

\* The rule that a search is at: those that it passes are removed.
LEMMA CurrentRest ==
    ASSUME StoreOK(heads, rules), NEW at \in Spots, Valid(heads, rules, at)
    PROVE  LET x == CurrentAt(at)
           IN  \/ x = Over /\ \A s \in Rest(heads, rules, at) : rules[s].deleted
               \/ /\ x \in Spots /\ x[1] # 0 /\ x[2] # 0 /\ Valid(heads, rules, x)
                  /\ ~ rules[x[2]].deleted
                  /\ Rest(heads, rules, x) \subseteq Rest(heads, rules, at)
                  /\ \A s \in Rest(heads, rules, at) \ Rest(heads, rules, x) : rules[s].deleted
<1> DEFINE Passed(x) ==
             /\ Valid(heads, rules, x)
             /\ Rest(heads, rules, x) \subseteq Rest(heads, rules, at)
             /\ \A s \in Rest(heads, rules, at) \ Rest(heads, rules, x) : rules[s].deleted
           I == {x \in Spots : Passed(x)}
           c == at[1]
           r == at[2]
<1>1. at = <<c, r>> BY StoreFields
<1>2. at \in I OBVIOUS
<1>3. ASSUME NEW x \in I, x[1] # 0, x[2] = 0 \/ rules[x[2]].deleted PROVE Onward(x) \in I
  <2>1. x \in Spots /\ Onward(x) \in Spots /\ Passed(x) BY <1>3, OnwardRight
  <2>2. CASE x[2] = 0
    <3>1. Valid(heads, rules, Onward(x)) /\ Rest(heads, rules, Onward(x)) = Rest(heads, rules, x)
          BY <1>3, <2>1, <2>2, RestOnward
    <3> QED BY <2>1, <3>1
  <2>3. CASE x[2] # 0 /\ rules[x[2]].deleted
    <3>1. /\ Valid(heads, rules, Onward(x))
          /\ Rest(heads, rules, Onward(x)) = Rest(heads, rules, x) \ {x[2]}
          BY <1>3, <2>1, <2>3, RestBehind
    <3> QED BY <2>1, <2>3, <3>1
  <2> QED BY <1>3, <2>2, <2>3
<1>4. \A x \in I : x \in Spots /\ Passed(x) OBVIOUS
<1>5. <<c, r>> \in I /\ I \in SUBSET Spots BY <1>1, <1>2
<1> HIDE DEF I, c, r, Passed
<1>6. \E y \in I : \/ y[1] = 0 /\ Current(c, r) = Over
                   \/ y[1] # 0 /\ y[2] # 0 /\ ~ rules[y[2]].deleted /\ Current(c, r) = y
      BY <1>3, <1>5, CurrentRight
<1>7. CurrentAt(at) = Current(c, r) BY DEF CurrentAt, c, r
<1>8. PICK y \in I : \/ y[1] = 0 /\ CurrentAt(at) = Over
                     \/ y[1] # 0 /\ y[2] # 0 /\ ~ rules[y[2]].deleted /\ CurrentAt(at) = y
      BY <1>6, <1>7
<1>9. y \in Spots /\ Passed(y) BY <1>4
<1>10. CASE y[1] = 0 /\ CurrentAt(at) = Over
  <2>1. Rest(heads, rules, y) = {} BY <1>10 DEF Rest
  <2> QED BY <1>9, <1>10, <2>1 DEF Passed
<1>11. CASE y[1] # 0 /\ y[2] # 0 /\ ~ rules[y[2]].deleted /\ CurrentAt(at) = y
       BY <1>9, <1>11 DEF Passed
<1> QED BY <1>8, <1>10, <1>11

\* The rule behind: there is before it what is before the other, but that one.
LEMMA FollowingRest ==
    ASSUME StoreOK(heads, rules), NEW at \in Spots, at[1] # 0, at[2] # 0, Valid(heads, rules, at)
    PROVE  LET y == Following(at[1], at[2])
           IN  /\ at[2] \in Rest(heads, rules, at)
               /\ Rest(heads, rules, y) = Rest(heads, rules, at) \ {at[2]}
               /\ y # Over => y \in Spots /\ y[1] # 0 /\ y[2] # 0 /\ Valid(heads, rules, y)
<1> DEFINE Behind(x) ==
             /\ Valid(heads, rules, x)
             /\ Rest(heads, rules, x) = Rest(heads, rules, at) \ {at[2]}
           I == {x \in Spots : Behind(x)}
           c == at[1]
           r == NextCatRule(at[1], at[2])
<1>1. Onward(at) = <<c, r>> BY DEF Onward
<1>2. /\ Behind(Onward(at)) /\ Onward(at) \in Spots /\ at[2] \in Rest(heads, rules, at)
      BY RestBehind, OnwardRight
<1>3. ASSUME NEW x \in I, x[1] # 0, x[2] = 0 PROVE Onward(x) \in I
  <2>1. x \in Spots /\ Onward(x) \in Spots /\ Behind(x) BY <1>3, OnwardRight
  <2>2. Valid(heads, rules, Onward(x)) /\ Rest(heads, rules, Onward(x)) = Rest(heads, rules, x)
        BY <1>3, <2>1, RestOnward
  <2> QED BY <2>1, <2>2
<1>4. \A x \in I : x \in Spots /\ Behind(x) OBVIOUS
<1>5. <<c, r>> \in I /\ I \in SUBSET Spots BY <1>1, <1>2
<1>6. Following(at[1], at[2]) = FirstAfter(c, r) BY DEF Following
<1> HIDE DEF I, c, r, Behind
<1>7. \E y \in I : \/ y[1] = 0 /\ FirstAfter(c, r) = Over
                   \/ y[1] # 0 /\ y[2] # 0 /\ FirstAfter(c, r) = y
      BY <1>3, <1>5, FirstAfterRight
<1>8. PICK y \in I : \/ y[1] = 0 /\ FirstAfter(c, r) = Over
                     \/ y[1] # 0 /\ y[2] # 0 /\ FirstAfter(c, r) = y
      BY <1>7
<1>9. y \in Spots /\ Behind(y) BY <1>4
<1>10. CASE y[1] = 0 /\ FirstAfter(c, r) = Over
  <2>1. Rest(heads, rules, y) = {} BY <1>10 DEF Rest
  <2>2. Rest(heads, rules, Over) = {} BY OverIsNone DEF Rest
  <2> QED BY <1>2, <1>6, <1>9, <1>10, <2>1, <2>2 DEF Behind
<1>11. CASE y[1] # 0 /\ y[2] # 0 /\ FirstAfter(c, r) = y
  <2>1. y # Over BY <1>11, OverIsNone
  <2> QED BY <1>2, <1>6, <1>9, <1>11 DEF Behind
<1> QED BY <1>8, <1>10, <1>11

\* What a search from a spot finds: those that it passes are removed, or not
\* what it is for.
LEMMA SearchRest ==
    ASSUME StoreOK(heads, rules), NEW at \in Spots, Valid(heads, rules, at)
    PROVE  LET z == SearchFrom(at[1], at[2])
           IN  \/ z = Over /\ \A s \in Rest(heads, rules, at) : rules[s].deleted \/ ~ Suits(s)
               \/ /\ z \in Spots /\ z[1] # 0 /\ z[2] # 0 /\ Valid(heads, rules, z)
                  /\ Rest(heads, rules, z) \subseteq Rest(heads, rules, at)
                  /\ \A s \in Rest(heads, rules, at) \ Rest(heads, rules, z) :
                         rules[s].deleted \/ ~ Suits(s)
<1> DEFINE Passed(x) ==
             /\ Valid(heads, rules, x)
             /\ Rest(heads, rules, x) \subseteq Rest(heads, rules, at)
             /\ \A s \in Rest(heads, rules, at) \ Rest(heads, rules, x) :
                    rules[s].deleted \/ ~ Suits(s)
           I == {x \in Spots : Passed(x)}
           c == at[1]
           r == at[2]
<1>1. at = <<c, r>> BY StoreFields
<1>2. at \in I OBVIOUS
\* The rule a turn finds.
<1>3. ASSUME NEW x \in I
      PROVE  LET y == CurrentAt(x)
             IN  \/ y = Over /\ \A s \in Rest(heads, rules, at) : rules[s].deleted \/ ~ Suits(s)
                 \/ y \in Spots /\ y[1] # 0 /\ y[2] # 0 /\ Passed(y)
  <2> DEFINE y == CurrentAt(x)
  <2>1. x \in Spots /\ Passed(x) OBVIOUS
  <2>2. \/ y = Over /\ \A s \in Rest(heads, rules, x) : rules[s].deleted
        \/ /\ y \in Spots /\ y[1] # 0 /\ y[2] # 0 /\ Valid(heads, rules, y)
           /\ Rest(heads, rules, y) \subseteq Rest(heads, rules, x)
           /\ \A s \in Rest(heads, rules, x) \ Rest(heads, rules, y) : rules[s].deleted
        BY <2>1, CurrentRest
  <2> HIDE DEF y
  <2>3. \/ y = Over /\ \A s \in Rest(heads, rules, at) : rules[s].deleted \/ ~ Suits(s)
        \/ y \in Spots /\ y[1] # 0 /\ y[2] # 0 /\ Passed(y)
        BY <2>1, <2>2
  <2> QED BY <2>3 DEF y
\* And where it goes on if that is not the one.
<1>4. ASSUME NEW x \in I, ~ Found(CurrentAt(x))
      PROVE  /\ BehindIt(x) # Over => BehindIt(x) \in I
             /\ BehindIt(x) = Over => \A s \in Rest(heads, rules, at) : rules[s].deleted \/ ~ Suits(s)
  <2> DEFINE y == CurrentAt(x)
             z == BehindIt(x)
  <2>1. y # Over BY <1>4, OverIsNone DEF Found
  <2>2. y \in Spots /\ y[1] # 0 /\ y[2] # 0 /\ Passed(y) BY <1>3, <2>1
  <2>3. z = Following(y[1], y[2]) BY DEF BehindIt
  <2>4. ~ Suits(y[2]) BY <1>4 DEF Found
  <2> HIDE DEF y
  <2>5. /\ Rest(heads, rules, z) = Rest(heads, rules, y) \ {y[2]}
        /\ z # Over => z \in Spots /\ Valid(heads, rules, z)
        BY <2>2, <2>3, FollowingRest
  <2>6. Rest(heads, rules, Over) = {} BY OverIsNone DEF Rest
  <2> HIDE DEF z
  <2>7. z # Over => z \in I BY <2>2, <2>4, <2>5
  <2>8. z = Over => \A s \in Rest(heads, rules, at) : rules[s].deleted \/ ~ Suits(s)
        BY <2>2, <2>4, <2>5, <2>6
  <2> QED BY <2>7, <2>8 DEF z
<1>5. <<c, r>> \in I /\ I \in SUBSET Spots BY <1>1, <1>2
<1> HIDE DEF I, c, r
<1>6. \E x \in I : \/ Found(CurrentAt(x)) /\ SearchFrom(c, r) = CurrentAt(x)
                   \/ /\ ~ Found(CurrentAt(x)) /\ BehindIt(x) = Over
                      /\ SearchFrom(c, r) = Over
      BY <1>4, <1>5, SearchFromRight
<1>7. SearchFrom(at[1], at[2]) = SearchFrom(c, r) BY DEF c, r
<1>8. PICK x \in I : \/ Found(CurrentAt(x)) /\ SearchFrom(at[1], at[2]) = CurrentAt(x)
                     \/ /\ ~ Found(CurrentAt(x)) /\ BehindIt(x) = Over
                        /\ SearchFrom(at[1], at[2]) = Over
      BY <1>6, <1>7
<1>9. CASE Found(CurrentAt(x)) /\ SearchFrom(at[1], at[2]) = CurrentAt(x) BY <1>3, <1>9
<1>10. CASE ~ Found(CurrentAt(x)) /\ BehindIt(x) = Over /\ SearchFrom(at[1], at[2]) = Over
       BY <1>4, <1>10
<1> QED BY <1>8, <1>9, <1>10

-----------------------------------------------------------------------------
(* The counts.                                                              *)

HandlesOn(hd, r) == {h \in Handles : hd[h] = r}

\* n rules count their chain, the handles and the generator's rule; n
\* categories count no less than themselves and the generator.
Counted(n, rf, hd, k) ==
    /\ rf \in Seq(Int) /\ Len(rf) = n
    /\ \A r \in 1 .. n : rf[r] = 1 + Cardinality(HandlesOn(hd, r)) + One(k, r)

CatsCounted(n, cr, c) ==
    /\ cr \in Seq(Int) /\ Len(cr) = n
    /\ \A i \in 1 .. n : cr[i] >= 1 + One(c, i)

LEMMA HandlesFinite ==
    ASSUME NEW hd, NEW r
    PROVE  IsFiniteSet(HandlesOn(hd, r)) /\ Cardinality(HandlesOn(hd, r)) \in Nat
BY TdopAssumption, FS_Subset, FS_CardinalityType DEF HandlesOn

\* When a handle goes to v, the rule it was on loses one and v gets one.
GoesTo(hd, hd2, h, v, r) ==
    Cardinality(HandlesOn(hd2, r)) = Cardinality(HandlesOn(hd, r)) - One(hd[h], r) + One(v, r)

LEMMA HandleMoves ==
    ASSUME NEW hd, NEW hd2, NEW h \in Handles, NEW v, NEW r,
           hd2[h] = v, \A g \in Handles : g # h => hd2[g] = hd[g]
    PROVE  GoesTo(hd, hd2, h, v, r)
<1> DEFINE rest == HandlesOn(hd, r) \ {h}
<1>1. IsFiniteSet(rest) /\ Cardinality(rest) \in Nat /\ h \notin rest
      BY HandlesFinite, FS_Subset, FS_CardinalityType
<1>2. Cardinality(HandlesOn(hd, r)) = Cardinality(rest) + One(hd[h], r)
  <2>1. CASE hd[h] = r
    <3>1. HandlesOn(hd, r) = rest \cup {h} BY <2>1 DEF HandlesOn
    <3> HIDE DEF rest
    <3> QED BY <1>1, <2>1, <3>1, FS_AddElement DEF One
  <2>2. CASE hd[h] # r
    <3>1. HandlesOn(hd, r) = rest BY <2>2 DEF HandlesOn
    <3> HIDE DEF rest
    <3> QED BY <1>1, <2>2, <3>1 DEF One
  <2> QED BY <2>1, <2>2
<1>3. Cardinality(HandlesOn(hd2, r)) = Cardinality(rest) + One(v, r)
  <2>1. CASE v = r
    <3>1. HandlesOn(hd2, r) = rest \cup {h} BY <2>1 DEF HandlesOn
    <3> HIDE DEF rest
    <3> QED BY <1>1, <2>1, <3>1, FS_AddElement DEF One
  <2>2. CASE v # r
    <3>1. HandlesOn(hd2, r) = rest BY <2>2 DEF HandlesOn
    <3> HIDE DEF rest
    <3> QED BY <1>1, <2>2, <3>1 DEF One
  <2> QED BY <2>1, <2>2
<1> HIDE DEF rest
<1>4. One(hd[h], r) \in Int /\ One(v, r) \in Int BY DEF One
<1> QED BY <1>1, <1>2, <1>3, <1>4 DEF GoesTo

LEMMA MovedRight ==
    ASSUME NEW counts \in Seq(Int), NEW lost, NEW gained
    PROVE  /\ Moved(counts, lost, gained) \in Seq(Int)
           /\ Len(Moved(counts, lost, gained)) = Len(counts)
           /\ \A n \in 1 .. Len(counts) :
                  Moved(counts, lost, gained)[n] = counts[n] + One(gained, n) - One(lost, n)
<1> DEFINE F(n) == counts[n] + (IF n = gained THEN 1 ELSE 0) - (IF n = lost THEN 1 ELSE 0)
<1>1. DOMAIN counts = 1 .. Len(counts) /\ Len(counts) \in Nat OBVIOUS
<1>2. \A n \in 1 .. Len(counts) : F(n) \in Int /\ F(n) = counts[n] + One(gained, n) - One(lost, n)
      BY DEF One
<1>3. Moved(counts, lost, gained) = [n \in 1 .. Len(counts) |-> F(n)] BY <1>1 DEF Moved
<1> HIDE DEF F
<1> QED BY <1>1, <1>2, <1>3

LEMMA CountedHandle ==
    ASSUME NEW n \in Nat, NEW rf, NEW hd \in [Handles -> 0 .. n], NEW k, Counted(n, rf, hd, k),
           NEW h \in Handles, NEW v \in 0 .. n
    PROVE  Counted(n, Moved(rf, hd[h], v), [hd EXCEPT ![h] = v], k)
<1> DEFINE rf2 == Moved(rf, hd[h], v)
           hd2 == [hd EXCEPT ![h] = v]
<1>1. rf2 \in Seq(Int) /\ Len(rf2) = n
      /\ \A r \in 1 .. n : rf2[r] = rf[r] + One(v, r) - One(hd[h], r)
      BY MovedRight DEF Counted
<1>2. ASSUME NEW r \in 1 .. n PROVE GoesTo(hd, hd2, h, v, r)
  <2>1. hd2[h] = v /\ \A g \in Handles : g # h => hd2[g] = hd[g] OBVIOUS
  <2> HIDE DEF hd2
  <2> QED BY <2>1, HandleMoves
<1>3. \A r \in 1 .. n : /\ Cardinality(HandlesOn(hd, r)) \in Nat /\ One(k, r) \in Int
                        /\ One(hd[h], r) \in Int /\ One(v, r) \in Int
      BY HandlesFinite DEF One
<1>4. \A r \in 1 .. n : rf[r] = 1 + Cardinality(HandlesOn(hd, r)) + One(k, r) BY DEF Counted
<1> HIDE DEF rf2, hd2
<1>5. \A r \in 1 .. n : rf2[r] = 1 + Cardinality(HandlesOn(hd2, r)) + One(k, r)
      BY <1>1, <1>2, <1>3, <1>4 DEF GoesTo
<1>6. Counted(n, rf2, hd2, k) BY <1>1, <1>5 DEF Counted
<1> QED BY <1>6 DEF rf2, hd2

LEMMA CountedCursor ==
    ASSUME NEW n \in Nat, NEW rf, NEW hd, NEW k, Counted(n, rf, hd, k), NEW k2
    PROVE  Counted(n, Moved(rf, Pointee(k), Pointee(k2)), hd, k2)
<1> DEFINE rf2 == Moved(rf, Pointee(k), Pointee(k2))
<1>1. rf2 \in Seq(Int) /\ Len(rf2) = n
      /\ \A r \in 1 .. n : rf2[r] = rf[r] + One(Pointee(k2), r) - One(Pointee(k), r)
      BY MovedRight DEF Counted
<1>2. \A r \in 1 .. n : /\ One(Pointee(k2), r) = One(k2, r) /\ One(Pointee(k), r) = One(k, r)
                        /\ One(k, r) \in Int /\ One(k2, r) \in Int
      BY DEF One, Pointee, END
<1>3. \A r \in 1 .. n : Cardinality(HandlesOn(hd, r)) \in Nat BY HandlesFinite
<1>4. \A r \in 1 .. n : rf[r] = 1 + Cardinality(HandlesOn(hd, r)) + One(k, r) BY DEF Counted
<1> HIDE DEF rf2
<1>5. \A r \in 1 .. n : rf2[r] = 1 + Cardinality(HandlesOn(hd, r)) + One(k2, r)
      BY <1>1, <1>2, <1>3, <1>4
<1>6. Counted(n, rf2, hd, k2) BY <1>1, <1>5 DEF Counted
<1> QED BY <1>6 DEF rf2

LEMMA CountedRule ==
    ASSUME NEW n \in Nat, NEW rf, NEW hd \in [Handles -> 0 .. n], NEW k \in (0 .. n) \cup {END},
           Counted(n, rf, hd, k)
    PROVE  Counted(n + 1, Append(rf, 1), hd, k)
<1> DEFINE rf2 == Append(rf, 1)
<1>1. /\ rf2 \in Seq(Int) /\ Len(rf2) = n + 1 /\ rf2[n + 1] = 1
      /\ \A r \in 1 .. n : rf2[r] = rf[r]
      BY DEF Counted
<1>2. HandlesOn(hd, n + 1) = {} BY DEF HandlesOn
<1>3. Cardinality(HandlesOn(hd, n + 1)) = 0 BY <1>2, FS_EmptySet
<1>4. One(k, n + 1) = 0 BY DEF One, END
<1>5. \A r \in 1 .. n + 1 : r = n + 1 \/ r \in 1 .. n OBVIOUS
<1> HIDE DEF rf2
<1>6. \A r \in 1 .. n + 1 : rf2[r] = 1 + Cardinality(HandlesOn(hd, r)) + One(k, r)
      BY <1>1, <1>3, <1>4, <1>5 DEF Counted
<1>7. Counted(n + 1, rf2, hd, k) BY <1>1, <1>6 DEF Counted
<1> QED BY <1>7 DEF rf2

LEMMA CatsCountedMove ==
    ASSUME NEW n \in Nat, NEW cr, NEW c, NEW d, CatsCounted(n, cr, c)
    PROVE  /\ CatsCounted(n, Moved(cr, c, d), d) /\ CatsCounted(n, cr, 0)
           /\ c \in 0 .. n => CatsCounted(n + 1, Append(cr, 1), c)
<1>1. Moved(cr, c, d) \in Seq(Int) /\ Len(Moved(cr, c, d)) = n
      /\ \A i \in 1 .. n : Moved(cr, c, d)[i] = cr[i] + One(d, i) - One(c, i)
      BY MovedRight DEF CatsCounted
<1>2. \A i \in 1 .. n : /\ One(c, i) \in {0, 1} /\ One(d, i) \in {0, 1} /\ One(0, i) = 0
                        /\ cr[i] \in Int /\ cr[i] >= 1 + One(c, i)
      BY DEF One, CatsCounted
<1>3. CatsCounted(n, Moved(cr, c, d), d)
  <2> DEFINE cr2 == Moved(cr, c, d)
  <2>1. cr2 \in Seq(Int) /\ Len(cr2) = n
        /\ \A i \in 1 .. n : cr2[i] = cr[i] + One(d, i) - One(c, i)
        BY <1>1
  <2> HIDE DEF cr2
  <2>2. ASSUME NEW i \in 1 .. n PROVE cr2[i] >= 1 + One(d, i)
    <3>1. cr2[i] = cr[i] + One(d, i) - One(c, i) BY <2>1
    <3>2. cr[i] \in Int /\ One(d, i) \in Int /\ One(c, i) \in Int /\ cr[i] >= 1 + One(c, i)
          BY <1>2
    <3> QED BY <3>1, <3>2
  <2>3. CatsCounted(n, cr2, d) BY <2>1, <2>2 DEF CatsCounted
  <2> QED BY <2>3 DEF cr2
<1>4. CatsCounted(n, cr, 0) BY <1>2 DEF CatsCounted
<1>5. ASSUME c \in 0 .. n PROVE CatsCounted(n + 1, Append(cr, 1), c)
  <2> DEFINE cr2 == Append(cr, 1)
  <2>1. /\ cr2 \in Seq(Int) /\ Len(cr2) = n + 1 /\ cr2[n + 1] = 1
        /\ \A i \in 1 .. n : cr2[i] = cr[i]
        BY DEF CatsCounted
  <2>2. \A i \in 1 .. n + 1 : i = n + 1 \/ i \in 1 .. n OBVIOUS
  <2>3. One(c, n + 1) = 0 BY <1>5 DEF One
  <2> HIDE DEF cr2
  <2>4. CatsCounted(n + 1, cr2, c) BY <1>2, <2>1, <2>2, <2>3 DEF CatsCounted
  <2> QED BY <2>4 DEF cr2
<1> QED BY <1>3, <1>4, <1>5

-----------------------------------------------------------------------------
(* What holds of the grammar, its handles and its generators.               *)

At == <<cursor.cat, cursor.rule>>

CursorInv ==
    /\ cursor.cat \in 0 .. Len(heads) /\ cursor.rule \in RulesOrNull \cup {END}
    /\ cursor.rule = END => cursor.cat = 0
    /\ want.sort = "categories" => cursor.rule \in {0, END}
    /\ Valid(heads, rules, At)

\* What has been found is not before the search any more; what it owes is.
SearchInv ==
    /\ seen \in Seq(Nat) /\ IsFiniteSet(ToSet(seen)) /\ Cardinality(ToSet(seen)) = Len(seen)
    /\ ToSet(seen) \subseteq DOMAIN rules /\ ToSet(seen) \cap Rest(heads, rules, At) = {}
    /\ \A s \in owed : s \in Rest(heads, rules, At) /\ ~ rules[s].deleted /\ Suits(s)
    /\ want.sort = "categories" => seen = <<>> /\ owed = {}

TdopInv ==
    /\ StoreOK(heads, rules)
    /\ handle \in [Handles -> RulesOrNull] /\ want \in Wanted
    /\ Counted(Len(rules), refs, handle, cursor.rule)
    /\ CatsCounted(Len(heads), catRefs, cursor.cat)
    /\ CursorInv /\ SearchInv

LEMMA TdopInvRight ==
    ASSUME TdopInv
    PROVE  RulesRight /\ SearchRight
<1>1. ChainsRight BY ChainsAreRight DEF TdopInv
<1>2. RulesHeld
  <2>1. DOMAIN rules = 1 .. Len(rules) /\ DOMAIN heads = 1 .. Len(heads) BY StoreFields DEF TdopInv
  <2> QED BY <2>1 DEF TdopInv, Counted, CatsCounted, HandlesOn, One, RulesHeld
<1>3. SearchRight
  <2>1. cursor.rule = END => owed = {}
    <3> SUFFICES ASSUME cursor.rule = END PROVE owed = {} OBVIOUS
    <3>1. At[1] = 0 BY DEF TdopInv, CursorInv, At
    <3>2. Rest(heads, rules, At) = {} BY <3>1 DEF Rest
    <3> QED BY <3>2 DEF TdopInv, SearchInv
  <2> QED BY <2>1 DEF SearchRight, TdopInv, SearchInv
<1> QED BY <1>1, <1>2, <1>3 DEF RulesRight

LEMMA EmptyStore == StoreOK(<<>>, <<>>)
<1>1. <<>> \in Seq([Lists -> Nat]) /\ <<>> \in Seq(Rule) /\ DOMAIN <<>> = {} OBVIOUS
<1> QED BY <1>1 DEF StoreOK

LEMMA TdopInitRight ==
    ASSUME TdopInit
    PROVE  TdopInv
<1>1. heads = <<>> /\ rules = <<>> /\ refs = <<>> /\ catRefs = <<>> /\ seen = <<>> /\ owed = {}
      /\ cursor.cat = 0 /\ cursor.rule = 0 /\ want \in Wanted
      /\ handle = [h \in Handles |-> 0]
      BY DEF TdopInit
<1>2. StoreOK(heads, rules) BY <1>1, EmptyStore
<1>3. Len(heads) = 0 /\ Len(rules) = 0 BY <1>1
<1>4. handle \in [Handles -> RulesOrNull] BY <1>1, <1>3 DEF RulesOrNull
<1>5. Counted(0, refs, handle, cursor.rule) BY <1>1 DEF Counted
<1>6. CatsCounted(0, catRefs, cursor.cat) BY <1>1 DEF CatsCounted
<1>7. CursorInv BY <1>1, <1>3 DEF CursorInv, RulesOrNull, Valid, At
<1>8. SearchInv
  <2>1. ToSet(seen) = {} BY <1>1 DEF ToSet
  <2>2. seen \in Seq(Nat) /\ Len(seen) = 0 BY <1>1
  <2> QED BY <1>1, <2>1, <2>2, FS_EmptySet DEF SearchInv
<1> QED BY <1>1, <1>2, <1>3, <1>4, <1>5, <1>6, <1>7, <1>8 DEF TdopInv

\* A search stays where it is when the store grows.
LEMMA RestKept ==
    ASSUME NEW hs, NEW rs, StoreOK(hs, rs), NEW hs2, NEW rs2, Grown(hs, rs, hs2, rs2),
           NEW at, Valid(hs, rs, at)
    PROVE  /\ Valid(hs2, rs2, at)
           /\ \A s \in DOMAIN rs : s \in Rest(hs2, rs2, at) <=> s \in Rest(hs, rs, at)
<1>1. /\ \A r, s \in DOMAIN rs : Less(rs2, r, s) <=> Less(rs, r, s)
      /\ \A r \in DOMAIN rs : Held(hs2, rs2, r) <=> Held(hs, rs, r)
      BY GrownKeeps
<1>2. DOMAIN rs \subseteq DOMAIN rs2 /\ \A r \in DOMAIN rs : rs2[r].cat = rs[r].cat
      BY DEF Grown
<1>3. at[1] # 0 /\ at[2] # 0 => at[2] \in DOMAIN rs BY DEF Valid, Held
<1>4. Valid(hs2, rs2, at) BY <1>1, <1>2, <1>3 DEF Valid
<1>5. ASSUME NEW s \in DOMAIN rs PROVE s \in Rest(hs2, rs2, at) <=> s \in Rest(hs, rs, at)
      BY <1>1, <1>2, <1>3 DEF Rest
<1> QED BY <1>4, <1>5

LEMMA StoreStep ==
    ASSUME TdopInv, StoreOK(heads', rules'), Grown(heads, rules, heads', rules'),
           want' = want, cursor' = cursor, seen' = seen, owed' \subseteq owed,
           \A s \in owed' : ~ rules'[s].deleted
    PROVE  CursorInv' /\ SearchInv'
<1>1. At' = At BY DEF At
<1>2. Valid(heads, rules, At) /\ StoreOK(heads, rules) BY DEF TdopInv, CursorInv
<1>3. /\ Valid(heads', rules', At)
      /\ \A s \in DOMAIN rules : s \in Rest(heads', rules', At) <=> s \in Rest(heads, rules, At)
      BY <1>2, RestKept
<1>4. DOMAIN rules \subseteq DOMAIN rules' /\ Len(rules) <= Len(rules') /\ Len(heads) <= Len(heads')
  <2>1. DOMAIN rules \subseteq DOMAIN rules' /\ DOMAIN heads \subseteq DOMAIN heads' BY DEF Grown
  <2>2. DOMAIN rules = 1 .. Len(rules) /\ DOMAIN heads = 1 .. Len(heads)
        /\ Len(rules) \in Nat /\ Len(heads) \in Nat
        BY <1>2, StoreFields
  <2>3. DOMAIN rules' = 1 .. Len(rules') /\ DOMAIN heads' = 1 .. Len(heads')
        /\ Len(rules') \in Nat /\ Len(heads') \in Nat
        BY DEF StoreOK
  <2>4. Len(rules) = 0 \/ Len(rules) \in DOMAIN rules BY <2>2
  <2>5. Len(heads) = 0 \/ Len(heads) \in DOMAIN heads BY <2>2
  <2> QED BY <2>1, <2>2, <2>3, <2>4, <2>5
<1>5. Len(rules) \in Nat /\ Len(heads) \in Nat /\ Len(rules') \in Nat /\ Len(heads') \in Nat
      BY <1>2, StoreFields DEF StoreOK
<1>6. CursorInv'
  <2>1. cursor.cat \in 0 .. Len(heads') BY <1>4, <1>5 DEF TdopInv, CursorInv
  <2>2. cursor.rule \in (0 .. Len(rules')) \cup {END}
        BY <1>4, <1>5 DEF TdopInv, CursorInv, RulesOrNull
  <2> QED BY <1>1, <1>3, <2>1, <2>2 DEF TdopInv, CursorInv, RulesOrNull
<1>7. SearchInv'
  <2>1. ToSet(seen) \subseteq DOMAIN rules /\ ToSet(seen) \cap Rest(heads', rules', At) = {}
        BY <1>3 DEF TdopInv, SearchInv
  <2>2. ASSUME NEW s \in owed'
        PROVE  s \in Rest(heads', rules', At) /\ ~ rules'[s].deleted /\ Suits(s)'
    <3>1. s \in Rest(heads, rules, At) /\ Suits(s) BY DEF TdopInv, SearchInv
    <3>2. s \in DOMAIN rules BY <3>1 DEF Rest
    <3>3. rules'[s].cat = rules[s].cat /\ rules'[s].ub = rules[s].ub BY <3>2 DEF Grown
    <3> QED BY <1>3, <3>1, <3>2, <3>3 DEF Suits
  <2>3. ToSet(seen)' = ToSet(seen) OBVIOUS
  <2> QED BY <1>1, <1>4, <2>1, <2>2, <2>3 DEF TdopInv, SearchInv
<1> QED BY <1>6, <1>7

-----------------------------------------------------------------------------
(* Each operation keeps it.                                                 *)

LEMMA InvFields ==
    ASSUME TdopInv
    PROVE  /\ StoreOK(heads, rules) /\ CursorInv /\ SearchInv
           /\ Len(rules) \in Nat /\ Len(heads) \in Nat /\ RulesOrNull = 0 .. Len(rules)
           /\ DOMAIN rules = 1 .. Len(rules) /\ DOMAIN heads = 1 .. Len(heads)
           /\ handle \in [Handles -> 0 .. Len(rules)] /\ want \in Wanted
           /\ Counted(Len(rules), refs, handle, cursor.rule)
           /\ CatsCounted(Len(heads), catRefs, cursor.cat)
           /\ cursor.cat \in 0 .. Len(heads) /\ cursor.rule \in (0 .. Len(rules)) \cup {END}
           /\ \A s \in owed : ~ rules[s].deleted
<1>1. StoreOK(heads, rules) BY DEF TdopInv
<1>2. Len(rules) \in Nat /\ Len(heads) \in Nat /\ RulesOrNull = 0 .. Len(rules)
      /\ DOMAIN rules = 1 .. Len(rules) /\ DOMAIN heads = 1 .. Len(heads)
      BY <1>1, StoreFields DEF RulesOrNull
<1> QED BY <1>2 DEF TdopInv, CursorInv, SearchInv

LEMMA AddCategoryKeeps ==
    ASSUME TdopInv, AddCategory
    PROVE  TdopInv'
<1>1. /\ heads' = Append(heads, [list \in Lists |-> 0]) /\ catRefs' = Append(catRefs, 1)
      /\ rules' = rules /\ refs' = refs /\ handle' = handle /\ want' = want /\ cursor' = cursor
      /\ seen' = seen /\ owed' = owed
      BY DEF AddCategory
<1>2. heads \in Seq([Lists -> Nat]) /\ rules \in Seq(Rule) BY InvFields DEF StoreOK
<1>3. StoreOK(heads', rules') BY <1>1, CategoryOK, InvFields
<1>4. Len(heads') = Len(heads) + 1 /\ DOMAIN heads \subseteq DOMAIN heads'
      /\ \A c \in DOMAIN heads : heads'[c] = heads[c]
  <2> DEFINE new == [list \in Lists |-> 0]
  <2>1. new \in [Lists -> Nat] /\ heads' = Append(heads, new) BY <1>1
  <2> HIDE DEF new
  <2> QED BY <1>2, <2>1
<1>5. Grown(heads, rules, heads', rules') BY <1>1, <1>4 DEF Grown
<1>6. CursorInv' /\ SearchInv' BY <1>1, <1>3, <1>5, StoreStep, InvFields
<1>7. CatsCounted(Len(heads'), catRefs', cursor'.cat)
      BY <1>1, <1>4, CatsCountedMove, InvFields
<1>8. RulesOrNull' = RulesOrNull BY <1>1 DEF RulesOrNull
<1> QED BY <1>1, <1>3, <1>6, <1>7, <1>8 DEF TdopInv

\* A rule that is there gets its mark off, or on.
LEMMA MarkKeeps ==
    ASSUME TdopInv, NEW n \in DOMAIN rules, NEW b \in BOOLEAN,
           rules' = [rules EXCEPT ![n].deleted = b], heads' = heads
    PROVE  /\ StoreOK(heads', rules') /\ Grown(heads, rules, heads', rules')
           /\ Len(rules') = Len(rules) /\ RulesOrNull' = RulesOrNull
           /\ \A r \in DOMAIN rules : rules'[r].deleted = IF r = n THEN b ELSE rules[r].deleted
<1> DEFINE row == [rules[n] EXCEPT !.deleted = b]
<1>1. rules \in Seq(Rule) /\ rules[n] \in Rule BY InvFields DEF StoreOK
<1>2. row \in Rule /\ Skeleton(row) = Skeleton(rules[n]) /\ row.deleted = b
      BY <1>1 DEF Rule, Skeleton
<1>3. rules' = [rules EXCEPT ![n] = row] OBVIOUS
<1> HIDE DEF row
<1>4. rules' \in Seq(Rule) /\ DOMAIN rules' = DOMAIN rules /\ Len(rules') = Len(rules)
      /\ \A r \in DOMAIN rules : rules'[r] = IF r = n THEN row ELSE rules[r]
      BY <1>1, <1>2, <1>3
<1>5. \A r \in DOMAIN rules : Skeleton(rules'[r]) = Skeleton(rules[r])
      /\ rules'[r].deleted = IF r = n THEN b ELSE rules[r].deleted
      BY <1>2, <1>4
<1>6. StoreOK(heads', rules') BY <1>4, <1>5, MarkOK, InvFields
<1>7. Grown(heads, rules, heads', rules') BY <1>4, <1>5 DEF Grown, Skeleton
<1> QED BY <1>4, <1>5, <1>6, <1>7 DEF RulesOrNull

LEMMA RemoveRuleKeeps ==
    ASSUME TdopInv, NEW h \in Handles, RemoveRule(h)
    PROVE  TdopInv'
<1> DEFINE n == handle[h]
<1>1. /\ n # 0 /\ rules' = [rules EXCEPT ![n].deleted = TRUE] /\ owed' = owed \ {n}
      /\ heads' = heads /\ refs' = refs /\ catRefs' = catRefs /\ handle' = handle
      /\ want' = want /\ cursor' = cursor /\ seen' = seen
      BY DEF RemoveRule
<1>2. n \in DOMAIN rules BY <1>1, InvFields
<1> HIDE DEF n
<1>3. /\ StoreOK(heads', rules') /\ Grown(heads, rules, heads', rules')
      /\ Len(rules') = Len(rules) /\ RulesOrNull' = RulesOrNull
      /\ \A r \in DOMAIN rules : rules'[r].deleted = IF r = n THEN TRUE ELSE rules[r].deleted
      BY <1>1, <1>2, MarkKeeps
<1>4. owed \subseteq DOMAIN rules /\ \A s \in owed : ~ rules[s].deleted
      BY DEF TdopInv, SearchInv, Rest
<1>5. owed' \subseteq owed /\ \A s \in owed' : ~ rules'[s].deleted BY <1>1, <1>3, <1>4
<1>6. CursorInv' /\ SearchInv' BY <1>1, <1>3, <1>5, StoreStep
<1> QED BY <1>1, <1>3, <1>6 DEF TdopInv

LEMMA AssignRuleKeeps ==
    ASSUME TdopInv, NEW h \in Handles, NEW from \in {0} \cup {handle[g] : g \in Handles},
           AssignRule(h, from)
    PROVE  TdopInv'
<1>1. /\ handle' = [handle EXCEPT ![h] = from] /\ refs' = Moved(refs, handle[h], from)
      /\ rules' = rules /\ heads' = heads /\ catRefs' = catRefs
      /\ want' = want /\ cursor' = cursor /\ seen' = seen /\ owed' = owed
      BY DEF AssignRule
<1>2. from \in 0 .. Len(rules) BY InvFields
<1>3. Counted(Len(rules), refs', handle', cursor.rule) BY <1>1, <1>2, CountedHandle, InvFields
<1>4. handle' \in [Handles -> 0 .. Len(rules)] BY <1>1, <1>2, InvFields
<1>5. RulesOrNull' = RulesOrNull /\ RulesOrNull = 0 .. Len(rules) BY <1>1 DEF RulesOrNull
<1>6. CursorInv' = CursorInv /\ SearchInv' = SearchInv
      BY <1>1, <1>5 DEF CursorInv, SearchInv, At, Suits
<1> QED BY <1>1, <1>3, <1>4, <1>5, <1>6 DEF TdopInv

\* The rule was there: it is marked as not removed.
LEMMA SameRuleKeeps ==
    ASSUME TdopInv, NEW h \in Handles, NEW n \in DOMAIN rules,
           rules' = [rules EXCEPT ![n].deleted = FALSE], handle' = [handle EXCEPT ![h] = n],
           refs' = Moved(refs, handle[h], n), heads' = heads, catRefs' = catRefs,
           want' = want, cursor' = cursor, seen' = seen, owed' = owed
    PROVE  TdopInv'
<1>1. /\ StoreOK(heads', rules') /\ Grown(heads, rules, heads', rules')
      /\ Len(rules') = Len(rules) /\ RulesOrNull' = RulesOrNull
      /\ \A r \in DOMAIN rules : rules'[r].deleted = IF r = n THEN FALSE ELSE rules[r].deleted
      BY MarkKeeps
<1>2. owed \subseteq DOMAIN rules /\ \A s \in owed : ~ rules[s].deleted
      BY DEF TdopInv, SearchInv, Rest
<1>3. \A s \in owed' : ~ rules'[s].deleted BY <1>1, <1>2
<1>4. CursorInv' /\ SearchInv' BY <1>1, <1>3, StoreStep
<1>5. n \in 0 .. Len(rules) BY InvFields
<1>6. Counted(Len(rules'), refs', handle', cursor'.rule) BY <1>1, <1>5, CountedHandle, InvFields
<1>7. handle' \in [Handles -> RulesOrNull] BY <1>5, InvFields
<1> QED BY <1>1, <1>4, <1>6, <1>7 DEF TdopInv

\* It was not: it is put in its place.
PutIn(h, c, ub, str, at, n) ==
    LET list == List(ub)
        key  == [cat |-> c, ub |-> ub, str |-> str]
    IN  /\ at \in RulesOrNull \X RulesOrNull /\ (at[1] = 0 \/ at[1] # at[2])
        /\ Spot(rules, heads[c][list], Mine(rules, c, list), key, at[1], at[2])
        /\ at[2] # 0 => IsLessThan(key, rules[at[2]])
        /\ n = Len(rules) + 1
        /\ rules' = PutBetween(NewRule(c, ub, str, at), at[1], at[2], n)
        /\ heads' = IF heads[c][list] # 0 THEN heads ELSE [heads EXCEPT ![c][list] = n]
        /\ handle' = [handle EXCEPT ![h] = n]
        /\ refs' = Moved(Append(refs, 1), handle[h], n)
        /\ UNCHANGED <<catRefs, want, cursor, seen, owed>>

LEMMA NewRuleKeeps ==
    ASSUME TdopInv, NEW h \in Handles, NEW c \in DOMAIN heads,
           NEW ub \in Nat \cup {INITIAL}, NEW str \in Seq(Ops), NEW at, NEW n,
           PutIn(h, c, ub, str, at, n)
    PROVE  TdopInv'
<1> DEFINE rule == NewRule(c, ub, str, at)
           key  == [cat |-> c, ub |-> ub, str |-> str]
           list == List(ub)
           head == heads[c][list]
           mine == Mine(rules, c, list)
<1>0. /\ at \in RulesOrNull \X RulesOrNull /\ (at[1] = 0 \/ at[1] # at[2])
      /\ n = Len(rules) + 1 /\ handle' = [handle EXCEPT ![h] = n]
      /\ refs' = Moved(Append(refs, 1), handle[h], n)
      /\ catRefs' = catRefs /\ want' = want /\ cursor' = cursor /\ seen' = seen /\ owed' = owed
      BY DEF PutIn
<1>1. rules \in Seq(Rule) /\ heads \in Seq([Lists -> Nat]) /\ list \in Lists /\ c \in Nat
      BY InvFields DEF StoreOK, List, Lists
<1>2. at[1] \in RulesOrNull /\ at[2] \in RulesOrNull /\ at[1] \in Nat /\ at[2] \in Nat
      BY <1>0, InvFields
<1>3. /\ rule \in Rule /\ rule.cat = c /\ rule.ub = ub /\ rule.str = str /\ List(rule.ub) = list
      /\ rule.prev = at[1] /\ rule.next = at[2]
      BY <1>1, <1>2 DEF NewRule, Rule
<1>4. key.ub = ub /\ key.str = str OBVIOUS
<1>5. Len(rules) \in Nat /\ n \in Nat /\ n # 0 BY <1>0, InvFields
<1>6. rules' = PutBetween(rule, at[1], at[2], n) BY DEF PutIn
<1>7. Spot(rules, head, mine, key, at[1], at[2]) BY DEF PutIn
<1>8. at[2] # 0 => IsLessThan(key, rules[at[2]]) BY DEF PutIn
<1> HIDE DEF rule, key
<1>9. PutRight(rule, at[1], at[2], n, rules') BY <1>0, <1>1, <1>2, <1>3, <1>6, PutRules
<1>10. \A b : (IsLessThan(rule, b) <=> IsLessThan(key, b)) /\ (IsLessThan(b, rule) <=> IsLessThan(b, key))
       BY <1>3, <1>4, EqualKeys
<1>11. /\ Spot(rules, head, mine, rule, at[1], at[2])
       /\ at[2] # 0 => IsLessThan(rule, rules[at[2]])
  <2> HIDE DEF head, mine
  <2> QED BY <1>7, <1>8, <1>10 DEF Spot
<1>12. NewHeads(c, list, n, heads')
  <2> DEFINE hs2 == [heads EXCEPT ![c][list] = n]
  <2>1. /\ heads[c][list] # 0 => NewHeads(c, list, n, heads)
        /\ heads[c][list] = 0 => NewHeads(c, list, n, hs2)
    <3> HIDE DEF list
    <3> QED BY <1>1, <1>5, HeadsSet
  <2>2. heads' = IF heads[c][list] # 0 THEN heads ELSE hs2 BY DEF PutIn
  <2> HIDE DEF hs2, list
  <2> QED BY <2>1, <2>2
<1>13. StoreOK(heads', rules') /\ Grown(heads, rules, heads', rules')
  <2>1. StoreOK(heads, rules) BY InvFields
  <2>2. /\ at \in RulesOrNull \X RulesOrNull /\ (at[2] # 0 => IsLessThan(rule, rules[at[2]]))
        /\ Spot(rules, heads[c][list], Mine(rules, c, list), rule, at[1], at[2])
        BY <1>0, <1>11
  <2> HIDE DEF list
  <2> QED BY <1>1, <1>3, <1>9, <1>12, <2>1, <2>2, NewRuleOK
<1>14. Len(rules') = n /\ \A r \in DOMAIN rules : rules'[r].deleted = rules[r].deleted
       BY <1>9 DEF PutRight
<1>15. owed \subseteq DOMAIN rules /\ \A s \in owed : ~ rules[s].deleted
       BY DEF TdopInv, SearchInv, Rest
<1>16. CursorInv' /\ SearchInv' BY <1>0, <1>13, <1>14, <1>15, StoreStep
<1>17. RulesOrNull' = 0 .. n /\ n \in 0 .. n BY <1>5, <1>14 DEF RulesOrNull
<1>18. handle \in [Handles -> 0 .. n] BY <1>0, <1>5, InvFields
<1>19. Counted(n, Append(refs, 1), handle, cursor.rule)
       BY <1>0, <1>5, CountedRule, InvFields
<1>20. Counted(n, refs', handle', cursor.rule) BY <1>0, <1>5, <1>17, <1>18, <1>19, CountedHandle
<1>21. handle' \in [Handles -> RulesOrNull'] BY <1>0, <1>17, <1>18
<1>22. CatsCounted(Len(heads'), catRefs', cursor'.cat)
  <2>1. Len(heads') = Len(heads) BY <1>12 DEF NewHeads
  <2> QED BY <1>0, <2>1, InvFields
<1> QED BY <1>0, <1>13, <1>14, <1>16, <1>20, <1>21, <1>22 DEF TdopInv

LEMMA AddRuleKeeps ==
    ASSUME TdopInv, NEW h \in Handles, NEW c \in DOMAIN heads, NEW choice \in RuleChoices,
           AddRule(h, c, choice.ub, choice.str)
    PROVE  TdopInv'
<1> DEFINE ub   == choice.ub
           str  == choice.str
           list == List(ub)
           key  == [cat |-> c, ub |-> ub, str |-> str]
           at   == Stop(key, heads[c][list])
           same == at[2] # 0 /\ ~ IsLessThan(key, rules[at[2]])
           n    == IF same THEN at[2] ELSE Len(rules) + 1
<1>1. ub \in Nat \cup {INITIAL} /\ str \in Seq(Ops) /\ list \in Lists
      BY TdopAssumption DEF Ops, List, Lists
<1>2. /\ handle' = [handle EXCEPT ![h] = n]
      /\ rules' = IF same THEN [rules EXCEPT ![n].deleted = FALSE]
                  ELSE PutBetween(NewRule(c, ub, str, at), at[1], at[2], n)
      /\ refs' = Moved(IF same THEN refs ELSE Append(refs, 1), handle[h], n)
      /\ heads' = IF same \/ heads[c][list] # 0 THEN heads ELSE [heads EXCEPT ![c][list] = n]
      /\ catRefs' = catRefs /\ want' = want /\ cursor' = cursor /\ seen' = seen /\ owed' = owed
      BY DEF AddRule, NewRule
<1>3. /\ at \in RulesOrNull \X RulesOrNull /\ (at[1] = 0 \/ at[1] # at[2])
      /\ Spot(rules, heads[c][list], Mine(rules, c, list), key, at[1], at[2])
  <2>1. StoreOK(heads, rules) BY InvFields
  <2> HIDE DEF list, key
  <2> QED BY <1>1, <2>1, StopRight
<1> HIDE DEF at
<1>4. CASE same
  <2>1. n = at[2] /\ n \in DOMAIN rules BY <1>3, <1>4, InvFields
  <2>2. /\ rules' = [rules EXCEPT ![n].deleted = FALSE] /\ heads' = heads
        /\ refs' = Moved(refs, handle[h], n)
        BY <1>2, <1>4
  <2> HIDE DEF n, same
  <2> QED BY <1>2, <2>1, <2>2, SameRuleKeeps
<1>5. CASE ~ same
  <2>1. n = Len(rules) + 1 /\ (at[2] # 0 => IsLessThan(key, rules[at[2]])) BY <1>5
  <2>2. /\ rules' = PutBetween(NewRule(c, ub, str, at), at[1], at[2], n)
        /\ heads' = (IF heads[c][list] # 0 THEN heads ELSE [heads EXCEPT ![c][list] = n])
        /\ refs' = Moved(Append(refs, 1), handle[h], n)
        BY <1>2, <1>5
  <2>3. PutIn(h, c, ub, str, at, n)
    <3> HIDE DEF n, same, ub, str
    <3> QED BY <1>2, <1>3, <2>1, <2>2 DEF PutIn
  <2> HIDE DEF n, same, ub, str
  <2> QED BY <1>1, <2>3, NewRuleKeeps
<1> QED BY <1>4, <1>5

-----------------------------------------------------------------------------
(* A step of a search.                                                      *)

LEMMA ReachableHeld ==
    ASSUME StoreOK(heads, rules), NEW s \in Reachable
    PROVE  Held(heads, rules, s)
<1>1. PICK c \in DOMAIN heads, list \in Lists : s \in ToSet(Chain[heads[c][list]])
      BY DEF Reachable
<1> DEFINE head == heads[c][list]
           mine == Mine(rules, c, list)
<1>2. ChainOK(rules, head, mine) /\ rules \in Seq(Rule) BY DEF StoreOK
<1> HIDE DEF head, mine
<1>3. CASE head = 0
  <2>1. Chain[head] = <<>> BY <1>3, ChainUnfolds
  <2>2. ToSet(Chain[head]) = {} BY <2>1 DEF ToSet
  <2> QED BY <1>1, <2>2 DEF head
<1>4. CASE head # 0
  <2>1. head \in mine /\ head \in DOMAIN rules BY <1>2, <1>4 DEF ChainOK, mine, Mine
  <2>2. ~ Less(rules, head, head) BY <1>2, <2>1, LessOrder
  <2>3. ChainIs(head, mine) BY <2>1, <2>2, ChainRight DEF mine, head
  <2>4. s \in mine /\ ~ Less(rules, s, head) BY <1>1, <2>3 DEF ChainIs, head
  <2>5. s \in DOMAIN rules /\ rules[s].cat = c /\ List(rules[s].ub) = list BY <2>4 DEF mine, Mine
  <2> QED BY <2>4, <2>5 DEF Held, head
<1> QED BY <1>3, <1>4

\* SearchInv, of any spot, history and debt.
SearchOK(at, sn, ow) ==
    /\ sn \in Seq(Nat) /\ IsFiniteSet(ToSet(sn)) /\ Cardinality(ToSet(sn)) = Len(sn)
    /\ ToSet(sn) \subseteq DOMAIN rules /\ ToSet(sn) \cap Rest(heads, rules, at) = {}
    /\ \A s \in ow : s \in Rest(heads, rules, at) /\ ~ rules[s].deleted /\ Suits(s)

\* A walk begins.
LEMMA BeginRight ==
    ASSUME TdopInv, want.cat <= Len(heads)
    PROVE  LET at == <<Begin, FirstRule(Begin)>>
           IN  at \in Spots /\ Valid(heads, rules, at) /\ SearchOK(at, <<>>, ToBind)
<1> DEFINE at == <<Begin, FirstRule(Begin)>>
<1>1. StoreOK(heads, rules) /\ want.cat \in Nat /\ DOMAIN heads = 1 .. Len(heads) /\ Len(heads) \in Nat
      BY InvFields, TdopAssumption
<1>2. <<>> \in Seq(Nat) /\ ToSet(<<>>) = {} /\ Len(<<>>) = 0 BY DEF ToSet
<1>3. IsFiniteSet(ToSet(<<>>)) /\ Cardinality(ToSet(<<>>)) = 0 BY <1>2, FS_EmptySet
<1>4. CASE Begin = 0
  <2>1. Len(heads) = 0
    <3>1. want.cat = 0 /\ heads = <<>> BY <1>4 DEF Begin
    <3> QED BY <3>1
  <2>2. ToBind = {} BY <1>1, <2>1 DEF ToBind, Reachable
  <2>3. at = <<0, 0>> /\ at[1] = 0 BY <1>4 DEF FirstRule
  <2>4. at \in Spots /\ Valid(heads, rules, at) BY <1>1, <2>3, StoreFields DEF Valid
  <2> HIDE DEF at
  <2>5. Rest(heads, rules, at) = {} BY <2>3 DEF Rest
  <2>6. SearchOK(at, <<>>, ToBind) BY <1>2, <1>3, <2>2 DEF SearchOK
  <2> QED BY <2>4, <2>6 DEF at
<1>5. CASE Begin # 0
  <2>1. Begin \in DOMAIN heads
    <3>1. heads # <<>> => Len(heads) # 0 BY <1>1, InvFields DEF StoreOK
    <3> QED BY <1>1, <1>5, <3>1 DEF Begin
  <2>2. /\ Valid(heads, rules, at)
        /\ \A s \in DOMAIN rules : s \in Rest(heads, rules, at) <=> Held(heads, rules, s) /\ Begin <= rules[s].cat
        BY <1>1, <2>1, RestOfCategory
  <2>3. at \in Spots BY <1>1, <2>1, FirstRuleRight, StoreFields
  <2> HIDE DEF at
  <2>4. ASSUME NEW s \in ToBind
        PROVE  s \in Rest(heads, rules, at) /\ ~ rules[s].deleted /\ Suits(s)
    <3>1. s \in Reachable /\ ~ rules[s].deleted /\ Suits(s) BY DEF ToBind
    <3>2. Held(heads, rules, s) /\ s \in DOMAIN rules BY <1>1, <3>1, ReachableHeld DEF Held
    <3>3. rules[s].cat \in DOMAIN heads BY <1>1, <3>2 DEF StoreOK
    <3>4. Begin <= rules[s].cat BY <1>1, <3>1, <3>3, <2>1 DEF Suits, Begin
    <3> QED BY <2>2, <3>1, <3>2, <3>4
  <2>5. SearchOK(at, <<>>, ToBind) BY <1>2, <1>3, <2>4 DEF SearchOK
  <2> QED BY <2>2, <2>3, <2>5 DEF at
<1> QED BY <1>4, <1>5

\* What is bound, x, and where the generator goes, y.
Finds(at, x, y) ==
    /\ x = SearchFrom(at[1], at[2])
    /\ y = IF x[2] = END THEN x ELSE Following(x[1], x[2])

FoundRight(x, y, sn, ow) ==
    /\ y = <<y[1], y[2]>> /\ y[1] \in 0 .. Len(heads) /\ y[2] \in (0 .. Len(rules)) \cup {END}
    /\ y[2] = END => y[1] = 0
    /\ Valid(heads, rules, y)
    /\ x[2] # END => x[2] \in DOMAIN rules
    /\ SearchOK(y, sn \o (IF x[2] = END THEN <<>> ELSE <<x[2]>>), ow \ {x[2]})

\* One more is bound that was not.
LEMMA BoundOnce ==
    ASSUME NEW sn \in Seq(Nat), IsFiniteSet(ToSet(sn)), Cardinality(ToSet(sn)) = Len(sn),
           NEW r \in Nat, r \notin ToSet(sn)
    PROVE  LET s2 == sn \o <<r>>
           IN  /\ s2 \in Seq(Nat) /\ ToSet(s2) = ToSet(sn) \cup {r}
               /\ IsFiniteSet(ToSet(s2)) /\ Cardinality(ToSet(s2)) = Len(s2)
<1> DEFINE s2 == sn \o <<r>>
<1>1. s2 \in Seq(Nat) /\ Len(s2) = Len(sn) + 1 /\ s2[Len(sn) + 1] = r /\ Len(sn) \in Nat
      /\ \A i \in 1 .. Len(sn) : s2[i] = sn[i]
      OBVIOUS
<1> HIDE DEF s2
<1>2. DOMAIN s2 = 1 .. Len(sn) + 1 /\ DOMAIN sn = 1 .. Len(sn) BY <1>1
<1>3. \A i \in 1 .. Len(sn) + 1 : i \in 1 .. Len(sn) \/ i = Len(sn) + 1 BY <1>1
<1>4. Len(sn) + 1 \in 1 .. Len(sn) + 1 /\ \A i \in 1 .. Len(sn) : i \in 1 .. Len(sn) + 1 BY <1>1
<1>5. ToSet(s2) = ToSet(sn) \cup {r}
  <2>1. ToSet(s2) \subseteq ToSet(sn) \cup {r} BY <1>1, <1>2, <1>3 DEF ToSet
  <2>2. ToSet(sn) \cup {r} \subseteq ToSet(s2) BY <1>1, <1>2, <1>4 DEF ToSet
  <2> QED BY <2>1, <2>2
<1>6. IsFiniteSet(ToSet(sn) \cup {r}) /\ Cardinality(ToSet(sn) \cup {r}) = Cardinality(ToSet(sn)) + 1
      BY FS_AddElement
<1>7. /\ s2 \in Seq(Nat) /\ ToSet(s2) = ToSet(sn) \cup {r}
      /\ IsFiniteSet(ToSet(s2)) /\ Cardinality(ToSet(s2)) = Len(s2)
      BY <1>1, <1>5, <1>6
<1> QED BY <1>7 DEF s2

LEMMA SearchStep ==
    ASSUME StoreOK(heads, rules), NEW at \in Spots, Valid(heads, rules, at),
           NEW sn, NEW ow, SearchOK(at, sn, ow), NEW x, NEW y, Finds(at, x, y)
    PROVE  FoundRight(x, y, sn, ow)
<1>1. \/ x = Over /\ \A s \in Rest(heads, rules, at) : rules[s].deleted \/ ~ Suits(s)
      \/ /\ x \in Spots /\ x[1] # 0 /\ x[2] # 0 /\ Valid(heads, rules, x)
         /\ Rest(heads, rules, x) \subseteq Rest(heads, rules, at)
         /\ \A s \in Rest(heads, rules, at) \ Rest(heads, rules, x) : rules[s].deleted \/ ~ Suits(s)
      BY SearchRest DEF Finds
<1>2. Rest(heads, rules, Over) = {} BY OverIsNone DEF Rest
<1>3. /\ Over = <<Over[1], Over[2]>> /\ Over[1] = 0 /\ Over[2] = END /\ Valid(heads, rules, Over)
      /\ 0 \in 0 .. Len(heads)
      BY OverIsNone, StoreFields DEF Over, Valid
<1>4. CASE x = Over /\ \A s \in Rest(heads, rules, at) : rules[s].deleted \/ ~ Suits(s)
  <2>1. y = Over /\ x[2] = END BY <1>3, <1>4 DEF Finds
  <2>2. ow = {} BY <1>4 DEF SearchOK
  <2>3. sn \o <<>> = sn BY DEF SearchOK
  <2>4. SearchOK(y, sn \o <<>>, ow \ {x[2]}) BY <1>2, <2>1, <2>2, <2>3 DEF SearchOK
  <2> QED BY <1>3, <2>1, <2>4 DEF FoundRight
<1>5. CASE /\ x \in Spots /\ x[1] # 0 /\ x[2] # 0 /\ Valid(heads, rules, x)
           /\ Rest(heads, rules, x) \subseteq Rest(heads, rules, at)
           /\ \A s \in Rest(heads, rules, at) \ Rest(heads, rules, x) : rules[s].deleted \/ ~ Suits(s)
  <2>1. x[2] \in DOMAIN rules /\ x[2] # END /\ x[2] \in Nat
        BY <1>5, StoreFields, OverIsNone
  <2>2. y = Following(x[1], x[2]) BY <2>1 DEF Finds
  <2>3. /\ x[2] \in Rest(heads, rules, x)
        /\ Rest(heads, rules, y) = Rest(heads, rules, x) \ {x[2]}
        /\ y # Over => y \in Spots /\ y[1] # 0 /\ y[2] # 0 /\ Valid(heads, rules, y)
        BY <1>5, <2>2, FollowingRest
  <2> DEFINE s2 == sn \o <<x[2]>>
  <2>4. x[2] \notin ToSet(sn) BY <1>5, <2>3 DEF SearchOK
  <2>5. /\ s2 \in Seq(Nat) /\ ToSet(s2) = ToSet(sn) \cup {x[2]}
        /\ IsFiniteSet(ToSet(s2)) /\ Cardinality(ToSet(s2)) = Len(s2)
        BY <2>1, <2>4, BoundOnce DEF SearchOK
  <2> HIDE DEF s2
  <2>6. ToSet(s2) \subseteq DOMAIN rules /\ ToSet(s2) \cap Rest(heads, rules, y) = {}
        BY <1>5, <2>1, <2>3, <2>5 DEF SearchOK
  <2>7. \A s \in ow \ {x[2]} : s \in Rest(heads, rules, y) /\ ~ rules[s].deleted /\ Suits(s)
        BY <1>5, <2>3 DEF SearchOK
  <2>8. SearchOK(y, s2, ow \ {x[2]}) BY <2>5, <2>6, <2>7 DEF SearchOK
  <2>9. /\ y = <<y[1], y[2]>> /\ y[1] \in 0 .. Len(heads) /\ y[2] \in (0 .. Len(rules)) \cup {END}
        /\ (y[2] = END => y[1] = 0) /\ Valid(heads, rules, y)
    <3>1. CASE y = Over BY <1>3, <3>1
    <3>2. CASE y # Over
      <4>1. y \in Spots /\ Valid(heads, rules, y) BY <2>3, <3>2
      <4>2. y = <<y[1], y[2]>> /\ y[1] \in 0 .. Len(heads) /\ y[2] \in 0 .. Len(rules)
            BY <4>1 DEF Spots, RulesOrNull
      <4>3. y[2] # END BY <4>2, OverIsNone
      <4> QED BY <4>1, <4>2, <4>3
    <3> QED BY <3>1, <3>2
  <2> QED BY <2>1, <2>8, <2>9 DEF FoundRight, s2
<1> QED BY <1>1, <1>4, <1>5

LEMMA MatchNextKeeps ==
    ASSUME TdopInv, MatchNext
    PROVE  TdopInv'
<1> DEFINE starts == cursor.rule # END /\ cursor.cat = 0
           c0 == IF starts THEN Begin ELSE cursor.cat
           r0 == IF starts THEN FirstRule(Begin) ELSE cursor.rule
           x  == IF cursor.rule = END THEN <<0, END>> ELSE SearchFrom(c0, r0)
           y  == IF x[2] = END THEN x ELSE Following(x[1], x[2])
           sn == IF starts THEN <<>> ELSE seen
           ow == IF starts THEN ToBind ELSE owed
           bound == IF x[2] = END THEN handle[Binder] ELSE x[2]
<1>1. /\ want.sort # "categories" /\ want.cat <= Len(heads)
      /\ cursor' = [cat |-> y[1], rule |-> y[2]]
      /\ handle' = [handle EXCEPT ![Binder] = bound]
      /\ refs' = Moved(Moved(refs, Pointee(cursor.rule), Pointee(y[2])), handle[Binder], bound)
      /\ catRefs' = Moved(catRefs, cursor.cat, y[1])
      /\ seen' = sn \o (IF x[2] = END THEN <<>> ELSE <<x[2]>>) /\ owed' = ow \ {x[2]}
      /\ heads' = heads /\ rules' = rules /\ want' = want
      BY DEF MatchNext
<1>2. StoreOK(heads, rules) BY InvFields
<1>3. FoundRight(x, y, sn, ow)
  <2>1. CASE cursor.rule = END
    <3>1. cursor.cat = 0 /\ ~ starts /\ sn = seen /\ ow = owed /\ x = Over /\ y = Over /\ x[2] = END
          BY <2>1 DEF TdopInv, CursorInv, Over
    <3>2. At = Over BY <2>1, <3>1 DEF At, Over
    <3>3. SearchOK(Over, seen, owed) BY <3>2 DEF TdopInv, SearchInv, SearchOK
    <3>4. Rest(heads, rules, Over) = {} BY OverIsNone DEF Rest
    <3>5. owed = {} BY <3>3, <3>4 DEF SearchOK
    <3>6. seen \o <<>> = seen BY <3>3 DEF SearchOK
    <3>7. SearchOK(Over, seen \o <<>>, owed \ {END}) BY <3>3, <3>5, <3>6
    <3>8. 0 \in 0 .. Len(heads) BY InvFields
    <3> HIDE DEF x, y, sn, ow, starts
    <3> QED BY <3>1, <3>7, <3>8, OverIsNone DEF FoundRight, Over, Valid
  <2>2. CASE cursor.rule # END
    <3> DEFINE at == <<c0, r0>>
    <3>1. at \in Spots /\ Valid(heads, rules, at) /\ SearchOK(at, sn, ow)
      <4>1. CASE starts
        <5>1. at = <<Begin, FirstRule(Begin)>> /\ sn = <<>> /\ ow = ToBind BY <4>1
        <5> HIDE DEF at, sn, ow
        <5> QED BY <1>1, <5>1, BeginRight
      <4>2. CASE ~ starts
        <5>1. at = At /\ sn = seen /\ ow = owed BY <4>2 DEF At
        <5>2. At \in Spots
          <6>1. cursor.cat \in 0 .. Len(heads) /\ cursor.rule \in RulesOrNull
                BY <2>2 DEF TdopInv, CursorInv
          <6> QED BY <6>1 DEF At, Spots
        <5>3. Valid(heads, rules, At) /\ SearchOK(At, seen, owed)
              BY DEF TdopInv, CursorInv, SearchInv, SearchOK
        <5> HIDE DEF at, sn, ow
        <5> QED BY <5>1, <5>2, <5>3
      <4> QED BY <4>1, <4>2
    <3>2. Finds(at, x, y) BY <2>2 DEF Finds
    <3> HIDE DEF at, x, y, sn, ow
    <3> QED BY <1>2, <3>1, <3>2, SearchStep
  <2> QED BY <2>1, <2>2
<1> HIDE DEF x, y, sn, ow, starts, c0, r0
<1>4. /\ y = <<y[1], y[2]>> /\ y[1] \in 0 .. Len(heads) /\ y[2] \in (0 .. Len(rules)) \cup {END}
      /\ (y[2] = END => y[1] = 0) /\ Valid(heads, rules, y)
      /\ (x[2] # END => x[2] \in DOMAIN rules)
      /\ SearchOK(y, seen', owed')
      BY <1>1, <1>3 DEF FoundRight
<1>5. cursor'.cat = y[1] /\ cursor'.rule = y[2] /\ At' = y BY <1>1, <1>4 DEF At
<1>6. RulesOrNull' = RulesOrNull /\ RulesOrNull = 0 .. Len(rules) BY <1>1 DEF RulesOrNull
<1>7. CursorInv' BY <1>1, <1>4, <1>5, <1>6 DEF CursorInv
<1>8. SearchInv' BY <1>1, <1>4, <1>5 DEF SearchInv, SearchOK, Suits
<1>9. bound \in 0 .. Len(rules) /\ Binder \in Handles
      BY <1>4, InvFields, TdopAssumption
<1> HIDE DEF bound
<1>10. Counted(Len(rules), Moved(refs, Pointee(cursor.rule), Pointee(y[2])), handle, y[2])
       BY CountedCursor, InvFields
<1>11. Counted(Len(rules), refs', handle', y[2]) BY <1>1, <1>9, <1>10, CountedHandle, InvFields
<1>12. handle' \in [Handles -> 0 .. Len(rules)] BY <1>1, <1>9, InvFields
<1>13. CatsCounted(Len(heads), catRefs', y[1]) BY <1>1, CatsCountedMove, InvFields
<1> QED BY <1>1, <1>2, <1>5, <1>6, <1>7, <1>8, <1>11, <1>12, <1>13, InvFields DEF TdopInv

\* The generator is let go of, or goes from category to category.
LEMMA NothingFound ==
    ASSUME TdopInv, heads' = heads, rules' = rules, handle' = handle, want' = want,
           cursor'.cat \in 0 .. Len(heads), cursor'.rule \in {0, END},
           cursor'.rule = END => cursor'.cat = 0, seen' = <<>>, owed' = {},
           Counted(Len(rules), refs', handle, cursor'.rule),
           CatsCounted(Len(heads), catRefs', cursor'.cat)
    PROVE  TdopInv'
<1>1. RulesOrNull' = RulesOrNull /\ RulesOrNull = 0 .. Len(rules) /\ 0 \in RulesOrNull
      BY InvFields DEF RulesOrNull
<1>2. Valid(heads, rules, At')
  <2>1. At'[1] = 0 \/ At'[2] = 0 BY DEF At
  <2> QED BY <2>1 DEF Valid
<1>3. CursorInv' BY <1>1, <1>2 DEF CursorInv
<1>4. SearchInv'
  <2>1. <<>> \in Seq(Nat) /\ ToSet(<<>>) = {} /\ Len(<<>>) = 0 BY DEF ToSet
  <2>2. IsFiniteSet(ToSet(<<>>)) /\ Cardinality(ToSet(<<>>)) = 0 BY <2>1, FS_EmptySet
  <2>3. ToSet(seen') = ToSet(<<>>) OBVIOUS
  <2> QED BY <2>1, <2>2, <2>3 DEF SearchInv
<1> QED BY <1>1, <1>3, <1>4, InvFields DEF TdopInv

LEMMA FreeGeneratorKeeps ==
    ASSUME TdopInv, FreeGenerator
    PROVE  TdopInv'
<1>1. /\ cursor'.cat = 0 /\ cursor'.rule = 0 /\ seen' = <<>> /\ owed' = {}
      /\ refs' = Moved(refs, Pointee(cursor.rule), Pointee(0)) /\ catRefs' = Moved(catRefs, cursor.cat, 0)
      /\ heads' = heads /\ rules' = rules /\ handle' = handle /\ want' = want
      BY DEF FreeGenerator, Pointee, END
<1>2. Counted(Len(rules), refs', handle, 0) BY <1>1, CountedCursor, InvFields
<1>3. CatsCounted(Len(heads), catRefs', 0) BY <1>1, CatsCountedMove, InvFields
<1>4. 0 \in 0 .. Len(heads) /\ 0 # END BY InvFields, OverIsNone
<1> QED BY <1>1, <1>2, <1>3, <1>4, NothingFound

\* On categories the generator is on no rule.
LEMMA OnNoRule ==
    ASSUME TdopInv, want.sort = "categories", NEW k \in {0, END}
    PROVE  Counted(Len(rules), refs, handle, k) /\ seen = <<>> /\ owed = {}
<1>1. cursor.rule \in {0, END} /\ seen = <<>> /\ owed = {} BY DEF TdopInv, CursorInv, SearchInv
<1>2. \A r \in 1 .. Len(rules) : One(cursor.rule, r) = One(k, r) BY <1>1 DEF One, END
<1>3. Counted(Len(rules), refs, handle, cursor.rule) BY InvFields
<1>4. Counted(Len(rules), refs, handle, k) BY <1>2, <1>3 DEF Counted
<1> QED BY <1>1, <1>4

LEMMA RewindCategoriesKeeps ==
    ASSUME TdopInv, RewindCategories
    PROVE  TdopInv'
<1>1. /\ want.sort = "categories" /\ cursor'.cat = 0 /\ cursor'.rule = 0
      /\ refs' = refs /\ catRefs' = catRefs /\ seen' = seen /\ owed' = owed
      /\ heads' = heads /\ rules' = rules /\ handle' = handle /\ want' = want
      BY DEF RewindCategories
<1>2. Counted(Len(rules), refs', handle, 0) /\ seen' = <<>> /\ owed' = {} BY <1>1, OnNoRule
<1>3. CatsCounted(Len(heads), catRefs', 0) BY <1>1, CatsCountedMove, InvFields
<1>4. 0 \in 0 .. Len(heads) /\ 0 # END BY InvFields, OverIsNone
<1> QED BY <1>1, <1>2, <1>3, <1>4, NothingFound

LEMMA MatchCategoryKeeps ==
    ASSUME TdopInv, MatchCategory
    PROVE  TdopInv'
<1> DEFINE c == IF cursor.cat # 0 THEN NextCategory(cursor.cat)
                ELSE IF cursor.rule # END /\ heads # <<>> THEN 1 ELSE 0
           k == IF c = 0 THEN END ELSE 0
<1>1. /\ want.sort = "categories" /\ cursor'.cat = c /\ cursor'.rule = k
      /\ refs' = refs /\ catRefs' = Moved(catRefs, cursor.cat, c) /\ seen' = seen /\ owed' = owed
      /\ heads' = heads /\ rules' = rules /\ handle' = handle /\ want' = want
      BY DEF MatchCategory
<1>2. c \in 0 .. Len(heads)
  <2>1. cursor.cat \in 0 .. Len(heads) /\ Len(heads) \in Nat BY InvFields
  <2>2. heads # <<>> => Len(heads) # 0 BY InvFields DEF StoreOK
  <2> QED BY <2>1, <2>2 DEF NextCategory
<1>3. k \in {0, END} /\ (k = END => c = 0) BY OverIsNone
<1> HIDE DEF c, k
<1>4. Counted(Len(rules), refs', handle, k) /\ seen' = <<>> /\ owed' = {} BY <1>1, <1>3, OnNoRule
<1>5. CatsCounted(Len(heads), catRefs', c) BY <1>1, CatsCountedMove, InvFields
<1> QED BY <1>1, <1>2, <1>3, <1>4, <1>5, NothingFound

LEMMA TdopStep ==
    ASSUME TdopInv, [TdopNext]_tdopVars
    PROVE  TdopInv'
<1>1. CASE AddCategory BY <1>1, AddCategoryKeeps
<1>2. CASE \E h \in Handles, c \in DOMAIN heads, choice \in RuleChoices :
               AddRule(h, c, choice.ub, choice.str)
      BY <1>2, AddRuleKeeps
<1>3. CASE \E h \in Handles : RemoveRule(h) BY <1>3, RemoveRuleKeeps
<1>4. CASE \E h \in Handles, from \in {0} \cup {handle[g] : g \in Handles} : AssignRule(h, from)
      BY <1>4, AssignRuleKeeps
<1>5. CASE MatchNext BY <1>5, MatchNextKeeps
<1>6. CASE FreeGenerator BY <1>6, FreeGeneratorKeeps
<1>7. CASE RewindCategories BY <1>7, RewindCategoriesKeeps
<1>8. CASE MatchCategory BY <1>8, MatchCategoryKeeps
<1>9. CASE UNCHANGED tdopVars
  <2>1. RulesOrNull' = RulesOrNull BY <1>9 DEF tdopVars, RulesOrNull
  <2>2. CursorInv' = CursorInv /\ SearchInv' = SearchInv
        BY <1>9, <2>1 DEF tdopVars, CursorInv, SearchInv, At, Suits
  <2> QED BY <1>9, <2>1, <2>2 DEF tdopVars, TdopInv
<1> QED BY <1>1, <1>2, <1>3, <1>4, <1>5, <1>6, <1>7, <1>8, <1>9 DEF TdopNext

\* TDOP::add_rule, OpaqueRule, RuleGenerator: whatever rules are added, removed
\* and added again, the chains are sorted and linked both ways behind their heads,
\* have all rules that are not less than the head, and rules count who is on them.
THEOREM RulesAreRight == TdopSpec => []RulesRight
<1>1. TdopInit => TdopInv BY TdopInitRight
<1>2. TdopInv /\ [TdopNext]_tdopVars => TdopInv' BY TdopStep
<1>3. TdopInv => RulesRight BY TdopInvRight
<1> QED BY <1>1, <1>2, <1>3, PTL DEF TdopSpec

\* RuleGenerator::match_next, PatternGenerator: a search that is at its end has
\* bound all that it was to bind, and nothing twice, whatever was done meanwhile.
THEOREM SearchIsRight == TdopSpec => []SearchRight
<1>1. TdopInit => TdopInv BY TdopInitRight
<1>2. TdopInv /\ [TdopNext]_tdopVars => TdopInv' BY TdopStep
<1>3. TdopInv => SearchRight BY TdopInvRight
<1> QED BY <1>1, <1>2, <1>3, PTL DEF TdopSpec
=============================================================================
