----------------------------- MODULE Automaton -----------------------------
(* An automaton as the algorithms of grail/include use one: the chains of   *)
(* PDAStore without the reference counts.  A search that nothing disturbs   *)
(* is the sequence of what it finds.  A removed transition stays in its     *)
(* chain until the client that removed it binds another ("held").           *)
EXTENDS Naturals, SequencesExt, FiniteSetsExt

CONSTANT None  \* no transition

Trans(q, r, p, u, z) == [source |-> q, read |-> r, pop |-> p, push |-> u, sink |-> z]
Key(t) == <<t.source, t.read, t.pop, t.push, t.sink>>
Less(t, u) == \E i \in 1 .. 5 : /\ Key(t)[i] < Key(u)[i]
                                /\ \A j \in 1 .. i - 1 : Key(t)[j] = Key(u)[j]

\* State q is entry q + 1 of the list.
NewAutomaton == [list |-> <<<<>>>>, first |-> None, num |-> 0, start |-> 0, accept |-> {}, held |-> None]
NumStates(a) == Len(a.list)
States(a) == 0 .. NumStates(a) - 1
Chain(a, q) == a.list[q + 1]
Chains(a) == FlattenSeq(a.list)
Live(a) == ToSet(Chains(a)) \ {a.held}

From(l, t) == SubSeq(l, SelectInSeq(l, LAMBDA u : u = t), Len(l))
HeadOr(l) == IF l = <<>> THEN None ELSE Head(l)

-----------------------------------------------------------------------------
(* Editing *)

AddState(a) == [a EXCEPT !.list = Append(@, <<>>)]
AddStates(a, n) == [a EXCEPT !.list = @ \o [i \in 1 .. n |-> <<>>]]

\* make_transition walks on while any component is greater.
Skips(t, u) == t.read > u.read \/ t.pop > u.pop \/ t.push > u.push \/ t.sink > u.sink
Place(l, t) == LET i == SelectInSeq(l, LAMBDA u : ~ Skips(t, u))
               IN  IF i = 0 THEN Len(l) + 1 ELSE i
Make(a, t) ==
    LET l == Chain(a, t.source)
        i == Place(l, t)
        b == [a EXCEPT !.first = IF @ = None \/ Less(t, @) THEN t ELSE @]
    IN  IF i <= Len(l) /\ l[i] = t THEN b
        ELSE [b EXCEPT !.list[t.source + 1] = InsertAt(l, i, t)]
Add(a, t) == [Make(a, t) EXCEPT !.num = @ + 1]
AddAll(a, ts) == FoldLeft(Add, a, ts)
AddStart(a, q) == IF q = a.start THEN a ELSE Make(a, Trans(a.start, 0, 0, 0, q))

\* The last symbol of the buffer is pushed first; states between are new.
AddPushing(a, q, r, p, buffer, z) ==
    IF Len(buffer) <= 1
    THEN Add(a, Trans(q, r, p, IF buffer = <<>> THEN 0 ELSE buffer[1], z))
    ELSE LET n == Len(buffer)
             m == NumStates(a)
             via(i) == IF i = 0 THEN q ELSE IF i = n THEN z ELSE m + i - 1
         IN  AddAll(AddStates(a, n - 1),
                    [i \in 1 .. n |-> Trans(via(i - 1), IF i = 1 THEN r ELSE 0,
                                            IF i = 1 THEN p ELSE 0, buffer[n + 1 - i], via(i))])

\* The client lets go of the transition it removed.
Drop(a) == IF a.held = None THEN a
           ELSE [a EXCEPT !.list[a.held.source + 1] = SelectSeq(@, LAMBDA u : u # a.held),
                          !.held = None]
\* find_next_transition: what comes after t in its chain and the chains after.
NextIn(a, t) == HeadOr(SelectSeq(Tail(From(Chains(a), t)), LAMBDA u : u # a.held))
RemoveTrans(a, t) ==
    LET b == Drop(a)
    IN  [b EXCEPT !.held = t, !.num = @ - 1,
                  !.first = IF @ = t THEN NextIn(b, t) ELSE @]

-----------------------------------------------------------------------------
(* Searches that nothing disturbs *)

\* search(~t), and patterns whose source is not bound, start at first_transition.
Walk(a) == IF a.first = None THEN <<>> ELSE From(Chains(a), a.first)

\* A pattern with a bound read symbol leaves a state at a greater one, except
\* at the transition it starts with.
UpTo(walk, read) ==
    LET passed(i) == \E j \in 2 .. i : walk[j].source = walk[i].source /\ walk[j].read > read
        visited == SelectSeq([i \in DOMAIN walk |-> i], LAMBDA i : ~ passed(i))
    IN  [k \in DOMAIN visited |-> walk[visited[k]]]
Reading(walk, read) == SelectSeq(UpTo(walk, read), LAMBDA t : t.read = read)

\* What a search that yielded this did not yield.
Missed(a, found) == Live(a) \ ToSet(found)
=============================================================================
