------------------------------ MODULE PDAStore ------------------------------
(* The transitions of a pushdown automaton (fltl/include/PDA.hpp,           *)
(* pda/Transition.hpp, pda/OpaqueTransition.hpp) and the generators over    *)
(* them (pda/Generator.hpp).  Each state has a chain of transitions, kept   *)
(* by insertion; a transition is counted by its handles, by the generators  *)
(* parked on it and, while it is not removed, by the automaton.  An object  *)
(* is named by its content: make_transition never keeps two with the same   *)
(* (NoTwins), and a behaviour ends where one is freed under a holder.       *)
EXTENDS Naturals, SequencesExt, FiniteSets

CONSTANTS
    StateIds,  \* the ids of states, 0 .. n
    Trans,     \* the transitions clients add: [source, read, pop, push, sink]
    Starts,    \* the states clients give to add_start_state
    Pushed,    \* the buffers of two symbols clients add transitions for
    Handles,   \* the OpaqueTransition variables of the clients
    Gens,      \* the generators of the clients
    Pattern,   \* Pattern[g]: a record like a transition, Wild where unbound
    Plain,     \* the generators of search(~t), the others have a pattern
    Binder,    \* Binder[g]: the handle g binds its results to, or None
    ReAdd,     \* may a removed transition that is still held be added again?
    MaxCount,  \* bound: num_transitions_ goes no higher than MaxCount,
    MaxBusy,   \* bound: so many generators are in use at a time
    Width,     \* stands for 2^32, where the unsigned num_transitions_ wraps
    Wild, None, End  \* the wildcard, no object, and the end of a search

ASSUME PDAAssumption ==
    /\ StateIds \subseteq Nat /\ 0 \in StateIds
    /\ Trans \subseteq [source : StateIds, read : Nat, pop : Nat, push : Nat, sink : StateIds]
    /\ \A q \in Starts : [source |-> 0, read |-> 0, pop |-> 0, push |-> 0, sink |-> q] \in Trans
    /\ IsFiniteSet(Handles \cup Gens) /\ Handles \cap Gens = {}
    /\ Binder \in [Gens -> Handles \cup {None}]
    /\ \A g \in Gens : Pattern[g].source \in StateIds \cup {Wild}
    /\ None \notin Trans /\ None \notin Handles \cup Gens
    /\ Width \in Nat \ {0}

VARIABLES
    s,     \* the automaton: chains, counts, marks, first_transition
    ptr,   \* what each handle and the cursor of each generator points to
    used,  \* has_been_used of each generator
    kept,  \* history: transitions added and not removed since
    owed,  \* history: what a generator promised and has not found yet
    found  \* history: the last result of each generator

vars == <<s, ptr, used, kept, owed, found>>
Owners == Handles \cup Gens

-----------------------------------------------------------------------------
(* Walking the chains *)

Listed(st) == UNION {ToSet(st.list[q]) : q \in StateIds}
Live(st) == {t \in Listed(st) : ~ st.del[t]}
Head1(l) == IF l = <<>> THEN None ELSE Head(l)

\* A walk goes down the chain of a state and on to the next state.
Pos(l, t) == CHOOSE i \in DOMAIN l : l[i] = t
Beyond(st, t, u) ==
    \/ t.source < u.source
    \/ t.source = u.source /\ Pos(st.list[t.source], t) < Pos(st.list[t.source], u)
Ahead(st, t) == {u \in Live(st) : Beyond(st, t, u)}
\* The one of ts that the walk comes to first.
Nearest(st, ts) ==
    IF ts = {} THEN None ELSE CHOOSE u \in ts : \A v \in ts \ {u} : Beyond(st, u, v)

\* The order of Transition::operator<.
Key(t) == <<t.source, t.read, t.pop, t.push, t.sink>>
Less(t, u) == \E i \in 1 .. 5 : /\ Key(t)[i] < Key(u)[i]
                                /\ \A j \in 1 .. i - 1 : Key(t)[j] = Key(u)[j]

FindNextTransition(st, t) == Nearest(st, Ahead(st, t))

WalkedGivesUp(st, g, t) ==
    LET p == Pattern[g]
    IN  {u \in Ahead(st, t) :
           /\ p.source = Wild \/ u.source = t.source
           /\ p.read # Wild => \A v \in Ahead(st, t) : v.read > p.read => Beyond(st, u, v)}
\* What the walks of the four FindNextTransition classes come to: they stay in
\* the state when the source is bound, and give a state up at a read symbol
\* above the bound one.
Walked(st, g, t) ==
    LET p == Pattern[g]
    IN  {u \in Ahead(st, t) :
           /\ p.source = Wild \/ u.source = t.source
           /\ p.read # Wild => \A v \in Ahead(st, t) :
                 v.source = u.source /\ v.read > p.read => Beyond(st, u, v)}
NextFor(st, g, t) == Nearest(st, Walked(st, g, t))

Matches(g, t) == \A f \in DOMAIN t : Pattern[g][f] \in {Wild, t[f]}

-----------------------------------------------------------------------------
(* What a search promises, for the history owed: all that it matches, but   *)
(* for a pattern neither what stands ahead of first_transition, where a     *)
(* search without a source starts, nor what stands or comes to stand in its *)
(* chain behind a read symbol above the bound one.                          *)

Hidden(st, g, t) ==
    /\ g \notin Plain /\ Pattern[g].read # Wild
    /\ \E v \in Live(st) : /\ v.source = t.source /\ v.read > Pattern[g].read
                           /\ Beyond(st, v, t)

Wanted(st, g) ==
    {t \in Live(st) :
       /\ Matches(g, t) /\ ~ Hidden(st, g, t)
       /\ \/ g \in Plain \/ Pattern[g].source # Wild
          \/ st.first # None /\ ~ Beyond(st, t, st.first)}

\* What is still owed once transitions were added.
StillOwed(st) == [g \in Gens |-> {t \in owed[g] : ~ Hidden(st, g, t)}]

-----------------------------------------------------------------------------
(* Reference counts *)

Hold(st, t) == IF t = None THEN st ELSE [st EXCEPT !.ref[t] = @ + 1]

Release(st, t) ==
    IF t = None THEN st
    ELSE IF st.ref[t] > 1 \/ ~ st.alive THEN [st EXCEPT !.ref[t] = @ - 1]
    ELSE [st EXCEPT !.ref[t] = 0, !.del[t] = FALSE,
                    !.list[t.source] = RemoveAt(@, Pos(@, t))]

AssignLeaks(st, old, t) == IF t = old THEN st ELSE Hold(st, t)
\* OpaqueTransition::assign
Assign(st, old, t) == IF t = old THEN st ELSE Hold(Release(st, old), t)

-----------------------------------------------------------------------------
(* Adding and removing *)

\* make_transition walks on while any component is greater.
Skips(t, u) == t.read > u.read \/ t.pop > u.pop \/ t.push > u.push \/ t.sink > u.sink
Place(l, t) ==
    LET stop == {i \in 1 .. Len(l) : ~ Skips(t, l[i])}
    IN  IF stop = {} THEN Len(l) + 1 ELSE CHOOSE i \in stop : \A j \in stop : i <= j

SetFirst(st, t) == [st EXCEPT !.first = IF @ = None \/ Less(t, @) THEN t ELSE @]

MakeTransition(st, t) ==
    LET l == st.list[t.source]
        i == Place(l, t)
    IN  IF i <= Len(l) /\ l[i] = t
        THEN SetFirst([st EXCEPT !.del[t] = FALSE], t)
        ELSE SetFirst([st EXCEPT !.list[t.source] = InsertAt(l, i, t),
                                 !.ref[t] = 1, !.del[t] = FALSE], t)

AddTo(st, t) == [MakeTransition(st, t) EXCEPT !.num = (@ + 1) % Width]

MayAdd(t) == /\ s.alive /\ s.num # MaxCount
             /\ {t.source, t.sink} \subseteq 0 .. s.states - 1
             /\ ReAdd \/ t \notin Listed(s) \/ ~ s.del[t]

\* The clients hold no transition that was freed; no step is taken from one.
Sound == \A o \in Owners : ptr[o] # None /\ s.alive => ptr[o] \in Listed(s)

Init ==
    /\ s = [list |-> [q \in StateIds |-> <<>>], ref |-> [t \in Trans |-> 0],
            del |-> [t \in Trans |-> FALSE], first |-> None, num |-> 0,
            states |-> 1, alive |-> TRUE]
    /\ ptr = [o \in Owners |-> None]
    /\ used = [g \in Gens |-> FALSE]
    /\ kept = {}
    /\ owed = [g \in Gens |-> {}]
    /\ found = [g \in Gens |-> None]

AddState ==
    /\ s.alive /\ s.states \in StateIds
    /\ s' = [s EXCEPT !.states = @ + 1]
    /\ UNCHANGED <<ptr, used, kept, owed, found>>

\* add_transition, whose result the client may keep in a handle or not.
AddTransition(t, h) ==
    /\ Sound /\ MayAdd(t)
    /\ LET st == AddTo(s, t)
       IN  IF h = None THEN s' = st /\ ptr' = ptr
           ELSE /\ s' = Assign(st, ptr[h], t)
                /\ ptr' = [ptr EXCEPT ![h] = t]
    /\ kept' = kept \cup {t}
    /\ owed' = StillOwed(s')
    /\ UNCHANGED <<used, found>>

\* add_start_state links the start state, 0, to q and does not count it.
AddStartState(q) ==
    LET t == [source |-> 0, read |-> 0, pop |-> 0, push |-> 0, sink |-> q]
    IN  /\ Sound /\ q # 0 /\ MayAdd(t)
        /\ s' = MakeTransition(s, t)
        /\ kept' = kept \cup {t}
        /\ owed' = StillOwed(s')
        /\ UNCHANGED <<ptr, used, found>>

AddPushingOne(src, read, pop, b, sink) ==
    LET q == s.states
        t1 == [source |-> src, read |-> read, pop |-> pop, push |-> b[2], sink |-> q]
    IN  /\ Sound /\ s.alive /\ s.num # MaxCount /\ q \in StateIds
        /\ src < q /\ t1 \in Trans
        /\ s' = AddTo([s EXCEPT !.states = @ + 1], t1)
        /\ kept' = kept \cup {t1, [t1 EXCEPT !.source = q, !.read = 0, !.pop = 0,
                                            !.push = b[1], !.sink = sink]}
        /\ owed' = StillOwed(s')
        /\ UNCHANGED <<ptr, used, found>>
\* add_transition with a buffer of two symbols: through a new state, the
\* last symbol of the buffer is pushed first.
AddPushing(src, read, pop, b, sink) ==
    LET q == s.states
        t1 == [source |-> src, read |-> read, pop |-> pop, push |-> b[2], sink |-> q]
        t2 == [source |-> q, read |-> 0, pop |-> 0, push |-> b[1], sink |-> sink]
    IN  /\ Sound /\ s.alive /\ q \in StateIds /\ s.num \notin {MaxCount - 1, MaxCount}
        /\ {src, sink} \subseteq 0 .. q - 1 /\ {t1, t2} \subseteq Trans
        /\ s' = AddTo(AddTo([s EXCEPT !.states = @ + 1], t1), t2)
        /\ kept' = kept \cup {t1, t2}
        /\ owed' = StillOwed(s')
        /\ UNCHANGED <<ptr, used, found>>

RemoveTransition(h) ==
    LET t == ptr[h]
    IN  /\ Sound /\ s.alive /\ t # None /\ ~ s.del[t]
        /\ s.num # MaxCount + 1  \* bound: and no lower than MaxCount + 1 - Width
        /\ s' = Release([s EXCEPT !.del[t] = TRUE, !.num = (@ + Width - 1) % Width,
                                  !.first = IF @ = t THEN FindNextTransition(s, t)
                                            ELSE @], t)
        /\ kept' = kept \ {t}
        /\ owed' = [g \in Gens |-> owed[g] \ {t}]
        /\ UNCHANGED <<ptr, used, found>>

CopyHandle(h, i) ==
    /\ Sound /\ ptr[h] # ptr[i]
    /\ s' = Assign(s, ptr[h], ptr[i])
    /\ ptr' = [ptr EXCEPT ![h] = ptr[i]]
    /\ UNCHANGED <<used, kept, owed, found>>

ClearHandle(h) ==
    /\ Sound /\ ptr[h] # None
    /\ s' = Release(s, ptr[h])
    /\ ptr' = [ptr EXCEPT ![h] = None]
    /\ UNCHANGED <<used, kept, owed, found>>

-----------------------------------------------------------------------------
(* Generators.  A step works on a record of the store and the pointers.     *)

Bound(x, h, t) == IF h = None THEN x
                  ELSE [st |-> Assign(x.st, x.ptr[h], t), ptr |-> [x.ptr EXCEPT ![h] = t]]

\* free: the cursor is released and the binder cleared.
Freed(x, g) ==
    Bound([st |-> Release(x.st, x.ptr[g]), ptr |-> [x.ptr EXCEPT ![g] = None]],
          Binder[g], None)

\* reset, for a search with an unbound source or of the source's chain.
StartOf(st, g) == IF g \in Plain \/ Pattern[g].source = Wild THEN st.first
                  ELSE Head1(st.list[Pattern[g].source])
Reset(x, g) ==
    LET y == Freed(x, g)
        c == StartOf(y.st, g)
    IN  [st |-> Hold(y.st, c), ptr |-> [y.ptr EXCEPT ![g] = c]]

\* From t, NextFor by NextFor, to one that matches: what NextFor walks over from
\* its result is the rest of what it walked over before.
Seek(st, g, t) ==
    IF Matches(g, t) THEN t ELSE Nearest(st, {u \in Walked(st, g, t) : Matches(g, u)})

\* TransitionGenerator::next leaves a removed cursor first, the generators
\* of patterns do not.
Target(st, g, t) ==
    IF g \notin Plain THEN Seek(st, g, t)
    ELSE IF st.del[t] THEN FindNextTransition(st, t) ELSE t

\* Without a binder a removed transition goes with the cursor, and the search
\* reads the next one from the freed object: what it was, or the null that
\* the destructor left.
Step(x, g) ==
    LET t == Target(x.st, g, x.ptr[g])
        y == Bound(x, Binder[g], t)
        z == Release(y.st, x.ptr[g])
        Next1(st) == IF g \in Plain THEN FindNextTransition(st, t) ELSE NextFor(st, g, t)
        nexts == IF t = None THEN {None}
                 ELSE IF t \in Listed(z) THEN {Next1(z)} ELSE {Next1(y.st), None}
    IN  {[st |-> Hold(z, n), ptr |-> [y.ptr EXCEPT ![g] = n], out |-> t] : n \in nexts}

MatchNext(g) ==
    LET x == [st |-> s, ptr |-> ptr]
        y == IF used[g] THEN x ELSE Reset(x, g)
        z == Bound(y, Binder[g], None)
        ends == {[st |-> z.st, ptr |-> z.ptr, out |-> None]}
    IN  /\ Sound /\ s.alive
        /\ used[g] \/ Cardinality({k \in Gens : used[k]}) < MaxBusy
        /\ \E r \in IF y.ptr[g] = None THEN ends ELSE Step(y, g) :
              /\ s' = r.st /\ ptr' = r.ptr
              /\ owed' = [owed EXCEPT ![g] = (IF used[g] THEN @ ELSE Wanted(s, g)) \ {r.out}]
              /\ found' = [found EXCEPT ![g] = IF r.out = None THEN End ELSE r.out]
        /\ used' = [used EXCEPT ![g] = TRUE]
        /\ UNCHANGED kept

Rewind(g) ==
    LET y == Reset([st |-> s, ptr |-> ptr], g)
    IN  /\ Sound /\ s.alive /\ used[g]
        /\ s' = y.st /\ ptr' = y.ptr
        /\ owed' = [owed EXCEPT ![g] = Wanted(s, g)]
        /\ found' = [found EXCEPT ![g] = None]
        /\ UNCHANGED <<used, kept>>

\* ~Generator; the client may make the same search again.
FreeGenerator(g) ==
    LET y == Freed([st |-> s, ptr |-> ptr], g)
    IN  /\ Sound /\ used[g]
        /\ s' = y.st /\ ptr' = y.ptr
        /\ used' = [used EXCEPT ![g] = FALSE]
        /\ owed' = [owed EXCEPT ![g] = {}]
        /\ found' = [found EXCEPT ![g] = None]
        /\ UNCHANGED kept

\* ~PDA forgets the chains; what is held lives on by its count.
Destroy ==
    /\ Sound /\ s.alive
    /\ s' = [s EXCEPT !.alive = FALSE, !.list = [q \in StateIds |-> <<>>],
                      !.first = None,
                      !.ref = [t \in Trans |-> IF t \in Live(s) THEN @[t] - 1 ELSE @[t]]]
    /\ kept' = {}
    /\ owed' = [g \in Gens |-> {}]
    /\ found' = [g \in Gens |-> None]
    /\ UNCHANGED <<ptr, used>>

Next ==
    \/ AddState \/ Destroy
    \/ \E q \in Starts : AddStartState(q)
    \/ \E t \in Trans, h \in Handles \cup {None} : AddTransition(t, h)
    \/ \E t \in Trans, b \in Pushed, q \in StateIds :
          AddPushing(t.source, t.read, t.pop, b, q)
    \/ \E h \in Handles : RemoveTransition(h) \/ ClearHandle(h)
                          \/ \E i \in Handles : CopyHandle(h, i)
    \/ \E g \in Gens : MatchNext(g) \/ Rewind(g) \/ FreeGenerator(g)

Spec == Init /\ [][Next]_vars

\* A step that adds again what was removed and is still held (make_transition).
Revives == \E t \in Listed(s) : s.del[t] /\ t \in kept'

-----------------------------------------------------------------------------
TypeOK ==
    /\ s.list \in [StateIds -> Seq(Trans)]
    /\ s.ref \in [Trans -> Nat] /\ s.del \in [Trans -> BOOLEAN]
    /\ s.first \in Trans \cup {None} /\ s.num \in 0 .. Width - 1
    /\ ptr \in [Owners -> Trans \cup {None}] /\ used \in [Gens -> BOOLEAN]
    /\ kept \subseteq Trans /\ owed \in [Gens -> SUBSET Trans]

\* A transition is counted once by each handle and cursor on it and once
\* while it is in the automaton and not removed; it is in a chain exactly
\* while somebody counts it (Transition::hold and release).
RefExact ==
    /\ TypeOK
    /\ \A t \in Trans :
        /\ s.ref[t] = Cardinality({o \in Owners : ptr[o] = t})
                      + IF t \in Live(s) THEN 1 ELSE 0
        /\ s.alive => (t \in Listed(s) <=> s.ref[t] > 0)

\* make_transition finds a transition that is there: no chain holds one
\* twice, and none stands before one that is below it in every component.
TwinFree(l) ==
    \A i, j \in DOMAIN l : i < j => \E f \in DOMAIN l[j] : l[j][f] > l[i][f]

NoTwins == \A q \in StateIds : TwinFree(s.list[q])

\* What was added and not removed is in the automaton, once, and nothing else is
\* (add_transition, remove_transition).
TransitionsKept == NoTwins /\ (s.alive => Live(s) = kept)

Complete(g) == found[g] = End => owed[g] = {}

\* A search by pattern, with a binder, that has ended has returned every
\* transition that it matches and that was in the automaton all the time, behind
\* its start and with no read symbol above the bound one ahead of it in its chain
\* (PatternGenerator::next, FindNextTransition); and a step of search(~t) returns
\* none that has been removed (TransitionGenerator::next).
SearchComplete ==
    /\ [](\A g \in Gens \ Plain : Binder[g] # None => Complete(g))
    /\ [][\A g \in Gens \cap Plain :
            found'[g] # found[g] /\ found'[g] \in Trans => ~ s.del[found'[g]]]_vars

\* search(~t) that has ended has returned every transition that was in the
\* automaton all the time.
AllFound == \A g \in Gens \cap Plain : Complete(g)
=============================================================================
