--------------------------- MODULE AutomataTools ---------------------------
(* The algorithms on automata: NFA_REMOVE_EPSILON, PDA_INTERSECT_NFA,        *)
(* CFG_TO_PDA and PDA_TO_CFG (grail/include/algorithm), and CFG_STACK_LANG   *)
(* (grail/include/cli).  A job is a list of stages; a step of a stage is one *)
(* turn of its outer loop.                                                   *)
EXTENDS Automaton, Languages, Integers, TLC

CONSTANTS
    Jobs,    \* the tools to run
    Inputs   \* Inputs[j]: what tool j is given, [a, n, g]

VARIABLES
    job, stage,  \* the tool and what it does
    a,           \* the automaton it reads and edits, or writes
    x,           \* the rest of its local variables
    g,           \* the grammar it writes, or its transitions of pairs
    missed,      \* history: some search did not find all that it should
    turns,       \* history: how often the loops that edit what they walk turned
    input        \* history: what the tool was given

vars == <<job, stage, a, x, g, missed, turns, input>>

WordLen == 2  \* bound: languages are compared up to words of this length

To(s) == stage' = s
Kept == UNCHANGED <<job, turns, input>>
Stay == Kept /\ UNCHANGED stage
Turn == turns' = turns + 1 /\ UNCHANGED <<job, stage, input>>

-----------------------------------------------------------------------------
(* NFA_REMOVE_EPSILON.  x.A runs over the states; x.cursor is the generator   *)
(* of A's epsilon transitions, x.more is "updated".                           *)

\* rewind, then match_next: the first match from t on, and the cursor it leaves.
NextEps(n, A, t) ==
    LET l == Reading(IF t = None THEN <<>> ELSE From(Chain(n, A), t), 0)
    IN  HeadOr(l)
CursorAfter(n, A, t) ==
    LET rest == Tail(From(Chain(n, A), t))
    IN  IF rest = <<>> \/ Head(rest).read > 0 THEN None ELSE Head(rest)

\* The search for epsilon transitions stops before some.
Hidden(l) == \E i, j \in DOMAIN l : i < j /\ l[i].read > 0 /\ l[j].read = 0

EpsTurnOnce(n, A, t, reached) ==
    LET m == RemoveTrans(n, t)
        from == Chain(m, t.sink)
    IN  IF t.sink \in reached THEN [n |-> m, more |-> FALSE]
        ELSE [n |-> AddAll(m, [i \in DOMAIN from |-> Trans(A, from[i].read, 0, 0, from[i].sink)]),
              more |-> FALSE]
\* The body: the transition goes, and A gets the transitions of its sink.
EpsTurn(n, A, t, reached) ==
    LET m == RemoveTrans(n, t)
        from == Chain(m, t.sink)
    IN  IF t.sink \in reached THEN [n |-> m, more |-> FALSE]
        ELSE [n |-> AddAll(m, [i \in DOMAIN from |-> Trans(A, from[i].read, 0, 0, from[i].sink)]),
              more |-> \E i \in DOMAIN from : from[i].read = 0]

EpsFollow ==
    LET t == NextEps(a, x.A, x.cursor)
        n == Drop(a)
        y == EpsTurn(n, x.A, t, x.reached)
    IN  /\ stage = "epsilon" /\ t # None
        /\ a' = y.n
        /\ x' = [x EXCEPT !.reached = @ \cup {t.sink}, !.more = @ \/ y.more,
                          !.cursor = CursorAfter(n, x.A, t)]
        /\ Turn /\ UNCHANGED <<g, missed>>

\* The search is over: once more if epsilon transitions were added, else the
\* next state.
EpsNextPass ==
    LET n == Drop(a)
        A == IF x.more THEN x.A ELSE x.A + 1
        over == A = NumStates(n)
    IN  /\ stage = "epsilon" /\ NextEps(a, x.A, x.cursor) = None
        /\ a' = n
        /\ IF over
           THEN /\ To("product") /\ g' = {}
                /\ x' = [todo |-> Walk(input.p), p |-> 0]
           ELSE /\ To("epsilon") /\ UNCHANGED g
                /\ x' = [A |-> A, more |-> FALSE, cursor |-> HeadOr(Chain(n, A)),
                         reached |-> IF x.more THEN x.reached ELSE {A}]
        /\ missed' = \/ missed
                     \/ Hidden(Chain(n, x.A))
                     \/ over /\ Missed(input.p, Walk(input.p)) # {}
        /\ Kept

-----------------------------------------------------------------------------
(* PDA_INTERSECT_NFA, on input.p and on the NFA without epsilon transitions.  *)
(* A state of the result is a pair; x.p is what the search of the NFA last    *)
(* bound p to, which an epsilon transition of the PDA uses as well.           *)

\* epsilon is no input symbol: it goes by its name through get_stack_symbol, which
\* has no symbol of that name and makes one.
NamedEpsilon == -1
OutSymbol(z) == IF z = 0 THEN NamedEpsilon ELSE z
\* What fprint prints, and fread reads back: the name stands for epsilon.
Printed(T) ==
    LET read(z) == IF z = NamedEpsilon THEN 0 ELSE z
    IN  {[t EXCEPT !.pop = read(@), !.push = read(@)] : t \in T}

ProductOfSource(t, found) ==
    {Trans(<<t.source, u[1]>>, t.read, OutSymbol(t.pop), OutSymbol(t.push), <<t.sink, u[1]>>) :
       u \in found}
ProductOf(t, found) ==
    {Trans(<<t.source, u[1]>>, t.read, OutSymbol(t.pop), OutSymbol(t.push), <<t.sink, u[2]>>) :
       u \in found}

ProductTurn ==
    LET t == Head(x.todo)
        visited == UpTo(Walk(a), t.read)
        found == Reading(Walk(a), t.read)
    IN  /\ stage = "product" /\ x.todo # <<>>
        /\ IF t.read = 0
           THEN /\ g' = g \cup ProductOf(t, {<<x.p, s>> : s \in States(a)})
                /\ x' = [x EXCEPT !.todo = Tail(@)]
                /\ UNCHANGED missed
           ELSE /\ g' = g \cup ProductOf(t, {<<u.source, u.sink>> : u \in ToSet(found)})
                /\ x' = [x EXCEPT !.todo = Tail(@),
                                  !.p = IF visited = <<>> THEN @ ELSE Last(visited).source]
                /\ missed' = (missed \/ \E u \in Missed(a, found) : u.read = t.read)
        /\ Stay /\ UNCHANGED a
ProductAccepting ==
    /\ stage = "product" /\ x.todo = <<>>
    /\ To("done")
    /\ x' = [accept |-> input.p.accept \X a.accept]
    /\ Kept /\ UNCHANGED <<a, g, missed>>

-----------------------------------------------------------------------------
(* CFG_TO_PDA.  Symbol 1 is the bottom of the stack, the variables and then   *)
(* the terminals follow; a variable that search(~V) misses has no symbol.     *)

Convertible(q) == q.vars # {} /\ q.rules # {} /\ q.varTerminals = 0
Symbol(q, s) ==
    LET seen == {v \in q.vars : v >= Min({r[1] : r \in q.rules})}
        rank(S, e) == Cardinality({f \in S : f <= e})
    IN  IF s \in seen THEN 1 + rank(seen, s)
        ELSE IF s \in q.vars THEN 0
        ELSE 1 + Cardinality(seen) + rank(q.terms, s)
Buffer(q, s) == SelectSeq([i \in DOMAIN s |-> Symbol(q, s[i])], LAMBDA y : y # 0)

BeginStack ==
    LET q == input.g
        b == AddStates(NewAutomaton, 2)
        loops == SetToSeq({Trans(1, Symbol(q, t), Symbol(q, t), 0, 1) : t \in q.terms})
    IN  /\ stage = "begin" /\ job = "toPDA"
        /\ IF Convertible(q)
           THEN /\ a' = AddPushing([AddAll(b, loops) EXCEPT !.accept = {2}],
                                   0, 0, 0, <<Symbol(q, q.start), 1>>, 1)
                /\ x' = [todo |-> q.rules] /\ To("rules")
           ELSE a' = NewAutomaton /\ x' = [todo |-> {}] /\ To("done")
        /\ Kept /\ UNCHANGED <<g, missed>>
PushRuleReversed(r) ==
    AddPushing(a, 1, 0, Symbol(input.g, r[1]), Reverse(Buffer(input.g, r[2])), 1)
PushRule(r) == AddPushing(a, 1, 0, Symbol(input.g, r[1]), Buffer(input.g, r[2]), 1)
ExpandOnStack(r) ==
    /\ stage = "rules" /\ a' = PushRule(r)
    /\ x' = [x EXCEPT !.todo = @ \ {r}]
    /\ Stay /\ UNCHANGED <<g, missed>>
EmptyStack ==
    /\ stage = "rules" /\ x.todo = {}
    /\ a' = Add(a, Trans(1, 0, 1, 0, 2))
    /\ To("done") /\ Kept /\ UNCHANGED <<x, g, missed>>

-----------------------------------------------------------------------------
(* PDA_TO_CFG, on input.p.  A_q is <<q, q>> in the grammar of an NFA; the     *)
(* terminal of the input symbol r is <<r>>.                                   *)

BareTransitions(b) == SelectSeq(Walk(b), LAMBDA t : t.pop = 0 /\ t.push = 0)

NFARules(b) ==
    {<<<<t.source, t.source>>, Letter(t.read) \o <<<<t.sink, t.sink>>>>>> : t \in ToSet(Walk(b))}
    \cup {<<<<q, q>>, <<>>>> : q \in b.accept}

\* The first part of normalize: one accepting state, entered with the stack
\* emptied.  search(~symbol) begins with epsilon.
Normalized(b, symbols) ==
    LET n == NumStates(b)  pushPop == symbols + 1  bottom == symbols + 2
        arb == n  empty == n + 1  final == n + 2  start == n + 3
        accepts == SetToSortSeq(b.accept, <)
        c == AddAll(AddState(b), [i \in DOMAIN accepts |-> Trans(accepts[i], 0, 0, pushPop, arb)])
        d == Add(AddState(c), Trans(arb, 0, pushPop, 0, empty))
        e == AddAll(d, [i \in 1 .. symbols + 1 |-> Trans(empty, 0, i - 1, 0, empty)])
        f == Add(Add(AddStates(e, 2), Trans(start, 0, 0, bottom, b.start)),
                 Trans(empty, 0, bottom, 0, final))
    IN  [f EXCEPT !.start = start, !.accept = {final}]

BeginGrammar ==
    LET b == input.p
        found == Walk(b)
        symbols == input.symbols
        m == Normalized(b, symbols)
    IN  /\ stage = "begin" /\ job = "toCFG"
        /\ IF b.accept = {} THEN To("done") /\ UNCHANGED <<a, x, g, missed>>
           ELSE IF b.num = Len(BareTransitions(b))
           THEN /\ g' = NFARules(b) /\ x' = [start |-> <<b.start, b.start>>]
                /\ missed' = (Missed(b, found) # {})
                /\ To("done") /\ UNCHANGED a
           ELSE /\ a' = m /\ x' = [cursor |-> m.first, pushPop |-> symbols + 1]
                /\ missed' = (Missed(m, Walk(m)) # {})
                /\ To("normalize") /\ UNCHANGED g
        /\ Kept

\* The last loop of normalize: every transition either pushes or pops.
SplitPopPush(b, t, pushPop) ==
    LET q == NumStates(b)
        c == AddState(RemoveTrans(b, t))
    IN  IF t.push = 0 /\ t.pop = 0
        THEN AddAll(c, <<Trans(t.source, t.read, 0, pushPop, q), Trans(q, 0, pushPop, 0, t.sink)>>)
        ELSE IF t.push # 0 /\ t.pop # 0
        THEN AddAll(c, <<Trans(t.source, t.read, 0, t.push, q), Trans(q, 0, t.pop, 0, t.sink)>>)
        ELSE b
Split(b, t, pushPop) ==
    LET q == NumStates(b)
        c == AddState(RemoveTrans(b, t))
    IN  IF t.push = 0 /\ t.pop = 0
        THEN AddAll(c, <<Trans(t.source, t.read, 0, pushPop, q), Trans(q, 0, pushPop, 0, t.sink)>>)
        ELSE IF t.push # 0 /\ t.pop # 0
        THEN AddAll(c, <<Trans(t.source, t.read, t.pop, 0, q), Trans(q, 0, 0, t.push, t.sink)>>)
        ELSE b
NormalizeTurn ==
    LET t == x.cursor
        b == Drop(a)
    IN  /\ stage = "normalize" /\ t # None
        /\ a' = Split(b, t, x.pushPop)
        /\ x' = [x EXCEPT !.cursor = NextIn(b, t)]
        /\ Turn /\ UNCHANGED <<g, missed>>

\* A_pq -> a A_rs b for what pushes and pops the same symbol, A_pp -> epsilon
\* and A_pq -> A_pr A_rq.
PairRules(b) ==
    LET found == ToSet(Walk(b))
        pops(t) == {u \in found : u.pop = t.push /\ u.push = 0}
    IN  {<<<<q, q>>, <<>>>> : q \in States(b)}
        \cup UNION {{<<<<t.source, u.sink>>,
                       Letter(t.read) \o <<<<t.sink, u.source>>>> \o Letter(u.read)>> :
                     u \in pops(t)} : t \in {w \in found : w.pop = 0}}
        \cup {<<<<p, q>>, <<<<p, r>>, <<r, q>>>>>> : p, q, r \in States(b)}
Produce ==
    LET b == Drop(a)
    IN  /\ stage = "normalize" /\ x.cursor = None
        /\ a' = b /\ g' = PairRules(b)
        /\ x' = [start |-> <<b.start, CHOOSE q \in b.accept : TRUE>>]
        /\ missed' = (missed \/ Missed(b, Walk(b)) # {})
        /\ To("done") /\ Kept

-----------------------------------------------------------------------------
(* CFG_STACK_LANG, on input.g.  A context <<L, R>> is a variable R where it   *)
(* stands in a rule of L, L = 0 unless the states are partitioned.  g is the  *)
(* set of transitions <<from, label, to>>, x.ids is state_map.                *)

VarsIn(q, s) == SelectSeq(s, LAMBDA y : y \in q.vars)
Context(L, R) == <<IF input.partition THEN L ELSE 0, R>>
Label(c) == IF input.label THEN 0 ELSE c[2]
InOrder(todo) == {r \in todo : \A q \in todo : r[1] <= q[1]}

BeginContexts ==
    /\ stage = "begin" /\ job = "stack"
    /\ x' = [todo |-> input.g.rules,
             ids |-> IF input.partition THEN << >> ELSE (Context(0, input.g.start) :> 0),
             of |-> [v \in input.g.vars |-> {}], states |-> 1]
    /\ To("contexts") /\ Kept /\ UNCHANGED <<a, g, missed>>
Named(ids, states, contexts) ==
    LET new == SelectSeq(contexts, LAMBDA c : c \notin DOMAIN ids)
        once == SelectSeq([i \in DOMAIN new |-> i],
                          LAMBDA i : \A j \in 1 .. i - 1 : new[j] # new[i])
    IN  [ids |-> [c \in ToSet(new) |-> states - 1 + CHOOSE i \in DOMAIN once : new[once[i]] = c] @@ ids,
         states |-> states + Len(once)]
AddContexts(r) ==
    LET s == VarsIn(input.g, r[2])
        contexts == [i \in DOMAIN s |-> Context(r[1], s[i])]
        y == Named(x.ids, x.states, contexts)
    IN  /\ stage = "contexts"
        /\ x' = [x EXCEPT !.todo = @ \ {r}, !.ids = y.ids, !.states = y.states,
                          !.of[r[1]] = @ \cup ToSet(contexts)]
        /\ Stay /\ UNCHANGED <<a, g, missed>>
ContextsMade ==
    /\ stage = "contexts" /\ x.todo = {}
    /\ x' = [x EXCEPT !.todo = input.g.rules]
    /\ To("related") /\ Kept /\ UNCHANGED <<a, g, missed>>

Edges(from, related, ids) == {<<from, Label(c), ids[c]>> : c \in related}
\* A rule links the contexts of its variables, and its own variable to them if
\* that has no transition yet; state_map[ctx] makes an unknown context state 0.
AddRelatedUses(r) ==
    LET s == VarsIn(input.g, r[2])
    IN  /\ stage = "related"
        /\ g' = g \cup UNION {Edges(x.ids[Context(r[1], s[i])], x.of[s[i]], x.ids) : i \in DOMAIN s}
        /\ x' = [x EXCEPT !.todo = @ \ {r}]
        /\ Stay /\ UNCHANGED <<a, missed>>
AddRelated(r) ==
    LET s == VarsIn(input.g, r[2])
        edges == UNION {Edges(x.ids[Context(r[1], s[i])], x.of[s[i]], x.ids) : i \in DOMAIN s}
        own == Context(r[1], r[1])
        ids == IF input.partition \/ x.of[r[1]] = {} \/ own \in DOMAIN x.ids THEN x.ids
               ELSE (own :> 0) @@ x.ids
        bare == /\ ~ input.partition /\ x.of[r[1]] # {}
                /\ \A e \in g \cup edges : e[1] # ids[own]
    IN  /\ stage = "related"
        /\ g' = g \cup edges \cup (IF bare THEN Edges(ids[own], x.of[r[1]], ids) ELSE {})
        /\ x' = [x EXCEPT !.todo = @ \ {r}, !.ids = ids]
        /\ Stay /\ UNCHANGED <<a, missed>>
Started ==
    /\ stage = "related" /\ x.todo = {}
    /\ g' = g \cup IF input.partition THEN Edges(0, x.of[input.g.start], x.ids) ELSE {}
    /\ To("done") /\ Kept /\ UNCHANGED <<a, x, missed>>

-----------------------------------------------------------------------------
Init ==
    /\ job \in Jobs /\ input \in Inputs[job]
    /\ IF job = "intersect"
       THEN /\ stage = "epsilon" /\ a = input.n
            /\ x = [A |-> 0, more |-> FALSE, cursor |-> HeadOr(Chain(a, 0)), reached |-> {0}]
       ELSE stage = "begin" /\ a = NewAutomaton /\ x = << >>
    /\ g = {} /\ missed = FALSE /\ turns = 0

Done == stage = "done" /\ UNCHANGED vars

Next ==
    \/ EpsFollow \/ EpsNextPass \/ ProductTurn \/ ProductAccepting
    \/ BeginStack \/ EmptyStack
    \/ BeginGrammar \/ NormalizeTurn \/ Produce
    \/ BeginContexts \/ ContextsMade \/ Started
    \/ stage \in {"rules", "contexts", "related"} /\
         \E r \in InOrder(x.todo) : ExpandOnStack(r) \/ AddContexts(r) \/ AddRelated(r)
    \/ Done

Spec == Init /\ [][Next]_vars

-----------------------------------------------------------------------------
(* What the tools promise *)

Ended(j) == stage = "done" /\ job = j
Letters(T) == {<<t.read>> : t \in T}

Both(n) == Accepted(Live(n), n.accept, n.start, WordLen)

\* What at most k letters, the last one just read, lead to from q.
ReadTo(T, q, k) ==
    LET free(p) == ReachedFrom({p}, {<<t.source, t.sink>> : t \in {u \in T : u.read = 0}})
        to[i \in 0 .. k] ==
            IF i = 0 THEN {<<<<>>, q>>}
            ELSE {<<Append(y[1], t.read), t.sink>> :
                    <<y, t>> \in {z \in to[i - 1] \X T : z[2].read # 0 /\ z[2].source \in free(z[1][2])}}
    IN  UNION {to[i] : i \in 1 .. k}

\* The loops that edit what they walk over end: each state gets the transitions
\* of each other once, so at most n times n epsilon transitions to follow; what
\* normalize replaces it looks at once more.
TurnsBounded ==
    LET n == NumStates(input.p)
        t == Cardinality(Live(input.p))
    IN  turns <= CASE job = "intersect" -> NumStates(input.n) * NumStates(input.n) * NumStates(input.n)
                   [] job = "toCFG" -> 3 * (t + n + input.symbols + 4)
                   [] OTHER -> 0

\* NFA_REMOVE_EPSILON ends, as the other loops do; then the same letters lead
\* from each state to each, and no epsilon transition is left unless a search
\* stopped before it.
EpsilonRemoved ==
    /\ TurnsBounded
    /\ Ended("intersect") =>
        /\ \A q \in States(a) : ReadTo(Live(a), q, WordLen)
                                = ReadTo(Live(input.n), q, WordLen)
        /\ missed \/ \A t \in Live(a) : t.read # 0

\* What PDA_INTERSECT_NFA prints (cli/PDA_INTERSECT_NFA.hpp) accepts what both
\* automata accept, if the searches find everything and the PDA reads a letter at
\* every step.  What it builds and prints that from does not: NamedEpsilon.
Intersects ==
    Ended("intersect") /\ ~ missed /\ (\A t \in Live(input.p) : t.read # 0) =>
        Accepted(Printed(g), x.accept, <<input.p.start, a.start>>, WordLen)
            = Both(input.p) \cap Both(a)

\* The automaton CFG_TO_PDA builds accepts the words of the grammar.
PDAKeepsLanguage ==
    Ended("toPDA") /\ Convertible(input.g) =>
        Both(a) = {[i \in DOMAIN w |-> <<Symbol(input.g, w[i])>>] :
                     w \in Language(input.g.rules, input.g.terms, input.g.start, WordLen)}

\* The grammar PDA_TO_CFG builds derives the words the automaton accepts, if
\* its searches find everything and it is not taken for an NFA when it is none.
CFGKeepsLanguage ==
    LET b == input.p
        bare == BareTransitions(b)
    IN  Ended("toCFG") /\ ~ missed /\ (b.num = Len(bare) => Live(b) = ToSet(bare)) =>
            IF b.accept = {} THEN g = {}
            ELSE Language(g, Letters(Live(b)), x.start, WordLen) = Both(b)

\* CFG_STACK_LANG: from the start state the automaton goes through the
\* variables as a chain of rules of the grammar does, if every variable is used.
StackRight ==
    LET r == input.g.rules
        calls(v) == UNION {ToSet(VarsIn(input.g, q[2])) : q \in {q \in r : q[1] = v}}
        used == {input.g.start} \cup UNION {calls(v) : v \in input.g.vars}
        path[k \in 0 .. WordLen] ==
            IF k = 0 THEN {<<input.g.start>>}
            ELSE UNION {{Append(p, v) : v \in calls(Last(p))} : p \in path[k - 1]}
        name(i) == (CHOOSE c \in DOMAIN x.ids : x.ids[c] = i)[2]
        walk[k \in 0 .. WordLen] ==
            IF k = 0 THEN {<<0>>}
            ELSE UNION {{Append(p, e[3]) : e \in {f \in g : f[1] = Last(p)}} : p \in walk[k - 1]}
    IN  Ended("stack") /\ {q[1] : q \in r} \subseteq used =>
            \A k \in 0 .. WordLen :
                {<<input.g.start>> \o [i \in 1 .. k |-> name(p[i + 1])] : p \in walk[k]} = path[k]
=============================================================================
