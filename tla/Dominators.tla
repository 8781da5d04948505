----------------------------- MODULE Dominators -----------------------------
(* NFA_DOMINATORS (grail/include/cli): the sets of dominators shrink along a *)
(* work list; then the transitions of the automaton give way to its          *)
(* dominator tree.  What is read, popped and pushed does not matter.          *)
EXTENDS Integers, SequencesExt, FiniteSetsExt

\* The automata, [start, out, found]: out[q] is the chain of the state q, and
\* found is what search(~t) yields.
CONSTANT Graphs

Nodes(G) == DOMAIN G.out
Transitions(G) == UNION {ToSet(G.out[q]) : q \in Nodes(G)}

\* The transitions of a chain leave its state, and none is there twice.
IsGraph(G) ==
    /\ Nodes(G) \subseteq Nat /\ IsFiniteSet(Nodes(G)) /\ G.start \in Nodes(G)
    /\ G.found \in Seq(Transitions(G))
    /\ \A q \in Nodes(G) :
          /\ G.out[q] \in Seq(Transitions(G))
          /\ IsInjective(G.out[q])
          /\ \A t \in ToSet(G.out[q]) : t.source = q /\ t.sink \in Nodes(G)

ASSUME GraphsAssumption == \A G \in Graphs : IsGraph(G)

VARIABLES
    graph,
    doms,       \* dominators, by state
    queue,      \* work_queue
    force,      \* force_continue
    edges,      \* the transitions that are left, as pairs
    domPhase,
    visits      \* history: how often the loop turned

domVars == <<graph, doms, queue, force, edges, domPhase, visits>>

DomInit ==
    /\ graph \in Graphs
    /\ doms = [q \in Nodes(graph) |-> IF q = graph.start THEN {q} ELSE Nodes(graph)]
    /\ queue = <<graph.start>> /\ force = TRUE
    /\ edges = {} /\ domPhase = "meet" /\ visits = 0

-----------------------------------------------------------------------------
MeetLast(dom, q, found) ==
    LET into == {i \in DOMAIN found : found[i].sink = q /\ found[i].source # q}
    IN  {d \in dom[q] : into # {} => d \in dom[found[Max(into)].source]} \cup {q}
\* What dominates all the predecessors that are found, and q itself.
Meet(dom, q, found) ==
    {d \in dom[q] : \A t \in ToSet(found) : t.sink = q /\ t.source # q => d \in dom[t.source]}
        \cup {q}

\* Where the transitions l lead from q, but to q itself.
Successors(l, q) ==
    LET after[i \in 0 .. Len(l)] ==
            IF i = 0 THEN <<>>
            ELSE IF l[i].sink = q THEN after[i - 1] ELSE Append(after[i - 1], l[i].sink)
    IN  after[Len(l)]

DominatorsTurn ==
    LET q == Head(queue)
        D == Meet(doms, q, graph.found)
        shrinks == Cardinality(D) < Cardinality(doms[q])
    IN  /\ domPhase = "meet" /\ queue # <<>>
        /\ doms' = [doms EXCEPT ![q] = D]
        /\ queue' = Tail(queue) \o IF force \/ shrinks THEN Successors(graph.out[q], q) ELSE <<>>
        /\ force' = FALSE /\ visits' = visits + 1
        /\ UNCHANGED <<graph, edges, domPhase>>

\* Of the two least states in the set, the one that dominates the other goes.
Closest(dom, S) ==
    LET closest[D \in SUBSET S] ==
            IF Cardinality(D) <= 1 THEN CHOOSE q \in D : TRUE
            ELSE LET p == Min(D)  q == Min(D \ {p})
                 IN  closest[D \ {IF q \notin dom[p] THEN p ELSE q}]
    IN  closest[S]
ImmediateDominator(dom, q) == Closest(dom, dom[q] \ {q})

\* What the search of all transitions finds is removed, the tree is added.
DominatorTree ==
    /\ domPhase = "meet" /\ queue = <<>>
    /\ edges' = {<<t.source, t.sink>> : t \in Transitions(graph) \ ToSet(graph.found)}
                \cup {<<ImmediateDominator(doms, q), q>> : q \in Nodes(graph) \ {graph.start}}
    /\ domPhase' = "done" /\ UNCHANGED <<graph, doms, queue, force, visits>>

DomDone == domPhase = "done" /\ UNCHANGED domVars

DomNext == DominatorsTurn \/ DominatorTree \/ DomDone
DomSpec == DomInit /\ [][DomNext]_domVars

-----------------------------------------------------------------------------
(* What the tool promises *)

\* The start state, if it is not avoided, is in S, and where a transition leads
\* from a member of S.
Closed(G, avoided, S) ==
    /\ G.start \in avoided \/ G.start \in S
    /\ \A t \in Transitions(G) : t.source \in S /\ t.sink \notin avoided => t.sink \in S
\* The states reached from the start past those that are avoided: the least such set.
Reached(G, avoided) == {q \in Nodes(G) : \A S \in SUBSET Nodes(G) : Closed(G, avoided, S) => q \in S}
\* The state is not reached but through d.
Dominates(G, d, q) == d = q \/ q \notin Reached(G, {d})

Strict(G, q) == {d \in Nodes(G) \ {q} : Dominates(G, d, q)}

\* The queue runs empty before the loop has turned once for each transition and
\* state, and once more.
VisitsBounded == visits <= 1 + Cardinality(Transitions(graph)) * Cardinality(Nodes(graph))

\* The search of the transitions finds all.
NoneMissed(G) == Transitions(G) \subseteq ToSet(G.found)

\* NFA_DOMINATORS ends, and it leaves the dominator tree of the states that are
\* reached, if its search finds all: each has one edge, from a state that
\* dominates it and that is dominated by all that dominate it.
TreeRight ==
    /\ VisitsBounded
    /\ domPhase = "done" /\ NoneMissed(graph) =>
        \A q \in Reached(graph, {}) \ {graph.start} :
            {e[1] : e \in {e \in edges : e[2] = q}}
            = {d \in Strict(graph, q) : \A c \in Strict(graph, q) : Dominates(graph, c, d)}
=============================================================================
