----------------------------- MODULE MCAutomata -----------------------------
(* Small automata and grammars for AutomataTools and Dominators.  In each   *)
(* behaviour one of the two is at work; the other stays at an initial state. *)
EXTENDS AutomataTools, Dominators

VARIABLE who  \* the module at work

\* An automaton of n states, as add_transition makes it from the sequence ts;
\* the states of starts are given to add_start_state first.
Built(n, starts, ts, accept) ==
    [AddAll(FoldLeft(AddStart, AddStates(NewAutomaton, n - 1), starts), ts) EXCEPT !.accept = accept]
Orders(S, n) == {s \in UNION {[1 .. k -> S] : k \in 0 .. n} : IsInjective(s)}

N(q, r, z) == Trans(q, r, 0, 0, z)
MCNFAs == {Built(3, <<>>, s, {2}) :
             s \in Orders({N(0, 0, 1), N(0, 1, 0), N(0, 0, 2), N(1, 0, 0), N(1, 0, 2), N(1, 2, 2), N(2, 1, 1)}, 3)}
\* a^n b^n by letters only, and with an epsilon transition.
Counting == Built(2, <<>>, <<Trans(0, 1, 0, 1, 0), Trans(0, 2, 1, 0, 1), Trans(1, 2, 1, 0, 1)>>, {1})
MCPDAs == {Built(2, z, s, {1}) :
             z \in {<<>>, <<1>>},
             s \in Orders({Trans(0, 1, 0, 1, 0), Trans(0, 2, 1, 0, 1), Trans(0, 0, 1, 2, 1),
                           Trans(1, 2, 2, 0, 1), Trans(0, 2, 1, 2, 1), N(0, 0, 1), N(0, 2, 1)}, 3)}
\* What the searches of the tool find in an automaton.
Searched(n) == [start |-> n.start, out |-> [q \in States(n) |-> Chain(n, q)], found |-> Walk(n)]
Graph(E) == Built(4, <<>>, SetToSeq({N(e[1], e[2], e[3]) : e \in E}), {3})
MCGraphs ==
    {Searched(Graph(E)) : E \in {F \in SUBSET {<<0, 1, 1>>, <<0, 1, 2>>, <<1, 0, 2>>, <<2, 1, 1>>, <<1, 1, 3>>,
                                     <<2, 0, 3>>, <<3, 1, 0>>, <<1, 1, 1>>} : Cardinality(F) <= 5}}
S1(R) == [rules |-> R, vars |-> {1, 2, 3}, terms |-> {11, 12}, start |-> 1, varTerminals |-> 0]
MCGrammars ==
    {S1({<<1, s>>, <<1, t>>, <<2, u>>, <<3, w>>}) :
       s \in {<<11, 1, 12>>, <<2, 3>>, <<2, 1, 2>>}, t \in {<<>>, <<2>>},
       u \in {<<12>>, <<3, 11>>}, w \in {<<>>, <<11, 2>>, <<1>>}}
Nothing == [p |-> NewAutomaton, n |-> NewAutomaton, g |-> S1({}), symbols |-> 0,
            partition |-> FALSE, label |-> FALSE]
MCInputs ==
    [intersect |-> {[Nothing EXCEPT !.p = Counting, !.n = n] : n \in MCNFAs},
     toPDA |-> {[Nothing EXCEPT !.g = q] : q \in MCGrammars \cup {S1({})}},
     toCFG |-> {[Nothing EXCEPT !.p = p, !.symbols = 4] : p \in MCPDAs},
     stack |-> {[Nothing EXCEPT !.g = q, !.partition = b, !.label = b] : q \in MCGrammars, b \in BOOLEAN}]

-----------------------------------------------------------------------------
ToolsInit ==
    /\ who \in {"tools", "dominators"}
    /\ who # "tools" => job = "toPDA" /\ input = Nothing
    /\ Init
    /\ who # "dominators" => graph = Searched(Graph({}))
    /\ DomInit

ToolsNext ==
    /\ UNCHANGED who
    /\ \/ who = "tools" /\ Next /\ UNCHANGED domVars
       \/ who = "dominators" /\ DomNext /\ UNCHANGED vars

ToolsSpec == ToolsInit /\ [][ToolsNext]_<<who, vars, domVars>>
=============================================================================
