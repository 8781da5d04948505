-------------------------- MODULE Transformations --------------------------
(* The grammar transformations of grail/include/algorithm.  A grammar is a  *)
(* set of rules, as in Grammar: a search that edits the grammar under way   *)
(* owes the matching rules it started with and may yield those added since. *)
(* A transformation is a list of passes; a step of a pass treats one result *)
(* of its search, and leaves the loops inside that nobody can observe to    *)
(* operators.                                                               *)
EXTENDS Naturals, SequencesExt, FiniteSetsExt, Languages

CONSTANTS
    Terminals,
    MaxVar,    \* bound: variable_map holds the ids 1 .. MaxVar
    MaxTails,  \* bound, MaxTails[t]: how often one search finds what it just added
    Tools,     \* the transformations to run
    Inputs     \* Inputs[t]: the grammars t is given, [vars, rules]

VARIABLES
    tool, todo,  \* the transformation, and its passes to come
    rules, variables, start,
    unused,      \* unused_variables, the chain of ids to use again
    owed, may,   \* what the search of the pass must, and may, still yield
    again,       \* "updated"
    memo,        \* the map or set a pass fills
    loop,        \* A_i and A_j of CFG_REMOVE_LR, and whether it searches
    input        \* history: the grammar that is transformed

grammar == <<rules, variables, start, unused>>
vars == <<tool, todo, grammar, owed, may, again, memo, loop, input>>

-----------------------------------------------------------------------------
(* Grammars *)

IsVar(x) == x \notin Terminals
On(R, v) == {r \in R : r[1] = v}
Symbols(r) == ToSet(r[2])
Using(R, v) == {r \in R : v \in Symbols(r)}
Rhs(R, v) == {r[2] : r \in On(R, v)}

\* The ids add_variable returns for the next n variables.
Fresh(n) ==
    LET k == Len(unused)
        high == IF variables \cup ToSet(unused) = {} THEN 0
                ELSE Max(variables \cup ToSet(unused))
    IN  [i \in 1 .. n |-> IF i <= k THEN unused[i] ELSE high + i - k]
Take(n) ==
    /\ \A i \in 1 .. n : Fresh(n)[i] <= MaxVar
    /\ variables' = variables \cup ToSet(Fresh(n))
    /\ unused' = SubSeq(unused, n + 1, Len(unused))

\* search(~V) starts at the variable of first_production.
FirstVar(R) == IF R = {} THEN 1 ELSE Min({r[1] : r \in R})
Listed(R, V) == {v \in V : v >= FirstVar(R)}

RECURSIVE Emptied(_, _)
Emptied(R, W) ==
    LET rest == {r \in R : r[1] \notin W /\ Symbols(r) \cap W = {}}
        lost == {r[1] : r \in UNION {Using(R, w) : w \in W}} \ {r[1] : r \in rest}
    IN  IF lost \subseteq W THEN rest ELSE Emptied(R, W \cup lost)
\* A mutant of Without: the uses of the variable stay.
WithoutRules(R, v) == R \ On(R, v)
\* remove_variable: the rules of v and those that use it go, and with them
\* the rules that use a variable that loses its last rule that way.
Without(R, v) == Emptied(R, {v})

RECURSIVE Reach(_, _)
Reach(R, V) ==
    LET W == V \cup {x \in UNION {Symbols(r) : r \in {q \in R : q[1] \in V}} : IsVar(x)}
    IN  IF W = V THEN V ELSE Reach(R, W)

-----------------------------------------------------------------------------
(* What one result of a search does to the rules *)

\* sub_epsilon_combinations: the string without some of the uses of A.
Shortened(s, A) ==
    LET uses == {i \in 1 .. Len(s) : s[i] = A}
        keep(D) == FoldLeftDomain(LAMBDA t, i : IF i \in D THEN t ELSE Append(t, s[i]), <<>>, s)
    IN  {keep(D) : D \in (SUBSET uses) \ {{}}}
\* A mutant of SubEpsilon: all the uses go at once.
SubEpsilonAll(R, A, ignore) ==
    {<<r[1], SelectSeq(r[2], LAMBDA x : x # A)>> : r \in Using(R, A)} \ {<<A, <<>>>>, <<A, <<A>>>>}
SubEpsilon(R, A, ignore) ==
    {q \in UNION {{<<r[1], t>> : t \in Shortened(r[2], A)} : r \in Using(R, A)} :
        q[2] # <<q[1]>> /\ (q[2] = <<>> => q[1] \notin ignore)}

\* CFG_TO_2CFG: the new variables f spell the string from its end.
Split(r, f) ==
    LET s == r[2]  n == Len(s)
    IN  {<<f[1], <<s[n - 1], s[n]>>>>, <<r[1], <<s[1], f[n - 2]>>>>}
        \cup {<<f[k], <<s[n - k], f[k - 1]>>>> : k \in 2 .. n - 2}

\* remove_direct_left_recursion.  The search over the rules of A may find
\* what it has just added for one of them, m[b] times for the rule A -> b.
Recursive(R, A) == {s \in Rhs(R, A) : s # <<>> /\ s[1] = A}
Tails(t, n) == [i \in 1 .. n |-> t]
Direct(R, A, t, m) ==
    LET alphas == {Tail(s) : s \in Recursive(R, A)} \ {<<>>}
        betas == DOMAIN m
    IN  (R \ {<<A, <<A>> \o s>> : s \in alphas})
        \cup {<<t, <<>>>>} \cup {<<t, Append(s, t)>> : s \in alphas}
        \cup UNION {{<<A, b \o Tails(t, n)>> : n \in 1 .. m[b]} : b \in betas}
Repeats(R, A) ==
    LET betas == {s \in Rhs(R, A) : s # <<>> /\ s[1] # A}
        n == Cardinality(Recursive(R, A) \ {<<A>>})
    IN  IF n = 0 THEN {[b \in {} |-> 0]} ELSE [betas -> n .. n + MaxTails[tool]]

-----------------------------------------------------------------------------
(* Passes *)

Epsilon == <<"loops", "start", "epsilon", "unreachable", "empty">>
CNF == <<"start", "long">> \o Epsilon \o <<"units", "pairs">>
LR == <<"start", "units">> \o Epsilon \o <<"recursion">>
GNF == CNF \o LR \o <<"long">> \o Epsilon \o <<"greibach">>
Passes ==
    [removeEpsilon |-> Epsilon, removeUnits |-> <<"units">>,
     removeUseless |-> <<"unreachable", "empty">>, removeLoops |-> <<"loops">>,
     to2CFG |-> <<"long">>, toCNF |-> CNF, removeLR |-> LR,
     toGNF |-> GNF]

Matching(p, R) ==
    CASE p = "loops" -> {r \in R : r[2] = <<r[1]>>}
      [] p = "epsilon" -> {r \in R : r[2] = <<>>}
      [] p = "long" -> {r \in R : Len(r[2]) >= 3}
      [] p = "units" -> {r \in R : Len(r[2]) = 1 /\ IsVar(r[2][1])}
      [] p = "pairs" -> {r \in R : Len(r[2]) = 2}
      [] p = "greibach" -> {r \in R : r[2] # <<>> /\ IsVar(r[2][1])}
      [] OTHER -> {}

In(p) == todo # <<>> /\ Head(todo) = p
\* The search of pass p begins: over rules, or over variables.
Starting(p) ==
    /\ owed' = IF p \in {"unreachable", "empty"}
               THEN Listed(rules', variables') ELSE Matching(p, rules')
    /\ may' = {}
Enter(p) ==
    /\ Starting(p)
    /\ again' = FALSE
    /\ memo' = CASE p = "unreachable" -> Reach(rules', {start'})
                 [] OTHER -> {}
    /\ loop' = [i |-> 0, j |-> 0, open |-> FALSE]
NextPass ==
    /\ todo' = Tail(todo)
    /\ Enter(IF Len(todo) > 1 THEN todo[2] ELSE "done")

\* The result r of the search is treated, and the rules become R.
Edit(r, R) ==
    /\ rules' = R
    /\ owed' = (owed \ {r}) \cap R
    /\ may' = ((may \ {r}) \cap R)
              \cup (Matching(Head(todo), R) \ (rules \ {r}))
    /\ UNCHANGED <<tool, todo, start, loop, input>>
Old == UNCHANGED <<variables, unused>>

Init ==
    /\ tool \in Tools
    /\ input \in Inputs[tool]
    /\ rules = input.rules /\ variables = input.vars /\ start = Min(input.vars)
    /\ unused = <<>>
    /\ todo = <<"begin">> \o Passes[tool]
    /\ owed = {} /\ may = {} /\ again = FALSE /\ memo = {}
    /\ loop = [i |-> 0, j |-> 0, open |-> FALSE]

\* CFG_TO_CNF returns at once when there are no productions.
Begin ==
    /\ In("begin")
    /\ UNCHANGED <<grammar, tool, input>>
    /\ NextPass

\* A search is over; the passes that rewind it do so while it changed things.
Over ==
    /\ todo # <<>> /\ Head(todo) \notin {"begin", "start", "recursion"}
    /\ owed = {}
    /\ UNCHANGED <<grammar, tool, input>>
    /\ IF again THEN Starting(Head(todo)) /\ again' = FALSE /\ UNCHANGED <<todo, memo, loop>>
       ELSE NextPass

\* CFG_REMOVE_DIRECT_LOOPS
RemoveLoop(r) == In("loops") /\ Edit(r, rules \ {r}) /\ Old /\ UNCHANGED <<again, memo>>

\* A new start variable, over the old one.  A start variable that was removed
\* may be the id that add_variable hands out.
NewStart ==
    /\ In("start")
    /\ Take(1)
    /\ start' = Fresh(1)[1]
    /\ rules' = rules \cup {<<Fresh(1)[1], <<start>>>>}
    /\ NextPass
    /\ UNCHANGED <<tool, input>>

\* A mutant of KeepEpsilon: the kept rule counts as a change.
KeepEpsilonAgain(r) ==
    /\ In("epsilon") /\ r[1] = start
    /\ Edit(r, rules)
    /\ again' = TRUE
    /\ Old /\ UNCHANGED memo
\* CFG_REMOVE_EPSILON: "accept null in the start variable"
KeepEpsilon(r) ==
    /\ In("epsilon") /\ r[1] = start
    /\ Edit(r, rules)
    /\ Old /\ UNCHANGED <<again, memo>>
RemoveEpsilon(r) ==
    LET ignore == memo \cup {r[1]}
        new == SubEpsilon(rules \ {r}, r[1], ignore)
    IN  /\ In("epsilon") /\ r[1] # start
        /\ Edit(r, (rules \ {r}) \cup new)
        /\ memo' = ignore
        /\ again' = (again \/ \E q \in new : q[2] = <<>>)
        /\ Old

\* CFG_REMOVE_USELESS, one variable of search(~V).
RemoveUseless ==
    LET v == Min(owed)
        useless == IF Head(todo) = "unreachable" THEN v \notin memo ELSE On(rules, v) = {}
    IN  /\ In("unreachable") \/ In("empty")
        /\ owed # {}
        /\ owed' = owed \ {v}
        /\ IF useless THEN /\ rules' = Without(rules, v)
                           /\ variables' = variables \ {v}
                           /\ unused' = <<v>> \o unused
           ELSE UNCHANGED <<rules, variables, unused>>
        /\ UNCHANGED <<tool, todo, start, may, again, memo, loop, input>>

\* A mutant of RemoveUnit: the search is not repeated.
RemoveUnitOnce(r) ==
    LET new == {<<r[1], s>> : s \in Rhs(rules \ {r}, r[2][1]) \ {<<r[1]>>}}
    IN  /\ In("units")
        /\ Edit(r, (rules \ {r}) \cup new)
        /\ Old /\ UNCHANGED <<again, memo>>
\* CFG_REMOVE_UNITS
RemoveUnit(r) ==
    LET A == r[1]  B == r[2][1]
        new == {<<A, s>> : s \in Rhs(rules \ {r}, B) \ {<<A>>}}
        fresh == A # B /\ <<A, B>> \notin memo
    IN  /\ In("units")
        /\ Edit(r, (rules \ {r}) \cup IF fresh THEN new ELSE {})
        /\ memo' = IF fresh THEN memo \cup {<<A, B>>} ELSE memo
        /\ again' = (again \/ fresh)
        /\ Old

\* CFG_TO_2CFG
SplitLong(r) ==
    LET n == Len(r[2]) - 2
    IN  /\ In("long")
        /\ Take(n)
        /\ Edit(r, (rules \ {r}) \cup Split(r, Fresh(n)))
        /\ UNCHANGED <<again, memo>>

\* clean_up_terminals.  What comes before it in CFG_TO_CNF::run, a search
\* for the rules A -> T, looks for the null T was constructed with and finds
\* nothing: terminal_rules starts out empty, and so does vars_to_replace.
ReplaceTerminals(r) ==
    LET new == SetToSeq({x \in Symbols(r) : ~ IsVar(x) /\ ~ \E p \in memo : p[1] = x})
        first == IF Len(new) = 2 THEN <<r[2][1], r[2][2]>> ELSE new
        map == memo \cup {<<first[k], Fresh(Len(new))[k]>> : k \in 1 .. Len(new)}
        Var(x) == IF IsVar(x) THEN x ELSE (CHOOSE p \in map : p[1] = x)[2]
    IN  /\ In("pairs")
        /\ Take(Len(new))
        /\ Edit(r, IF \A x \in Symbols(r) : IsVar(x) THEN rules
                   ELSE (rules \ {r}) \cup {<<r[1], <<Var(r[2][1]), Var(r[2][2])>>>>}
                        \cup {<<p[2], <<p[1]>>>> : p \in map \ memo})
        /\ memo' = map
        /\ UNCHANGED again

\* The rest of CFG_TO_GNF
SubstituteFirst(r) ==
    LET new == {<<r[1], s \o Tail(r[2])>> : s \in Rhs(rules \ {r}, r[2][1])}
    IN  /\ In("greibach")
        /\ r[1] # r[2][1]  \* assert(A != B)
        /\ Edit(r, (rules \ {r}) \cup new)
        /\ again' = (again \/ \E q \in new : q[2] # <<>> /\ IsVar(q[2][1]))
        /\ Old /\ UNCHANGED memo

\* CFG_REMOVE_LR: remove_direct_left_recursion(cfg, A)
Straighten(R, A) ==
    LET n == IF Recursive(R, A) = {} THEN 0 ELSE 1
    IN  /\ Take(n)
        /\ \E m \in Repeats(R, A) :
              rules' = IF n = 0 THEN R ELSE Direct(R, A, Fresh(1)[1], m)
\* The results left of the search of A_j, which was rewound before the step to
\* A_i and starts at the variable of first_production.
Inners == {j \in variables : /\ loop.j < j /\ j < loop.i
                             /\ loop.j = 0 => j >= FirstVar(rules)}
\* the loop over A_i
NextOuter ==
    LET later == {v \in variables : v > loop.i /\ (loop.i = 0 => v >= FirstVar(rules))}
        v == Min(later)
        first == IF loop.i = 0 THEN 0 ELSE FirstVar(rules) - 1
    IN  /\ In("recursion") /\ ~ loop.open /\ Inners = {}
        /\ IF later = {} THEN UNCHANGED grammar /\ NextPass
           ELSE /\ Straighten(rules, v)
                /\ loop' = [i |-> v, j |-> first, open |-> FALSE]
                /\ UNCHANGED <<todo, start, owed, may, again, memo>>
        /\ UNCHANGED <<tool, input>>
\* the loop over A_j, and its search for A_i -> A_j gamma
Led(R, i, j) == {r \in R : r[1] = i /\ r[2] # <<>> /\ r[2][1] = j}
NextInner ==
    /\ In("recursion") /\ ~ loop.open /\ Inners # {}
    /\ loop' = [loop EXCEPT !.j = Min(Inners), !.open = TRUE]
    /\ owed' = Led(rules, loop.i, Min(Inners)) /\ may' = {} /\ again' = FALSE
    /\ UNCHANGED <<grammar, tool, todo, memo, input>>
Expand(r) ==
    LET new == {<<loop.i, d \o Tail(r[2])>> : d \in Rhs(rules, loop.j)}
        R == (rules \cup new) \ {r}
    IN  /\ In("recursion") /\ loop.open
        /\ rules' = R
        /\ owed' = (owed \ {r}) \cap R
        /\ may' = ((may \ {r}) \cap R) \cup Led(R \ rules, loop.i, loop.j)
        /\ again' = (again \/ \E q \in new : q[2] # <<>> /\ q[2][1] = loop.i)
        /\ Old /\ UNCHANGED <<tool, todo, start, memo, loop, input>>
CloseInner ==
    /\ In("recursion") /\ loop.open /\ owed = {}
    /\ IF again THEN Straighten(rules, loop.i) ELSE UNCHANGED <<rules, variables, unused>>
    /\ loop' = [loop EXCEPT !.open = FALSE]
    /\ UNCHANGED <<tool, todo, start, owed, may, again, memo, input>>

Done == todo = <<>> /\ UNCHANGED vars

Next ==
    \/ Begin \/ Over \/ NewStart \/ RemoveUseless
    \/ \E r \in owed \cup may :
          \/ RemoveLoop(r) \/ KeepEpsilon(r) \/ RemoveEpsilon(r) \/ RemoveUnit(r)
          \/ SplitLong(r) \/ ReplaceTerminals(r) \/ SubstituteFirst(r) \/ Expand(r)
    \/ NextOuter \/ NextInner \/ CloseInner
    \/ Done

Spec == Init /\ [][Next]_vars /\ WF_vars(Next)
-----------------------------------------------------------------------------
(* What the transformations promise *)

WordLen == 3  \* bound: languages are compared up to words of this length

\* A grammar that was transformed derives the words the one that was read
\* derived: no pass loses or invents a word, whatever rules its search finds.
LanguageKept ==
    todo = <<>> => Language(rules, Terminals, start, WordLen)
                     = Language(input.rules, Terminals, Min(input.vars), WordLen)

\* The start variable, and every variable of a rule, is in the grammar: no
\* removal leaves a use behind (remove_variable, unsafe_remove_variable).
NothingDangles ==
    /\ start \in variables \/ Language(rules, Terminals, start, WordLen) = {}
    /\ \A r \in rules : \A x \in {r[1]} \cup Symbols(r) : IsVar(x) => x \in variables

LeftCalls(R) == {<<r[1], r[2][1]>> : r \in {q \in R : q[2] # <<>> /\ IsVar(q[2][1])}}
NoEpsilon == \A r \in rules : r[2] = <<>> => r[1] = start
NoUnits == \A r \in rules : Len(r[2]) = 1 => ~ IsVar(r[2][1])
Chomsky ==
    /\ NoEpsilon /\ NoUnits
    /\ \A r \in rules : /\ Len(r[2]) <= 2
                        /\ Len(r[2]) = 2 => \A x \in Symbols(r) : IsVar(x) /\ x # start
Greibach ==
    /\ NoEpsilon
    /\ \A r \in rules : r[2] = <<>> \/ /\ ~ IsVar(r[2][1])
                                       /\ \A x \in ToSet(Tail(r[2])) : IsVar(x)
RECURSIVE Cyclic(_)
Cyclic(E) ==
    LET inner == {e \in E : (\E d \in E : d[1] = e[2]) /\ (\E d \in E : d[2] = e[1])}
    IN  IF inner = E THEN E # {} ELSE Cyclic(inner)

\* CFG_REMOVE_USELESS reaches less than its comment says, which is that no variable
\* is left that generates nothing: what a rule uses has a rule, and what had rules
\* and is left was reachable.
Useful ==
    /\ \A r \in rules : \A x \in Symbols(r) : IsVar(x) => On(rules, x) # {}
    /\ \A v \in variables : On(input.rules, v) # {} => v \in Reach(input.rules, {Min(input.vars)})

\* Each transformation ends with the form it is named for, removeUseless with the
\* one that Useful states.
FormReached ==
    todo = <<>> =>
        CASE tool = "removeEpsilon" -> NoEpsilon
          [] tool = "removeUnits" -> NoUnits
          [] tool = "removeLoops" -> \A r \in rules : r[2] # <<r[1]>>
          [] tool = "to2CFG" -> \A r \in rules : Len(r[2]) <= 2
          [] tool = "toCNF" -> Chomsky
          [] tool = "removeLR" -> (\E r \in input.rules : r[2] = <<>>) \/ ~ Cyclic(LeftCalls(rules))
          [] tool = "toGNF" -> Greibach
          [] tool = "removeUseless" -> Useful

\* Every transformation ends, in whatever order its searches find the rules:
\* no two passes or rewinds undo each other's work for ever.
Ends == <>(todo = <<>>)
=============================================================================
