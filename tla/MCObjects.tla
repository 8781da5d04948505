------------------------------ MODULE MCObjects ------------------------------
(***************************************************************************)
(* The smaller objects of the library: the names of a grammar, the strings    *)
(* that share arrays, patterns, and the store and the patterns of TDOP         *)
(* grammars.  Each behaviour is one of the five at work; the others stay at     *)
(* one initial state.                                                        *)
(***************************************************************************)
EXTENDS Names, Strings, TDOPStore, TDOPPatterns

VARIABLE who  \* the module at work

-----------------------------------------------------------------------------
(* Names: -1 is a name that is no number.                                       *)

MCReadNames == {-1, 2, 9}

-----------------------------------------------------------------------------
(* Patterns of up to three parts, any of which may be bound twice; a part that   *)
(* takes any string has no overload of + for another one.                      *)

Part(k, x) == [kind |-> k, name |-> x]
MCParts == {Part("symbol", "a"), Part("~symbol", "a"), Part("~variable", "b"), Part("~terminal", "a"),
            Part("any", "a"), Part("string", "u"), Part("~string", "u"), Part("~string", "w"),
            Part("any*", "u"), Part("^n", "n")}
MCHeads == {Part("variable", "b"), Part("~variable", "b"), Part("any", "b")}
MCPatternChoices ==
    {[head |-> h.kind, name |-> h.name, parts |-> ps] :
        h \in MCHeads,
        ps \in {qs \in UNION {[1 .. n -> MCParts] : n \in 1 .. 3} :
                  \A k \in 2 .. Len(qs) : ~ (Variadic(qs[k - 1]) /\ Variadic(qs[k]))}}
Holding(a, b, u, w, n) == ("a" :> a) @@ ("b" :> b) @@ ("u" :> u) @@ ("w" :> w) @@ ("n" :> n)
MCBindings == {Holding("x", "A", <<"x">>, <<>>, 1), Holding("A", "A", <<>>, <<"x">>, 0)}
MCBodies == {<<>>, <<"x">>, <<"A", "x">>, <<"x", "x">>, <<"A">>, <<"x", "A", "x">>, <<"A", "A", "x">>}

-----------------------------------------------------------------------------
(* TDOP: an initial rule, an extension rule of two operators, and one with a     *)
(* greater bound.                                                              *)

MCRuleChoices == {[ub |-> -1, str |-> <<<<1, -2>>>>],
                  [ub |-> 0,  str |-> <<<<1, -2>>, <<-1, -1>>>>],
                  [ub |-> 1,  str |-> <<<<1, -2>>>>]}
MCWanted == {[cat |-> 0, sort |-> "categories"], [cat |-> 0, sort |-> "any"],
             [cat |-> 1, sort |-> "extension"]}

TdopPart(k, x, b) == [kind |-> k, name |-> x, bound |-> b]
MCLasts ==
    {TdopPart("cat", "c", "_"), TdopPart("cat[n]", "c", "n"), TdopPart("op", "o", "_"),
     TdopPart("_", "_", "_"), TdopPart("~cat", "d", "_"), TdopPart("~sym", "s", "_"),
     TdopPart("*~sym", "s", "_"), TdopPart("~term", "s", "_"), TdopPart("~op", "o", "_"),
     TdopPart("~ops", "w", "_"), TdopPart("__", "_", "_"), TdopPart("__n", "m", "_")}
MCFronts == (MCLasts \ {TdopPart("~ops", "w", "_")})
              \cup {TdopPart("sym", "s", "_"), TdopPart("term", "c", "_")}
MCTdopHeads ==
    {TdopPart("cat", "c", "_"), TdopPart("~cat", "c", "_"), TdopPart("_", "_", "_"),
     TdopPart("cat[n]", "c", "u"), TdopPart("~cat[n]", "c", "u")}
MCTdopPatterns ==
    {[head |-> h.kind, name |-> h.name, bound |-> h.bound, parts |-> front \o <<l>>] :
        h \in MCTdopHeads, front \in {<<>>} \cup {<<p>> : p \in MCFronts}, l \in MCLasts}
Op(t, l) == [term |-> t, lb |-> l]
MCTdopBindings ==
    {("c" :> "E") @@ ("d" :> "T") @@ ("s" :> "x") @@ ("n" :> 5) @@ ("u" :> 5) @@ ("m" :> 1)
       @@ ("w" :> <<Op("y", -1)>>) @@ ("o" :> Op("E", 0))}
MCOperators == {Op("E", -2), Op("E", 0), Op("x", -1), Op("x", -3)}
MCTdopRules == [cat : {"E", "T"}, ub : {-1, 1}, str : {<<p>> : p \in MCOperators} \cup [1 .. 2 -> MCOperators]]

-----------------------------------------------------------------------------
ObjectInit ==
    /\ who \in {"names", "strings", "patterns", "rules", "rule patterns"}
    /\ NamesInit /\ StringsInit
    /\ who # "patterns" => /\ pattern = CHOOSE p \in PatternChoices : Len(p.parts) = 1
                           /\ objects = CHOOSE o \in Bindings : TRUE
    /\ PatternInit
    /\ who # "rules" => want = CHOOSE w \in Wanted : TRUE
    /\ TdopInit
    /\ who # "rule patterns" => /\ rulePattern = CHOOSE p \in TdopPatterns : Len(p.parts) = 1
                                /\ slots = CHOOSE o \in TdopBindings : TRUE
    /\ TdopPatternInit

ObjectNext ==
    /\ UNCHANGED who
    /\ \/ /\ who = "names" /\ NamesNext
          /\ UNCHANGED <<stringVars, patternVars, tdopVars, rulePatternVars>>
       \/ /\ who = "strings" /\ StringsNext
          /\ UNCHANGED <<nameVars, patternVars, tdopVars, rulePatternVars>>
       \/ /\ who = "patterns" /\ PatternNext
          /\ UNCHANGED <<nameVars, stringVars, tdopVars, rulePatternVars>>
       \/ /\ who = "rules" /\ TdopNext
          /\ UNCHANGED <<nameVars, stringVars, patternVars, rulePatternVars>>
       \/ /\ who = "rule patterns" /\ TdopPatternNext
          /\ UNCHANGED <<nameVars, stringVars, patternVars, tdopVars>>

ObjectSpec ==
    ObjectInit /\ [][ObjectNext]_<<who, nameVars, stringVars, patternVars, tdopVars, rulePatternVars>>
=============================================================================
