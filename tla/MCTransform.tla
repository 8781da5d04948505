---------------------------- MODULE MCTransform ----------------------------
(* Small grammars for Transformations: two variables, each with a rule.     *)
EXTENDS Transformations

CONSTANTS a, b

MCRhs == {<<>>, <<a>>, <<1>>, <<2>>, <<2, 1>>, <<2, 2>>, <<b, 2>>, <<2, a, 1>>}
MCRules == {Q \in UNION {kSubset(n, {1, 2} \X MCRhs) : n \in 2 .. 3} :
               {r[1] : r \in Q} = {1, 2}}
\* The conversion to Greibach Normal Form makes many rules of few: some
\* grammars that derive a word, with and without recursion on the left.
MCGreibach ==
    {Q \in MCRules : Cardinality(Q) = 2 /\ Language(Q, Terminals, 1, WordLen) # {}}
    \cup {{<<1, <<1, 2>>>>, <<1, <<a>>>>, <<2, <<b, 2>>>>}, {<<1, <<2, 1>>>>, <<1, <<>>>>, <<2, <<a>>>>}}
\* As a pass before it may leave them: a variable may have no rule.
MCUseless == UNION {kSubset(n, {1, 2} \X MCRhs) : n \in 1 .. 3}
MCTails == [t \in Tools |-> IF t = "removeLR" THEN 1 ELSE 0]
MCInputs ==
    [t \in Tools |->
       {[vars |-> {1, 2}, rules |-> R] :
          R \in CASE t = "toGNF" -> MCGreibach
                 [] t = "removeUseless" -> MCUseless
                 [] OTHER -> MCRules}]
\* Three variables, of which one derives nothing and goes away with the start.
MCStartInputs ==
    [t \in Tools |->
       {[vars |-> 1 .. 3, rules |-> {<<1, <<3, 2>>>>, <<2, <<2, a>>>>, <<2, <<b>>>>, <<3, <<3>>>>}]}]
=============================================================================
