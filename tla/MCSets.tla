------------------------------- MODULE MCSets -------------------------------
(***************************************************************************)
(* Small grammars for FixedPoints: three variables, two terminals, and right  *)
(* hand sides that make chains, cycles, nullable prefixes and recursion.     *)
(***************************************************************************)
EXTENDS LL1, FiniteSetsExt

CONSTANTS a, b

MCVariables == {1, 2, 3}
MCTerminals == {a, b}

MCStrings == {<<>>, <<a>>, <<2>>, <<3, b>>, <<2, 3>>, <<1, 2, a>>}

AllRules == MCVariables \X MCStrings

\* What the readers of grammars make: every variable has a production.
AsRead(most) ==
    {G \in UNION {kSubset(n, AllRules) : n \in 3..most} :
        \A v \in MCVariables : \E r \in G : r[1] = v}
ReadGrammars == AsRead(4)

=============================================================================
