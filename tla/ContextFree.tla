---------------------------- MODULE ContextFree ----------------------------
(***************************************************************************)
(* What the null, first and follow sets of a context-free grammar are: the   *)
(* least sets closed under the rules.  Nothing here is code; the             *)
(* definitions are what the loops of FixedPoints are compared with.          *)
(* A grammar is a set of rules <<variable, sequence of symbols>>.            *)
(***************************************************************************)
EXTENDS Integers, Sequences

CONSTANTS
    Variables,  \* ids, counted from 1
    Terminals

ASSUME SymbolsAssumption ==
    /\ Variables \subseteq Nat \ {0}
    /\ Variables \cap Terminals = {}

Symbols == Variables \cup Terminals
Rules == Variables \X Seq(Symbols)
SetsOf(values) == [Variables -> SUBSET values]

\* S contains every variable with a right hand side that is all in S.
NullClosed(G, S) ==
    \A r \in G : (\A i \in DOMAIN r[2] : r[2][i] \in S) => r[1] \in S

\* The variables that derive the empty string.
Null(G) ==
    {v \in Variables : \A S \in SUBSET Variables : NullClosed(G, S) => v \in S}

\* What a symbol begins with, if the variables begin with what F says.
Begin(F, x) == IF x \in Variables THEN F[x] ELSE {x}

\* What stands in a right hand side behind symbols of N only, begins it.
FirstClosed(G, N, F) ==
    \A r \in G : \A i \in DOMAIN r[2] :
        (\A j \in DOMAIN r[2] : j < i => r[2][j] \in N)
            => Begin(F, r[2][i]) \subseteq F[r[1]]

\* The terminals that a string derived from v may begin with.
First(G) ==
    LET N == Null(G)
        closed == {F \in SetsOf(Terminals) : FirstClosed(G, N, F)}
    IN  [v \in Variables |-> {t \in Terminals : \A F \in closed : t \in F[v]}]

\* What stands behind position i of a right hand side may come after it, up to
\* the first symbol that is not in N; if all of it is in N, so may what comes
\* after the variable of the rule.
FollowClosed(G, N, Firsts, F) ==
    \A r \in G : \A i \in {i \in DOMAIN r[2] : r[2][i] \in Variables} :
        LET gap(n) == \A j \in DOMAIN r[2] : i < j /\ j < n => r[2][j] \in N
        IN  /\ \A n \in DOMAIN r[2] :
                    i < n /\ gap(n) => Begin(Firsts, r[2][n]) \subseteq F[r[2][i]]
            /\ gap(Len(r[2]) + 1) => F[r[1]] \subseteq F[r[2][i]]

\* The terminals that may come after v.
Follow(G) ==
    LET N == Null(G)
        Firsts == First(G)
        closed == {F \in SetsOf(Terminals) : FollowClosed(G, N, Firsts, F)}
    IN  [v \in Variables |-> {t \in Terminals : \A F \in closed : t \in F[v]}]
=============================================================================
