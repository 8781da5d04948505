----------------------------- MODULE Languages -----------------------------
(* The words of bounded length that a grammar derives and that a pushdown   *)
(* automaton accepts.  Nothing here is code: the algorithms are compared    *)
(* with it.  A grammar is a set of rules <<variable, string>>; transitions  *)
(* are records [source, read, pop, push, sink] in which 0 is epsilon, and   *)
(* the letter of the input symbol r is written <<r>>.                       *)
EXTENDS Naturals, SequencesExt

\* What is reached from S along the edges E.
RECURSIVE ReachedFrom(_, _)
ReachedFrom(S, E) ==
    LET R == S \cup {e[2] : e \in {d \in E : d[1] \in S}}
    IN  IF R = S THEN S ELSE ReachedFrom(R, E)

\* The words of at most n terminals that the string s derives, if the
\* variables derive the words L.
Spelled(L, T, s, n) ==
    IF \E i \in DOMAIN s : s[i] \notin T /\ L[s[i]] = {} THEN {}
    ELSE FoldLeft(LAMBDA W, x : {w \in {u \o t : u \in W, t \in IF x \in T THEN {<<x>>} ELSE L[x]} :
                                   Len(w) <= n}, {<<>>}, s)
\* sides[v]: the right hand sides of v.
RECURSIVE Words(_, _, _, _)
Words(sides, T, L, n) ==
    LET M == [v \in DOMAIN L |-> L[v] \cup UNION {Spelled(L, T, s, n) : s \in sides[v]}]
    IN  IF M = L THEN L ELSE Words(sides, T, M, n)
Language(R, T, S, n) ==
    LET V == {S} \cup UNION {{r[1]} \cup (ToSet(r[2]) \ T) : r \in R}
        sides == [v \in V |-> {r[2] : r \in {q \in R : q[1] = v}}]
    IN  Words(sides, T, [v \in V |-> {}], n)[S]

-----------------------------------------------------------------------------
\* A transition that pops and pushes is a pop and a push, with a state between.
Mid(t) == <<t.source, t.read, t.pop, t.push, t.sink>>
Halves(t) ==
    LET move(q, r, p, u, z) == [source |-> q, read |-> r, pop |-> p, push |-> u, sink |-> z]
    IN  IF t.pop # 0 /\ t.push # 0
        THEN {move(<<t.source>>, t.read, t.pop, 0, Mid(t)), move(Mid(t), 0, 0, t.push, <<t.sink>>)}
        ELSE {move(<<t.source>>, t.read, t.pop, t.push, <<t.sink>>)}
Letter(r) == IF r = 0 THEN <<>> ELSE <<<<r>>>>

\* <<p, w, q>>: the word w leads from p to q, with the stack as high at the end
\* as at the start and never lower between.
Joined(X, Y, n) ==
    {<<y[1][1], y[1][2] \o y[2][2], y[2][3]>> :
       y \in {z \in X \X Y : z[1][3] = z[2][1] /\ Len(z[1][2]) + Len(z[2][2]) <= n}}
Wrapped(H, X, n) ==
    UNION {{<<h.source, Letter(h.read) \o y[2] \o Letter(k.read), k.sink>> :
              k \in {k \in H : k.pop = h.push /\ k.source = y[3]}} :
           <<h, y>> \in {z \in {h \in H : h.pop = 0 /\ h.push # 0} \X X : z[1].sink = z[2][1]}}
RECURSIVE Balanced(_, _, _, _)
Balanced(H, B, F, n) ==
    LET more == {y \in Wrapped(H, F, n) \cup Joined(F, B, n) \cup Joined(B, F, n) : Len(y[2]) <= n} \ B
    IN  IF more = {} THEN B ELSE Balanced(H, B \cup more, more, n)

\* What the words lead to from where R got, whatever is on the stack.
RECURSIVE Extended(_, _, _)
Extended(R, B, n) ==
    LET S == R \cup Joined(R, B, n)
    IN  IF S = R THEN R ELSE Extended(S, B, n)

\* The words of at most n letters that the automaton accepts from q.
Accepted(T, accept, q, n) ==
    LET H == UNION {Halves(t) : t \in T}
        Q == {h.source : h \in H} \cup {h.sink : h \in H} \cup {<<q>>}
        still == {<<p, <<>>, p>> : p \in Q}
        flat == still \cup {<<h.source, Letter(h.read), h.sink>> : h \in {k \in H : k.pop = 0 /\ k.push = 0}}
        up == {<<h.source, Letter(h.read), h.sink>> : h \in {k \in H : k.pop = 0}}
        R == Extended({<<<<q>>, <<>>, <<q>>>>}, Balanced(H, flat, flat, n) \cup up, n)
    IN  {y[2] : y \in {z \in R : \E p \in accept : z[3] = <<p>>}}
=============================================================================
