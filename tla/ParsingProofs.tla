--------------------------- MODULE ParsingProofs ---------------------------
(***************************************************************************)
(* What the parts that parse compute is right.  The null and first sets that   *)
(* the loops compute are the right ones, for every grammar and every order of  *)
(* enumeration, and so is the table that cfg-to-ll1 makes of them.  Earley     *)
(* accepts what the grammar derives, and nothing else.                        *)
(***************************************************************************)
EXTENDS LL1, Earley, TLAPS

-----------------------------------------------------------------------------
(* The null and first sets, and the LL(1) table *)


\* What a pass over the productions has established as long as it has changed
\* nothing: the set is closed under the productions it has visited.
NullPass ==
    /\ pc = "null base" => todo \subseteq EpsilonRules
    /\ pc = "null" => todo \subseteq VariableLed
    /\ \A r \in EpsilonRules : (pc = "null base" /\ r \in todo) \/ r[1] \in nullable
    /\ pc = "null" /\ ~updated => NullClosed(VariableLed \ todo, nullable)

FirstPass ==
    /\ pc = "first base" => todo \subseteq TerminalLed
    /\ pc \in {"null base", "null", "first base"} => vars = {}
    /\ pc = "first" => /\ vars \subseteq Enumerated
                       /\ \A r \in todo : r \in VariableLed /\ r[1] = V
    /\ \A r \in TerminalLed : \/ pc \in {"null base", "null"}
                              \/ pc = "first base" /\ r \in todo
                              \/ r[2][1] \in first[r[1]]
    /\ pc = "first" /\ ~updated =>
           \A r \in VariableLed : r[1] \notin vars /\ r \notin todo
                                      => Found(r[2], first) \subseteq first[r[1]]

SetsInv == TypeOK /\ NullExact /\ FirstExact /\ NullPass /\ FirstPass

-----------------------------------------------------------------------------
(* The reference definitions: closed, and least.                           *)

\* A right hand side of nullable variables makes its variable nullable.
LEMMA NullSound ==
    ASSUME NEW G \in SUBSET Rules, NEW r \in G,
           \A i \in DOMAIN r[2] : r[2][i] \in Null(G)
    PROVE  r[1] \in Null(G)
<1>1. r[1] \in Variables
  BY DEF Rules
<1>2. ASSUME NEW S \in SUBSET Variables, NullClosed(G, S)
      PROVE  r[1] \in S
  <2>1. \A i \in DOMAIN r[2] : r[2][i] \in S
    BY <1>2 DEF Null
  <2> QED
    BY <1>2, <2>1 DEF NullClosed
<1> QED
  BY <1>1, <1>2 DEF Null

\* Null(G) is contained in every closed set.
LEMMA NullLeast ==
    ASSUME NEW G, NEW S \in SUBSET Variables, NullClosed(G, S)
    PROVE  Null(G) \subseteq S
BY DEF Null

\* First(G) is made of sets of terminals, namely of what all closed functions share.
LEMMA FirstType ==
    ASSUME NEW G
    PROVE  /\ First(G) \in SetsOf(Terminals)
           /\ \A v \in Variables, t \in Terminals :
                 t \in First(G)[v] <=> \A F \in SetsOf(Terminals) :
                                           FirstClosed(G, Null(G), F) => t \in F[v]
BY DEF First, SetsOf

\* What the scan of a right hand side collects from sets that are sound is
\* sound for the variable of the rule.
LEMMA FirstSound ==
    ASSUME NEW G \in SUBSET Rules, NEW r \in G,
           NEW F \in SetsOf(Terminals),
           \A v \in Variables : F[v] \subseteq First(G)[v],
           NEW i \in DOMAIN r[2],
           \A j \in DOMAIN r[2] : j < i => r[2][j] \in Null(G)
    PROVE  Begin(F, r[2][i]) \subseteq First(G)[r[1]]
<1>1. r[1] \in Variables /\ r[2] \in Seq(Symbols) /\ r[2][i] \in Symbols
  BY DEF Rules
<1>2. Begin(F, r[2][i]) \subseteq Terminals
  BY <1>1 DEF Begin, SetsOf, Symbols
<1>3. ASSUME NEW t \in Begin(F, r[2][i]), NEW E \in SetsOf(Terminals),
             FirstClosed(G, Null(G), E)
      PROVE  t \in E[r[1]]
  <2>1. Begin(E, r[2][i]) \subseteq E[r[1]]
    BY <1>3 DEF FirstClosed
  <2>2. t \in Begin(E, r[2][i])
    <3>1. CASE r[2][i] \in Variables
      <4>1. t \in First(G)[r[2][i]]
        BY <1>3, <3>1 DEF Begin
      <4> QED
        BY <1>2, <1>3, <3>1, <4>1, FirstType DEF Begin
    <3>2. CASE r[2][i] \notin Variables
      BY <1>3, <3>2 DEF Begin
    <3> QED
      BY <3>1, <3>2
  <2> QED
    BY <2>1, <2>2
<1> QED
  BY <1>1, <1>2, <1>3, FirstType

\* First(G) is contained in every closed function.
LEMMA FirstLeast ==
    ASSUME NEW G, NEW F \in SetsOf(Terminals), FirstClosed(G, Null(G), F)
    PROVE  \A v \in Variables : First(G)[v] \subseteq F[v]
BY FirstType DEF SetsOf

-----------------------------------------------------------------------------
(* The loops: one step per action.                                         *)

\* Before the first step nothing is marked, and the base case is still to come.
LEMMA InitIInv == Init => SetsInv
<1> SUFFICES ASSUME Init PROVE SetsInv
  OBVIOUS
<1>1. TypeOK
  BY GrammarsAssumption DEF Init, TypeOK, SetsOf, EpsilonRules
<1>2. NullExact /\ FirstExact
  BY DEF Init, NullExact, FirstExact, PastNull, PastFirst
<1>3. NullPass /\ FirstPass
  BY DEF Init, NullPass, FirstPass
<1> QED
  BY <1>1, <1>2, <1>3 DEF SetsInv

\* The parts of a rule of the grammar.
LEMMA RuleTypes ==
    ASSUME TypeOK, NEW r \in rules
    PROVE  /\ r[1] \in Variables
           /\ r[2] \in Seq(Symbols)
           /\ \A i \in DOMAIN r[2] : r[2][i] \in Symbols
<1>1. r[1] \in Variables /\ r[2] \in Seq(Symbols)
  BY DEF TypeOK, Rules
<1>2. ASSUME NEW s \in Seq(Symbols), NEW i \in DOMAIN s
      PROVE  s[i] \in Symbols
  OBVIOUS
<1> QED
  BY <1>1, <1>2

\* The base case of compute_null_set: a production of the empty string.
LEMMA BaseNullStep ==
    ASSUME SetsInv, NEW r \in todo, BaseNull(r)
    PROVE  SetsInv'
<1> USE DEF SetsInv
<1>1. r \in rules /\ r[1] \in Variables /\ r \in EpsilonRules
  BY RuleTypes DEF TypeOK, BaseNull, NullPass
<1>2. rules' = rules /\ EpsilonRules' = EpsilonRules /\ TerminalLed' = TerminalLed
  BY DEF BaseNull, EpsilonRules, TerminalLed
<1>3. TypeOK'
  BY <1>1 DEF TypeOK, BaseNull
<1>4. NullExact'
  <2>1. r[1] \in Null(rules)
    <3>1. rules \in SUBSET Rules
      BY DEF TypeOK
    <3>2. \A i \in DOMAIN r[2] : r[2][i] \in Null(rules)
      BY <1>1 DEF EpsilonRules
    <3> QED
      BY <1>1, <3>1, <3>2, NullSound
  <2> QED
    BY <2>1 DEF NullExact, PastNull, BaseNull
<1>5. FirstExact'
  BY DEF FirstExact, PastFirst, BaseNull
<1>6. NullPass'
  BY <1>2 DEF NullPass, BaseNull
<1>7. FirstPass'
  BY <1>2 DEF FirstPass, BaseNull
<1> QED
  BY <1>3, <1>4, <1>5, <1>6, <1>7

\* A pass of compute_null_set at one production.
LEMMA VisitNullStep ==
    ASSUME SetsInv, NEW r \in todo, VisitNull(r)
    PROVE  SetsInv'
<1> USE DEF SetsInv
<1>1. r \in rules /\ r[1] \in Variables
  BY RuleTypes DEF TypeOK
<1>2. /\ rules' = rules
      /\ EpsilonRules' = EpsilonRules
      /\ TerminalLed' = TerminalLed
      /\ VariableLed' = VariableLed
  BY DEF VisitNull, EpsilonRules, TerminalLed, VariableLed
<1>3. TypeOK'
  BY <1>1 DEF TypeOK, VisitNull
<1>4. NullExact'
  <2>1. ASSUME \A i \in DOMAIN r[2] : r[2][i] \in nullable
        PROVE  r[1] \in Null(rules)
    <3>1. rules \in SUBSET Rules
      BY DEF TypeOK
    <3>2. \A i \in DOMAIN r[2] : r[2][i] \in Null(rules)
      BY <2>1 DEF NullExact
    <3> QED
      BY <1>1, <3>1, <3>2, NullSound
  <2> QED
    BY <2>1 DEF NullExact, PastNull, VisitNull
<1>5. FirstExact'
  BY DEF FirstExact, PastFirst, VisitNull
<1>6. NullPass'
  <2>1. ASSUME updated' = FALSE
        PROVE  NullClosed(VariableLed \ todo', nullable')
    <3>1. /\ ~updated /\ nullable' = nullable
          /\ (\A i \in DOMAIN r[2] : r[2][i] \in nullable) => r[1] \in nullable
      BY <2>1 DEF VisitNull, TypeOK
    <3>2. NullClosed(VariableLed \ todo, nullable)
      BY <3>1 DEF NullPass, VisitNull
    <3>3. todo' = todo \ {r}
      BY DEF VisitNull
    <3> QED
      BY <3>1, <3>2, <3>3 DEF NullClosed
  <2>2. todo' \subseteq VariableLed
    BY DEF VisitNull, NullPass
  <2>3. \A q \in EpsilonRules : q[1] \in nullable'
    BY DEF VisitNull, NullPass
  <2>4. pc' = "null" /\ (updated' \/ updated' = FALSE)
    BY <1>3 DEF VisitNull, TypeOK
  <2> QED
    BY <1>2, <2>1, <2>2, <2>3, <2>4 DEF NullPass
<1>7. FirstPass'
  BY <1>2 DEF FirstPass, VisitNull
<1> QED
  BY <1>3, <1>4, <1>5, <1>6, <1>7

\* A last pass that found nothing leaves a set that is closed under all the
\* productions: those that start with a terminal have nothing to say.
LEMMA EndNullStep ==
    ASSUME SetsInv, EndNull
    PROVE  SetsInv'
<1> USE DEF SetsInv
<1>1. NullClosed(rules, nullable)
  <2> SUFFICES ASSUME NEW r \in rules, \A i \in DOMAIN r[2] : r[2][i] \in nullable
               PROVE  r[1] \in nullable
    BY DEF NullClosed
  <2>1. r[2] \in Seq(Symbols) /\ \A i \in DOMAIN r[2] : r[2][i] \in Symbols
    BY RuleTypes
  <2>2. CASE r[2] = <<>>
    BY <2>2 DEF EpsilonRules, NullPass, EndNull
  <2>3. CASE r[2] # <<>>
    <3>1. 1 \in DOMAIN r[2]
      BY <2>1, <2>3
    <3>2. r[2][1] \in Variables
      BY <3>1 DEF TypeOK
    <3>3. r \in VariableLed \ todo
      BY <2>3, <3>2 DEF VariableLed, EndNull
    <3>4. NullClosed(VariableLed \ todo, nullable)
      BY DEF NullPass, EndNull
    <3> QED
      BY <3>3, <3>4 DEF NullClosed
  <2> QED
    BY <2>2, <2>3
<1>2. nullable = Null(rules)
  BY <1>1, NullLeast DEF NullExact, TypeOK
<1>3. /\ rules' = rules
      /\ EpsilonRules' = EpsilonRules
      /\ TerminalLed' = TerminalLed
  BY DEF EndNull, EpsilonRules, TerminalLed
<1>4. TypeOK'
  BY DEF TypeOK, EndNull, PastNull, TerminalLed
<1>5. NullExact' /\ FirstExact'
  BY <1>2 DEF NullExact, FirstExact, PastNull, PastFirst, EndNull
<1>6. NullPass' /\ FirstPass'
  BY <1>3 DEF NullPass, FirstPass, EndNull
<1> QED
  BY <1>4, <1>5, <1>6

\* A pass of compute_null_set begins with nothing visited.
LEMMA StartNullStep ==
    ASSUME SetsInv, StartNull \/ RewindNull
    PROVE  SetsInv'
<1> USE DEF SetsInv
<1>1. /\ rules' = rules
      /\ EpsilonRules' = EpsilonRules
      /\ TerminalLed' = TerminalLed
      /\ VariableLed' = VariableLed
  BY DEF StartNull, RewindNull, EpsilonRules, TerminalLed, VariableLed
<1>2. TypeOK'
  BY DEF TypeOK, StartNull, RewindNull, VariableLed
<1>3. NullExact' /\ FirstExact'
  BY DEF NullExact, FirstExact, PastNull, PastFirst, StartNull, RewindNull
<1>4. NullPass' /\ FirstPass'
  BY <1>1 DEF NullPass, FirstPass, NullClosed, StartNull, RewindNull
<1> QED
  BY <1>2, <1>3, <1>4

\* The base case of compute_first_terminals: a leading terminal.
LEMMA BaseFirstStep ==
    ASSUME SetsInv, NEW r \in todo, BaseFirst(r)
    PROVE  SetsInv'
<1> USE DEF SetsInv
<1>1. r \in rules /\ r \in TerminalLed
  BY DEF TypeOK, BaseFirst, FirstPass
<1>2. /\ rules' = rules
      /\ EpsilonRules' = EpsilonRules
      /\ TerminalLed' = TerminalLed
  BY DEF BaseFirst, EpsilonRules, TerminalLed
<1>3. /\ r[1] \in Variables /\ r[2] \in Seq(Symbols) /\ r[2] # <<>>
      /\ r[2][1] \in Terminals
  BY <1>1, RuleTypes DEF TerminalLed
<1>4. first' = [first EXCEPT ![r[1]] = first[r[1]] \cup {r[2][1]}]
  BY DEF BaseFirst
<1>5. TypeOK'
  <2>1. first' \in SetsOf(Terminals)
    BY <1>3, <1>4 DEF TypeOK, SetsOf
  <2> QED
    BY <2>1 DEF TypeOK, BaseFirst
<1>6. NullExact'
  BY DEF NullExact, PastNull, BaseFirst
<1>7. FirstExact'
  <2>1. Begin(first, r[2][1]) \subseteq First(rules)[r[1]]
    <3>1. rules \in SUBSET Rules /\ first \in SetsOf(Terminals)
      BY DEF TypeOK
    <3>2. 1 \in DOMAIN r[2] /\ \A n \in DOMAIN r[2] : n < 1 => r[2][n] \in Null(rules)
      BY <1>3
    <3> QED
      BY <1>1, <3>1, <3>2, FirstSound DEF FirstExact
  <2>2. r[2][1] \in First(rules)[r[1]]
    BY <1>3, <2>1, SymbolsAssumption DEF Begin
  <2>3. pc' = "first base" /\ first \in SetsOf(Terminals)
    BY DEF BaseFirst, TypeOK
  <2> QED
    BY <1>2, <1>3, <1>4, <2>2, <2>3 DEF FirstExact, PastFirst, SetsOf
<1>8. NullPass'
  BY <1>2 DEF NullPass, BaseFirst
<1>9. FirstPass'
  <2>1. ASSUME NEW q \in TerminalLed, q \notin todo'
        PROVE  q[2][1] \in first'[q[1]]
    <3>1. q[1] \in Variables
      BY RuleTypes DEF TerminalLed
    <3>2. q = r \/ q[2][1] \in first[q[1]]
      BY <2>1 DEF BaseFirst, FirstPass
    <3> QED
      BY <1>3, <1>4, <3>1, <3>2 DEF TypeOK, SetsOf
  <2> QED
    BY <1>2, <2>1 DEF FirstPass, BaseFirst
<1> QED
  BY <1>5, <1>6, <1>7, <1>8, <1>9

\* A pass of compute_first_terminals begins: every variable with a production
\* is enumerated, so nothing counts as visited.
LEMMA StartFirstStep ==
    ASSUME SetsInv, StartFirst \/ RepeatFirst
    PROVE  SetsInv'
<1> USE DEF SetsInv
<1>1. /\ rules' = rules
      /\ EpsilonRules' = EpsilonRules
      /\ TerminalLed' = TerminalLed
      /\ VariableLed' = VariableLed
      /\ Enumerated' = Enumerated
  BY DEF StartFirst, RepeatFirst, EpsilonRules, TerminalLed, VariableLed, Enumerated
<1>2. TypeOK'
  BY DEF TypeOK, StartFirst, RepeatFirst, BeginPass, Enumerated, PastNull
<1>3. NullExact' /\ FirstExact'
  BY DEF NullExact, FirstExact, PastNull, PastFirst, StartFirst, RepeatFirst
<1>4. NullPass'
  BY <1>1 DEF NullPass, StartFirst, RepeatFirst
<1>5. FirstPass'
  <2>1. ASSUME NEW q \in VariableLed
        PROVE  q[1] \in Enumerated
    <3>1. q \in rules /\ q[1] \in Variables
      BY RuleTypes DEF VariableLed
    <3> QED
      <4>1. q[1] \in Nat
        BY <3>1, SymbolsAssumption
      <4>2. q[1] <= q[1]
        BY <4>1
      <4> QED
        BY <3>1, <4>2 DEF Enumerated
  <2>2. vars' = Enumerated /\ todo' = {} /\ pc' = "first"
    BY DEF StartFirst, RepeatFirst, BeginPass
  <2>3. \A q \in TerminalLed : q[2][1] \in first'[q[1]]
    BY DEF FirstPass, StartFirst, RepeatFirst
  <2> QED
    BY <1>1, <2>1, <2>2, <2>3 DEF FirstPass
<1> QED
  BY <1>2, <1>3, <1>4, <1>5

\* The variable that is left has had all its productions visited.
LEMMA NextOfFirstStep ==
    ASSUME SetsInv, NEW v \in vars, NextOfFirst(v)
    PROVE  SetsInv'
<1> USE DEF SetsInv
<1>1. /\ rules' = rules
      /\ EpsilonRules' = EpsilonRules
      /\ TerminalLed' = TerminalLed
      /\ VariableLed' = VariableLed
      /\ Enumerated' = Enumerated
  BY DEF NextOfFirst, EpsilonRules, TerminalLed, VariableLed, Enumerated
<1>2. TypeOK'
  BY DEF TypeOK, NextOfFirst, VariableLed
<1>3. NullExact' /\ FirstExact'
  BY DEF NullExact, FirstExact, PastNull, PastFirst, NextOfFirst
<1>4. NullPass'
  BY <1>1 DEF NullPass, NextOfFirst
<1>5. FirstPass'
  <2>1. \A s : Found(s, first)' = Found(s, first)
    BY DEF NextOfFirst, Found, Reached
  <2>2. \A q \in VariableLed : q[1] \notin vars' /\ q \notin todo' => q[1] \notin vars
    BY DEF NextOfFirst
  <2>3. ASSUME ~updated
        PROVE  \A q \in VariableLed : q[1] \notin vars' /\ q \notin todo'
                   => Found(q[2], first)' \subseteq first[q[1]]
    BY <2>1, <2>2, <2>3 DEF FirstPass, NextOfFirst
  <2>4. pc = "first" /\ todo = {} /\ vars' = vars \ {v} /\ V' = v
        /\ todo' = {r \in VariableLed : r[1] = v}
        /\ first' = first /\ pc' = pc /\ updated' = updated
    BY DEF NextOfFirst
  <2> QED
    BY <1>1, <2>3, <2>4 DEF FirstPass
<1> QED
  BY <1>2, <1>3, <1>4, <1>5

\* A pass of compute_first_terminals at one production.
LEMMA VisitFirstStep ==
    ASSUME SetsInv, NEW r \in todo, VisitFirst(r)
    PROVE  SetsInv'
<1> USE DEF SetsInv
<1> DEFINE new == Found(r[2], first)
<1>1. /\ r \in rules /\ r \in VariableLed /\ r[1] = V
      /\ rules \in SUBSET Rules
      /\ first \in SetsOf(Terminals)
      /\ nullable = Null(rules)
  BY DEF TypeOK, VisitFirst, FirstPass, NullExact, PastNull
<1>2. V \in Variables /\ r[2] \in Seq(Symbols)
  BY <1>1, RuleTypes
<1>3. /\ rules' = rules
      /\ EpsilonRules' = EpsilonRules
      /\ TerminalLed' = TerminalLed
      /\ VariableLed' = VariableLed
      /\ Enumerated' = Enumerated
  BY DEF VisitFirst, EpsilonRules, TerminalLed, VariableLed, Enumerated
<1>4. /\ first' = [first EXCEPT ![V] = first[V] \cup new]
      /\ updated' = (updated \/ ~(new \subseteq first[V]))
      /\ todo' = todo \ {r}
      /\ pc = "first" /\ pc' = pc /\ vars' = vars /\ V' = V
      /\ nullable' = nullable /\ follow' = follow
  BY DEF VisitFirst
<1>5. new \subseteq First(rules)[V]
  <2>1. ASSUME NEW i \in Reached(r[2])
        PROVE  Begin(first, r[2][i]) \subseteq First(rules)[V]
    <3>1. i \in DOMAIN r[2]
      BY DEF Reached
    <3>2. \A j \in DOMAIN r[2] : j < i => r[2][j] \in Null(rules)
      BY <1>1, <1>2, <3>1 DEF Reached
    <3>3. \A v \in Variables : first[v] \subseteq First(rules)[v]
      BY DEF FirstExact
    <3> QED
      BY <1>1, <3>1, <3>2, <3>3, FirstSound
  <2>2. \A i \in Reached(r[2]) : r[2][i] \in Symbols
    BY <1>1, RuleTypes DEF Reached
  <2>3. \A i \in Reached(r[2]) :
            (IF r[2][i] \in Terminals THEN {r[2][i]} ELSE first[r[2][i]])
                = Begin(first, r[2][i])
    BY <2>2, SymbolsAssumption DEF Begin, Symbols
  <2>4. SUFFICES ASSUME NEW t \in new
                 PROVE  t \in First(rules)[V]
    OBVIOUS
  <2>5. PICK i \in Reached(r[2]) :
            t \in (IF r[2][i] \in Terminals THEN {r[2][i]} ELSE first[r[2][i]])
    BY <2>4 DEF Found
  <2>6. t \in Begin(first, r[2][i])
    BY <2>3, <2>5
  <2> QED
    BY <2>1, <2>6
<1>6. first' \in SetsOf(Terminals)
  BY <1>1, <1>2, <1>4, <1>5, FirstType DEF SetsOf
<1>7. TypeOK'
  BY <1>1, <1>3, <1>4, <1>6 DEF TypeOK
<1>8. NullExact'
  BY <1>3, <1>4 DEF NullExact, PastNull
<1>9. FirstExact'
  BY <1>1, <1>2, <1>3, <1>4, <1>5 DEF FirstExact, PastFirst, SetsOf
<1>10. NullPass'
  BY <1>3, <1>4 DEF NullPass
<1>11. FirstPass'
  <2>1. \A q \in TerminalLed : q[2][1] \in first'[q[1]]
    <3>1. \A q \in TerminalLed : q[1] \in Variables /\ q[2][1] \in first[q[1]]
      BY <1>4, RuleTypes DEF FirstPass, TerminalLed
    <3> QED
      BY <1>1, <1>2, <1>4, <3>1 DEF SetsOf
  <2>2. ASSUME updated' = FALSE
        PROVE  \A q \in VariableLed : q[1] \notin vars /\ q \notin todo'
                   => Found(q[2], first)' \subseteq first'[q[1]]
    <3>1. ~updated /\ new \subseteq first[V]
      BY <1>4, <2>2 DEF TypeOK
    <3>2. first' = first
      BY <1>1, <1>2, <1>4, <3>1 DEF SetsOf
    <3>3. \A s : Found(s, first)' = Found(s, first)
      BY <1>4, <3>2 DEF Found, Reached
    <3>4. \A q \in VariableLed : q[1] \notin vars /\ q \notin todo
              => Found(q[2], first) \subseteq first[q[1]]
      BY <1>4, <3>1 DEF FirstPass
    <3> SUFFICES ASSUME NEW q \in VariableLed, q[1] \notin vars, q \notin todo'
                 PROVE  Found(q[2], first) \subseteq first[q[1]]
      BY <3>2, <3>3
    <3>5. CASE q = r
      BY <1>1, <3>1, <3>5
    <3>6. CASE q # r
      BY <1>4, <3>4, <3>6
    <3> QED
      BY <3>5, <3>6
  <2>3. updated' \in BOOLEAN
    BY <1>7 DEF TypeOK
  <2> QED
    BY <1>3, <1>4, <2>1, <2>2, <2>3 DEF FirstPass
<1> QED
  BY <1>7, <1>8, <1>9, <1>10, <1>11

\* A last pass that changed nothing leaves sets that are closed.
LEMMA EndFirstStep ==
    ASSUME SetsInv, EndFirst
    PROVE  SetsInv'
<1> USE DEF SetsInv
<1>1. /\ pc = "first" /\ todo = {} /\ vars = {} /\ ~updated
      /\ nullable = Null(rules)
      /\ first \in SetsOf(Terminals)
  BY DEF EndFirst, NullExact, PastNull, TypeOK
<1>2. FirstClosed(rules, Null(rules), first)
  <2> SUFFICES ASSUME NEW r \in rules, NEW i \in DOMAIN r[2],
                      \A j \in DOMAIN r[2] : j < i => r[2][j] \in nullable
               PROVE  Begin(first, r[2][i]) \subseteq first[r[1]]
    BY <1>1 DEF FirstClosed
  <2>1. /\ r[2] \in Seq(Symbols)
        /\ \A n \in DOMAIN r[2] : r[2][n] \in Symbols
    BY RuleTypes
  <2>2. i \in 1..Len(r[2]) /\ 1 \in DOMAIN r[2] /\ r[2] # <<>>
    BY <2>1
  <2>3. CASE r[2][1] \in Terminals
    <3>1. i = 1
      <4>1. r[2][1] \notin nullable
        BY <2>3, SymbolsAssumption DEF TypeOK
      <4> QED
        BY <2>2, <4>1
    <3>2. r[2][1] \in first[r[1]]
      BY <1>1, <2>2, <2>3 DEF FirstPass, TerminalLed
    <3> QED
      BY <2>3, <3>1, <3>2, SymbolsAssumption DEF Begin
  <2>4. CASE r[2][1] \in Variables
    <3>1. Found(r[2], first) \subseteq first[r[1]]
      BY <1>1, <2>2, <2>4 DEF FirstPass, VariableLed
    <3>2. i \in Reached(r[2])
      BY <2>1, <2>2 DEF Reached
    <3>3. Begin(first, r[2][i]) \subseteq Found(r[2], first)
      <4>1. Begin(first, r[2][i])
                = IF r[2][i] \in Terminals THEN {r[2][i]} ELSE first[r[2][i]]
        BY <2>1, SymbolsAssumption DEF Begin, Symbols
      <4> QED
        BY <3>2, <4>1 DEF Found
    <3> QED
      BY <3>1, <3>3
  <2> QED
    BY <2>1, <2>2, <2>3, <2>4 DEF Symbols
<1>3. first = First(rules)
  <2>1. \A v \in Variables : first[v] = First(rules)[v]
    BY <1>1, <1>2, FirstLeast DEF FirstExact
  <2> QED
    BY <1>1, <2>1, FirstType DEF SetsOf
<1>4. /\ rules' = rules
      /\ EpsilonRules' = EpsilonRules
      /\ TerminalLed' = TerminalLed
  BY DEF EndFirst, EpsilonRules, TerminalLed
<1>5. TypeOK'
  BY DEF TypeOK, EndFirst, BeginPass, Enumerated, PastNull
<1>6. NullExact' /\ FirstExact'
  BY <1>3 DEF NullExact, FirstExact, PastNull, PastFirst, EndFirst
<1>7. NullPass' /\ FirstPass'
  BY <1>4 DEF NullPass, FirstPass, EndFirst
<1> QED
  BY <1>5, <1>6, <1>7

\* compute_follow_set changes neither the null nor the first sets.
LEMMA FollowStep ==
    ASSUME SetsInv,
           \/ \E v \in vars : NextOfFollow(v)
           \/ \E r \in todo : VisitFollow(r)
           \/ RepeatFollow \/ EndFollow
    PROVE  SetsInv'
<1> USE DEF SetsInv
<1>1. /\ UNCHANGED <<rules, nullable, first>>
      /\ pc = "follow" /\ pc' \in {"follow", "done"}
  BY DEF NextOfFollow, VisitFollow, RepeatFollow, EndFollow
<1>2. /\ EpsilonRules' = EpsilonRules
      /\ TerminalLed' = TerminalLed
  BY <1>1 DEF EpsilonRules, TerminalLed
<1>3. TypeOK'
  <2>1. ASSUME NEW v \in vars, NextOfFollow(v)
        PROVE  TypeOK'
    BY <2>1 DEF TypeOK, NextOfFollow
  <2>2. ASSUME NEW r \in todo, VisitFollow(r)
        PROVE  TypeOK'
    <3> DEFINE s == Rest(r[2], V)
               inserted == {s[i] : i \in Passed(s) \cap DOMAIN s} \cap Terminals
               united == (UNION {first[s[i]] : i \in {i \in Passed(s) \cap DOMAIN s :
                                                       s[i] \in Variables \ {V}}})
                         \cup (IF Len(s) + 1 \in Passed(s) THEN first[r[1]] ELSE {})
    <3>1. r \in rules /\ r[1] \in Variables
      BY RuleTypes DEF TypeOK
    <3>2. follow' = [follow EXCEPT ![V] = follow[V] \cup inserted \cup united]
      BY <2>2 DEF VisitFollow
    <3>3. united \subseteq Terminals
      <4>1. \A x \in Variables : first[x] \subseteq Terminals
        BY DEF TypeOK, SetsOf
      <4> HIDE DEF s
      <4>2. (UNION {first[s[i]] : i \in {i \in Passed(s) \cap DOMAIN s :
                                           s[i] \in Variables \ {V}}}) \subseteq Terminals
        BY <4>1
      <4>3. (IF Len(s) + 1 \in Passed(s) THEN first[r[1]] ELSE {}) \subseteq Terminals
        BY <3>1, <4>1
      <4> QED
        BY <4>2, <4>3
    <3> HIDE DEF united
    <3>4. inserted \subseteq Terminals
      OBVIOUS
    <3> HIDE DEF inserted
    <3>5. follow' \in SetsOf(Terminals)
      BY <3>2, <3>3, <3>4 DEF TypeOK, SetsOf
    <3>6. updated' \in BOOLEAN
      BY <2>2 DEF VisitFollow, TypeOK
    <3>7. UNCHANGED <<rules, nullable, first, pc, vars, V>> /\ todo' = todo \ {r}
      BY <2>2 DEF VisitFollow
    <3> QED
      BY <3>5, <3>6, <3>7 DEF TypeOK
  <2>3. ASSUME RepeatFollow \/ EndFollow
        PROVE  TypeOK'
    BY <2>3 DEF TypeOK, RepeatFollow, EndFollow, BeginPass, Enumerated, PastNull
  <2> QED
    BY <2>1, <2>2, <2>3
<1>4. NullExact' /\ FirstExact'
  BY <1>1 DEF NullExact, FirstExact, PastNull, PastFirst
<1>5. NullPass' /\ FirstPass'
  BY <1>1, <1>2 DEF NullPass, FirstPass
<1> QED
  BY <1>3, <1>4, <1>5

\* Every step of the three loops keeps the invariant.
LEMMA NextIInv ==
    ASSUME SetsInv, [Next]_fvars
    PROVE  SetsInv'
<1>1. ASSUME NEW r \in todo, BaseNull(r) PROVE SetsInv'
  BY <1>1, BaseNullStep
<1>2. ASSUME NEW r \in todo, VisitNull(r) PROVE SetsInv'
  BY <1>2, VisitNullStep
<1>3. ASSUME NEW r \in todo, BaseFirst(r) PROVE SetsInv'
  BY <1>3, BaseFirstStep
<1>4. ASSUME NEW r \in todo, VisitFirst(r) PROVE SetsInv'
  BY <1>4, VisitFirstStep
<1>5. ASSUME NEW v \in vars, NextOfFirst(v) PROVE SetsInv'
  BY <1>5, NextOfFirstStep
<1>6. StartNull \/ RewindNull => SetsInv'
  BY StartNullStep
<1>7. EndNull => SetsInv'
  BY EndNullStep
<1>8. StartFirst \/ RepeatFirst => SetsInv'
  BY StartFirstStep
<1>9. EndFirst => SetsInv'
  BY EndFirstStep
<1>10. ASSUME \/ \E v \in vars : NextOfFollow(v)
              \/ \E r \in todo : VisitFollow(r)
              \/ RepeatFollow \/ EndFollow
       PROVE  SetsInv'
  BY <1>10, FollowStep
<1>11. ASSUME UNCHANGED fvars PROVE SetsInv'
  <2>1. UNCHANGED <<TypeOK, NullExact, FirstExact>>
    BY <1>11 DEF fvars, TypeOK, NullExact, FirstExact
  <2>2. UNCHANGED <<EpsilonRules, TerminalLed, VariableLed, Enumerated>>
    BY <1>11 DEF fvars, EpsilonRules, TerminalLed, VariableLed, Enumerated
  <2>3. \A s : UNCHANGED Found(s, first)
    BY <1>11 DEF fvars, Found, Reached
  <2>4. UNCHANGED <<NullPass, FirstPass>>
    BY <1>11, <2>2, <2>3 DEF fvars, NullPass, FirstPass
  <2> QED
    BY <2>1, <2>4 DEF SetsInv
<1> QED
  BY <1>1, <1>2, <1>3, <1>4, <1>5, <1>6, <1>7, <1>8, <1>9, <1>10, <1>11 DEF Next

\* The inductive invariant of the three loops, of which TypeOK is a part.
THEOREM Invariance == Spec => []SetsInv
<1>1. Init => SetsInv
  BY InitIInv
<1>2. SetsInv /\ [Next]_fvars => SetsInv'
  BY NextIInv
<1> QED
  BY <1>1, <1>2, PTL DEF Spec

\* compute_null_set finds exactly the variables that derive the empty string.
THEOREM NullCorrect == Spec => []NullExact
<1>1. SetsInv => NullExact
  BY DEF SetsInv
<1> QED
  BY <1>1, Invariance, PTL

\* compute_first_terminals finds exactly the terminals a variable begins with.
THEOREM FirstCorrect == Spec => []FirstExact
<1>1. SetsInv => FirstExact
  BY DEF SetsInv
<1> QED
  BY <1>1, Invariance, PTL

-----------------------------------------------------------------------------
(* The scan of the first sets, and the table.                              *)

\* No variable of a right hand side is below all that have a production: the
\* readers of grammars give each a production.
UsedEnumerated(G) ==
    \A r \in G : \A i \in DOMAIN r[2] :
        r[2][i] \in Variables => \E q \in G : q[1] <= r[2][i]

\* The assertion in the scan of compute_first_terminals holds for every such
\* grammar: search(~V) has come to each variable that the scan comes to.
THEOREM ScanIsAllocated ==
    (\A G \in Grammars : UsedEnumerated(G)) /\ Spec => []SetsAllocated
<1>1. SetsInv /\ UsedEnumerated(rules) => SetsAllocated
  <2> SUFFICES ASSUME SetsInv, UsedEnumerated(rules), pc = "first",
                      NEW r \in todo, NEW i \in Reached(r[2]), r[2][i] \in Variables
               PROVE  r[2][i] \in Enumerated
    BY DEF SetsAllocated, Allocated
  <2>1. r \in rules /\ i \in DOMAIN r[2]
    BY DEF SetsInv, FirstPass, VariableLed, Reached
  <2>2. \E q \in rules : q[1] <= r[2][i]
    BY <2>1 DEF UsedEnumerated
  <2> QED  BY <2>2 DEF Enumerated
<1>2. (\A G \in Grammars : UsedEnumerated(G)) /\ Init => UsedEnumerated(rules)
  BY DEF Init
<1>3. UsedEnumerated(rules) /\ [Next]_fvars => UsedEnumerated(rules)'
  <2> SUFFICES ASSUME [Next]_fvars PROVE rules' = rules
    BY DEF UsedEnumerated
  <2>1. ASSUME NEW r \in todo, BaseNull(r) \/ VisitNull(r) \/ BaseFirst(r)
        PROVE  rules' = rules
    BY <2>1 DEF BaseNull, VisitNull, BaseFirst
  <2>2. ASSUME NEW r \in todo, VisitFirst(r) \/ VisitFollow(r)
        PROVE  rules' = rules
    BY <2>2 DEF VisitFirst, VisitFollow
  <2>3. ASSUME NEW v \in vars, NextOfFirst(v) \/ NextOfFollow(v)
        PROVE  rules' = rules
    BY <2>3 DEF NextOfFirst, NextOfFollow
  <2>4. ASSUME \/ StartNull \/ RewindNull \/ EndNull
               \/ StartFirst \/ RepeatFirst \/ EndFirst
               \/ RepeatFollow \/ EndFollow
        PROVE  rules' = rules
    BY <2>4 DEF StartNull, RewindNull, EndNull, StartFirst, RepeatFirst, EndFirst,
                RepeatFollow, EndFollow
  <2>5. ASSUME UNCHANGED fvars PROVE rules' = rules
    BY <2>5 DEF fvars
  <2> QED  BY <2>1, <2>2, <2>3, <2>4, <2>5 DEF Next
<1> QED
  BY <1>1, <1>2, <1>3, Invariance, PTL DEF Spec

\* The productions of a cell's variable that want its terminal.
Wanting(c) == {r \in rules : r[1] = c[1] /\ Wants(r, c[2])}

\* While the table is filled the sets are the right ones, the cells that were
\* looked at are filled if some production wanted them, with one that did, and
\* the others are empty.
TableSoFar ==
    /\ rules \subseteq Rules
    /\ nullable = Null(rules) /\ first = First(rules)
    /\ cells \subseteq Enumerated \X Terminals
    /\ DOMAIN table \subseteq Enumerated \X Terminals
    /\ \A c \in cells : c \notin DOMAIN table
    /\ \A c \in (Enumerated \X Terminals) \ cells :
          /\ c \in DOMAIN table <=> Wanting(c) # {}
          /\ c \in DOMAIN table => table[c] \in Wanting(c)

TableInv ==
    /\ pc # "table" => SetsInv /\ DOMAIN table = {}
    /\ pc = "table" => TableSoFar

\* The three loops leave the table alone and do not begin it.
LEMMA LoopsKeepTable ==
    ASSUME TableInv, Next, UNCHANGED <<table, cells>>
    PROVE  TableInv'
<1>1. pc # "table" /\ pc' # "table"
  <2>1. pc # "table"
    BY DEF Next, BaseNull, VisitNull, BaseFirst, VisitFirst, VisitFollow, NextOfFirst,
           NextOfFollow, StartNull, RewindNull, EndNull, StartFirst, RepeatFirst, EndFirst,
           RepeatFollow, EndFollow
  <2>2. SetsInv'
    BY <2>1, NextIInv DEF TableInv
  <2> QED  BY <2>1, <2>2 DEF SetsInv, TypeOK, PastNull
<1>2. SetsInv'
  BY <1>1, NextIInv DEF TableInv
<1> QED  BY <1>1, <1>2 DEF TableInv

LEMMA StartTableStep ==
    ASSUME TableInv, StartTable
    PROVE  TableInv'
<1>1. SetsInv /\ DOMAIN table = {} /\ pc' = "table" /\ pc = "done"
  BY DEF TableInv, StartTable
<1>2. nullable = Null(rules) /\ first = First(rules) /\ rules \subseteq Rules
  BY <1>1 DEF SetsInv, TypeOK, NullExact, FirstExact, PastNull, PastFirst
<1>3. UNCHANGED <<rules, nullable, first, table>> /\ cells' = Enumerated \X Terminals
  BY DEF StartTable
<1>4. UNCHANGED <<Null(rules), First(rules), Enumerated>>
  BY <1>3 DEF Enumerated
<1>5. TableSoFar'
  BY <1>1, <1>2, <1>3, <1>4 DEF TableSoFar
<1> QED  BY <1>1, <1>5 DEF TableInv

\* What a cell wants depends on the sets alone.
LEMMA WantingStays ==
    ASSUME UNCHANGED <<rules, nullable, first, follow>>
    PROVE  /\ \A c : Wanting(c)' = Wanting(c)
           /\ Enumerated' = Enumerated
BY DEF Wanting, Wants, WantedByVariable, AllNullable, Enumerated

LEMMA FillCellStep ==
    ASSUME TableInv, FillCell
    PROVE  TableInv'
<1> DEFINE c == CHOOSE c \in cells : TRUE
<1>1. pc = "table" /\ pc' = "table" /\ TableSoFar /\ c \in cells /\ cells' = cells \ {c}
  BY DEF TableInv, FillCell, fvars
<1>2. UNCHANGED <<rules, nullable, first, follow>>
  BY DEF FillCell, fvars
<1>3. \/ Wanting(c) = {} /\ UNCHANGED table
      \/ \E r \in Wanting(c) :
            table' = [x \in DOMAIN table \cup {c} |-> IF x = c THEN r ELSE table[x]]
  BY DEF FillCell, Wanting
<1> HIDE DEF c
<1>4. c \in Enumerated \X Terminals /\ c \notin DOMAIN table
  BY <1>1 DEF TableSoFar
<1>5. \A d : Wanting(d)' = Wanting(d)
  BY <1>2, WantingStays
<1>6. UNCHANGED <<Null(rules), First(rules), Enumerated>>
  BY <1>2, WantingStays
<1>7. TableSoFar'
  <2>1. CASE Wanting(c) = {} /\ UNCHANGED table
    BY <1>1, <1>2, <1>4, <1>5, <1>6, <2>1 DEF TableSoFar
  <2>2. CASE \E r \in Wanting(c) :
                table' = [x \in DOMAIN table \cup {c} |-> IF x = c THEN r ELSE table[x]]
    <3>1. /\ DOMAIN table' = DOMAIN table \cup {c}
          /\ table'[c] \in Wanting(c)
          /\ \A x \in DOMAIN table : table'[x] = table[x]
      BY <1>4, <2>2
    <3> QED  BY <1>1, <1>2, <1>4, <1>5, <1>6, <3>1 DEF TableSoFar
  <2> QED  BY <1>3, <2>1, <2>2
<1> QED  BY <1>1, <1>7 DEF TableInv

LEMMA TableStep ==
    ASSUME TableInv, [LL1Next]_lvars
    PROVE  TableInv'
<1>1. CASE UNCHANGED lvars
  <2>1. UNCHANGED <<fvars, table, cells>>
    BY <1>1 DEF lvars
  <2>2. CASE pc # "table"
    BY <2>1, <2>2, NextIInv DEF TableInv, fvars
  <2>3. CASE pc = "table"
    <3>1. UNCHANGED <<rules, nullable, first, follow, pc, table, cells>>
      BY <2>1 DEF fvars
    <3>2. UNCHANGED <<Null(rules), First(rules), Enumerated>> /\ \A d : Wanting(d)' = Wanting(d)
      BY <3>1, WantingStays
    <3>3. TableSoFar'
      BY <2>3, <3>1, <3>2 DEF TableInv, TableSoFar
    <3> QED  BY <2>3, <3>1, <3>3 DEF TableInv
  <2> QED  BY <2>2, <2>3
<1> QED  BY <1>1, LoopsKeepTable, StartTableStep, FillCellStep DEF LL1Next

\* A cell of a variable none of whose productions is empty or begins with a
\* nullable variable wants the productions that can begin with its terminal.
LEMMA PlainWants ==
    ASSUME TableSoFar, NEW r \in rules, r[2] # <<>>, r[2][1] \notin Null(rules), NEW a
    PROVE  Wants(r, a) <=> a \in Begin(First(rules), r[2][1])
<1>1. CASE r[2][1] \in Variables
  <2>1. Wants(r, a) <=> a \in WantedByVariable(r[2])
    BY <1>1 DEF Wants
  <2>2. WantedByVariable(r[2]) = First(rules)[r[2][1]]
    BY DEF WantedByVariable, TableSoFar
  <2> QED  BY <1>1, <2>1, <2>2 DEF Begin
<1>2. CASE r[2][1] \notin Variables
  BY <1>2 DEF Wants, Begin
<1> QED  BY <1>1, <1>2

\* cfg-to-ll1 fills the cells of such variables as an LL(1) parser needs them,
\* for every grammar and whichever production comes first.
THEOREM TableCorrect == LL1Spec => []TableRight
<1>1. LL1Init => TableInv
  BY InitIInv DEF LL1Init, TableInv, Init
<1>2. TableInv /\ [LL1Next]_lvars => TableInv'
  BY TableStep
<1>3. TableInv => TableRight
  <2> DEFINE starts(v, a) == {r \in rules : r[1] = v /\ a \in Begin(First(rules), r[2][1])}
             plain(v) == \A r \in rules : r[1] = v => r[2] # <<>> /\ r[2][1] \notin Null(rules)
  <2> SUFFICES ASSUME TableInv, pc = "table", cells = {},
                      NEW c \in Enumerated \X Terminals, plain(c[1])
               PROVE  /\ c \in DOMAIN table <=> starts(c[1], c[2]) # {}
                      /\ c \in DOMAIN table => table[c] \in starts(c[1], c[2])
    BY DEF TableRight
  <2>1. TableSoFar
    BY DEF TableInv
  <2>2. Wanting(c) = starts(c[1], c[2])
    BY <2>1, PlainWants DEF Wanting
  <2> QED  BY <2>1, <2>2 DEF TableSoFar
<1> QED
  BY <1>1, <1>2, <1>3, PTL DEF LL1Spec

-----------------------------------------------------------------------------
(* Earley.  The first invariant says of every item that what is before its dot *)
(* covers the tokens between its sets; the scanner and the completer add one   *)
(* cut to those of the item they advance, and a completed item is a span by    *)
(* the closure under the rules.  The second says that the indexes find what is *)
(* in the sets, and that every item that was looked at was worked off; then    *)
(* the spans that were passed over are closed under the rules, and so they are *)
(* all spans.                                                                 *)


Order == INSTANCE WellOrder

AllRules(in) == {in.rules[i] : i \in DOMAIN in.rules} \cup {<<SV, <<in.start>>>>}
ItemSpace == [rule : (Variables \cup {SV}) \X Seq(Symbols \cup {SV}), dot : Nat, from : Nat]

Good(in, it, k) ==
    /\ it \in ItemSpace /\ it.rule \in AllRules(in)
    /\ it.dot <= Len(it.rule[2])
    /\ it.from \in 1 .. k /\ (it.rule[1] = SV => it.from = 1)
    /\ Covered(in, it.rule[2], it.dot, it.from, k)

Shape ==
    /\ input \in EarleyInputs
    /\ sets \in Seq(Seq(ItemSpace))
    /\ at \in 1 .. Len(sets) /\ Len(sets) <= Len(input.word) + 1
    /\ pos \in Nat \ {0} /\ rel \in Nat \ {0}
AllGood == \A k \in DOMAIN sets : \A i \in DOMAIN sets[k] : Good(input, sets[k][i], k)
InLoop ==
    /\ phase \in {"predict", "complete"} => pos <= Len(sets[at])
    /\ phase = "complete" => AtEnd(Current)
Worth == phase # "done" => WorthParsing
Answer == WorthParsing /\ result => <<input.start, 1, Len(input.word) + 1>> \in input.spans
IInv == Shape /\ AllGood /\ InLoop /\ Worth /\ Answer

-----------------------------------------------------------------------------
(* Cuts *)

\* Nothing covers nothing.
LEMMA CoverNone ==
    ASSUME NEW in, NEW w, NEW k \in Positions(in)
    PROVE  Covered(in, w, 0, k, k)
<1> DEFINE cuts == [i \in 0 .. 0 |-> k]
<1>1. cuts \in [0 .. 0 -> Positions(in)] OBVIOUS
<1>2. cuts[0] = k OBVIOUS
<1>3. \A i \in 1 .. 0 : Covers(in, w[i], cuts[i - 1], cuts[i]) OBVIOUS
<1> QED BY <1>1, <1>2, <1>3 DEF Covered

\* One more symbol covers what comes next.
LEMMA CoverOneMore ==
    ASSUME NEW in, NEW w, NEW n \in Nat, NEW j, NEW k, NEW m \in Positions(in),
           Covered(in, w, n, j, k), Covers(in, w[n + 1], k, m)
    PROVE  Covered(in, w, n + 1, j, m)
<1>1. PICK cuts \in [0 .. n -> Positions(in)] :
        /\ cuts[0] = j /\ cuts[n] = k
        /\ \A i \in 1 .. n : Covers(in, w[i], cuts[i - 1], cuts[i])
      BY DEF Covered
<1> DEFINE more == [i \in 0 .. n + 1 |-> IF i = n + 1 THEN m ELSE cuts[i]]
<1>2. more \in [0 .. n + 1 -> Positions(in)] BY <1>1
<1>3. more[0] = j /\ more[n + 1] = m BY <1>1
<1>4. ASSUME NEW i \in 1 .. n + 1 PROVE Covers(in, w[i], more[i - 1], more[i])
  <2>1. CASE i = n + 1
    <3>1. more[i - 1] = k /\ more[i] = m BY <2>1, <1>1
    <3> QED BY <3>1, <2>1
  <2>2. CASE i # n + 1
    <3>1. i \in 1 .. n BY <2>2
    <3>2. more[i - 1] = cuts[i - 1] /\ more[i] = cuts[i] BY <3>1
    <3> QED BY <1>1, <3>1, <3>2
  <2> QED BY <2>1, <2>2
<1> HIDE DEF more
<1> QED BY <1>2, <1>3, <1>4 DEF Covered

-----------------------------------------------------------------------------
(* What an input gives *)

LEMMA RuleTyped ==
    ASSUME NEW in \in EarleyInputs, NEW r \in AllRules(in)
    PROVE  r \in (Variables \cup {SV}) \X Seq(Symbols \cup {SV})
<1>1. CASE r \in {in.rules[i] : i \in DOMAIN in.rules}
  <2>1. r \in Variables \X Seq(Symbols) BY <1>1, EarleyAssumption DEF Rules
  <2>2. Seq(Symbols) \subseteq Seq(Symbols \cup {SV}) OBVIOUS
  <2> QED BY <2>1, <2>2
<1>2. CASE r = <<SV, <<in.start>>>>
  <2>1. in.start \in Symbols \cup {SV} BY EarleyAssumption DEF Symbols, SV
  <2>2. <<in.start>> \in Seq(Symbols \cup {SV}) BY <2>1
  <2> QED BY <1>2, <2>2
<1> QED BY <1>1, <1>2 DEF AllRules

\* The fake start variable stands in no right hand side.
LEMMA RealSymbols ==
    ASSUME Shape, WorthParsing, NEW r \in AllRules(input)
    PROVE  r[2] \in Seq(Symbols)
<1>1. input \in EarleyInputs /\ input.rules \in Seq(Rules) BY EarleyAssumption DEF Shape
<1>2. CASE r \in {input.rules[i] : i \in DOMAIN input.rules} BY <1>1, <1>2 DEF Rules
<1>3. CASE r = <<SV, <<input.start>>>>
  <2>1. PICK i \in DOMAIN input.rules : input.rules[i][1] = input.start BY DEF WorthParsing
  <2>2. input.start \in Symbols BY <1>1, <2>1 DEF Rules, Symbols
  <2> QED BY <1>3, <2>2
<1> QED BY <1>2, <1>3 DEF AllRules

\* An item at its end stands for a span of its variable.
LEMMA EndIsSpan ==
    ASSUME NEW in \in EarleyInputs, NEW it, NEW k \in Positions(in),
           Good(in, it, k), it.dot = Len(it.rule[2]), it.rule[1] \in Variables
    PROVE  <<it.rule[1], it.from, k>> \in in.spans
<1>1. it.rule # <<SV, <<in.start>>>> BY SymbolsAssumption DEF SV
<1>2. PICK i \in DOMAIN in.rules : it.rule = in.rules[i] BY <1>1 DEF Good, AllRules
<1>3. in.word \in Seq(Terminals \cup {Unknown}) /\ Closed(in) BY EarleyAssumption
<1>4. Len(in.word) \in Nat BY <1>3
<1>5. it.from \in Positions(in)
  <2>1. it.from \in 1 .. k BY DEF Good
  <2> QED BY <2>1, <1>4 DEF Positions
<1>6. Covered(in, in.rules[i][2], Len(in.rules[i][2]), it.from, k) BY <1>2 DEF Good
<1> QED BY <1>2, <1>3, <1>5, <1>6 DEF Closed

\* Advancing the dot over a symbol that covers what comes next.
LEMMA ScannedGood ==
    ASSUME NEW in \in EarleyInputs, NEW it, NEW k \in Positions(in), NEW m \in Positions(in),
           Good(in, it, k), k <= m, it.dot # Len(it.rule[2]), Covers(in, Looking(it), k, m)
    PROVE  Good(in, Scanned(it), m)
<1>1. /\ it \in ItemSpace /\ it.rule \in AllRules(in) /\ it.from \in 1 .. k
      /\ it.dot <= Len(it.rule[2]) /\ Covered(in, it.rule[2], it.dot, it.from, k)
      BY DEF Good
<1>2. it.dot \in Nat /\ Len(it.rule[2]) \in Nat BY <1>1 DEF ItemSpace
<1>3. Scanned(it) \in ItemSpace /\ Scanned(it).rule = it.rule
      /\ Scanned(it).dot = it.dot + 1 /\ Scanned(it).from = it.from
      BY <1>1 DEF Scanned, ItemSpace
<1>4. k \in Int /\ m \in Int BY DEF Positions
<1>5. it.from \in 1 .. m BY <1>1, <1>4
<1>6. it.dot + 1 <= Len(it.rule[2]) BY <1>1, <1>2
<1>7. Covered(in, it.rule[2], it.dot + 1, it.from, m) BY <1>1, <1>2, CoverOneMore DEF Looking
<1> QED BY <1>1, <1>3, <1>5, <1>6, <1>7 DEF Good

-----------------------------------------------------------------------------
(* Pushing a good item *)

LEMMA PushKeeps ==
    ASSUME Shape, AllGood, input' = input, at' = at,
           NEW it, Good(input, it, at), Push(it) \/ sets' = sets
    PROVE  /\ sets' \in Seq(Seq(ItemSpace)) /\ Len(sets') = Len(sets)
           /\ AllGood'
           /\ Len(sets'[at]) >= Len(sets[at])
           /\ \A i \in DOMAIN sets[at] : sets'[at][i] = sets[at][i]
<1> USE DEF Shape
<1>1. sets[at] \in Seq(ItemSpace) OBVIOUS
<1>2. CASE sets' = sets BY <1>1, <1>2 DEF AllGood
<1>3. CASE sets' = [sets EXCEPT ![at] = Append(@, it)]
  <2>1. it \in ItemSpace BY DEF Good
  <2>2. Append(sets[at], it) \in Seq(ItemSpace) /\ Len(Append(sets[at], it)) = Len(sets[at]) + 1
        BY <1>1, <2>1
  <2>3. sets' \in Seq(Seq(ItemSpace)) /\ Len(sets') = Len(sets) /\ DOMAIN sets' = DOMAIN sets
        BY <1>3, <2>2
  <2>4. sets'[at] = Append(sets[at], it) BY <1>3
  <2>5. \A i \in DOMAIN sets[at] : sets'[at][i] = sets[at][i] BY <1>1, <2>4
  <2>6. ASSUME NEW k \in DOMAIN sets', NEW i \in DOMAIN sets'[k]
        PROVE  Good(input', sets'[k][i], k)
    <3>1. CASE k # at
      <4>1. sets'[k] = sets[k] /\ k \in DOMAIN sets BY <3>1, <1>3, <2>3
      <4> QED BY <4>1 DEF AllGood
    <3>2. CASE k = at /\ i # Len(sets[at]) + 1
      <4>1. i \in DOMAIN sets[at] BY <3>2, <2>4, <1>1
      <4> QED BY <4>1, <2>5, <3>2 DEF AllGood
    <3>3. CASE k = at /\ i = Len(sets[at]) + 1
      <4>1. sets'[k][i] = it BY <3>3, <2>4, <1>1
      <4> QED BY <4>1, <3>3
    <3> QED BY <3>1, <3>2, <3>3
  <2>7. AllGood' BY <2>6 DEF AllGood
  <2>8. Len(sets'[at]) >= Len(sets[at]) BY <2>2, <2>4, <1>1
  <2> QED BY <2>3, <2>5, <2>7, <2>8
<1> QED BY <1>2, <1>3 DEF Push

\* What stays of the invariant when a good item is pushed and a loop goes on,
\* or when nothing is pushed and it ends.
LEMMA LoopOn ==
    ASSUME IInv, input' = input, at' = at, pos' = pos, rel' \in Nat \ {0},
           phase' = phase, phase \in {"predict", "complete"}, result' = result,
           NEW it, Good(input, it, at), Push(it) \/ sets' = sets
    PROVE  IInv'
<1>1. Shape /\ AllGood /\ InLoop /\ Worth /\ Answer BY DEF IInv
<1>2. /\ sets' \in Seq(Seq(ItemSpace)) /\ Len(sets') = Len(sets) /\ AllGood'
      /\ Len(sets'[at]) >= Len(sets[at])
      /\ \A i \in DOMAIN sets[at] : sets'[at][i] = sets[at][i]
      BY <1>1, PushKeeps
<1>3. Shape' BY <1>1, <1>2 DEF Shape
<1>4. pos <= Len(sets[at]) /\ pos \in Nat \ {0} /\ sets[at] \in Seq(ItemSpace)
      /\ sets'[at] \in Seq(ItemSpace)
      BY <1>1, <1>2 DEF InLoop, Shape
<1>5. pos \in DOMAIN sets[at] /\ pos <= Len(sets'[at]) BY <1>2, <1>4
<1>6. Current' = Current BY <1>2, <1>5 DEF Current
<1>7. InLoop' BY <1>1, <1>5, <1>6 DEF InLoop, AtEnd
<1>8. Worth' /\ Answer' BY <1>1 DEF Worth, Answer, WorthParsing
<1> QED BY <1>2, <1>3, <1>7, <1>8 DEF IInv

-----------------------------------------------------------------------------
LEMMA InitOK == EarleyInit => IInv
<1> SUFFICES ASSUME EarleyInit PROVE IInv OBVIOUS
<1> DEFINE it == Item(SP, 0, 1)
<1>1. input \in EarleyInputs /\ input.word \in Seq(Terminals \cup {Unknown})
      BY EarleyAssumption DEF EarleyInit
<1>2. SP \in AllRules(input) BY DEF SP, AllRules
<1>3. SP \in (Variables \cup {SV}) \X Seq(Symbols \cup {SV}) BY <1>1, <1>2, RuleTyped
<1>4. it \in ItemSpace BY <1>3 DEF Item, ItemSpace
<1>5. 1 \in Positions(input) /\ Len(input.word) \in Nat BY <1>1 DEF Positions
<1>6. Covered(input, SP[2], 0, 1, 1) BY <1>5, CoverNone
<1>7. Len(SP[2]) \in Nat BY <1>3
<1>8. Good(input, it, 1) BY <1>2, <1>4, <1>6, <1>7 DEF Good, Item
<1>9. sets = <<<<it>>>> /\ sets \in Seq(Seq(ItemSpace)) BY <1>4 DEF EarleyInit
<1>10. AllGood BY <1>8, <1>9 DEF AllGood
<1>11. Shape BY <1>1, <1>5, <1>9 DEF Shape, EarleyInit
<1>12. InLoop BY DEF InLoop, EarleyInit
<1>13. Worth /\ Answer BY DEF Worth, Answer, EarleyInit
<1> QED BY <1>10, <1>11, <1>12, <1>13 DEF IInv

\* The item a turn is about.
LEMMA CurrentGood ==
    ASSUME IInv, pos <= Len(sets[at])
    PROVE  Good(input, Current, at) /\ at \in Positions(input) /\ input \in EarleyInputs
           /\ Len(input.word) \in Nat
<1>1. Shape /\ AllGood BY DEF IInv
<1>2. input \in EarleyInputs /\ input.word \in Seq(Terminals \cup {Unknown})
      BY <1>1, EarleyAssumption DEF Shape
<1>3. at \in DOMAIN sets /\ pos \in DOMAIN sets[at] BY <1>1 DEF Shape
<1>4. at \in Positions(input) BY <1>1, <1>2 DEF Shape, Positions
<1> QED BY <1>1, <1>2, <1>3, <1>4 DEF AllGood, Current

LEMMA ReadTokenOK == IInv /\ ReadToken => IInv'
BY DEF IInv, Shape, AllGood, InLoop, Worth, Answer, WorthParsing, ReadToken, Stop, Current, AtEnd

LEMMA PredictOK == IInv /\ Predict => IInv'
<1> SUFFICES ASSUME IInv, Predict PROVE IInv' OBVIOUS
<1>1. Shape /\ AllGood /\ Worth /\ Answer BY DEF IInv
<1>2. Good(input, Current, at) /\ at \in Positions(input) /\ input \in EarleyInputs
      BY CurrentGood DEF Predict
<1>3. input' = input /\ at' = at BY DEF Predict
<1>4. PICK it : Good(input, it, at) /\ (Push(it) \/ sets' = sets)
  <2>1. CASE Looking(Current) \in input.null
    <3>1. Covers(input, Looking(Current), at, at)
          BY <1>2, <2>1, EarleyAssumption DEF Covers, Closed, Predict
    <3>2. at <= at BY <1>1 DEF Shape
    <3>3. Good(input, Scanned(Current), at)
          BY <1>2, <3>1, <3>2, ScannedGood DEF Predict, AtEnd
    <3> QED BY <2>1, <3>3 DEF Predict, PushIf
  <2>2. CASE Looking(Current) \notin input.null BY <1>2, <2>2 DEF Predict, PushIf
  <2> QED BY <2>1, <2>2
<1>5. /\ sets' \in Seq(Seq(ItemSpace)) /\ Len(sets') = Len(sets) /\ AllGood'
      /\ Len(sets'[at]) >= Len(sets[at])
      BY <1>1, <1>3, <1>4, PushKeeps
<1>6. pos' \in Nat \ {0} /\ rel' \in Nat \ {0} BY <1>1 DEF Shape, Predict
<1>7. Shape' BY <1>1, <1>3, <1>5, <1>6 DEF Shape
<1>8. phase' # "complete" BY DEF Predict
<1>9. phase' = "predict" => pos' <= Len(sets'[at])
  <2>1. Len(sets[at]) \in Nat /\ Len(sets'[at]) \in Nat BY <1>1, <1>5 DEF Shape
  <2>2. phase' = "predict" => pos' = pos BY DEF Predict
  <2> QED BY <1>1, <1>5, <2>1, <2>2 DEF Predict, Shape
<1>10. Worth' /\ Answer' BY <1>1 DEF Worth, Answer, WorthParsing, Predict
<1> QED BY <1>3, <1>5, <1>7, <1>8, <1>9, <1>10 DEF IInv, InLoop

LEMMA PredictNextOK == IInv /\ PredictNext => IInv'
<1> SUFFICES ASSUME IInv, PredictNext PROVE IInv' OBVIOUS
<1>1. Shape /\ AllGood /\ InLoop /\ Worth /\ Answer BY DEF IInv
<1>2. pos <= Len(sets[at]) BY <1>1 DEF InLoop, PredictNext
<1>3. /\ Good(input, Current, at) /\ at \in Positions(input) /\ input \in EarleyInputs
      /\ Len(input.word) \in Nat
      BY <1>2, CurrentGood
<1>4. CASE rel <= Len(input.rules)
  <2> DEFINE it == Item(input.rules[rel], 0, at)
  <2>1. input.rules \in Seq(Rules) BY <1>3, EarleyAssumption
  <2>2. rel \in DOMAIN input.rules BY <1>1, <1>4, <2>1 DEF Shape
  <2>3. input.rules[rel] \in AllRules(input) BY <2>2 DEF AllRules
  <2>4. input.rules[rel] \in (Variables \cup {SV}) \X Seq(Symbols \cup {SV})
        BY <1>3, <2>3, RuleTyped
  <2>5. Covered(input, input.rules[rel][2], 0, at, at) BY <1>3, CoverNone
  <2>6. at \in Nat /\ at \in 1 .. at BY <1>1 DEF Shape
  <2>7. Len(input.rules[rel][2]) \in Nat BY <2>4
  <2>8. input.rules[rel][1] # SV BY <2>1, <2>2, SymbolsAssumption DEF Rules, SV
  <2>9. Good(input, it, at) BY <2>3, <2>4, <2>5, <2>6, <2>7, <2>8 DEF Good, Item, ItemSpace
  <2>10. Push(it) \/ sets' = sets BY <1>4 DEF PredictNext, PushIf
  <2>11. /\ input' = input /\ at' = at /\ pos' = pos /\ phase' = phase
         /\ phase \in {"predict", "complete"} /\ rel' \in Nat \ {0} /\ result' = result
         BY <1>1, <1>4 DEF PredictNext, Shape
  <2> HIDE DEF it
  <2> QED BY <2>9, <2>10, <2>11, LoopOn
<1>5. CASE ~ rel <= Len(input.rules)
  <2>1. /\ UNCHANGED <<input, sets, at, rel>> /\ pos' = pos + 1 /\ phase' = "items"
        BY <1>5 DEF PredictNext
  <2>2. Shape' BY <1>1, <2>1 DEF Shape
  <2>3. AllGood' BY <1>1, <2>1 DEF AllGood
  <2>4. InLoop' BY <2>1 DEF InLoop
  <2>5. Worth' /\ Answer' BY <1>1, <2>1 DEF Worth, Answer, WorthParsing, PredictNext, CompleteNext
  <2> QED BY <2>2, <2>3, <2>4, <2>5 DEF IInv
<1> QED BY <1>4, <1>5

LEMMA CompleteOK == IInv /\ Complete => IInv'
BY DEF IInv, Shape, AllGood, InLoop, Worth, Answer, WorthParsing, Complete, Current, AtEnd

LEMMA CompleteNextOK == IInv /\ CompleteNext => IInv'
<1> SUFFICES ASSUME IInv, CompleteNext PROVE IInv' OBVIOUS
<1>1. Shape /\ AllGood /\ InLoop /\ Worth /\ Answer BY DEF IInv
<1>2. pos <= Len(sets[at]) /\ AtEnd(Current) BY <1>1 DEF InLoop, CompleteNext
<1>3. /\ Good(input, Current, at) /\ at \in Positions(input) /\ input \in EarleyInputs
      /\ Len(input.word) \in Nat
      BY <1>2, CurrentGood
<1>4. CASE rel <= Len(sets[Current.from])
  <2>1. Current.from \in 1 .. at BY <1>3 DEF Good
  <2>2. Current.from \in DOMAIN sets BY <1>1, <2>1 DEF Shape
  <2>3. rel \in DOMAIN sets[Current.from] BY <1>1, <1>4, <2>2 DEF Shape
  <2>4. Good(input, Related, Current.from) BY <1>1, <2>2, <2>3 DEF AllGood, Related
  <2>5. Current.from \in Positions(input) /\ Current.from <= at
        BY <1>1, <1>3, <2>1 DEF Positions, Shape
  <2>6. PICK it : Good(input, it, at) /\ (Push(it) \/ sets' = sets)
    <3>1. CASE ~ AtEnd(Related) /\ Looking(Related) = Current.rule[1]
      <4>1. Looking(Related) \in Symbols
        <5>1. /\ Related \in ItemSpace /\ Related.rule \in AllRules(input)
              /\ Related.dot <= Len(Related.rule[2])
              BY <2>4 DEF Good
        <5>2. Related.rule[2] \in Seq(Symbols) /\ Related.dot \in Nat
              BY <1>1, <5>1, RealSymbols DEF ItemSpace, CompleteNext, Worth
        <5>3. Related.dot + 1 \in 1 .. Len(Related.rule[2]) BY <3>1, <5>1, <5>2 DEF AtEnd
        <5> QED BY <5>2, <5>3 DEF Looking
      <4>2. Current.rule[1] \in Variables \cup {SV} BY <1>3 DEF Good, ItemSpace
      <4>3. Current.rule[1] \in Variables
            BY <3>1, <4>1, <4>2, SymbolsAssumption, EarleyAssumption DEF Symbols, SV
      <4>4. <<Current.rule[1], Current.from, at>> \in input.spans
            BY <1>2, <1>3, <4>3, EndIsSpan DEF AtEnd
      <4>5. Covers(input, Looking(Related), Current.from, at) BY <3>1, <4>3, <4>4 DEF Covers
      <4>6. Good(input, Scanned(Related), at)
            BY <1>3, <2>4, <2>5, <3>1, <4>5, ScannedGood DEF AtEnd
      <4> QED BY <1>4, <3>1, <4>6 DEF CompleteNext, PushIf
    <3>2. CASE ~ (~ AtEnd(Related) /\ Looking(Related) = Current.rule[1])
          BY <1>3, <1>4, <3>2 DEF CompleteNext, PushIf
    <3> QED BY <3>1, <3>2
  <2>7. /\ input' = input /\ at' = at /\ pos' = pos /\ phase' = phase
        /\ phase \in {"predict", "complete"} /\ rel' \in Nat \ {0} /\ result' = result
        BY <1>1, <1>4 DEF CompleteNext, Shape
  <2> QED BY <2>6, <2>7, LoopOn
<1>5. CASE ~ rel <= Len(sets[Current.from])
  <2>1. /\ UNCHANGED <<input, sets, at, rel>> /\ pos' = pos + 1 /\ phase' = "items"
        BY <1>5 DEF CompleteNext
  <2>2. Shape' BY <1>1, <2>1 DEF Shape
  <2>3. AllGood' BY <1>1, <2>1 DEF AllGood
  <2>4. InLoop' BY <2>1 DEF InLoop
  <2>5. Worth' /\ Answer' BY <1>1, <2>1 DEF Worth, Answer, WorthParsing, PredictNext, CompleteNext
  <2> QED BY <2>2, <2>3, <2>4, <2>5 DEF IInv
<1> QED BY <1>4, <1>5

LEMMA ScanOK == IInv /\ Scan => IInv'
<1> SUFFICES ASSUME IInv, Scan PROVE IInv' OBVIOUS
<1>1. Shape /\ AllGood /\ InLoop /\ Worth /\ Answer BY DEF IInv
<1>2. UNCHANGED <<input, at, rel, phase>> /\ pos' = pos + 1 /\ phase = "items" BY DEF Scan
<1>3. /\ Good(input, Current, at) /\ at \in Positions(input) /\ input \in EarleyInputs
      /\ Len(input.word) \in Nat
      BY CurrentGood DEF Scan
<1> DEFINE it == Scanned(Current)
<1>4. InLoop' BY <1>2 DEF InLoop
<1>5. Worth' /\ Answer' BY <1>1, <1>2 DEF Worth, Answer, WorthParsing, Scan
<1>6. CASE sets' = sets
  <2>1. Shape' BY <1>1, <1>2, <1>6 DEF Shape
  <2>2. AllGood' BY <1>1, <1>2, <1>6 DEF AllGood
  <2> QED BY <1>4, <1>5, <2>1, <2>2 DEF IInv
<1>7. CASE sets' # sets
  <2>1. NotAtEnd /\ Match(input, Token, Looking(Current)) BY <1>7 DEF Scan
  <2>2. at + 1 \in Positions(input) /\ at \in DOMAIN input.word
        BY <1>1, <1>3, <2>1, EarleyAssumption DEF NotAtEnd, Positions, Shape
  <2>3. Covers(input, Looking(Current), at, at + 1) BY <2>1, <2>2 DEF Covers, Token, Scan
  <2>4. at <= at + 1 BY <1>1 DEF Shape
  <2>5. Good(input, it, at + 1)
        BY <1>3, <2>2, <2>3, <2>4, ScannedGood DEF Scan, AtEnd
  <2>6. it \in ItemSpace BY <2>5 DEF Good
  <2> HIDE DEF it
  <2>7. CASE Len(sets) = at
    <3>1. sets' = Append(sets, <<it>>) BY <1>7, <2>1, <2>7 DEF Scan, it
    <3>2. <<it>> \in Seq(ItemSpace) BY <2>6
    <3>3. /\ sets' \in Seq(Seq(ItemSpace)) /\ Len(sets') = at + 1 /\ DOMAIN sets' = 1 .. at + 1
          /\ sets'[at + 1] = <<it>> /\ \A k \in DOMAIN sets : sets'[k] = sets[k]
          BY <1>1, <2>7, <3>1, <3>2 DEF Shape
    <3>4. Shape' BY <1>1, <1>2, <1>3, <2>1, <3>3 DEF Shape, NotAtEnd
    <3>5. ASSUME NEW k \in DOMAIN sets', NEW i \in DOMAIN sets'[k]
          PROVE  Good(input', sets'[k][i], k)
      <4>1. CASE k = at + 1
        <5>1. i = 1 /\ sets'[k][i] = it BY <3>3, <4>1
        <5> QED BY <1>2, <2>5, <4>1, <5>1
      <4>2. CASE k # at + 1
        <5>1. k \in DOMAIN sets BY <1>1, <2>7, <3>3, <4>2 DEF Shape
        <5> QED BY <1>1, <1>2, <3>3, <5>1 DEF AllGood
      <4> QED BY <4>1, <4>2
    <3> QED BY <1>4, <1>5, <3>4, <3>5 DEF IInv, AllGood
  <2>8. CASE Len(sets) # at
    <3>1. sets' = [sets EXCEPT ![at + 1] = Append(@, it)] BY <1>7, <2>1, <2>8 DEF Scan, it
    <3>2. at + 1 \in DOMAIN sets /\ sets[at + 1] \in Seq(ItemSpace) BY <1>1, <2>8 DEF Shape
    <3>3. /\ Append(sets[at + 1], it) \in Seq(ItemSpace)
          /\ DOMAIN Append(sets[at + 1], it) = 1 .. Len(sets[at + 1]) + 1
          /\ \A i \in DOMAIN sets[at + 1] : Append(sets[at + 1], it)[i] = sets[at + 1][i]
          BY <2>6, <3>2
    <3>4. /\ sets' \in Seq(Seq(ItemSpace)) /\ Len(sets') = Len(sets) /\ DOMAIN sets' = DOMAIN sets
          /\ sets'[at + 1] = Append(sets[at + 1], it)
          BY <1>1, <3>1, <3>2, <3>3 DEF Shape
    <3>5. Shape' BY <1>1, <1>2, <3>4 DEF Shape
    <3>6. ASSUME NEW k \in DOMAIN sets', NEW i \in DOMAIN sets'[k]
          PROVE  Good(input', sets'[k][i], k)
      <4>1. CASE k = at + 1 /\ i = Len(sets[at + 1]) + 1
        <5>1. sets'[k][i] = it BY <3>2, <3>4, <4>1
        <5> QED BY <1>2, <2>5, <4>1, <5>1
      <4>2. CASE k = at + 1 /\ i # Len(sets[at + 1]) + 1
        <5>1. i \in DOMAIN sets[k] BY <3>2, <3>3, <3>4, <4>2
        <5>2. sets'[k][i] = sets[k][i] BY <3>3, <3>4, <4>2, <5>1
        <5> QED BY <1>1, <1>2, <3>2, <4>2, <5>1, <5>2 DEF AllGood
      <4>3. CASE k # at + 1
        <5>1. k \in DOMAIN sets /\ sets'[k] = sets[k] BY <3>1, <3>4, <4>3
        <5> QED BY <1>1, <1>2, <5>1 DEF AllGood
      <4> QED BY <4>1, <4>2, <4>3
    <3> QED BY <1>4, <1>5, <3>5, <3>6 DEF IInv, AllGood
  <2> QED BY <2>7, <2>8
<1> QED BY <1>6, <1>7

LEMMA NextSetOK == IInv /\ NextSet => IInv'
<1> SUFFICES ASSUME IInv, NextSet PROVE IInv' OBVIOUS
<1>1. Shape /\ AllGood /\ InLoop /\ Worth /\ Answer BY DEF IInv
<1>2. UNCHANGED <<input, sets, pos, rel>> /\ phase = "items" BY DEF NextSet
<1>3. at' \in 1 .. Len(sets) BY <1>1 DEF NextSet, Shape
<1>4. Shape' BY <1>1, <1>2, <1>3 DEF Shape
<1>5. AllGood' BY <1>1, <1>2 DEF AllGood
<1>6. phase' \in {"set", "done"} BY DEF NextSet, Stop
<1>7. InLoop' BY <1>6 DEF InLoop
<1>8. Worth' BY <1>1, <1>2 DEF Worth, WorthParsing
<1>9. Answer'
  <2>1. CASE NotAtEnd \/ ~ \E i \in DOMAIN sets[at] : sets[at][i].dot = 1 /\ sets[at][i].rule[1] = SV
        BY <1>1, <1>2, <2>1 DEF NextSet, Stop, Answer, WorthParsing
  <2>2. CASE ~ NotAtEnd /\ \E i \in DOMAIN sets[at] : sets[at][i].dot = 1 /\ sets[at][i].rule[1] = SV
    <3>1. PICK i \in DOMAIN sets[at] : sets[at][i].dot = 1 /\ sets[at][i].rule[1] = SV BY <2>2
    <3> DEFINE it == sets[at][i]
    <3>2. Good(input, it, at) BY <1>1 DEF AllGood, Shape
    <3> HIDE DEF it
    <3>3. it.rule = SP
      <4>1. it.rule \in AllRules(input) BY <3>2 DEF Good
      <4>2. input.rules \in Seq(Rules) BY <1>1, EarleyAssumption DEF Shape
      <4>3. \A n \in DOMAIN input.rules : input.rules[n][1] # SV
            BY <4>2, SymbolsAssumption DEF Rules, SV
      <4> QED BY <3>1, <4>1, <4>3 DEF AllRules, SP, it
    <3>4. Covered(input, <<input.start>>, 1, 1, at) BY <3>1, <3>2, <3>3 DEF Good, SP, it
    <3>5. PICK cuts \in [0 .. 1 -> Positions(input)] :
            /\ cuts[0] = 1 /\ cuts[1] = at
            /\ \A n \in 1 .. 1 : Covers(input, <<input.start>>[n], cuts[n - 1], cuts[n])
          BY <3>4 DEF Covered
    <3>6. Covers(input, input.start, 1, at) BY <3>5
    <3>7. WorthParsing => input.start \in Variables
      <4>1. input.rules \in Seq(Rules) BY <1>1, EarleyAssumption DEF Shape
      <4> QED BY <4>1 DEF WorthParsing, Rules
    <3>8. at = Len(input.word) + 1
      <4>1. Len(input.word) \in Nat BY <1>1, EarleyAssumption DEF Shape
      <4>2. Len(sets) \in Nat /\ at \in 1 .. Len(sets) /\ Len(sets) <= Len(input.word) + 1
            BY <1>1 DEF Shape
      <4>3. ~ at <= Len(input.word) BY <2>2 DEF NotAtEnd
      <4> QED BY <4>1, <4>2, <4>3
    <3> QED BY <1>2, <3>6, <3>7, <3>8 DEF Covers, Answer, WorthParsing
  <2> QED BY <2>1, <2>2
<1> QED BY <1>4, <1>5, <1>7, <1>8, <1>9 DEF IInv

LEMMA StutterOK == IInv /\ UNCHANGED earleyVars => IInv'
BY DEF IInv, Shape, AllGood, InLoop, Worth, Answer, WorthParsing, Current, AtEnd, earleyVars

\* The invariant holds in every reachable state: the items have their types and
\* are covered, and the item a loop is about stays where it is.
THEOREM EarleyInvariance == EarleySpec => []IInv
<1>1. EarleyInit => IInv BY InitOK
<1>2. IInv /\ [EarleyNext]_earleyVars => IInv'
      BY ReadTokenOK, PredictOK, PredictNextOK, CompleteOK, CompleteNextOK, ScanOK, NextSetOK,
         StutterOK DEF EarleyNext, EarleyStep, EarleyDone
<1> QED BY <1>1, <1>2, PTL DEF EarleySpec

\* ItemsCovered for every grammar and word and every order of the productions:
\* no item of CFG_PARSE_EARLEY claims more than the rules derive.
THEOREM ItemsAreCovered == EarleySpec => []ItemsCovered
<1>1. IInv => ItemsCovered BY DEF IInv, AllGood, Good, ItemsCovered
<1> QED BY <1>1, EarleyInvariance, PTL

\* One half of Verdict for every grammar and word: what the parser says yes to
\* is derived from the start variable, whatever the null and first sets are
\* beyond that, and whether they are used or not.
THEOREM YesIsDerived == EarleySpec => []Answer
<1>1. IInv => Answer BY DEF IInv
<1> QED BY <1>1, EarleyInvariance, PTL
-----------------------------------------------------------------------------
(* Earley misses nothing.  Every item that was worked off has passed on what   *)
(* it stands for; so when all were, the spans that some item would have to be   *)
(* passed over for, and was, are closed under the rules, and are all spans.     *)

First0(in) == Item(<<SV, <<in.start>>>>, 0, 1)  \* the item that the parser begins with
Held(it, k) == k \in DOMAIN sets /\ \E i \in DOMAIN sets[k] : sets[k][i] = it

\* idx is the index of the set s: its chains are in the order of the dots and
\* hold the items of s, but for the first of all.
Filed(in, idx, s) ==
    /\ idx \in [Positions(in) -> Seq(ItemSpace)]
    /\ \A f \in Positions(in) : \A n \in DOMAIN idx[f] :
         /\ \E i \in DOMAIN s : s[i] = idx[f][n]
         /\ \A m \in DOMAIN idx[f] : m < n => idx[f][m].dot <= idx[f][n].dot
    /\ \A i \in DOMAIN s :
         /\ s[i].from \in Positions(in)
         /\ s[i] # First0(in) => \E n \in DOMAIN idx[s[i].from] : idx[s[i].from][n] = s[i]
Charted ==
    /\ Len(sets) <= at + 1
    /\ Filed(input, index, sets[at])
    /\ Len(sets) = at + 1 => Filed(input, nextIndex, sets[at + 1])
    /\ Held(First0(input), 1)

\* What the item of set k passes on: over a nullable variable, by prediction
\* (from the first n - 1 productions), over a token, and at its end to the
\* first n - 1 items of its initial set.
RuledOut(k, X) ==
    /\ input.predict /\ k \in DOMAIN input.word /\ IsKnown(input.word[k])
    /\ input.word[k] \notin input.first[X]
Before(it, X) == ~ AtEnd(it) /\ Looking(it) = X
Passes(it, k) ==
    \A X \in Variables : Before(it, X) /\ X \in input.null => Held(Scanned(it), k)
Predicts(it, k, n) ==
    \A r \in DOMAIN input.rules :
        r < n /\ Before(it, input.rules[r][1]) /\ ~ RuledOut(k, input.rules[r][1])
            => Held(Item(input.rules[r], 0, k), k)
Scans(it, k) ==
    /\ ~ AtEnd(it) /\ Looking(it) \notin Variables
    /\ k \in DOMAIN input.word /\ Match(input, input.word[k], Looking(it))
    => Held(Scanned(it), k + 1)
Completes(it, k, n) ==
    AtEnd(it) => \A m \in DOMAIN sets[it.from] :
        m < n /\ Before(sets[it.from][m], it.rule[1]) => Held(Scanned(sets[it.from][m]), k)
Worked(it, k) ==
    /\ Passes(it, k) /\ Predicts(it, k, Len(input.rules) + 1) /\ Scans(it, k)
    /\ it.from < k => Completes(it, k, Len(sets[it.from]) + 1)

Finished(k, i) == k < at \/ (k = at /\ phase # "set" /\ i < pos)
Saturated ==
    \A k \in DOMAIN sets : \A i \in DOMAIN sets[k] : \A it \in ItemSpace :
        sets[k][i] = it /\ Finished(k, i) => Worked(it, k)
Underway ==
    \A it \in ItemSpace : it = Current =>
        /\ phase = "predict" => /\ ~ AtEnd(it) /\ Looking(it) \in Variables
                                /\ Passes(it, at) /\ Predicts(it, at, rel)
        /\ phase = "complete" => Completes(it, at, rel)
CInv == Charted /\ NoneTwice /\ Saturated /\ Underway

-----------------------------------------------------------------------------
(* Chains *)

\* What is where when an element is put into a sequence.
LEMMA Inserted ==
    ASSUME NEW c \in Seq(ItemSpace), NEW e \in ItemSpace, NEW p \in 1 .. Len(c) + 1
    PROVE  LET d == SubSeq(c, 1, p - 1) \o <<e>> \o SubSeq(c, p, Len(c))
           IN  /\ d \in Seq(ItemSpace) /\ Len(d) = Len(c) + 1
               /\ d[p] = e
               /\ \A i \in 1 .. p - 1 : d[i] = c[i]
               /\ \A i \in p .. Len(c) : d[i + 1] = c[i]
<1> DEFINE a == SubSeq(c, 1, p - 1)
           b == SubSeq(c, p, Len(c))
           f == a \o <<e>>
           d == f \o b
<1>1. Len(c) \in Nat /\ p \in Nat OBVIOUS
<1>2. a \in Seq(ItemSpace) /\ Len(a) = p - 1 /\ \A i \in 1 .. p - 1 : a[i] = c[i] BY <1>1
<1>3. b \in Seq(ItemSpace) /\ Len(b) = Len(c) + 1 - p /\ \A i \in 1 .. Len(c) + 1 - p : b[i] = c[p + i - 1]
      BY <1>1
<1> HIDE DEF a, b
<1>4. f \in Seq(ItemSpace) /\ Len(f) = p /\ f[p] = e /\ \A i \in 1 .. p - 1 : f[i] = c[i] BY <1>1, <1>2
<1> HIDE DEF f
<1>6. /\ d \in Seq(ItemSpace) /\ Len(d) = Len(f) + Len(b)
      /\ \A i \in 1 .. Len(f) : d[i] = f[i]
      /\ \A i \in 1 .. Len(b) : d[Len(f) + i] = b[i]
  <2>1. f \in Seq(ItemSpace) /\ b \in Seq(ItemSpace) BY <1>3, <1>4
  <2>2. d \in Seq(ItemSpace) /\ Len(d) = Len(f) + Len(b) BY <2>1
  <2>3. \A i \in 1 .. Len(f) : d[i] = f[i] BY <2>1
  <2>4. \A i \in 1 .. Len(b) : d[Len(f) + i] = b[i] BY <2>1
  <2> QED BY <2>2, <2>3, <2>4
<1> HIDE DEF d
<1>7. Len(d) = Len(c) + 1
  <2>1. Len(f) = p /\ Len(b) = Len(c) + 1 - p BY <1>3, <1>4
  <2>2. Len(d) = p + (Len(c) + 1 - p) BY <1>6, <2>1
  <2> QED BY <1>1, <2>2
<1>8. d[p] = e BY <1>1, <1>4, <1>6
<1>10. ASSUME NEW i \in 1 .. p - 1 PROVE d[i] = c[i]
  <2>1. i \in 1 .. Len(f) BY <1>1, <1>4
  <2> QED BY <1>4, <1>6, <2>1
<1>9. ASSUME NEW i \in p .. Len(c) PROVE d[i + 1] = c[i]
  <2>1. i - p + 1 \in 1 .. Len(b) /\ p + (i - p + 1) = i + 1 BY <1>1, <1>3
  <2>2. d[i + 1] = b[i - p + 1] BY <1>4, <1>6, <2>1
  <2>3. b[i - p + 1] = c[p + (i - p + 1) - 1] BY <1>3, <2>1
  <2>4. p + (i - p + 1) - 1 = i BY <1>1
  <2> QED BY <2>2, <2>3, <2>4
<1> QED BY <1>6, <1>7, <1>8, <1>9, <1>10 DEF d, f, a, b

LEMMA ItemTyped ==
    ASSUME NEW it \in ItemSpace
    PROVE  it.dot \in Nat /\ it.from \in Nat
BY DEF ItemSpace

\* The place is the first one where the dot gets greater or the item is.
LEMMA PlaceRight ==
    ASSUME NEW c \in Seq(ItemSpace), NEW it \in ItemSpace
    PROVE  /\ PlaceOf(c, it) \in 1 .. Len(c) + 1
           /\ \A i \in 1 .. PlaceOf(c, it) - 1 : c[i].dot <= it.dot /\ c[i] # it
           /\ PlaceOf(c, it) <= Len(c)
                => it.dot < c[PlaceOf(c, it)].dot \/ it = c[PlaceOf(c, it)]
<1> DEFINE stops == {i \in DOMAIN c : it.dot < c[i].dot \/ it = c[i]}
<1>0. \A i \in DOMAIN c : c[i] \in ItemSpace OBVIOUS
<1>1. Len(c) \in Nat /\ DOMAIN c = 1 .. Len(c) /\ it.dot \in Nat
      /\ \A i \in DOMAIN c : c[i].dot \in Nat
      BY <1>0, ItemTyped
<1>2. PlaceOf(c, it) = IF stops = {} THEN Len(c) + 1
                       ELSE CHOOSE i \in stops : \A j \in stops : i <= j
      BY DEF PlaceOf
<1>3. CASE stops = {}
  <2>1. PlaceOf(c, it) = Len(c) + 1 BY <1>2, <1>3
  <2>2. \A i \in 1 .. Len(c) : c[i].dot <= it.dot /\ c[i] # it BY <1>1, <1>3
  <2> QED BY <1>1, <2>1, <2>2
<1>4. CASE stops # {}
  <2>1. stops \in SUBSET Nat BY <1>1
  <2> HIDE DEF stops
  <2>2. \E i \in stops : \A j \in stops : i <= j BY <1>4, <2>1, Order!LeastExists
  <2> DEFINE p == PlaceOf(c, it)
  <2>3. p \in stops /\ \A j \in stops : p <= j BY <1>2, <1>4, <2>2
  <2> HIDE DEF p
  <2>4. p \in 1 .. Len(c) /\ (it.dot < c[p].dot \/ it = c[p]) BY <1>1, <2>3 DEF stops
  <2>5. ASSUME NEW i \in 1 .. p - 1 PROVE c[i].dot <= it.dot /\ c[i] # it
    <3>1. i \in DOMAIN c /\ i < p BY <1>1, <2>4
    <3>2. i \notin stops BY <2>1, <2>3, <3>1
    <3> QED BY <1>1, <3>1, <3>2 DEF stops
  <2> QED BY <1>1, <2>4, <2>5 DEF p
<1> QED BY <1>3, <1>4

\* A chain in the order of its dots is searched well by IsIn.
LEMMA IsInRight ==
    ASSUME NEW c \in Seq(ItemSpace), NEW it \in ItemSpace,
           \A n \in DOMAIN c : \A m \in DOMAIN c : m < n => c[m].dot <= c[n].dot
    PROVE  IsIn(c, it) <=> \E n \in DOMAIN c : c[n] = it
<1> DEFINE p == PlaceOf(c, it)
<1>1. /\ p \in 1 .. Len(c) + 1
      /\ \A i \in 1 .. p - 1 : c[i].dot <= it.dot /\ c[i] # it
      /\ p <= Len(c) => it.dot < c[p].dot \/ it = c[p]
      BY PlaceRight
<1>2. IsIn(c, it) <=> p <= Len(c) /\ c[p] = it BY DEF IsIn
<1> HIDE DEF p
<1>0. \A i \in DOMAIN c : c[i] \in ItemSpace OBVIOUS
<1>3. Len(c) \in Nat /\ DOMAIN c = 1 .. Len(c) /\ \A i \in DOMAIN c : c[i].dot \in Nat
      BY <1>0, ItemTyped
<1>4. ASSUME NEW n \in DOMAIN c, c[n] = it PROVE p <= Len(c) /\ c[p] = it
  <2>1. ~ n \in 1 .. p - 1 BY <1>1, <1>4
  <2>2. p <= n /\ p \in DOMAIN c BY <1>1, <1>3, <2>1
  <2>3. p # n => c[p].dot <= it.dot BY <1>3, <1>4, <2>2
  <2> QED BY <1>1, <1>3, <1>4, <2>2, <2>3
<1> QED BY <1>1, <1>2, <1>3, <1>4

\* Putting an item that is not there yet into an index and a set.
LEMMA FiledPush ==
    ASSUME NEW idx, NEW s \in Seq(ItemSpace), Filed(input, idx, s),
           NEW it \in ItemSpace, it.from \in Positions(input), ~ IsIn(idx[it.from], it)
    PROVE  Filed(input, Chained(idx, it), Append(s, it))
<1> DEFINE f == it.from
           c == idx[f]
           p == PlaceOf(c, it)
           d == SubSeq(c, 1, p - 1) \o <<it>> \o SubSeq(c, p, Len(c))
           new == Chained(idx, it)
           t == Append(s, it)
<1>1. /\ idx \in [Positions(input) -> Seq(ItemSpace)]
      /\ \A g \in Positions(input) : \A n \in DOMAIN idx[g] :
           /\ \E i \in DOMAIN s : s[i] = idx[g][n]
           /\ \A m \in DOMAIN idx[g] : m < n => idx[g][m].dot <= idx[g][n].dot
      /\ \A i \in DOMAIN s :
           /\ s[i].from \in Positions(input)
           /\ s[i] # First0(input) => \E n \in DOMAIN idx[s[i].from] : idx[s[i].from][n] = s[i]
      BY DEF Filed
<1>2. c \in Seq(ItemSpace) BY <1>1
<1>21. \A n \in DOMAIN c : \A m \in DOMAIN c : m < n => c[m].dot <= c[n].dot BY <1>1
<1>3. new = [idx EXCEPT ![f] = d] BY DEF Chained
<1>22. ~ IsIn(c, it) /\ c = idx[f] OBVIOUS
<1> HIDE DEF c
<1> HIDE DEF new
<1>4. /\ p \in 1 .. Len(c) + 1
      /\ \A i \in 1 .. p - 1 : c[i].dot <= it.dot
      /\ p <= Len(c) => it.dot < c[p].dot
  <2>1. /\ p \in 1 .. Len(c) + 1
        /\ \A i \in 1 .. p - 1 : c[i].dot <= it.dot
        /\ p <= Len(c) => it.dot < c[p].dot \/ it = c[p]
        BY <1>2, PlaceRight
  <2>2. ~ (p <= Len(c) /\ c[p] = it) BY <1>22 DEF IsIn
  <2> QED BY <2>1, <2>2
<1> HIDE DEF p
<1>23. p \in 1 .. Len(c) + 1 BY <1>4
<1>5. /\ d \in Seq(ItemSpace) /\ Len(d) = Len(c) + 1
      /\ d[p] = it
      /\ \A i \in 1 .. p - 1 : d[i] = c[i]
      /\ \A i \in p .. Len(c) : d[i + 1] = c[i]
      BY <1>2, <1>23, Inserted, ZenonT(60)
<1> HIDE DEF d
<1>6. new \in [Positions(input) -> Seq(ItemSpace)] BY <1>1, <1>3, <1>5
<1>7. new[f] = d /\ \A g \in Positions(input) : g # f => new[g] = idx[g] BY <1>1, <1>3
<1>8. /\ t \in Seq(ItemSpace) /\ Len(t) = Len(s) + 1 /\ t[Len(s) + 1] = it
      /\ \A i \in DOMAIN s : i \in DOMAIN t /\ t[i] = s[i]
      /\ \A i \in DOMAIN t : i \in DOMAIN s \/ i = Len(s) + 1
      /\ Len(s) + 1 \in DOMAIN t
      OBVIOUS
<1> HIDE DEF t
<1>9. Len(c) \in Nat /\ DOMAIN c = 1 .. Len(c) /\ DOMAIN d = 1 .. Len(c) + 1
      BY <1>2, <1>5
\* Every element of the longer chain is an old one or the item, and comes from
\* where it was.
<1>10. \A n \in DOMAIN d : n = p \/ (n < p /\ n \in DOMAIN c /\ d[n] = c[n])
                           \/ (p < n /\ n - 1 \in DOMAIN c /\ d[n] = c[n - 1])
  <2> TAKE n \in DOMAIN d
  <2>1. CASE n < p
    <3>1. n \in 1 .. p - 1 /\ n \in DOMAIN c BY <1>4, <1>9, <2>1
    <3> QED BY <1>5, <2>1, <3>1
  <2>2. CASE p < n
    <3>1. n - 1 \in p .. Len(c) /\ n - 1 \in DOMAIN c BY <1>4, <1>9, <2>2
    <3>2. d[(n - 1) + 1] = c[n - 1] BY <1>5, <3>1
    <3>3. (n - 1) + 1 = n BY <1>9
    <3> QED BY <2>2, <3>1, <3>2, <3>3
  <2>3. n = p \/ n < p \/ p < n BY <1>4, <1>9
  <2> QED BY <2>1, <2>2, <2>3
<1>11. \A n \in DOMAIN c : \E m \in DOMAIN d : d[m] = c[n]
  <2> TAKE n \in DOMAIN c
  <2>1. CASE n < p
    <3>1. n \in 1 .. p - 1 /\ n \in DOMAIN d BY <1>4, <1>9, <2>1
    <3> QED BY <1>5, <3>1
  <2>2. CASE ~ n < p
    <3>1. n \in p .. Len(c) /\ n + 1 \in DOMAIN d BY <1>4, <1>9, <2>2
    <3> QED BY <1>5, <3>1
  <2> QED BY <2>1, <2>2
<1>12. p \in DOMAIN d BY <1>4, <1>9
\* The chain stays in the order of the dots.
<1>13. \A n \in DOMAIN c : c[n].dot \in Nat
  <2>1. \A n \in DOMAIN c : c[n] \in ItemSpace BY <1>2
  <2> QED BY <2>1, ItemTyped
<1>14. it.dot \in Nat BY ItemTyped
<1>15. \A n \in DOMAIN c : p <= n => it.dot < c[n].dot
  <2> TAKE n \in DOMAIN c
  <2> HAVE p <= n
  <2>1. p \in DOMAIN c /\ p <= Len(c) BY <1>4, <1>9
  <2>2. n = p \/ c[p].dot <= c[n].dot BY <1>4, <1>9, <1>21, <2>1
  <2>3. it.dot < c[p].dot BY <1>4, <2>1
  <2> QED BY <1>13, <1>14, <2>1, <2>2, <2>3
<1>16. \A n \in DOMAIN c : n < p => c[n].dot <= it.dot
  <2> TAKE n \in DOMAIN c
  <2> HAVE n < p
  <2>1. n \in 1 .. p - 1 BY <1>4, <1>9
  <2> QED BY <1>4, <2>1
<1>17. ASSUME NEW n \in DOMAIN d, NEW m \in DOMAIN d, m < n PROVE d[m].dot <= d[n].dot
  <2>0. n \in Int /\ m \in Int /\ p \in Int BY <1>4, <1>9
  <2>1. CASE n = p
    <3>1. m \in DOMAIN c /\ d[m] = c[m] BY <1>10, <1>17, <2>0, <2>1
    <3> QED BY <1>5, <1>16, <1>17, <2>1, <3>1
  <2>2. CASE n < p
    <3>1. n \in DOMAIN c /\ d[n] = c[n] BY <1>10, <2>0, <2>2
    <3>2. m \in DOMAIN c /\ d[m] = c[m] BY <1>10, <1>17, <2>0, <2>2
    <3> QED BY <1>17, <1>21, <3>1, <3>2
  <2>3. CASE p < n
    <3>1. n - 1 \in DOMAIN c /\ d[n] = c[n - 1] BY <1>10, <2>0, <2>3
    <3>2. p <= n - 1 BY <2>0, <2>3
    <3>3. it.dot < d[n].dot BY <1>15, <3>1, <3>2
    <3>4. CASE m = p BY <1>5, <1>13, <1>14, <3>1, <3>3, <3>4
    <3>5. CASE m < p
      <4>1. m \in DOMAIN c /\ d[m] = c[m] BY <1>10, <2>0, <3>5
      <4>2. d[m].dot <= it.dot BY <1>16, <3>5, <4>1
      <4> QED BY <1>13, <1>14, <3>1, <3>3, <4>1, <4>2
    <3>6. CASE p < m
      <4>1. m - 1 \in DOMAIN c /\ d[m] = c[m - 1] BY <1>10, <2>0, <3>6
      <4>2. m - 1 < n - 1 BY <1>17, <2>0
      <4> QED BY <1>21, <3>1, <4>1, <4>2
    <3> QED BY <2>0, <3>4, <3>5, <3>6
  <2> QED BY <2>0, <2>1, <2>2, <2>3
<1>18. ASSUME NEW g \in Positions(input), NEW n \in DOMAIN new[g]
       PROVE  /\ \E i \in DOMAIN t : t[i] = new[g][n]
              /\ \A m \in DOMAIN new[g] : m < n => new[g][m].dot <= new[g][n].dot
  <2>1. CASE g # f
    <3>1. new[g] = idx[g] BY <1>7, <2>1
    <3>2. PICK i \in DOMAIN s : s[i] = idx[g][n] BY <1>1, <3>1
    <3>3. \E i1 \in DOMAIN t : t[i1] = new[g][n] BY <1>8, <3>1, <3>2
    <3>4. \A m \in DOMAIN new[g] : m < n => new[g][m].dot <= new[g][n].dot BY <1>1, <3>1
    <3> QED BY <3>3, <3>4
  <2>2. CASE g = f
    <3>1. new[g] = d /\ n \in DOMAIN d BY <1>7, <2>2
    <3>2. \E i \in DOMAIN t : t[i] = d[n]
      <4>1. CASE n = p BY <1>5, <1>8, <4>1
      <4>2. CASE n # p
        <5>1. PICK m \in DOMAIN c : d[n] = c[m] BY <1>10, <3>1, <4>2
        <5>2. PICK i \in DOMAIN s : s[i] = c[m] BY <1>1, <1>22
        <5> QED BY <1>8, <5>1, <5>2
      <4> QED BY <4>1, <4>2
    <3> QED BY <1>17, <3>1, <3>2
  <2> QED BY <2>1, <2>2
<1>19. ASSUME NEW i \in DOMAIN t
       PROVE  /\ t[i].from \in Positions(input)
              /\ t[i] # First0(input) => \E n \in DOMAIN new[t[i].from] : new[t[i].from][n] = t[i]
  <2>1. CASE i = Len(s) + 1
    <3>1. t[i] = it BY <1>8, <2>1
    <3> QED BY <1>5, <1>7, <1>12, <3>1
  <2>2. CASE i # Len(s) + 1
    <3>1. i \in DOMAIN s /\ t[i] = s[i] BY <1>8, <2>2
    <3> DEFINE g == s[i].from
    <3>2. g \in Positions(input) /\ (s[i] # First0(input) => \E n \in DOMAIN idx[g] : idx[g][n] = s[i])
          BY <1>1, <3>1
    <3> HIDE DEF g
    <3>3. s[i] # First0(input) => \E n \in DOMAIN new[g] : new[g][n] = s[i]
      <4>1. CASE g # f BY <1>7, <3>2, <4>1
      <4>2. CASE g = f
        <5> HAVE s[i] # First0(input)
        <5>1. PICK n \in DOMAIN c : c[n] = s[i] BY <1>22, <3>2, <4>2
        <5>2. PICK m \in DOMAIN d : d[m] = c[n] BY <1>11
        <5> QED BY <1>7, <4>2, <5>1, <5>2
      <4> QED BY <4>1, <4>2
    <3> QED BY <3>1, <3>2, <3>3 DEF g
  <2> QED BY <2>1, <2>2
<1>20. Filed(input, new, t) BY <1>6, <1>18, <1>19 DEF Filed
<1> QED BY <1>20 DEF new, t

\* What IsIn says of the set.
LEMMA FiledHas ==
    ASSUME NEW idx, NEW s \in Seq(ItemSpace), Filed(input, idx, s),
           NEW it \in ItemSpace, it.from \in Positions(input), it # First0(input)
    PROVE  IsIn(idx[it.from], it) <=> \E i \in DOMAIN s : s[i] = it
<1> DEFINE c == idx[it.from]
<1>1. /\ c \in Seq(ItemSpace)
      /\ \A n \in DOMAIN c : \E i \in DOMAIN s : s[i] = c[n]
      /\ \A n \in DOMAIN c : \A m \in DOMAIN c : m < n => c[m].dot <= c[n].dot
      /\ \A i \in DOMAIN s : s[i] = it => \E n \in DOMAIN c : c[n] = it
      BY DEF Filed
<1> HIDE DEF c
<1>2. IsIn(c, it) <=> \E n \in DOMAIN c : c[n] = it BY <1>1, IsInRight
<1>3. IsIn(c, it) <=> \E i \in DOMAIN s : s[i] = it BY <1>1, <1>2
<1> QED BY <1>3 DEF c

-----------------------------------------------------------------------------
(* Sets that grow *)

\* Nothing is lost from the sets, and those behind the current one stay.
Grown ==
    /\ \A k \in DOMAIN sets : k \in DOMAIN sets'
         /\ \A i \in DOMAIN sets[k] : i \in DOMAIN sets'[k] /\ sets'[k][i] = sets[k][i]
    /\ \A k \in DOMAIN sets : k < at => sets'[k] = sets[k]

\* An item that may be pushed on a set.
Pushable(it) == it \in ItemSpace /\ it.from \in Positions(input) /\ it # First0(input)

LEMMA SameGrown == ASSUME sets' = sets PROVE Grown
BY DEF Grown

LEMMA HeldStays ==
    ASSUME Grown, NEW it, NEW k, Held(it, k)
    PROVE  Held(it, k)'
BY DEF Grown, Held

\* A set without duplicates stays so with an item that is not in it.
LEMMA AppendDistinct ==
    ASSUME NEW s \in Seq(ItemSpace), NEW it \in ItemSpace,
           \A i, j \in DOMAIN s : s[i] = s[j] => i = j, ~ \E i \in DOMAIN s : s[i] = it
    PROVE  \A i, j \in DOMAIN Append(s, it) : Append(s, it)[i] = Append(s, it)[j] => i = j
<1> DEFINE t == Append(s, it)
<1>1. /\ t[Len(s) + 1] = it
      /\ \A i \in DOMAIN s : t[i] = s[i]
      /\ \A i \in DOMAIN t : i \in DOMAIN s \/ i = Len(s) + 1
      OBVIOUS
<1> HIDE DEF t
<1>2. \A i, j \in DOMAIN t : t[i] = t[j] => i = j BY <1>1
<1> QED BY <1>2 DEF t

\* Appending an item to set k, which has no duplicates.
LEMMA SetAppended ==
    ASSUME Shape, NoneTwice, NEW k \in DOMAIN sets, at <= k, NEW it \in ItemSpace,
           ~ \E i \in DOMAIN sets[k] : sets[k][i] = it,
           sets' = [sets EXCEPT ![k] = Append(@, it)]
    PROVE  /\ Grown /\ NoneTwice' /\ DOMAIN sets' = DOMAIN sets /\ Len(sets') = Len(sets)
           /\ sets'[k] = Append(sets[k], it)
           /\ \A l \in DOMAIN sets : l # k => sets'[l] = sets[l]
           /\ Held(it, k)'
<1>1. sets \in Seq(Seq(ItemSpace)) /\ sets[k] \in Seq(ItemSpace) /\ at \in Nat BY DEF Shape
<1>2. /\ DOMAIN sets' = DOMAIN sets /\ Len(sets') = Len(sets)
      /\ sets'[k] = Append(sets[k], it)
      /\ \A l \in DOMAIN sets : l # k => sets'[l] = sets[l]
      BY <1>1
<1> DEFINE t == Append(sets[k], it)
<1>3. /\ \A i \in DOMAIN sets[k] : i \in DOMAIN t /\ t[i] = sets[k][i]
      /\ Len(sets[k]) + 1 \in DOMAIN t /\ t[Len(sets[k]) + 1] = it
      BY <1>1
<1>4. \A i, j \in DOMAIN t : t[i] = t[j] => i = j BY <1>1, AppendDistinct DEF NoneTwice
<1> HIDE DEF t
<1>5. sets'[k] = t BY <1>2 DEF t
<1>6. Grown
  <2>1. ASSUME NEW l \in DOMAIN sets
        PROVE  l \in DOMAIN sets'
               /\ \A i \in DOMAIN sets[l] : i \in DOMAIN sets'[l] /\ sets'[l][i] = sets[l][i]
        BY <1>2, <1>3, <1>5
  <2>2. ASSUME NEW l \in DOMAIN sets, l < at PROVE sets'[l] = sets[l]
    <3>1. l # k BY <1>1, <2>2 DEF Shape
    <3> QED BY <1>2, <3>1
  <2> QED BY <2>1, <2>2 DEF Grown
<1>7. NoneTwice'
  <2> SUFFICES ASSUME NEW l \in DOMAIN sets', NEW i \in DOMAIN sets'[l], NEW j \in DOMAIN sets'[l],
                      sets'[l][i] = sets'[l][j]
               PROVE  i = j
      BY DEF NoneTwice
  <2>1. CASE l = k BY <1>4, <1>5, <2>1
  <2>2. CASE l # k BY <1>2, <2>2 DEF NoneTwice
  <2> QED BY <2>1, <2>2
<1>8. Held(it, k)' BY <1>2, <1>3, <1>5 DEF Held
<1> QED BY <1>2, <1>6, <1>7, <1>8

\* Pushing an item on the current set.
LEMMA PushCharted ==
    ASSUME Shape, Charted, NoneTwice, UNCHANGED <<input, at, nextIndex>>,
           NEW it, Pushable(it), Push(it)
    PROVE  Grown /\ Charted' /\ NoneTwice' /\ Held(it, at)'
<1> DEFINE s == sets[at]
<1>1. /\ at \in DOMAIN sets /\ s \in Seq(ItemSpace) /\ at <= at /\ at + 1 # at
      /\ at \in Nat /\ Len(sets) \in Nat /\ DOMAIN sets = 1 .. Len(sets)
      BY DEF Shape
<1>2. it \in ItemSpace /\ it.from \in Positions(input) /\ it # First0(input) BY DEF Pushable
<1>3. Filed(input, index, s) /\ Len(sets) <= at + 1 /\ Held(First0(input), 1)
      /\ (Len(sets) = at + 1 => Filed(input, nextIndex, sets[at + 1]))
      BY DEF Charted
<1>4. IsIn(index[it.from], it) <=> \E i \in DOMAIN s : s[i] = it BY <1>1, <1>2, <1>3, FiledHas
<1>5. input' = input /\ at' = at OBVIOUS
<1>6. CASE IsIn(index[it.from], it)
  <2>1. UNCHANGED <<sets, index>> BY <1>6 DEF Push
  <2>2. Grown BY <2>1, SameGrown
  <2>3. Held(it, at) BY <1>1, <1>4, <1>6 DEF Held
  <2>4. Held(it, at)' BY <1>5, <2>2, <2>3, HeldStays DEF Held
  <2>5. NoneTwice' BY <2>1 DEF NoneTwice
  <2>6. Charted' BY <2>1 DEF Charted, Held
  <2> QED BY <2>2, <2>4, <2>5, <2>6
<1>7. CASE ~ IsIn(index[it.from], it)
  <2>1. sets' = [sets EXCEPT ![at] = Append(@, it)] /\ index' = Chained(index, it)
        BY <1>7 DEF Push
  <2>2. /\ Grown /\ NoneTwice' /\ DOMAIN sets' = DOMAIN sets /\ Len(sets') = Len(sets)
        /\ sets'[at] = Append(sets[at], it)
        /\ \A l \in DOMAIN sets : l # at => sets'[l] = sets[l]
        /\ \E i \in DOMAIN sets'[at] : sets'[at][i] = it
    <3>1. ~ \E i \in DOMAIN sets[at] : sets[at][i] = it BY <1>4, <1>7
    <3>2. /\ Grown /\ NoneTwice' /\ DOMAIN sets' = DOMAIN sets /\ Len(sets') = Len(sets)
          /\ sets'[at] = Append(sets[at], it)
          /\ \A l \in DOMAIN sets : l # at => sets'[l] = sets[l]
          BY <1>1, <1>2, <2>1, <3>1, SetAppended
    <3>3. Len(s) + 1 \in DOMAIN Append(s, it) /\ Append(s, it)[Len(s) + 1] = it BY <1>1
    <3> QED BY <3>2, <3>3
  <2>3. Filed(input, Chained(index, it), Append(s, it)) BY <1>1, <1>2, <1>3, <1>7, FiledPush
  <2>4. Filed(input, index, sets[at])' BY <1>5, <2>1, <2>2, <2>3
  <2>5. Len(sets) = at + 1 => Filed(input, nextIndex, sets[at + 1])'
    <3> HAVE Len(sets) = at + 1
    <3>1. at + 1 \in DOMAIN sets BY <1>1
    <3>2. sets'[at + 1] = sets[at + 1] BY <1>1, <2>2, <3>1
    <3> QED BY <1>3, <1>5, <3>2
  <2>6. Held(First0(input), 1)' BY <1>3, <1>5, <2>2, HeldStays DEF Held
  <2>7. Charted' BY <1>3, <1>5, <2>2, <2>4, <2>5, <2>6 DEF Charted
  <2>8. Held(it, at)' BY <1>1, <1>5, <2>2 DEF Held
  <2> QED BY <2>2, <2>7, <2>8
<1> QED BY <1>6, <1>7

\* What was worked off stays so.
LEMMA WorkedStays ==
    ASSUME Shape, Grown, input' = input, NEW k \in 1 .. at,
           NEW it, it.from \in 1 .. k, Worked(it, k)
    PROVE  Worked(it, k)'
<1>1. ASSUME NEW x, NEW l PROVE Held(x, l) => Held(x, l)' BY HeldStays
<1>2. Passes(it, k)' BY <1>1 DEF Worked, Passes
<1>3. Predicts(it, k, Len(input.rules) + 1)' BY <1>1 DEF Worked, Predicts, RuledOut
<1>4. Scans(it, k)' BY <1>1 DEF Worked, Scans
<1>5. (it.from < k => Completes(it, k, Len(sets[it.from]) + 1))'
  <2> SUFFICES ASSUME it.from < k PROVE Completes(it, k, Len(sets[it.from]) + 1)'
      OBVIOUS
  <2>1. it.from \in DOMAIN sets /\ it.from < at BY DEF Shape
  <2>2. sets'[it.from] = sets[it.from] BY <2>1 DEF Grown
  <2> QED BY <1>1, <2>2 DEF Worked, Completes
<1> QED BY <1>2, <1>3, <1>4, <1>5 DEF Worked

\* What an item is, wherever it is.
LEMMA ItemGood ==
    ASSUME IInv, NEW k \in DOMAIN sets, NEW i \in DOMAIN sets[k]
    PROVE  /\ Good(input, sets[k][i], k) /\ sets[k][i] \in ItemSpace
           /\ sets[k][i].from \in 1 .. k /\ sets[k][i].from \in Positions(input)
<1>1. Shape /\ Good(input, sets[k][i], k) BY DEF IInv, AllGood
<1>2. Len(input.word) \in Nat BY <1>1, EarleyAssumption DEF Shape
<1>3. sets[k][i] \in ItemSpace /\ sets[k][i].from \in 1 .. k BY <1>1 DEF Good
<1>4. k \in 1 .. Len(input.word) + 1 BY <1>1, <1>2 DEF Shape
<1>5. sets[k][i].from \in Positions(input) BY <1>2, <1>3, <1>4 DEF Positions
<1> QED BY <1>1, <1>3, <1>5

\* The loops go on, with the current item or behind it when it is worked off.
LEMMA SaturatedOn ==
    ASSUME IInv, Saturated, Grown, Shape', input' = input, at' = at,
           phase # "set", pos <= Len(sets[at]),
           NEW it, it = Current, pos' = pos \/ (pos' = pos + 1 /\ Worked(it, at)')
    PROVE  Saturated'
<1>1. Shape BY DEF IInv
<1> SUFFICES ASSUME NEW k \in DOMAIN sets', NEW i \in DOMAIN sets'[k], NEW x \in ItemSpace,
                    sets'[k][i] = x, Finished(k, i)'
             PROVE  Worked(x, k)'
    BY DEF Saturated
<1>2. /\ DOMAIN sets = 1 .. Len(sets) /\ at \in DOMAIN sets /\ at \in Nat
      /\ sets[at] \in Seq(ItemSpace) /\ Len(sets[at]) \in Nat /\ DOMAIN sets[at] = 1 .. Len(sets[at])
      /\ pos \in Nat \ {0}
  <2>1. sets \in Seq(Seq(ItemSpace)) /\ at \in 1 .. Len(sets) /\ pos \in Nat \ {0} BY <1>1 DEF Shape
  <2>2. DOMAIN sets = 1 .. Len(sets) /\ Len(sets) \in Nat BY <2>1
  <2>3. at \in DOMAIN sets /\ at \in Nat BY <2>1, <2>2
  <2>4. sets[at] \in Seq(ItemSpace) BY <2>1, <2>3
  <2>5. Len(sets[at]) \in Nat /\ DOMAIN sets[at] = 1 .. Len(sets[at]) BY <2>4
  <2> QED BY <2>1, <2>2, <2>3, <2>4, <2>5
<1>0. k \in Nat \ {0} /\ i \in Nat \ {0}
  <2>1. sets' \in Seq(Seq(ItemSpace)) /\ sets'[k] \in Seq(ItemSpace) BY DEF Shape
  <2> QED BY <2>1
<1>3. k \in 1 .. at /\ k \in DOMAIN sets BY <1>0, <1>2 DEF Finished
<1>4. ASSUME i \in DOMAIN sets[k], Finished(k, i) PROVE Worked(x, k)'
  <2>1. sets[k][i] = x BY <1>3, <1>4 DEF Grown
  <2>2. Worked(x, k) BY <1>3, <1>4, <2>1 DEF Saturated
  <2>3. x.from \in 1 .. k BY <1>3, <1>4, <2>1, ItemGood
  <2> QED BY <1>1, <1>3, <2>2, <2>3, WorkedStays
<1>5. CASE k < at
  <2>1. sets'[k] = sets[k] BY <1>3, <1>5 DEF Grown
  <2>2. Finished(k, i) BY <1>5 DEF Finished
  <2> QED BY <1>4, <2>1, <2>2
<1>6. CASE k = at /\ i < pos
  <2>1. i \in DOMAIN sets[k] BY <1>0, <1>2, <1>6
  <2>2. Finished(k, i) BY <1>6 DEF Finished
  <2> QED BY <1>4, <2>1, <2>2
<1>7. CASE k = at /\ ~ i < pos
  <2>1. i < pos' BY <1>0, <1>2, <1>7 DEF Finished
  <2>2. pos' = pos + 1 /\ Worked(it, at)' /\ i = pos BY <1>0, <1>2, <1>7, <2>1
  <2>3. pos \in DOMAIN sets[at] BY <1>2
  <2>4. x = it BY <1>2, <1>7, <2>2, <2>3 DEF Grown, Current
  <2>5. Worked(x, at)' BY <2>2, <2>4
  <2> QED BY <1>7, <2>5
<1>8. k < at \/ k = at BY <1>2, <1>3
<1> QED BY <1>0, <1>2, <1>5, <1>6, <1>7, <1>8

-----------------------------------------------------------------------------
(* What may be pushed *)

LEMMA ScannedPushable ==
    ASSUME NEW it \in ItemSpace, it.from \in Positions(input)
    PROVE  Pushable(Scanned(it))
<1>1. Scanned(it) \in ItemSpace /\ Scanned(it).from = it.from /\ Scanned(it).dot = it.dot + 1
      /\ it.dot \in Nat
      BY DEF Scanned, ItemSpace
<1>2. First0(input).dot = 0 BY DEF First0, Item
<1>3. Scanned(it) # First0(input) BY <1>1, <1>2
<1> QED BY <1>1, <1>3 DEF Pushable

LEMMA PredictedPushable ==
    ASSUME input \in EarleyInputs, NEW r \in DOMAIN input.rules, NEW k \in Positions(input)
    PROVE  Pushable(Item(input.rules[r], 0, k))
<1>1. input.rules[r] \in Rules /\ Len(input.word) \in Nat BY EarleyAssumption
<1>2. input.rules[r] \in (Variables \cup {SV}) \X Seq(Symbols \cup {SV})
  <2>1. input.rules[r] \in AllRules(input) BY DEF AllRules
  <2> QED BY <2>1, RuleTyped
<1>3. k \in Nat BY <1>1 DEF Positions
<1>4. Item(input.rules[r], 0, k) \in ItemSpace BY <1>2, <1>3 DEF Item, ItemSpace
<1>5. input.rules[r][1] # SV BY <1>1, SymbolsAssumption DEF Rules, SV
<1>6. Item(input.rules[r], 0, k).rule = input.rules[r] /\ Item(input.rules[r], 0, k).from = k
      BY DEF Item
<1>7. First0(input).rule[1] = SV BY DEF First0, Item
<1>8. Item(input.rules[r], 0, k) # First0(input) BY <1>5, <1>6, <1>7
<1> QED BY <1>4, <1>6, <1>8 DEF Pushable

\* A push or none, with what becomes of the current item.
LEMMA PushIfCharted ==
    ASSUME IInv, Charted, NoneTwice, UNCHANGED <<input, at, nextIndex>>,
           NEW c \in BOOLEAN, NEW it, c => Pushable(it), PushIf(c, it)
    PROVE  /\ Grown /\ Charted' /\ NoneTwice' /\ (c => Held(it, at)')
           /\ (pos \in DOMAIN sets[at] => sets'[at][pos] = Current)
<1>1. Shape BY DEF IInv
<1>2. CASE c BY <1>1, <1>2, PushCharted DEF PushIf, Grown, Current, Shape
<1>3. CASE ~ c
  <2>1. UNCHANGED <<sets, index>> BY <1>3 DEF PushIf
  <2>2. Grown BY <2>1, SameGrown
  <2>3. NoneTwice' BY <2>1 DEF NoneTwice
  <2>4. Charted' BY <2>1 DEF Charted, Held
  <2>5. sets'[at][pos] = Current BY <2>1 DEF Current
  <2> QED BY <1>3, <2>2, <2>3, <2>4, <2>5
<1> QED BY <1>2, <1>3

-----------------------------------------------------------------------------
(* The actions *)

\* The item a turn is about, as a constant of the step.
LEMMA CurrentIs ==
    ASSUME IInv, pos <= Len(sets[at])
    PROVE  /\ \E it \in ItemSpace : it = Current /\ Good(input, it, at) /\ it.from \in 1 .. at
                                    /\ it.from \in Positions(input) /\ it.dot \in Nat
           /\ input \in EarleyInputs /\ input.rules \in Seq(Rules) /\ at \in Positions(input)
           /\ pos \in DOMAIN sets[at] /\ at \in DOMAIN sets
<1>1. Shape BY DEF IInv
<1>2. at \in DOMAIN sets /\ pos \in DOMAIN sets[at] BY <1>1 DEF Shape
<1>3. Good(input, Current, at) /\ at \in Positions(input) /\ input \in EarleyInputs BY CurrentGood
<1>4. input.rules \in Seq(Rules) BY <1>3, EarleyAssumption
<1>5. Current \in ItemSpace /\ Current.from \in 1 .. at /\ Current.from \in Positions(input)
      BY <1>2, ItemGood DEF Current
<1>6. Current.dot \in Nat BY <1>5, ItemTyped
<1> QED BY <1>2, <1>3, <1>4, <1>5, <1>6

LEMMA StartedCharted == EarleyInit => CInv
<1> SUFFICES ASSUME EarleyInit PROVE CInv OBVIOUS
<1> DEFINE it == First0(input)
<1>1. IInv BY InitOK
<1>2. sets = <<<<it>>>> /\ at = 1 /\ Len(sets) = 1 /\ sets[1] = <<it>> /\ DOMAIN sets = {1}
      /\ DOMAIN sets[1] = {1} /\ sets[1][1] = it
      BY DEF EarleyInit, First0, SP
<1>3. Positions(input) = 1 .. Len(input.word) + 1 /\ it.from = 1 BY DEF Positions, First0, Item
<1>4. 1 \in Positions(input)
  <2>1. it.from \in Positions(input) BY <1>1, <1>2, ItemGood
  <2> QED BY <1>3, <2>1
<1> HIDE DEF it
<1>5. Filed(input, index, sets[at])
  <2>1. index = [f \in Positions(input) |-> <<>>] BY <1>3 DEF EarleyInit, EmptyIndex
  <2> QED BY <1>2, <1>3, <1>4, <2>1 DEF Filed, it
<1>6. Charted BY <1>2, <1>5 DEF Charted, Held, it
<1>7. NoneTwice BY <1>2 DEF NoneTwice
<1>8. phase \in {"set", "done"} /\ pos = 1 BY DEF EarleyInit
<1>9. Saturated BY <1>2, <1>8 DEF Saturated, Finished
<1>10. Underway BY <1>8 DEF Underway
<1> QED BY <1>6, <1>7, <1>9, <1>10 DEF CInv

LEMMA ReadTokenKeeps == IInv /\ CInv /\ ReadToken => CInv'
<1> SUFFICES ASSUME IInv, CInv, ReadToken PROVE CInv' OBVIOUS
<1>1. UNCHANGED <<input, sets, index, nextIndex, at>> /\ phase' \in {"items", "done"} /\ pos' = 1
      BY DEF ReadToken, Stop
<1>2. Charted' /\ NoneTwice' BY <1>1 DEF CInv, Charted, NoneTwice, Held
<1>3. Saturated'
  <2> SUFFICES ASSUME NEW k \in DOMAIN sets', NEW i \in DOMAIN sets'[k], NEW x \in ItemSpace,
                      sets'[k][i] = x, Finished(k, i)'
               PROVE  Worked(x, k)'
      BY DEF Saturated
  <2>0. Shape BY DEF IInv
  <2>1. k \in DOMAIN sets /\ i \in DOMAIN sets[k] /\ sets[k][i] = x BY <1>1
  <2>2. i \in Nat \ {0} /\ k \in Nat \ {0} BY <2>0, <2>1 DEF Shape
  <2>3. k < at BY <1>1, <2>2 DEF Finished
  <2>4. Worked(x, k) BY <2>1, <2>3 DEF CInv, Saturated, Finished
  <2>5. x.from \in 1 .. k /\ k \in 1 .. at BY <2>0, <2>1, <2>2, <2>3, ItemGood DEF Shape
  <2> QED BY <1>1, <2>0, <2>4, <2>5, SameGrown, WorkedStays
<1>4. Underway' BY <1>1 DEF Underway
<1> QED BY <1>2, <1>3, <1>4 DEF CInv

LEMMA PredictKeeps == IInv /\ CInv /\ Predict => CInv'
<1> SUFFICES ASSUME IInv, CInv, Predict PROVE CInv' OBVIOUS
<1>1. PICK it \in ItemSpace :
        it = Current /\ Good(input, it, at) /\ it.from \in 1 .. at /\ it.from \in Positions(input)
      BY CurrentIs DEF Predict
<1>2. /\ input \in EarleyInputs /\ input.rules \in Seq(Rules) /\ at \in Positions(input)
      /\ pos \in DOMAIN sets[at] /\ pos <= Len(sets[at]) /\ phase = "items"
      BY CurrentIs DEF Predict
<1>3. IInv' BY PredictOK
<1>4. /\ ~ AtEnd(it) /\ Looking(it) \in Variables
      /\ PushIf(Looking(it) \in input.null, Scanned(it))
      /\ UNCHANGED <<input, at, nextIndex>>
      BY <1>1 DEF Predict
<1>5. Pushable(Scanned(it)) BY <1>1, ScannedPushable
<1>6. Charted /\ NoneTwice /\ Saturated BY DEF CInv
<1>7. /\ Grown /\ Charted' /\ NoneTwice' /\ sets'[at][pos] = it
      /\ Looking(it) \in input.null => Held(Scanned(it), at)'
  <2> DEFINE c == Looking(it) \in input.null
             n == Scanned(it)
  <2>1. c \in BOOLEAN /\ (c => Pushable(n)) /\ PushIf(c, n) BY <1>4, <1>5
  <2> HIDE DEF c, n
  <2>2. /\ Grown /\ Charted' /\ NoneTwice' /\ (c => Held(n, at)')
        /\ (pos \in DOMAIN sets[at] => sets'[at][pos] = Current)
        BY <1>4, <1>6, <2>1, PushIfCharted
  <2> QED BY <1>1, <1>2, <2>2 DEF c, n
<1>8. Passes(it, at)' BY <1>4, <1>7 DEF Passes, Before
<1>9. CASE RuledOut(at, Looking(it))
  <2>1. pos' = pos + 1 /\ phase' = phase
        BY <1>1, <1>9 DEF Predict, RuledOut, Token, NotAtEnd
  <2>2. Predicts(it, at, Len(input.rules) + 1)' BY <1>4, <1>9 DEF Predicts, Before, RuledOut
  <2>3. Scans(it, at)' BY <1>4 DEF Scans
  <2>4. (it.from < at => Completes(it, at, Len(sets[it.from]) + 1))' BY <1>4 DEF Completes
  <2>5. Worked(it, at)' BY <1>8, <2>2, <2>3, <2>4 DEF Worked
  <2>6. Saturated' BY <1>1, <1>2, <1>3, <1>4, <1>6, <1>7, <2>1, <2>5, SaturatedOn DEF IInv
  <2>7. Underway' BY <1>2, <2>1 DEF Underway
  <2> QED BY <1>7, <2>6, <2>7 DEF CInv
<1>10. CASE ~ RuledOut(at, Looking(it))
  <2>1. pos' = pos /\ phase' = "predict" /\ rel' = 1
        BY <1>1, <1>2, <1>10 DEF Predict, RuledOut, Token, NotAtEnd, Positions
  <2>2. Predicts(it, at, 1)'
    <3>1. \A r \in DOMAIN input.rules : ~ r < 1 BY <1>2
    <3> QED BY <1>4, <3>1 DEF Predicts
  <2>3. Saturated' BY <1>1, <1>2, <1>3, <1>4, <1>6, <1>7, <2>1, SaturatedOn DEF IInv
  <2>4. Underway'
    <3> SUFFICES ASSUME NEW x \in ItemSpace, x = Current'
                 PROVE  ~ AtEnd(x) /\ Looking(x) \in Variables /\ Passes(x, at)' /\ Predicts(x, at, rel)'
        BY <2>1 DEF Underway
    <3>1. x = it BY <1>4, <1>7, <2>1 DEF Current
    <3> QED BY <1>4, <1>8, <2>1, <2>2, <3>1
  <2> QED BY <1>7, <2>3, <2>4 DEF CInv
<1> QED BY <1>9, <1>10

LEMMA PredictNextKeeps == IInv /\ CInv /\ PredictNext => CInv'
<1> SUFFICES ASSUME IInv, CInv, PredictNext PROVE CInv' OBVIOUS
<1>0. pos <= Len(sets[at]) /\ phase = "predict" BY DEF IInv, InLoop, PredictNext
<1>1. PICK it \in ItemSpace :
        it = Current /\ Good(input, it, at) /\ it.from \in 1 .. at /\ it.from \in Positions(input)
      BY <1>0, CurrentIs
<1>2. /\ input \in EarleyInputs /\ input.rules \in Seq(Rules) /\ at \in Positions(input)
      /\ pos \in DOMAIN sets[at]
      BY <1>0, CurrentIs
<1>3. IInv' BY PredictNextOK
<1>4. Charted /\ NoneTwice /\ Saturated BY DEF CInv
<1>5. /\ ~ AtEnd(it) /\ Looking(it) \in Variables /\ Passes(it, at) /\ Predicts(it, at, rel)
      BY <1>0, <1>1 DEF CInv, Underway
<1>6. UNCHANGED <<input, at, nextIndex>> /\ rel \in Nat \ {0} BY DEF PredictNext, IInv, Shape
<1>7. CASE rel <= Len(input.rules)
  <2>1. rel \in DOMAIN input.rules BY <1>2, <1>6, <1>7
  <2>10. PICK n : n = Item(input.rules[rel], 0, at) OBVIOUS
  <2>11. PICK c \in BOOLEAN : c <=> input.rules[rel][1] = Looking(it) OBVIOUS
  <2>2. Pushable(n) BY <1>2, <2>1, <2>10, PredictedPushable
  <2>3. PushIf(c, n) /\ rel' = rel + 1 /\ UNCHANGED <<phase, pos>>
        BY <1>1, <1>7, <2>10, <2>11 DEF PredictNext, PushIf
  <2>4. /\ Grown /\ Charted' /\ NoneTwice' /\ (c => Held(n, at)') /\ sets'[at][pos] = it
        BY <1>1, <1>2, <1>4, <1>6, <2>2, <2>3, PushIfCharted
  <2>5. ASSUME NEW x, NEW l PROVE Held(x, l) => Held(x, l)' BY <2>4, HeldStays
  <2>6. Passes(it, at)' BY <1>5, <1>6, <2>5 DEF Passes
  <2>7. Predicts(it, at, rel)'
    <3> SUFFICES ASSUME NEW r \in DOMAIN input.rules, r < rel + 1, Before(it, input.rules[r][1]),
                        ~ RuledOut(at, input.rules[r][1]), NEW y, y = Item(input.rules[r], 0, at)
                 PROVE  Held(y, at)'
        BY <1>6, <2>3 DEF Predicts, RuledOut, Held
    <3>1. CASE r < rel
      <4>1. PICK k : k = at OBVIOUS
      <4>2. Held(y, k) BY <1>5, <3>1, <4>1 DEF Predicts
      <4>3. Held(y, k)' BY <2>5, <4>2
      <4> QED BY <1>6, <4>1, <4>3 DEF Held
    <3>2. CASE r = rel
      <4>1. c /\ y = n BY <2>10, <2>11, <3>2 DEF Before
      <4> QED BY <2>4, <4>1
    <3>3. r \in Nat BY <1>2
    <3> QED BY <1>6, <3>1, <3>2, <3>3
  <2>8. Saturated' BY <1>0, <1>1, <1>3, <1>4, <1>6, <2>3, <2>4, SaturatedOn DEF IInv
  <2>9. Underway'
    <3> SUFFICES ASSUME NEW x \in ItemSpace, x = Current'
                 PROVE  ~ AtEnd(x) /\ Looking(x) \in Variables /\ Passes(x, at)' /\ Predicts(x, at, rel)'
        BY <1>0, <2>3 DEF Underway
    <3>1. x = it BY <1>6, <2>3, <2>4 DEF Current
    <3> QED BY <1>5, <2>6, <2>7, <3>1
  <2> QED BY <2>4, <2>8, <2>9 DEF CInv
<1>8. CASE ~ rel <= Len(input.rules)
  <2>1. UNCHANGED <<sets, index>> /\ pos' = pos + 1 /\ phase' = "items" BY <1>8 DEF PredictNext
  <2>2. Grown BY <2>1, SameGrown
  <2>3. Charted' /\ NoneTwice' BY <1>4, <1>6, <2>1 DEF Charted, NoneTwice, Held
  <2>4. ASSUME NEW x, NEW l PROVE Held(x, l) => Held(x, l)' BY <2>2, HeldStays
  <2>5. Passes(it, at)' BY <1>5, <1>6, <2>4 DEF Passes
  <2>6. Predicts(it, at, Len(input.rules) + 1)'
    <3>1. \A r \in DOMAIN input.rules : r < rel BY <1>2, <1>6, <1>8
    <3> QED BY <1>5, <1>6, <2>4, <3>1 DEF Predicts, RuledOut
  <2>7. Scans(it, at)' BY <1>5 DEF Scans
  <2>8. (it.from < at => Completes(it, at, Len(sets[it.from]) + 1))' BY <1>5 DEF Completes
  <2>9. Worked(it, at)' BY <2>5, <2>6, <2>7, <2>8 DEF Worked
  <2>10. Saturated' BY <1>0, <1>1, <1>3, <1>4, <1>6, <2>1, <2>2, <2>9, SaturatedOn DEF IInv
  <2>11. Underway' BY <2>1 DEF Underway
  <2> QED BY <2>3, <2>10, <2>11 DEF CInv
<1> QED BY <1>7, <1>8

LEMMA CompleteKeeps == IInv /\ CInv /\ Complete => CInv'
<1> SUFFICES ASSUME IInv, CInv, Complete PROVE CInv' OBVIOUS
<1>1. /\ UNCHANGED <<input, sets, index, nextIndex, at, pos>> /\ phase' = "complete" /\ rel' = 1
      /\ phase = "items" /\ pos <= Len(sets[at])
      BY DEF Complete
<1>2. PICK it \in ItemSpace : it = Current /\ it.from \in 1 .. at BY <1>1, CurrentIs
<1>3. IInv' BY CompleteOK
<1>4. Charted' /\ NoneTwice' BY <1>1 DEF CInv, Charted, NoneTwice, Held
<1>5. Saturated' BY <1>1, <1>2, <1>3, SameGrown, SaturatedOn DEF IInv, CInv
<1>6. Underway'
  <2> SUFFICES ASSUME NEW x \in ItemSpace, x = Current' PROVE Completes(x, at, rel)'
      BY <1>1 DEF Underway
  <2>1. x = it BY <1>1, <1>2 DEF Current
  <2>2. it.from \in DOMAIN sets /\ sets[it.from] \in Seq(ItemSpace) BY <1>2 DEF IInv, Shape
  <2>3. \A m \in DOMAIN sets[it.from] : ~ m < 1 BY <2>2
  <2> QED BY <1>1, <2>1, <2>3 DEF Completes
<1> QED BY <1>4, <1>5, <1>6 DEF CInv

LEMMA CompleteNextKeeps == IInv /\ CInv /\ CompleteNext => CInv'
<1> SUFFICES ASSUME IInv, CInv, CompleteNext PROVE CInv' OBVIOUS
<1>0. pos <= Len(sets[at]) /\ phase = "complete" /\ AtEnd(Current)
      BY DEF IInv, InLoop, CompleteNext
<1>1. PICK it \in ItemSpace :
        it = Current /\ Good(input, it, at) /\ it.from \in 1 .. at /\ it.from \in Positions(input)
      BY <1>0, CurrentIs
<1>2. at \in DOMAIN sets /\ pos \in DOMAIN sets[at] BY <1>0, CurrentIs
<1>3. IInv' BY CompleteNextOK
<1>4. Charted /\ NoneTwice /\ Saturated BY DEF CInv
<1>5. Completes(it, at, rel) /\ AtEnd(it) BY <1>0, <1>1 DEF CInv, Underway
<1>6. UNCHANGED <<input, at, nextIndex>> /\ rel \in Nat \ {0} BY DEF CompleteNext, IInv, Shape
<1>9. it.from \in DOMAIN sets /\ sets[it.from] \in Seq(ItemSpace) BY <1>1 DEF IInv, Shape
<1>10. sets'[it.from] \in Seq(ItemSpace) BY <1>3, <1>1, <1>6 DEF IInv, Shape
<1>7. CASE rel <= Len(sets[it.from])
  <2>1. rel \in DOMAIN sets[it.from] BY <1>6, <1>7, <1>9
  <2>2. PICK o \in ItemSpace : o = sets[it.from][rel] /\ o.from \in Positions(input)
        BY <1>9, <2>1, ItemGood
  <2> DEFINE c == Before(o, it.rule[1])
             n == Scanned(o)
  <2>3. c \in BOOLEAN /\ Pushable(n) BY <2>2, ScannedPushable DEF Before
  <2>4. PushIf(c, n) /\ rel' = rel + 1 /\ UNCHANGED <<phase, pos>>
        BY <1>1, <1>7, <2>2 DEF CompleteNext, Related, Before
  <2> HIDE DEF c, n
  <2>5. /\ Grown /\ Charted' /\ NoneTwice' /\ (c => Held(n, at)') /\ sets'[at][pos] = it
        BY <1>1, <1>2, <1>4, <1>6, <2>3, <2>4, PushIfCharted
  <2>6. ASSUME NEW x, NEW l PROVE Held(x, l) => Held(x, l)' BY <2>5, HeldStays
  <2>7. \A m \in DOMAIN sets[it.from] : sets'[it.from][m] = sets[it.from][m] BY <1>9, <2>5 DEF Grown
  <2>8. Completes(it, at, rel)'
    <3> SUFFICES ASSUME NEW m \in DOMAIN sets'[it.from], m < rel + 1,
                        NEW y, y = sets'[it.from][m], Before(y, it.rule[1])
                 PROVE  Held(Scanned(y), at)'
        BY <2>4 DEF Completes, Held
    <3>1. m \in Nat \ {0} /\ m \in DOMAIN sets[it.from] BY <1>6, <1>7, <1>9, <1>10
    <3>2. y = sets[it.from][m] BY <2>7, <3>1
    <3>3. CASE m < rel
      <4>1. Held(Scanned(y), at) BY <1>5, <3>1, <3>2, <3>3 DEF Completes
      <4> QED BY <1>6, <2>6, <4>1 DEF Held
    <3>4. CASE m = rel
      <4>1. y = o BY <2>2, <3>2, <3>4
      <4> QED BY <2>5, <4>1 DEF c, n
    <3> QED BY <1>6, <3>1, <3>3, <3>4
  <2>9. Saturated' BY <1>0, <1>1, <1>3, <1>4, <1>6, <2>4, <2>5, SaturatedOn DEF IInv
  <2>10. Underway'
    <3> SUFFICES ASSUME NEW x \in ItemSpace, x = Current' PROVE Completes(x, at, rel)'
        BY <1>0, <2>4 DEF Underway
    <3>1. x = it BY <1>6, <2>4, <2>5 DEF Current
    <3> QED BY <2>8, <3>1
  <2> QED BY <2>5, <2>9, <2>10 DEF CInv
<1>8. CASE ~ rel <= Len(sets[it.from])
  <2>1. UNCHANGED <<sets, index>> /\ pos' = pos + 1 /\ phase' = "items"
        BY <1>1, <1>8 DEF CompleteNext
  <2>2. Grown BY <2>1, SameGrown
  <2>3. Charted' /\ NoneTwice' BY <1>4, <1>6, <2>1 DEF Charted, NoneTwice, Held
  <2>4. ASSUME NEW x, NEW l PROVE Held(x, l) => Held(x, l)' BY <2>2, HeldStays
  <2>5. Passes(it, at)' BY <1>5 DEF Passes, Before
  <2>6. Predicts(it, at, Len(input.rules) + 1)' BY <1>5 DEF Predicts, Before
  <2>7. Scans(it, at)' BY <1>5 DEF Scans
  <2>8. (it.from < at => Completes(it, at, Len(sets[it.from]) + 1))'
    <3>1. \A m \in DOMAIN sets[it.from] : m < rel BY <1>6, <1>8, <1>9
    <3> QED BY <1>5, <2>1, <2>4, <3>1, <1>6 DEF Completes
  <2>9. Worked(it, at)' BY <2>5, <2>6, <2>7, <2>8 DEF Worked
  <2>10. Saturated' BY <1>0, <1>1, <1>3, <1>4, <1>6, <2>1, <2>2, <2>9, SaturatedOn DEF IInv
  <2>11. Underway' BY <2>1 DEF Underway
  <2> QED BY <2>3, <2>10, <2>11 DEF CInv
<1> QED BY <1>7, <1>8

\* What the scanner makes of the next set and of its index.
LEMMA ScanCharted ==
    ASSUME IInv, CInv, Scan, NEW n, n = Scanned(Current), Pushable(n)
    PROVE  /\ Grown /\ Charted' /\ NoneTwice'
           /\ (NotAtEnd /\ Match(input, Token, Looking(Current)) => Held(n, at + 1)')
<1>1. Charted /\ NoneTwice /\ Shape BY DEF CInv, IInv
<1>2. UNCHANGED <<input, index, at>> BY DEF Scan
<1>3. n \in ItemSpace /\ n.from \in Positions(input) /\ n # First0(input) BY DEF Pushable
<1>4. /\ sets \in Seq(Seq(ItemSpace)) /\ DOMAIN sets = 1 .. Len(sets) /\ Len(sets) \in Nat
      /\ at \in Nat \ {0} /\ at <= Len(sets) /\ Len(sets) <= at + 1 /\ at \in DOMAIN sets
      BY <1>1 DEF Shape, Charted
<1>5. Filed(input, index, sets[at]) /\ Held(First0(input), 1) BY <1>1 DEF Charted
<1>6. CASE ~ (NotAtEnd /\ Match(input, Token, Looking(Current)))
  <2>1. UNCHANGED <<sets, nextIndex>> BY <1>6 DEF Scan
  <2>2. Charted' /\ NoneTwice' BY <1>1, <1>2, <2>1 DEF Charted, NoneTwice, Held
  <2> QED BY <1>6, <2>1, <2>2, SameGrown
<1>7. CASE NotAtEnd /\ Match(input, Token, Looking(Current)) /\ Len(sets) = at
  <2>1. sets' = Append(sets, <<n>>) /\ nextIndex' = Chained(EmptyIndex, n) BY <1>7 DEF Scan
  <2>2. <<n>> \in Seq(ItemSpace) /\ DOMAIN <<n>> = {1} /\ <<n>>[1] = n BY <1>3
  <2>3. /\ Len(sets') = at + 1 /\ DOMAIN sets' = 1 .. at + 1 /\ sets'[at + 1] = <<n>>
        /\ \A k \in DOMAIN sets : k \in DOMAIN sets' /\ sets'[k] = sets[k]
        /\ \A k \in DOMAIN sets' : k \in DOMAIN sets \/ k = at + 1
        BY <1>4, <1>7, <2>1, <2>2
  <2>4. Grown BY <2>3 DEF Grown
  <2>5. NoneTwice'
    <3>1. \A k \in DOMAIN sets' : \A i, j \in DOMAIN sets'[k] : sets'[k][i] = sets'[k][j] => i = j
      <4> TAKE k \in DOMAIN sets'
      <4>1. CASE k \in DOMAIN sets BY <1>1, <2>3, <4>1 DEF NoneTwice
      <4>2. CASE k = at + 1 BY <2>2, <2>3, <4>2
      <4> QED BY <2>3, <4>1, <4>2
    <3> QED BY <3>1 DEF NoneTwice
  <2>6. Filed(input, nextIndex', <<n>>)
    <3>1. EmptyIndex = [f \in Positions(input) |-> <<>>] BY DEF EmptyIndex, Positions
    <3>2. <<>> \in Seq(ItemSpace) /\ DOMAIN <<>> = {} OBVIOUS
    <3>3. Filed(input, EmptyIndex, <<>>) BY <3>1, <3>2 DEF Filed
    <3>4. ~ IsIn(EmptyIndex[n.from], n) BY <1>3, <3>2, <3>3, FiledHas
    <3>5. Filed(input, Chained(EmptyIndex, n), Append(<<>>, n)) BY <1>3, <3>2, <3>3, <3>4, FiledPush
    <3>6. Append(<<>>, n) = <<n>> OBVIOUS
    <3> QED BY <2>1, <3>5, <3>6
  <2>7. Filed(input, index, sets[at])' /\ Filed(input, nextIndex, sets[at + 1])'
        BY <1>2, <1>4, <1>5, <2>3, <2>6
  <2>8. Held(First0(input), 1)' BY <1>2, <1>5, <2>3 DEF Held
  <2>9. Charted' BY <1>2, <1>4, <2>3, <2>7, <2>8 DEF Charted
  <2>10. Held(n, at + 1)' BY <1>2, <1>4, <2>2, <2>3 DEF Held
  <2> QED BY <2>4, <2>5, <2>9, <2>10
<1>8. CASE NotAtEnd /\ Match(input, Token, Looking(Current)) /\ Len(sets) # at
  <2>0. Len(sets) # at BY <1>8
  <2>1. Len(sets) = at + 1 /\ at + 1 \in DOMAIN sets /\ at + 1 # at
    <3>1. Len(sets) \in Int /\ at \in Int /\ at <= Len(sets) /\ Len(sets) <= at + 1 BY <1>4
    <3>2. Len(sets) = at + 1 BY <2>0, <3>1
    <3> QED BY <1>4, <3>1, <3>2
  <2> DEFINE s == sets[at + 1]
  <2>2. s \in Seq(ItemSpace) /\ Filed(input, nextIndex, s) BY <1>1, <1>4, <2>1 DEF Charted
  <2>3. IsIn(nextIndex[n.from], n) <=> \E i \in DOMAIN s : s[i] = n BY <1>3, <2>2, FiledHas
  <2>4. CASE IsIn(nextIndex[n.from], n)
    <3>1. UNCHANGED <<sets, nextIndex>> BY <1>8, <2>4 DEF Scan
    <3>2. Charted' /\ NoneTwice' BY <1>1, <1>2, <3>1 DEF Charted, NoneTwice, Held
    <3>3. Held(n, at + 1)' BY <1>2, <2>1, <2>3, <2>4, <3>1 DEF Held
    <3> QED BY <3>1, <3>2, <3>3, SameGrown
  <2>5. CASE ~ IsIn(nextIndex[n.from], n)
    <3>1. sets' = [sets EXCEPT ![at + 1] = Append(@, n)] /\ nextIndex' = Chained(nextIndex, n)
          BY <1>8, <2>5 DEF Scan
    <3>2. Filed(input, Chained(nextIndex, n), Append(s, n)) BY <1>3, <2>2, <2>5, FiledPush
    <3>3. at <= at + 1 BY <1>4
    <3>4. ~ \E i \in DOMAIN sets[at + 1] : sets[at + 1][i] = n BY <2>3, <2>5
    <3>5. /\ Grown /\ NoneTwice' /\ DOMAIN sets' = DOMAIN sets /\ Len(sets') = Len(sets)
          /\ sets'[at + 1] = Append(sets[at + 1], n)
          /\ \A l \in DOMAIN sets : l # at + 1 => sets'[l] = sets[l]
      <4> DEFINE k == at + 1
      <4>1. /\ k \in DOMAIN sets /\ at <= k /\ ~ (\E i \in DOMAIN sets[k] : sets[k][i] = n)
            /\ sets' = [sets EXCEPT ![k] = Append(@, n)]
            BY <2>1, <3>1, <3>3, <3>4
      <4> HIDE DEF k
      <4>2. /\ Grown /\ NoneTwice' /\ DOMAIN sets' = DOMAIN sets /\ Len(sets') = Len(sets)
            /\ sets'[k] = Append(sets[k], n)
            /\ \A l \in DOMAIN sets : l # k => sets'[l] = sets[l]
            BY <1>1, <1>3, <4>1, SetAppended
      <4> QED BY <4>2 DEF k
    <3>6. Filed(input, index, sets[at])' /\ Filed(input, nextIndex, sets[at + 1])'
          BY <1>2, <1>4, <1>5, <2>1, <3>1, <3>2, <3>5
    <3>7. Held(First0(input), 1)'
      <4>1. ASSUME NEW x, NEW l PROVE Held(x, l) => Held(x, l)' BY <3>5, HeldStays
      <4>2. PICK x : x = First0(input) OBVIOUS
      <4>3. Held(x, 1)' BY <1>5, <4>1, <4>2 DEF Held
      <4> QED BY <1>2, <4>2, <4>3 DEF Held
    <3>8. Charted' BY <1>2, <2>1, <3>5, <3>6, <3>7 DEF Charted
    <3>9. Len(s) + 1 \in DOMAIN Append(s, n) /\ Append(s, n)[Len(s) + 1] = n BY <2>2
    <3>10. Held(n, at + 1)' BY <1>2, <2>1, <3>5, <3>9 DEF Held
    <3> QED BY <3>5, <3>8, <3>10
  <2> QED BY <2>4, <2>5
<1> QED BY <1>6, <1>7, <1>8

LEMMA ScanKeeps == IInv /\ CInv /\ Scan => CInv'
<1> SUFFICES ASSUME IInv, CInv, Scan PROVE CInv' OBVIOUS
<1>0. phase = "items" /\ pos <= Len(sets[at]) BY DEF Scan
<1>1. PICK it \in ItemSpace : it = Current /\ it.from \in 1 .. at /\ it.from \in Positions(input)
      BY <1>0, CurrentIs
<1>2. input.rules \in Seq(Rules) /\ at \in Positions(input) BY <1>0, CurrentIs
<1>3. IInv' BY ScanOK
<1>4. UNCHANGED <<input, index, at, phase>> /\ pos' = pos + 1 BY DEF Scan
<1>5. ~ AtEnd(it) /\ Looking(it) \notin Variables BY <1>1 DEF Scan
<1>6. PICK n : n = Scanned(it) OBVIOUS
<1>7. Pushable(n) BY <1>1, <1>6, ScannedPushable
<1>8. /\ Grown /\ Charted' /\ NoneTwice'
      /\ (NotAtEnd /\ Match(input, Token, Looking(it)) => Held(n, at + 1)')
      BY <1>1, <1>6, <1>7, ScanCharted
<1>9. Passes(it, at)' BY <1>5 DEF Passes, Before
<1>10. Predicts(it, at, Len(input.rules) + 1)'
  <2>1. \A r \in DOMAIN input.rules : input.rules[r][1] \in Variables BY <1>2 DEF Rules
  <2> QED BY <1>4, <1>5, <2>1 DEF Predicts, Before
<1>11. Scans(it, at)'
  <2> SUFFICES ASSUME at \in DOMAIN input.word, Match(input, input.word[at], Looking(it))
               PROVE  Held(n, at + 1)'
      BY <1>4, <1>6 DEF Scans, Held
  <2>1. NotAtEnd
    <3>1. input.word \in Seq(Terminals \cup {Unknown}) BY EarleyAssumption DEF IInv, Shape
    <3> QED BY <3>1 DEF NotAtEnd
  <2> QED BY <1>8, <2>1 DEF Token
<1>12. (it.from < at => Completes(it, at, Len(sets[it.from]) + 1))' BY <1>5 DEF Completes
<1>13. Worked(it, at)' BY <1>9, <1>10, <1>11, <1>12 DEF Worked
<1>14. Saturated' BY <1>0, <1>1, <1>3, <1>4, <1>8, <1>13, SaturatedOn DEF IInv, CInv
<1>15. Underway' BY <1>0, <1>4 DEF Underway
<1> QED BY <1>8, <1>14, <1>15 DEF CInv

\* When all items of the current set were looked at, everything is worked off.
LEMMA AllWorked ==
    ASSUME IInv, CInv, phase = "items", pos > Len(sets[at]),
           NEW k \in DOMAIN sets, k <= at, NEW i \in DOMAIN sets[k], NEW x \in ItemSpace, sets[k][i] = x
    PROVE  Worked(x, k)
<1>1. Shape BY DEF IInv
<1>2. sets[k] \in Seq(ItemSpace) /\ k \in Nat /\ at \in Nat /\ pos \in Nat BY <1>1 DEF Shape
<1>3. i \in 1 .. Len(sets[k]) /\ Len(sets[k]) \in Nat BY <1>2
<1>4. Finished(k, i) BY <1>2, <1>3 DEF Finished
<1> QED BY <1>4 DEF CInv, Saturated

LEMMA NextSetKeeps == IInv /\ CInv /\ NextSet => CInv'
<1> SUFFICES ASSUME IInv, CInv, NextSet PROVE CInv' OBVIOUS
<1>1. Shape /\ Charted /\ NoneTwice BY DEF IInv, CInv
<1>2. /\ UNCHANGED <<input, sets, pos, rel>> /\ phase = "items" /\ pos > Len(sets[at])
      /\ phase' \in {"set", "done"}
      BY DEF NextSet, Stop
<1>3. Underway' BY <1>2 DEF Underway
<1>4. NoneTwice' BY <1>1, <1>2 DEF NoneTwice
<1>5. /\ sets \in Seq(Seq(ItemSpace)) /\ Len(sets) \in Nat /\ DOMAIN sets = 1 .. Len(sets)
      /\ at \in 1 .. Len(sets) /\ Len(sets) <= at + 1
      BY <1>1 DEF Shape, Charted
<1>6. Charted' /\ (at' = at \/ (at' = at + 1 /\ phase' = "set"))
  <2>1. CASE NotAtEnd /\ at < Len(sets)
    <3>1. at' = at + 1 /\ phase' = "set" /\ index' = nextIndex BY <2>1 DEF NextSet
    <3>2. Len(sets) = at + 1 /\ ~ Len(sets) = at' + 1
      <4>1. Len(sets) \in Int /\ at \in Int /\ at < Len(sets) /\ Len(sets) <= at + 1 BY <1>5, <2>1
      <4>2. Len(sets) = at + 1 BY <4>1
      <4> QED BY <3>1, <4>1, <4>2
    <3>3. Filed(input, nextIndex, sets[at + 1]) /\ Held(First0(input), 1)
          BY <1>1, <3>2 DEF Charted
    <3>4. Len(sets') <= at' + 1 /\ ~ Len(sets') = at' + 1 BY <1>2, <1>5, <3>1, <3>2
    <3>5. Filed(input, index, sets[at])' BY <1>2, <3>1, <3>3
    <3>6. Held(First0(input), 1)' BY <1>2, <3>3 DEF Held
    <3> QED BY <3>1, <3>4, <3>5, <3>6 DEF Charted
  <2>2. CASE ~ (NotAtEnd /\ at < Len(sets))
    <3>1. UNCHANGED <<at, index, nextIndex>> BY <2>2 DEF NextSet
    <3> QED BY <1>1, <1>2, <3>1 DEF Charted, Held
  <2> QED BY <2>1, <2>2
<1>7. Saturated'
  <2> SUFFICES ASSUME NEW k \in DOMAIN sets', NEW i \in DOMAIN sets'[k], NEW x \in ItemSpace,
                      sets'[k][i] = x, Finished(k, i)'
               PROVE  Worked(x, k)'
      BY DEF Saturated
  <2>1. k \in DOMAIN sets /\ i \in DOMAIN sets[k] /\ sets[k][i] = x BY <1>2
  <2>2. k \in 1 .. at BY <1>5, <1>6, <2>1 DEF Finished
  <2>3. Worked(x, k) BY <1>2, <1>5, <2>1, <2>2, AllWorked
  <2>4. x.from \in 1 .. k BY <2>1, ItemGood
  <2> QED BY <1>1, <1>2, <2>2, <2>3, <2>4, SameGrown, WorkedStays
<1> QED BY <1>3, <1>4, <1>6, <1>7 DEF CInv

LEMMA StutterKeeps == IInv /\ CInv /\ UNCHANGED earleyVars => CInv'
<1> SUFFICES ASSUME IInv, CInv, UNCHANGED earleyVars PROVE CInv' OBVIOUS
<1>1. UNCHANGED <<input, sets, index, nextIndex, at, pos, rel, phase>> BY DEF earleyVars
<1>2. Charted' /\ NoneTwice' BY <1>1 DEF CInv, Charted, NoneTwice, Held
<1>3. Saturated' /\ Underway'
      BY <1>1 DEF CInv, Saturated, Underway, Finished, Worked, Passes, Predicts, Scans, Completes,
                  RuledOut, Held, Current
<1> QED BY <1>2, <1>3 DEF CInv

\* The invariant of the chart holds in every reachable state: the indexes are
\* right, no item is in a set twice, and what was looked at was worked off.
THEOREM ChartInvariance == EarleySpec => [](IInv /\ CInv)
<1>1. EarleyInit => IInv /\ CInv BY InitOK, StartedCharted
<1>2. IInv /\ CInv /\ [EarleyNext]_earleyVars => (IInv /\ CInv)'
  <2> SUFFICES ASSUME IInv, CInv, [EarleyNext]_earleyVars PROVE (IInv /\ CInv)' OBVIOUS
  <2>1. IInv'
        BY ReadTokenOK, PredictOK, PredictNextOK, CompleteOK, CompleteNextOK, ScanOK, NextSetOK,
           StutterOK DEF EarleyNext, EarleyStep, EarleyDone
  <2>2. CInv'
        BY ReadTokenKeeps, PredictKeeps, PredictNextKeeps, CompleteKeeps, CompleteNextKeeps,
           ScanKeeps, NextSetKeeps, StutterKeeps DEF EarleyNext, EarleyStep, EarleyDone
  <2> QED BY <2>1, <2>2
<1> QED BY <1>1, <1>2, PTL DEF EarleySpec

\* NoneTwice for every grammar and word: indexed_push finds an item that is
\* there, although it searches one chain, and that up to a greater dot only.
THEOREM ItemsAreDistinct == EarleySpec => []NoneTwice
<1>1. IInv /\ CInv => NoneTwice BY DEF CInv
<1> QED BY <1>1, ChartInvariance, PTL

-----------------------------------------------------------------------------
(* What the rules derive *)

\* spans holds what the rules derive, and nothing else: it is the least set that
\* is closed under the rules.  null and first are the sets of ContextFree.
With(in, S) ==
    [rules |-> in.rules, null |-> in.null, varTerms |-> in.varTerms, word |-> in.word, spans |-> S]
Derived(in) == \A S \in SUBSET in.spans : Closed(With(in, S)) => in.spans \subseteq S
RulesOf(in) == {in.rules[i] : i \in DOMAIN in.rules}
RightInputs ==
    \A in \in EarleyInputs :
        /\ Derived(in)
        /\ in.null = Null(RulesOf(in))
        /\ in.predict => in.first = First(RulesOf(in))

\* Cuts along w between what covers without a span of B.
Clear(in, B, w, cuts) ==
    \A m \in 1 .. Len(w) :
        /\ Covers(in, w[m], cuts[m - 1], cuts[m])
        /\ w[m] \in Variables => <<w[m], cuts[m - 1], cuts[m]>> \notin B
\* No rule makes a span of B from others.
Avoids(in, B) ==
    /\ \A i \in DOMAIN in.rules : \A cuts \in [0 .. Len(in.rules[i][2]) -> Positions(in)] :
         Clear(in, B, in.rules[i][2], cuts)
            => <<in.rules[i][1], cuts[0], cuts[Len(in.rules[i][2])]>> \notin B
    /\ \A v \in in.null : \A k \in Positions(in) : <<v, k, k>> \notin B

\* What no rule makes is not derived.
LEMMA SpansAvoid ==
    ASSUME NEW in \in EarleyInputs, Derived(in), NEW B, Avoids(in, B)
    PROVE  in.spans \cap B = {}
<1> DEFINE S == in.spans \ B
           wi == With(in, S)
<1>1. /\ wi.rules = in.rules /\ wi.null = in.null /\ wi.varTerms = in.varTerms
      /\ wi.word = in.word /\ wi.spans = S /\ Positions(wi) = Positions(in)
      BY DEF With, Positions
<1>2. Closed(in) /\ in.rules \in Seq(Rules) BY EarleyAssumption
<1> HIDE DEF wi
<1>3. ASSUME NEW X, NEW j, NEW k
      PROVE  Covers(wi, X, j, k) <=> /\ Covers(in, X, j, k)
                                     /\ X \in Variables => <<X, j, k>> \notin B
      BY <1>1 DEF Covers, Match
<1>4. ASSUME NEW i \in DOMAIN in.rules, NEW j \in Positions(in), NEW k \in Positions(in),
             Covered(wi, in.rules[i][2], Len(in.rules[i][2]), j, k)
      PROVE  <<in.rules[i][1], j, k>> \in S
  <2> DEFINE w == in.rules[i][2]
  <2>1. PICK cuts \in [0 .. Len(w) -> Positions(in)] :
          /\ cuts[0] = j /\ cuts[Len(w)] = k
          /\ \A m \in 1 .. Len(w) : Covers(wi, w[m], cuts[m - 1], cuts[m])
        BY <1>1, <1>4 DEF Covered
  <2>2. \A m \in 1 .. Len(w) : Covers(in, w[m], cuts[m - 1], cuts[m]) BY <1>3, <2>1
  <2>3. Covered(in, w, Len(w), j, k) BY <2>1, <2>2 DEF Covered
  <2>4. Clear(in, B, w, cuts) BY <1>3, <2>1 DEF Clear
  <2>5. <<in.rules[i][1], j, k>> \notin B BY <2>1, <2>4 DEF Avoids
  <2>6. <<in.rules[i][1], j, k>> \in in.spans BY <1>2, <2>3 DEF Closed
  <2> QED BY <2>5, <2>6
<1>5. \A v \in in.null : \A k \in Positions(in) : <<v, k, k>> \in S BY <1>2 DEF Closed, Avoids
<1>6. Closed(wi) BY <1>1, <1>4, <1>5 DEF Closed
<1>7. S \in SUBSET in.spans OBVIOUS
<1> HIDE DEF S
<1>8. in.spans \subseteq S BY <1>6, <1>7 DEF Derived, wi
<1> QED BY <1>8 DEF S

\* Numbers none of which is less than the one before it.
LEMMA Rising ==
    ASSUME NEW n \in Nat, NEW c, \A m \in 0 .. n : c[m] \in Int,
           \A m \in 1 .. n : c[m - 1] <= c[m]
    PROVE  \A a \in 0 .. n : \A b \in a .. n : c[a] <= c[b]
<1> SUFFICES ASSUME NEW a \in 0 .. n, \E b \in a .. n : ~ c[a] <= c[b] PROVE FALSE
    OBVIOUS
<1> DEFINE Bad == {b \in a .. n : ~ c[a] <= c[b]}
<1>1. Bad \in SUBSET Nat /\ Bad # {} OBVIOUS
<1> HIDE DEF Bad
<1>2. PICK b \in Bad : \A m \in Bad : b <= m BY <1>1, Order!LeastExists
<1>3. b \in a .. n /\ ~ c[a] <= c[b] BY <1>2 DEF Bad
<1>4. b # a BY <1>3
<1>5. b - 1 \in a .. n /\ b \in 1 .. n /\ b - 1 \in 0 .. n /\ b \in 0 .. n BY <1>3, <1>4
<1>6. c[a] <= c[b - 1]
  <2>1. b - 1 \notin Bad BY <1>1, <1>2, <1>5
  <2> QED BY <1>5, <2>1 DEF Bad
<1>7. c[b - 1] <= c[b] BY <1>5
<1> QED BY <1>3, <1>5, <1>6, <1>7

\* What an input gives for one of its rules.
LEMMA RuleParts ==
    ASSUME NEW in \in EarleyInputs, NEW i \in DOMAIN in.rules
    PROVE  /\ in.rules[i] \in Rules /\ in.rules[i] \in RulesOf(in)
           /\ in.rules[i][1] \in Variables
           /\ in.rules[i][2] \in Seq(Symbols) /\ Len(in.rules[i][2]) \in Nat
           /\ \A m \in 1 .. Len(in.rules[i][2]) : in.rules[i][2][m] \in Symbols
           /\ Len(in.word) \in Nat /\ DOMAIN in.word = 1 .. Len(in.word)
           /\ Positions(in) \subseteq Nat
<1>1. in.rules[i] \in Rules /\ in.word \in Seq(Terminals \cup {Unknown}) BY EarleyAssumption
<1>2. in.rules[i][1] \in Variables /\ in.rules[i][2] \in Seq(Symbols) BY <1>1 DEF Rules
<1> QED BY <1>1, <1>2 DEF RulesOf, Positions

Triples(in) == Variables \X Positions(in) \X Positions(in)

\* A span does not end before it begins.
LEMMA SpansRise ==
    ASSUME NEW in \in EarleyInputs, Derived(in), NEW X \in Variables,
           NEW j \in Positions(in), NEW k \in Positions(in), <<X, j, k>> \in in.spans
    PROVE  j <= k
<1> DEFINE B == {t \in Triples(in) : ~ t[2] <= t[3]}
<1>1. ASSUME NEW i \in DOMAIN in.rules,
             NEW cuts \in [0 .. Len(in.rules[i][2]) -> Positions(in)],
             Clear(in, B, in.rules[i][2], cuts)
      PROVE  <<in.rules[i][1], cuts[0], cuts[Len(in.rules[i][2])]>> \notin B
  <2> DEFINE w == in.rules[i][2]
  <2>1. Len(w) \in Nat /\ Positions(in) \subseteq Nat BY RuleParts
  <2>2. \A m \in 0 .. Len(w) : cuts[m] \in Int BY <2>1
  <2>3. ASSUME NEW m \in 1 .. Len(w) PROVE cuts[m - 1] <= cuts[m]
    <3>1. m - 1 \in 0 .. Len(w) /\ m \in 0 .. Len(w) BY <2>1
    <3>2. cuts[m - 1] \in Positions(in) /\ cuts[m] \in Positions(in) BY <3>1
    <3>3. Covers(in, w[m], cuts[m - 1], cuts[m])
          /\ (w[m] \in Variables => <<w[m], cuts[m - 1], cuts[m]>> \notin B)
          BY <1>1 DEF Clear
    <3>4. CASE w[m] \in Variables BY <3>2, <3>3, <3>4 DEF Triples
    <3>5. CASE w[m] \notin Variables
      <4>1. cuts[m] = cuts[m - 1] + 1 BY <3>3, <3>5 DEF Covers
      <4> QED BY <2>1, <3>2, <4>1
    <3> QED BY <3>4, <3>5
  <2>4. cuts[0] <= cuts[Len(w)]
    <3>1. \A a \in 0 .. Len(w) : \A b \in a .. Len(w) : cuts[a] <= cuts[b]
          BY <2>1, <2>2, <2>3, Rising
    <3> QED BY <2>1, <3>1
  <2> QED BY <2>4
<1>2. \A v \in in.null : \A l \in Positions(in) : <<v, l, l>> \notin B
  <2>1. Positions(in) \subseteq Int BY EarleyAssumption DEF Positions
  <2> QED BY <2>1
<1>3. Avoids(in, B) BY <1>1, <1>2 DEF Avoids
<1>4. <<X, j, k>> \in Triples(in) BY DEF Triples
<1> HIDE DEF B
<1>5. <<X, j, k>> \notin B BY <1>3, SpansAvoid
<1> QED BY <1>4, <1>5 DEF B

\* The cuts along a rule rise.
LEMMA CutsRise ==
    ASSUME NEW in \in EarleyInputs, Derived(in), NEW B, NEW i \in DOMAIN in.rules,
           NEW cuts \in [0 .. Len(in.rules[i][2]) -> Positions(in)],
           Clear(in, B, in.rules[i][2], cuts)
    PROVE  \A a \in 0 .. Len(in.rules[i][2]) : \A b \in a .. Len(in.rules[i][2]) : cuts[a] <= cuts[b]
<1> DEFINE w == in.rules[i][2]
<1>1. Len(w) \in Nat /\ Positions(in) \subseteq Nat BY RuleParts
<1>2. \A m \in 0 .. Len(w) : cuts[m] \in Int BY <1>1
<1>3. ASSUME NEW m \in 1 .. Len(w) PROVE cuts[m - 1] <= cuts[m]
  <2>1. m - 1 \in 0 .. Len(w) /\ m \in 0 .. Len(w) BY <1>1
  <2>2. cuts[m - 1] \in Positions(in) /\ cuts[m] \in Positions(in) BY <2>1
  <2>3. Covers(in, w[m], cuts[m - 1], cuts[m]) BY DEF Clear
  <2>4. CASE w[m] \in Variables
    <3>1. <<w[m], cuts[m - 1], cuts[m]>> \in in.spans BY <2>3, <2>4 DEF Covers
    <3> QED BY <2>2, <2>4, <3>1, SpansRise
  <2>5. CASE w[m] \notin Variables
    <3>1. cuts[m] = cuts[m - 1] + 1 BY <2>3, <2>5 DEF Covers
    <3> QED BY <1>1, <2>2, <3>1
  <2> QED BY <2>4, <2>5
<1> QED BY <1>1, <1>2, <1>3, Rising

\* Null and First of ContextFree are closed, and not only least.
LEMMA NullIsClosed ==
    ASSUME NEW G \in SUBSET Rules
    PROVE  NullClosed(G, Null(G))
<1> SUFFICES ASSUME NEW r \in G, \A i \in DOMAIN r[2] : r[2][i] \in Null(G)
             PROVE  r[1] \in Null(G)
    BY DEF NullClosed
<1>1. r[1] \in Variables BY DEF Rules
<1>2. ASSUME NEW S \in SUBSET Variables, NullClosed(G, S) PROVE r[1] \in S
  <2>1. \A i \in DOMAIN r[2] : r[2][i] \in S BY <1>2 DEF Null
  <2> QED BY <1>2, <2>1 DEF NullClosed
<1> QED BY <1>1, <1>2 DEF Null

LEMMA FirstIsClosed ==
    ASSUME NEW G \in SUBSET Rules, NEW r \in G, NEW i \in DOMAIN r[2],
           \A j \in DOMAIN r[2] : j < i => r[2][j] \in Null(G)
    PROVE  Begin(First(G), r[2][i]) \subseteq First(G)[r[1]]
<1> DEFINE x == r[2][i]
           closed == {F \in SetsOf(Terminals) : FirstClosed(G, Null(G), F)}
<1>1. r[1] \in Variables /\ x \in Symbols
  <2>1. r[2] \in Seq(Symbols) /\ r[1] \in Variables BY DEF Rules
  <2> QED BY <2>1
<1>2. First(G) = [v \in Variables |-> {t \in Terminals : \A F \in closed : t \in F[v]}]
      BY DEF First
<1>3. \A F \in closed : Begin(F, x) \subseteq F[r[1]] BY DEF FirstClosed
<1> HIDE DEF closed, x
<1>4. ASSUME NEW t \in Begin(First(G), x) PROVE t \in Terminals /\ \A F \in closed : t \in F[r[1]]
  <2>1. CASE x \in Variables
    <3>1. t \in First(G)[x] BY <1>4, <2>1 DEF Begin
    <3>2. t \in Terminals /\ \A F \in closed : t \in F[x] BY <1>2, <2>1, <3>1
    <3> QED BY <1>3, <2>1, <3>2 DEF Begin
  <2>2. CASE x \notin Variables
    <3>1. t = x BY <1>4, <2>2 DEF Begin
    <3>2. t \in Terminals BY <1>1, <2>2, <3>1 DEF Symbols
    <3> QED BY <1>3, <2>2, <3>1, <3>2 DEF Begin
  <2> QED BY <2>1, <2>2
<1>5. \A t \in Begin(First(G), x) : t \in First(G)[r[1]] BY <1>1, <1>2, <1>4
<1> QED BY <1>5 DEF x

LEMMA RulesOfRules ==
    ASSUME NEW in \in EarleyInputs
    PROVE  RulesOf(in) \in SUBSET Rules
<1>1. in.rules \in Seq(Rules) BY EarleyAssumption
<1> QED BY <1>1 DEF RulesOf

\* What covers no token is in the null set.
LEMMA EmptyIsNull ==
    ASSUME NEW in \in EarleyInputs, RightInputs, NEW X \in Variables,
           NEW k \in Positions(in), <<X, k, k>> \in in.spans
    PROVE  X \in in.null
<1> DEFINE B == {t \in Triples(in) : t[2] = t[3] /\ t[1] \notin in.null}
<1>0. Derived(in) /\ in.null = Null(RulesOf(in)) BY DEF RightInputs
<1>1. ASSUME NEW i \in DOMAIN in.rules,
             NEW cuts \in [0 .. Len(in.rules[i][2]) -> Positions(in)],
             Clear(in, B, in.rules[i][2], cuts)
      PROVE  <<in.rules[i][1], cuts[0], cuts[Len(in.rules[i][2])]>> \notin B
  <2> DEFINE w == in.rules[i][2]
             n == Len(w)
  <2>1. n \in Nat /\ Positions(in) \subseteq Nat /\ DOMAIN w = 1 .. n BY RuleParts
  <2>2. \A a \in 0 .. n : \A b \in a .. n : cuts[a] <= cuts[b]
    <3> HIDE DEF B
    <3> QED BY <1>0, <1>1, CutsRise
  <2> SUFFICES ASSUME cuts[0] = cuts[n] PROVE in.rules[i][1] \in in.null
      OBVIOUS
  <2>3. ASSUME NEW m \in 1 .. n PROVE w[m] \in in.null
    <3>1. m \in 0 .. n /\ m - 1 \in 0 .. n /\ m - 1 \in 0 .. m /\ m \in 0 .. n /\ n \in m .. n
          /\ 0 \in 0 .. n /\ m - 1 \in 0 .. n /\ m \in m - 1 .. n
          BY <2>1
    <3>2. cuts[0] <= cuts[m - 1] /\ cuts[m - 1] <= cuts[m] /\ cuts[m] <= cuts[n] BY <2>2, <3>1
    <3>3. cuts[m - 1] \in Positions(in) /\ cuts[m] \in Positions(in) /\ cuts[0] \in Positions(in)
          BY <3>1
    <3>4. cuts[m - 1] = cuts[m] BY <2>1, <3>2, <3>3
    <3>5. Covers(in, w[m], cuts[m - 1], cuts[m])
          /\ (w[m] \in Variables => <<w[m], cuts[m - 1], cuts[m]>> \notin B)
          BY <1>1 DEF Clear
    <3>6. w[m] \in Variables
      <4>1. cuts[m] # cuts[m - 1] + 1 BY <2>1, <3>3, <3>4
      <4> QED BY <3>5, <4>1 DEF Covers
    <3> QED BY <3>3, <3>4, <3>5, <3>6 DEF Triples
  <2>4. NullClosed(RulesOf(in), in.null) BY <1>0, RulesOfRules, NullIsClosed
  <2>5. in.rules[i] \in RulesOf(in) BY RuleParts
  <2> HIDE DEF w, n
  <2>6. \A m \in DOMAIN w : w[m] \in in.null BY <2>1, <2>3
  <2> QED BY <2>4, <2>5, <2>6 DEF NullClosed, w
<1>2. \A v \in in.null : \A l \in Positions(in) : <<v, l, l>> \notin B OBVIOUS
<1>3. Avoids(in, B) BY <1>1, <1>2 DEF Avoids
<1>4. <<X, k, k>> \in Triples(in) BY DEF Triples
<1> HIDE DEF B
<1>5. <<X, k, k>> \notin B BY <1>0, <1>3, SpansAvoid
<1> QED BY <1>4, <1>5 DEF B

\* What covers a token, if it names a terminal, begins with it.
LEMMA TokenIsFirst ==
    ASSUME NEW in \in EarleyInputs, RightInputs, NEW X \in Variables,
           NEW j \in Positions(in), NEW k \in Positions(in), <<X, j, k>> \in in.spans,
           j < k, IsKnown(in.word[j])
    PROVE  in.word[j] \in First(RulesOf(in))[X]
<1> DEFINE G == RulesOf(in)
           B == {t \in Triples(in) : t[2] < t[3] /\ IsKnown(in.word[t[2]])
                                       /\ in.word[t[2]] \notin First(G)[t[1]]}
<1> HIDE DEF G
<1>0. Derived(in) /\ in.null = Null(G) BY DEF RightInputs, G
<1>1. ASSUME NEW i \in DOMAIN in.rules,
             NEW cuts \in [0 .. Len(in.rules[i][2]) -> Positions(in)],
             Clear(in, B, in.rules[i][2], cuts)
      PROVE  <<in.rules[i][1], cuts[0], cuts[Len(in.rules[i][2])]>> \notin B
  <2> DEFINE w == in.rules[i][2]
             n == Len(w)
             tok == in.word[cuts[0]]
  <2>1. n \in Nat /\ Positions(in) \subseteq Nat /\ DOMAIN w = 1 .. n BY RuleParts
  <2>2. \A a \in 0 .. n : \A b \in a .. n : cuts[a] <= cuts[b]
    <3> HIDE DEF B
    <3> QED BY <1>0, <1>1, CutsRise
  <2> SUFFICES ASSUME cuts[0] < cuts[n], IsKnown(tok) PROVE tok \in First(G)[in.rules[i][1]]
      OBVIOUS
  <2>3. \A m \in 1 .. n : /\ Covers(in, w[m], cuts[m - 1], cuts[m])
                          /\ w[m] \in Variables => <<w[m], cuts[m - 1], cuts[m]>> \notin B
        BY <1>1 DEF Clear
  <2>4. \A m \in 0 .. n : cuts[m] \in Positions(in) /\ cuts[m] \in Nat BY <2>1
\* m is the first symbol that covers a token, and the first of them.
  <2> DEFINE Past == {m \in 0 .. n : cuts[0] < cuts[m]}
  <2>5. Past \in SUBSET Nat /\ Past # {}
    <3>1. n \in Past BY <2>1
    <3> QED BY <3>1
  <2> HIDE DEF Past, w, n
  <2>6. PICK m \in Past : \A l \in Past : m <= l BY <2>5, Order!LeastExists
  <2>7. m \in 0 .. n /\ cuts[0] < cuts[m] /\ 0 \in 0 .. n BY <2>1, <2>6 DEF Past
  <2>8. m # 0 BY <2>4, <2>7
  <2>9. m \in 1 .. n /\ m - 1 \in 0 .. n /\ m \in Nat BY <2>1, <2>7, <2>8
  <2>10. \A l \in 0 .. m - 1 : cuts[l] = cuts[0]
    <3> TAKE l \in 0 .. m - 1
    <3>1. l \in 0 .. n /\ l < m /\ l \in Nat BY <2>1, <2>9
    <3>2. l \notin Past BY <2>1, <2>6, <2>9, <3>1
    <3>3. ~ cuts[0] < cuts[l] BY <3>1, <3>2 DEF Past
    <3>4. cuts[0] <= cuts[l] BY <2>1, <2>2, <2>7, <3>1
    <3> QED BY <2>4, <2>7, <3>1, <3>3, <3>4
  <2>11. cuts[m - 1] = cuts[0] BY <2>9, <2>10
  <2>12. ASSUME NEW l \in DOMAIN w, l < m PROVE w[l] \in Null(G)
    <3>1. l \in 1 .. n /\ l - 1 \in 0 .. m - 1 /\ l \in 0 .. m - 1 BY <2>1, <2>9, <2>12
    <3>2. cuts[l - 1] = cuts[0] /\ cuts[l] = cuts[0] BY <2>10, <3>1
    <3>3. Covers(in, w[l], cuts[0], cuts[0]) BY <2>3, <3>1, <3>2
    <3>4. w[l] \in Variables /\ <<w[l], cuts[0], cuts[0]>> \in in.spans
      <4>1. cuts[0] # cuts[0] + 1 BY <2>4, <2>7
      <4> QED BY <3>3, <4>1 DEF Covers
    <3> QED BY <1>0, <2>4, <2>7, <3>4, EmptyIsNull
  <2>13. tok \in Begin(First(G), w[m])
    <3>1. Covers(in, w[m], cuts[0], cuts[m])
          /\ (w[m] \in Variables => <<w[m], cuts[0], cuts[m]>> \notin B)
          BY <2>3, <2>9, <2>11
    <3>2. CASE w[m] \in Variables
      <4>1. <<w[m], cuts[0], cuts[m]>> \in Triples(in) BY <2>4, <2>7, <3>2 DEF Triples
      <4> QED BY <2>7, <3>1, <3>2, <4>1 DEF Begin
    <3>3. CASE w[m] \notin Variables BY <3>1, <3>3 DEF Covers, Match, Begin
    <3> QED BY <3>2, <3>3
  <2>14. Begin(First(G), w[m]) \subseteq First(G)[in.rules[i][1]]
    <3>1. G \in SUBSET Rules /\ in.rules[i] \in G BY RulesOfRules, RuleParts DEF G
    <3>2. m \in DOMAIN w BY <2>1, <2>9
    <3> QED BY <2>12, <3>1, <3>2, FirstIsClosed DEF w
  <2> QED BY <2>13, <2>14
<1>2. \A v \in in.null : \A l \in Positions(in) : <<v, l, l>> \notin B
  <2>1. Positions(in) \subseteq Int BY EarleyAssumption DEF Positions
  <2> QED BY <2>1
<1>3. Avoids(in, B) BY <1>1, <1>2 DEF Avoids
<1>4. <<X, j, k>> \in Triples(in) BY DEF Triples
<1> HIDE DEF B
<1>5. <<X, j, k>> \notin B BY <1>0, <1>3, SpansAvoid
<1> QED BY <1>4, <1>5 DEF B, G

-----------------------------------------------------------------------------
(* Nothing is missed *)

Answered ==
    phase = "done" /\ WorthParsing /\ <<input.start, 1, Len(input.word) + 1>> \in input.spans
        => result

\* Every item before the variable of the span was passed over the span.
PassedOver(t) ==
    \A it \in ItemSpace : Held(it, t[2]) /\ Before(it, t[1]) => Held(Scanned(it), t[3])
Stuck == {t \in Triples(input) : ~ PassedOver(t)}

\* A held item is one of the item space, and was worked off.
LEMMA HeldWorked ==
    ASSUME IInv, CInv, phase = "items", pos > Len(sets[at]), Len(sets) = at,
           NEW it, NEW k, Held(it, k)
    PROVE  it \in ItemSpace /\ Worked(it, k) /\ k \in DOMAIN sets
<1>1. /\ sets \in Seq(Seq(ItemSpace)) /\ at \in Nat BY DEF IInv, Shape
<1>2. PICK i \in DOMAIN sets[k] : sets[k][i] = it BY DEF Held
<1>3. k \in DOMAIN sets /\ k <= at BY <1>1 DEF Held
<1>4. it \in ItemSpace BY <1>1, <1>2, <1>3
<1> QED BY <1>2, <1>3, <1>4, AllWorked

\* When the last set was looked at, every span was passed over: by the null
\* set if it covers nothing, and otherwise along the cuts of a rule, whose item
\* was predicted because the token is in the first set.
LEMMA NoneStuck ==
    ASSUME RightInputs, IInv, CInv, phase = "items", pos > Len(sets[at]), Len(sets) = at
    PROVE  input.spans \cap Stuck = {}
<1>0. input \in EarleyInputs /\ Derived(input) BY DEF RightInputs, IInv, Shape
<1>1. ASSUME NEW i \in DOMAIN input.rules,
             NEW cuts \in [0 .. Len(input.rules[i][2]) -> Positions(input)],
             Clear(input, Stuck, input.rules[i][2], cuts)
      PROVE  <<input.rules[i][1], cuts[0], cuts[Len(input.rules[i][2])]>> \notin Stuck
  <2> DEFINE r == input.rules[i]
             w == r[2]
             n == Len(w)
             j == cuts[0]
             k == cuts[n]
  <2>1. /\ n \in Nat /\ Positions(input) \subseteq Nat /\ DOMAIN w = 1 .. n /\ r[1] \in Variables
        /\ Len(input.word) \in Nat /\ DOMAIN input.word = 1 .. Len(input.word)
        BY <1>0, RuleParts
  <2>2. \A a \in 0 .. n : \A b \in a .. n : cuts[a] <= cuts[b] BY <1>0, <1>1, CutsRise
  <2>3. \A m \in 1 .. n : /\ Covers(input, w[m], cuts[m - 1], cuts[m])
                          /\ w[m] \in Variables => <<w[m], cuts[m - 1], cuts[m]>> \notin Stuck
        BY <1>1 DEF Clear
  <2>4. \A m \in 0 .. n : cuts[m] \in Positions(input) /\ cuts[m] \in Nat BY <2>1
  <2>5. 0 \in 0 .. n /\ n \in 0 .. n BY <2>1
  <2>6. j \in Positions(input) /\ k \in Positions(input) /\ j <= k /\ j \in Nat /\ k \in Nat
        BY <2>1, <2>2, <2>4, <2>5
  <2>7. <<r[1], j, k>> \in input.spans
    <3>1. Covered(input, w, n, j, k) BY <2>3 DEF Covered
    <3>2. Closed(input) BY <1>0, EarleyAssumption
    <3> QED BY <2>6, <3>1, <3>2 DEF Closed
  <2> SUFFICES ASSUME NEW it \in ItemSpace, Held(it, j), Before(it, r[1])
               PROVE  Held(Scanned(it), k)
      BY DEF Stuck, PassedOver
  <2>8. Worked(it, j) /\ j \in DOMAIN sets BY HeldWorked
  <2>9. CASE j = k
    <3>1. r[1] \in input.null BY <1>0, <2>1, <2>6, <2>7, <2>9, EmptyIsNull
    <3> QED BY <2>1, <2>8, <2>9, <3>1 DEF Worked, Passes
  <2>10. CASE j # k
    <3>1. j < k /\ j \in DOMAIN input.word
      <4>1. j < k BY <2>6, <2>10
      <4>2. j \in 1 .. Len(input.word) + 1 /\ k \in 1 .. Len(input.word) + 1 BY <2>6 DEF Positions
      <4> QED BY <2>1, <4>1, <4>2
    <3>2. ~ RuledOut(j, r[1])
      <4> SUFFICES ASSUME input.predict, IsKnown(input.word[j]) PROVE input.word[j] \in input.first[r[1]]
          BY DEF RuledOut
      <4>1. input.first = First(RulesOf(input)) BY <1>0 DEF RightInputs
      <4> QED BY <1>0, <2>1, <2>6, <2>7, <3>1, <4>1, TokenIsFirst
    <3>3. Held(Item(r, 0, j), j)
      <4>1. i < Len(input.rules) + 1
        <5>1. input.rules \in Seq(Rules) BY <1>0, EarleyAssumption
        <5> QED BY <5>1
      <4> QED BY <2>8, <3>2, <4>1 DEF Worked, Predicts
\* The item of the rule got along the cuts.
    <3>4. \A m \in 0 .. n : Held(Item(r, m, j), cuts[m])
      <4> SUFFICES ASSUME NEW b \in 0 .. n, ~ Held(Item(r, b, j), cuts[b]) PROVE FALSE
          OBVIOUS
      <4> DEFINE Bad == {m \in 0 .. n : ~ Held(Item(r, m, j), cuts[m])}
      <4>1. Bad \in SUBSET Nat /\ Bad # {} OBVIOUS
      <4> HIDE DEF Bad
      <4>2. PICK m \in Bad : \A l \in Bad : m <= l BY <4>1, Order!LeastExists
      <4>3. m \in 0 .. n /\ ~ Held(Item(r, m, j), cuts[m]) BY <4>2 DEF Bad
      <4>4. m # 0 BY <3>3, <4>3
      <4>5. m \in 1 .. n /\ m - 1 \in 0 .. n /\ m - 1 \in Nat /\ m - 1 < n BY <2>1, <4>3, <4>4
      <4> DEFINE o == Item(r, m - 1, j)
                 X == w[m]
                 c == cuts[m - 1]
                 d == cuts[m]
      <4>6. Held(o, c)
        <5>1. m - 1 \notin Bad BY <4>1, <4>2, <4>5
        <5> QED BY <4>5, <5>1 DEF Bad
      <4>7. Scanned(o) = Item(r, m, j)
        <5>1. (m - 1) + 1 = m BY <4>5
        <5>2. o = [rule |-> r, dot |-> m - 1, from |-> j] BY DEF Item
        <5>3. Scanned(o) = [rule |-> r, dot |-> (m - 1) + 1, from |-> j] BY <5>2 DEF Scanned
        <5> QED BY <5>1, <5>3 DEF Item
      <4>8. ~ AtEnd(o) /\ Looking(o) = X
        <5>1. o.rule = r /\ o.dot = m - 1 /\ (m - 1) + 1 = m BY <4>5 DEF Item
        <5> HIDE DEF o
        <5>2. Looking(o) = X BY <5>1 DEF Looking
        <5>3. ~ AtEnd(o) BY <4>5, <5>1 DEF AtEnd
        <5> QED BY <5>2, <5>3
      <4>9. o \in ItemSpace /\ Worked(o, c) /\ c \in DOMAIN sets BY <4>6, HeldWorked
      <4>10. /\ Covers(input, X, c, d) /\ (X \in Variables => <<X, c, d>> \notin Stuck)
             /\ c \in Positions(input) /\ d \in Positions(input)
             BY <2>3, <2>4, <4>5
      <4> HIDE DEF o, X, c, r, w, n
      <4>11. Held(Scanned(o), d)
        <5>1. CASE X \in Variables
          <6>1. PassedOver(<<X, c, d>>) BY <4>10, <5>1 DEF Stuck, Triples
          <6> QED BY <4>6, <4>8, <4>9, <6>1 DEF PassedOver, Before
        <5>2. CASE X \notin Variables
          <6>1. c \in DOMAIN input.word /\ d = c + 1 /\ Match(input, input.word[c], X)
                BY <4>10, <5>2 DEF Covers
          <6> QED BY <4>8, <4>9, <5>2, <6>1 DEF Worked, Scans
        <5> QED BY <5>1, <5>2
      <4> QED BY <4>3, <4>7, <4>11
    <3>5. Held(Item(r, n, j), k) BY <2>5, <3>4
    <3> DEFINE e == Item(r, n, j)
    <3>6. Worked(e, k) /\ AtEnd(e) /\ e.from = j /\ e.rule[1] = r[1]
      <4>1. e.rule = r /\ e.dot = n /\ e.from = j BY DEF Item
      <4>2. Worked(e, k) BY <3>5, HeldWorked
      <4> QED BY <4>1, <4>2 DEF AtEnd
    <3> HIDE DEF e
    <3>7. Completes(e, k, Len(sets[j]) + 1) BY <3>1, <3>6 DEF Worked
    <3>8. PICK m \in DOMAIN sets[j] : sets[j][m] = it BY DEF Held
    <3>9. m < Len(sets[j]) + 1
      <4>1. sets[j] \in Seq(ItemSpace) BY <2>8 DEF IInv, Shape
      <4> QED BY <4>1
    <3> QED BY <3>6, <3>7, <3>8, <3>9 DEF Completes
  <2> QED BY <2>9, <2>10
<1>2. ASSUME NEW v \in input.null, NEW k \in Positions(input) PROVE <<v, k, k>> \notin Stuck
  <2> SUFFICES ASSUME v \in Variables, NEW it \in ItemSpace, Held(it, k), Before(it, v)
               PROVE  Held(Scanned(it), k)
      BY DEF Stuck, PassedOver, Triples
  <2>1. Worked(it, k) BY HeldWorked
  <2> QED BY <2>1 DEF Worked, Passes
<1>3. Avoids(input, Stuck) BY <1>1, <1>2 DEF Avoids
<1> QED BY <1>0, <1>3, SpansAvoid

\* A token that no symbol matches is in no span.
LEMMA NoneAcross ==
    ASSUME NEW in \in EarleyInputs, Derived(in), NEW p \in DOMAIN in.word,
           ~ IsKnown(in.word[p]), in.varTerms = {}
    PROVE  <<in.start, 1, Len(in.word) + 1>> \notin in.spans
<1> DEFINE B == {t \in in.spans : t[2] <= p /\ p < t[3]}
<1>0. Len(in.word) \in Nat /\ p \in 1 .. Len(in.word) BY EarleyAssumption
<1>1. ASSUME NEW i \in DOMAIN in.rules,
             NEW cuts \in [0 .. Len(in.rules[i][2]) -> Positions(in)],
             Clear(in, B, in.rules[i][2], cuts)
      PROVE  <<in.rules[i][1], cuts[0], cuts[Len(in.rules[i][2])]>> \notin B
  <2> DEFINE w == in.rules[i][2]
             n == Len(w)
  <2>1. n \in Nat /\ Positions(in) \subseteq Nat BY RuleParts
  <2> SUFFICES ASSUME cuts[0] <= p, p < cuts[n] PROVE FALSE
      OBVIOUS
  <2>3. \A m \in 1 .. n : /\ Covers(in, w[m], cuts[m - 1], cuts[m])
                          /\ w[m] \in Variables => <<w[m], cuts[m - 1], cuts[m]>> \notin B
        BY <1>1 DEF Clear
  <2>4. \A m \in 0 .. n : cuts[m] \in Nat BY <2>1
  <2> DEFINE Past == {m \in 0 .. n : p < cuts[m]}
  <2>5. Past \in SUBSET Nat /\ Past # {}
    <3>1. n \in Past BY <2>1
    <3> QED BY <3>1
  <2> HIDE DEF Past, w, n
  <2>6. PICK m \in Past : \A l \in Past : m <= l BY <2>5, Order!LeastExists
  <2>7. m \in 0 .. n /\ p < cuts[m] /\ 0 \in 0 .. n BY <2>1, <2>6 DEF Past
  <2>8. m # 0 BY <1>0, <2>4, <2>7
  <2>9. m \in 1 .. n /\ m - 1 \in 0 .. n /\ m \in Nat BY <2>1, <2>7, <2>8
  <2>10. cuts[m - 1] <= p
    <3>1. m - 1 \notin Past BY <2>5, <2>6, <2>9
    <3>2. ~ p < cuts[m - 1] BY <2>9, <3>1 DEF Past
    <3> QED BY <1>0, <2>4, <2>9, <3>2
  <2>11. Covers(in, w[m], cuts[m - 1], cuts[m])
         /\ (w[m] \in Variables => <<w[m], cuts[m - 1], cuts[m]>> \notin B)
         BY <2>3, <2>9
  <2>12. CASE w[m] \in Variables BY <2>7, <2>10, <2>11, <2>12 DEF Covers
  <2>13. CASE w[m] \notin Variables
    <3>1. cuts[m] = cuts[m - 1] + 1 /\ Match(in, in.word[cuts[m - 1]], w[m])
          BY <2>11, <2>13 DEF Covers
    <3>2. cuts[m - 1] = p BY <1>0, <2>4, <2>7, <2>9, <2>10, <3>1
    <3> QED BY <3>1, <3>2 DEF Match
  <2> QED BY <2>12, <2>13
<1>2. \A v \in in.null : \A l \in Positions(in) : <<v, l, l>> \notin B
  <2>1. Positions(in) \subseteq Int BY <1>0 DEF Positions
  <2> QED BY <1>0, <2>1
<1>3. Avoids(in, B) BY <1>1, <1>2 DEF Avoids
<1>4. 1 <= p /\ p < Len(in.word) + 1 BY <1>0
<1>5. <<in.start, 1, Len(in.word) + 1>> \in in.spans => <<in.start, 1, Len(in.word) + 1>> \in B BY <1>4
<1> HIDE DEF B
<1> QED BY <1>3, <1>5, SpansAvoid

LEMMA NextSetAnswers == RightInputs /\ IInv /\ CInv /\ NextSet => Answered'
<1> SUFFICES ASSUME RightInputs, IInv, CInv, NextSet, phase' = "done", WorthParsing,
                    <<input.start, 1, Len(input.word) + 1>> \in input.spans
             PROVE  result'
    BY DEF Answered, NextSet, WorthParsing
<1>1. /\ phase = "items" /\ pos > Len(sets[at]) /\ ~ (NotAtEnd /\ at < Len(sets))
      /\ result' = (~ NotAtEnd /\ \E i \in DOMAIN sets[at] : /\ sets[at][i].dot = 1
                                                             /\ sets[at][i].rule[1] = SV)
      BY DEF NextSet, Stop
<1>2. /\ input \in EarleyInputs /\ sets \in Seq(Seq(ItemSpace)) /\ at \in 1 .. Len(sets)
      /\ Len(sets) \in Nat /\ Len(sets) <= Len(input.word) + 1 /\ DOMAIN sets = 1 .. Len(sets)
      BY DEF IInv, Shape
<1>3. Len(input.word) \in Nat /\ input.rules \in Seq(Rules) BY <1>2, EarleyAssumption
<1>4. Len(sets) = at BY <1>1, <1>2, <1>3 DEF NotAtEnd
<1>5. input.spans \cap Stuck = {} BY <1>1, <1>4, NoneStuck
<1>6. input.start \in Variables BY <1>3 DEF WorthParsing, Rules
<1> DEFINE t == <<input.start, 1, Len(input.word) + 1>>
<1>7. t \in Triples(input) BY <1>3, <1>6 DEF Triples, Positions
<1>8. PassedOver(t)
  <2>1. t \notin Stuck BY <1>5
  <2> QED BY <1>7, <2>1 DEF Stuck
<1> DEFINE it == First0(input)
<1>9. Held(it, 1) BY DEF CInv, Charted
<1>10. it \in ItemSpace BY <1>1, <1>4, <1>9, HeldWorked
<1>11. Before(it, input.start)
  <2>1. it.rule = <<SV, <<input.start>>>> /\ it.dot = 0 BY DEF First0, Item
  <2> HIDE DEF it
  <2> QED BY <2>1 DEF Before, AtEnd, Looking
<1>12. Held(Scanned(it), Len(input.word) + 1)
  <2>1. t[1] = input.start /\ t[2] = 1 /\ t[3] = Len(input.word) + 1 OBVIOUS
  <2> HIDE DEF t, it
  <2> QED BY <1>8, <1>9, <1>10, <1>11, <2>1 DEF PassedOver
<1>13. Scanned(it).dot = 1 /\ Scanned(it).rule[1] = SV BY DEF First0, Item, Scanned
<1> HIDE DEF it
<1>14. Len(input.word) + 1 = at BY <1>2, <1>3, <1>4, <1>12 DEF Held
<1>15. ~ NotAtEnd BY <1>2, <1>3, <1>14 DEF NotAtEnd
<1>16. PICK i \in DOMAIN sets[at] : sets[at][i] = Scanned(it) BY <1>12, <1>14 DEF Held
<1> QED BY <1>1, <1>13, <1>15, <1>16

LEMMA ReadTokenAnswers == RightInputs /\ IInv /\ ReadToken => Answered'
<1> SUFFICES ASSUME RightInputs, IInv, ReadToken, phase' = "done"
             PROVE  <<input.start, 1, Len(input.word) + 1>> \notin input.spans
    BY DEF Answered, ReadToken
<1>1. NotAtEnd /\ ~ IsKnown(Token) /\ input.varTerms = {} BY DEF ReadToken
<1>2. input \in EarleyInputs /\ at \in Nat \ {0} /\ Derived(input) BY DEF IInv, Shape, RightInputs
<1>3. input.word \in Seq(Terminals \cup {Unknown}) BY <1>2, EarleyAssumption
<1>4. at \in DOMAIN input.word BY <1>1, <1>2, <1>3 DEF NotAtEnd
<1> QED BY <1>1, <1>2, <1>4, NoneAcross DEF Token

\* ChartRight for every grammar and word and every order of the productions,
\* with prediction and without: if the null and first sets are those of
\* ContextFree and spans is what the rules derive, CFG_PARSE_EARLEY says yes to
\* the words that the start variable derives and to no others.
THEOREM ChartIsRight == RightInputs /\ EarleySpec => []ChartRight
<1>1. EarleyInit => Answered BY DEF EarleyInit, Answered, WorthParsing
<1>2. RightInputs /\ IInv /\ CInv /\ Answered /\ [EarleyNext]_earleyVars => Answered'
  <2> SUFFICES ASSUME RightInputs, IInv, CInv, Answered, [EarleyNext]_earleyVars PROVE Answered'
      OBVIOUS
  <2>1. CASE ReadToken BY <2>1, ReadTokenAnswers
  <2>2. CASE NextSet BY <2>2, NextSetAnswers
  <2>3. CASE Predict \/ PredictNext \/ Complete \/ CompleteNext \/ Scan
    <3>1. phase' # "done"
          BY <2>3 DEF Predict, PredictNext, Complete, CompleteNext, Scan
    <3> QED BY <3>1 DEF Answered
  <2>4. CASE UNCHANGED earleyVars BY <2>4 DEF earleyVars, Answered, WorthParsing
  <2> QED BY <2>1, <2>2, <2>3, <2>4 DEF EarleyNext, EarleyStep, EarleyDone
<1>3. IInv /\ CInv /\ Answered => ChartRight
      BY DEF IInv, CInv, Answer, Answered, ChartRight, Verdict
<1>4. RightInputs /\ [EarleyNext]_earleyVars => RightInputs' BY DEF RightInputs
<1> QED BY <1>1, <1>2, <1>3, <1>4, ChartInvariance, PTL DEF EarleySpec
=============================================================================
