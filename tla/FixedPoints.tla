---------------------------- MODULE FixedPoints ----------------------------
(***************************************************************************)
(* compute_null_set, compute_first_terminals and compute_follow_set, one     *)
(* after the other on one grammar, as cfg-to-ll1 calls them (cfg-parse calls  *)
(* the first two).  A step is one result of a generator and what the loop    *)
(* does with it.  The bit sets are sets and functions; the order in which a   *)
(* generator yields is left open, so what is shown holds for every order.    *)
(***************************************************************************)
EXTENDS ContextFree

CONSTANTS
    Grammars,   \* the grammars the functions are called with
    NoVariable  \* what a generator of variables leaves in V when it is through

ASSUME GrammarsAssumption ==
    /\ Grammars \subseteq SUBSET Rules
    /\ NoVariable \notin Symbols

VARIABLES
    rules,      \* the grammar, which nobody edits meanwhile
    nullable,
    first,
    follow,
    pc,         \* which loop is running
    todo,       \* what the innermost generator has still to yield
    vars,       \* what the generator of variables has still to yield
    V,          \* the variable it yielded last
    updated     \* found_nullable or updated: has this pass changed anything?

fvars == <<rules, nullable, first, follow, pc, todo, vars, V, updated>>

-----------------------------------------------------------------------------
(* What the searches yield.                                                *)

\* search((~V) --->* epsilon), search((~V) --->* ~T + __) and
\* search((~V) --->* ~Q + ~str).
EpsilonRules == {r \in rules : r[2] = <<>>}
TerminalLed == {r \in rules : r[2] # <<>> /\ r[2][1] \in Terminals}
VariableLed == {r \in rules : r[2] # <<>> /\ r[2][1] \in Variables}

\* Mutant of Enumerated: starts behind the variable of the first production.
EnumeratedPast == {v \in Variables : rules = {} \/ \E r \in rules : r[1] < v}

\* search(~V) starts at the variable of the first production, the smallest one
\* that has any.
Enumerated == {v \in Variables : rules = {} \/ \E r \in rules : r[1] <= v}

\* search((~A) --->* __ + V + ~s) binds s to what is behind the first V.
Contains(s, v) == \E i \in DOMAIN s : s[i] = v
FirstAt(s, v) == CHOOSE i \in DOMAIN s : s[i] = v /\ \A j \in 1..(i - 1) : s[j] # v
Rest(s, v) == SubSeq(s, FirstAt(s, v) + 1, Len(s))

-----------------------------------------------------------------------------
(* compute_null_set                                                        *)

Init ==
    /\ rules \in Grammars
    /\ nullable = {}
    /\ first = [v \in Variables |-> {}]
    /\ follow = [v \in Variables |-> {}]
    /\ pc = "null base"
    /\ todo = EpsilonRules
    /\ vars = {}
    /\ V = NoVariable
    /\ updated = TRUE

BaseNull(r) ==
    /\ pc = "null base"
    /\ r \in todo
    /\ todo' = todo \ {r}
    /\ nullable' = nullable \cup {r[1]}
    /\ UNCHANGED <<rules, first, follow, pc, vars, V, updated>>

\* The test for nullable.empty() behind the base case never succeeds: the
\* vector has an element per variable.
StartNull ==
    /\ pc = "null base"
    /\ todo = {}
    /\ pc' = "null"
    /\ todo' = VariableLed
    /\ updated' = FALSE
    /\ UNCHANGED <<rules, nullable, first, follow, vars, V>>

\* Mutant of VisitNull: does not say that it found something.
VisitNullQuietly(r) ==
    /\ pc = "null"
    /\ r \in todo
    /\ todo' = todo \ {r}
    /\ nullable' = IF \A i \in DOMAIN r[2] : r[2][i] \in nullable
                   THEN nullable \cup {r[1]} ELSE nullable
    /\ UNCHANGED <<rules, first, follow, pc, vars, V, updated>>

\* Mutant of VisitNull: does not skip the variables known to be nullable.
VisitNullAgain(r) ==
    LET found == \A i \in DOMAIN r[2] : r[2][i] \in nullable
    IN  /\ pc = "null"
        /\ r \in todo
        /\ todo' = todo \ {r}
        /\ nullable' = IF found THEN nullable \cup {r[1]} ELSE nullable
        /\ updated' = (updated \/ found)
        /\ UNCHANGED <<rules, first, follow, pc, vars, V>>

\* A variable that is not known to be nullable and has a right hand side that
\* starts with a variable (Q) and is nullable as a whole.
VisitNull(r) ==
    LET found == /\ r[1] \notin nullable
                 /\ \A i \in DOMAIN r[2] : r[2][i] \in nullable
    IN  /\ pc = "null"
        /\ r \in todo
        /\ todo' = todo \ {r}
        /\ nullable' = IF found THEN nullable \cup {r[1]} ELSE nullable
        /\ updated' = (updated \/ found)
        /\ UNCHANGED <<rules, first, follow, pc, vars, V>>

RewindNull ==
    /\ pc = "null"
    /\ todo = {}
    /\ updated
    /\ todo' = VariableLed
    /\ updated' = FALSE
    /\ UNCHANGED <<rules, nullable, first, follow, pc, vars, V>>

\* Nothing found in the last pass: on to the base case of the first sets.
EndNull ==
    /\ pc = "null"
    /\ todo = {}
    /\ ~updated
    /\ pc' = "first base"
    /\ todo' = TerminalLed
    /\ UNCHANGED <<rules, nullable, first, follow, vars, V, updated>>

-----------------------------------------------------------------------------
(* compute_first_terminals                                                 *)

BaseFirst(r) ==
    /\ pc = "first base"
    /\ r \in todo
    /\ todo' = todo \ {r}
    /\ first' = [first EXCEPT ![r[1]] = @ \cup {r[2][1]}]
    /\ UNCHANGED <<rules, nullable, follow, pc, vars, V, updated>>

\* A pass over the variables begins: the head of the loops "for(; updated; )".
BeginPass ==
    /\ vars' = Enumerated
    /\ todo' = {}
    /\ V' = NoVariable
    /\ updated' = FALSE

StartFirst ==
    /\ pc = "first base"
    /\ todo = {}
    /\ pc' = "first"
    /\ BeginPass
    /\ UNCHANGED <<rules, nullable, first, follow>>

\* Mutant of NextOfFirst: each variable starts with a new flag.
NextOfFirstResets(v) ==
    /\ pc = "first"
    /\ todo = {}
    /\ v \in vars
    /\ vars' = vars \ {v}
    /\ V' = v
    /\ todo' = {r \in VariableLed : r[1] = v}
    /\ updated' = FALSE
    /\ UNCHANGED <<rules, nullable, first, follow, pc>>

NextOfFirst(v) ==
    /\ pc = "first"
    /\ todo = {}
    /\ v \in vars
    /\ vars' = vars \ {v}
    /\ V' = v
    /\ todo' = {r \in VariableLed : r[1] = v}
    /\ UNCHANGED <<rules, nullable, first, follow, pc, updated>>

\* The positions that the scan of s comes to: it stops at a terminal and at a
\* variable that is not nullable.
Reached(s) == {i \in DOMAIN s : \A j \in 1..(i - 1) : s[j] \in nullable}

\* What the scan collects: a terminal, or the first set of a variable.
Found(s, F) == UNION {IF s[i] \in Terminals THEN {s[i]} ELSE F[s[i]] : i \in Reached(s)}

\* assert(0 != reached_set): search(~V) gave every variable reached its set.
Allocated(s) == \A i \in Reached(s) : s[i] \in Variables => s[i] \in Enumerated

VisitFirst(r) ==
    /\ pc = "first"
    /\ r \in todo
    /\ Allocated(r[2])
    /\ todo' = todo \ {r}
    /\ first' = [first EXCEPT ![V] = @ \cup Found(r[2], first)]
    /\ updated' = (updated \/ ~(Found(r[2], first) \subseteq first[V]))
    /\ UNCHANGED <<rules, nullable, follow, pc, vars, V>>

RepeatFirst ==
    /\ pc = "first"
    /\ todo = {} /\ vars = {}
    /\ updated
    /\ BeginPass
    /\ UNCHANGED <<rules, nullable, first, follow, pc>>

EndFirst ==
    /\ pc = "first"
    /\ todo = {} /\ vars = {}
    /\ ~updated
    /\ pc' = "follow"
    /\ BeginPass
    /\ UNCHANGED <<rules, nullable, first, follow>>

-----------------------------------------------------------------------------
(* compute_follow_set                                                      *)

NextOfFollow(v) ==
    /\ pc = "follow"
    /\ todo = {}
    /\ v \in vars
    /\ vars' = vars \ {v}
    /\ V' = v
    /\ todo' = {r \in rules : Contains(r[2], v)}
    /\ UNCHANGED <<rules, nullable, first, follow, pc, updated>>

\* The positions of s that the scan comes to.  V itself is passed over.
Passed(s) == {i \in 1..(Len(s) + 1) : \A j \in 1..(i - 1) : s[j] \in nullable \cup {V}}

\* A terminal ends the scan and is inserted without a word to updated; first
\* sets are united into the set of V, that of A when the end is reached.
VisitFollow(r) ==
    LET s == Rest(r[2], V)
        inserted == {s[i] : i \in Passed(s) \cap DOMAIN s} \cap Terminals
        united == (UNION {first[s[i]] : i \in {i \in Passed(s) \cap DOMAIN s :
                                                s[i] \in Variables \ {V}}})
                  \cup (IF Len(s) + 1 \in Passed(s) THEN first[r[1]] ELSE {})
    IN  /\ pc = "follow"
        /\ r \in todo
        /\ todo' = todo \ {r}
        /\ follow' = [follow EXCEPT ![V] = @ \cup inserted \cup united]
        /\ updated' = (updated \/ ~(united \subseteq follow[V]))
        /\ UNCHANGED <<rules, nullable, first, pc, vars, V>>

RepeatFollow ==
    /\ pc = "follow"
    /\ todo = {} /\ vars = {}
    /\ updated
    /\ BeginPass
    /\ UNCHANGED <<rules, nullable, first, follow, pc>>

EndFollow ==
    /\ pc = "follow"
    /\ todo = {} /\ vars = {}
    /\ ~updated
    /\ pc' = "done"
    /\ V' = NoVariable
    /\ UNCHANGED <<rules, nullable, first, follow, todo, vars, updated>>

-----------------------------------------------------------------------------
Next ==
    \/ \E r \in todo : BaseNull(r) \/ VisitNull(r) \/ BaseFirst(r)
                       \/ VisitFirst(r) \/ VisitFollow(r)
    \/ \E v \in vars : NextOfFirst(v) \/ NextOfFollow(v)
    \/ StartNull \/ RewindNull \/ EndNull
    \/ StartFirst \/ RepeatFirst \/ EndFirst
    \/ RepeatFollow \/ EndFollow

\* One thread, and nothing in the loops waits: it goes on while it can.
Spec == Init /\ [][Next]_fvars /\ WF_fvars(Next)

-----------------------------------------------------------------------------
(* Properties                                                              *)

PastNull == {"first base", "first", "follow", "done"}
PastFirst == {"follow", "done"}

TypeOK ==
    /\ rules \subseteq Rules
    /\ nullable \subseteq Variables
    /\ first \in SetsOf(Terminals)
    /\ follow \in SetsOf(Terminals)
    /\ pc \in {"null base", "null"} \cup PastNull
    /\ todo \subseteq rules
    /\ vars \subseteq Variables
    /\ V \in Variables \cup {NoVariable}
    /\ updated \in BOOLEAN

\* compute_null_set marks no variable that does not derive the empty string,
\* and when its loop ends it has marked all that do, in whatever order the
\* productions came.
NullExact ==
    /\ nullable \subseteq Null(rules)
    /\ pc \in PastNull => nullable = Null(rules)

\* The same of compute_first_terminals and the terminals that a variable may
\* begin with, through nullable variables and cycles.
FirstExact ==
    /\ \A v \in Variables : first[v] \subseteq First(rules)[v]
    /\ pc \in PastFirst => first = First(rules)

\* The assertion in the scan of compute_first_terminals: each variable that the
\* scan comes to was enumerated when the sets were allocated.
SetsAllocated == pc = "first" => \A r \in todo : Allocated(r[2])

\* compute_follow_set "compute[s] the follow sets for a CFG".
FollowExact == pc = "done" => follow = Follow(rules)
=============================================================================
