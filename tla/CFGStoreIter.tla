---------------------------- MODULE CFGStoreIter ----------------------------
(***************************************************************************)
(* CFGStore with history variables that record what each generator has still *)
(* to yield, what it has yielded and whether it has ended, and the refinement *)
(* they are for: the store implements Grammar, a set of rules that may be     *)
(* edited while it is iterated over.  They read the store and never guide it. *)
(***************************************************************************)
EXTENDS CFGStore

VARIABLES
    owed,   \* owed[g]: rules g must yield before it may say it is done
    seen,   \* seen[g]: rules of the grammar that g yielded since its start
    done    \* done[g]: what match_next() of g returned last was false

ivars == <<vars, owed, seen, done>>

RuleOf(c) == <<heap.var[c], heap.rhs[c]>>
RulesOf(h) == {<<h.var[c], h.rhs[c]>> : c \in Live(h)}
MatchingRules(g) == {RuleOf(c) : c \in {x \in Live(heap) : Matches(heap, g, x)}}

\* What a generator owes and has yielded when it is about to be asked.
OwedAt(g) == IF used[g] THEN owed[g] ELSE MatchingRules(g)
SeenAt(g) == IF used[g] THEN seen[g] ELSE {}

IterInit ==
    /\ Init
    /\ owed = [g \in Gens |-> {}]
    /\ seen = [g \in Gens |-> {}]
    /\ done = [g \in Gens |-> FALSE]

\* A step that edits the grammar: a rule that goes is forgotten.
IterEdit ==
    /\ \/ AddVariable
       \/ \E v \in VarIds : SetStartVariable(v)
       \/ \E v \in VarIds : UnsafeRemoveVariable(v)
       \/ \E v \in VarIds, s \in Strings, d \in Handles \cup {NoHandle} :
             AddProduction(v, s, d)
       \/ \E d \in Handles : RemoveProduction(d)
       \/ \E d, f \in Handles : CopyHandle(d, f)
       \/ \E d \in Handles : ClearHandle(d)
       \/ Destroy
    /\ LET left == RulesOf(heap')
       IN  /\ owed' = [g \in Gens |-> owed[g] \cap left]
           /\ seen' = [g \in Gens |-> seen[g] \cap left]
    /\ UNCHANGED done

IterRewind(g) ==
    /\ Rewind(g)
    /\ owed' = [owed EXCEPT ![g] = MatchingRules(g)]
    /\ seen' = [seen EXCEPT ![g] = {}]
    /\ done' = [done EXCEPT ![g] = FALSE]

IterFound(g, m) ==
    /\ Asked(g) /\ MatchFound(g, m)
    /\ owed' = [owed EXCEPT ![g] = OwedAt(g) \ {RuleOf(m)}]
    /\ seen' = [seen EXCEPT ![g] = SeenAt(g) \cup {RuleOf(m)}]
    /\ done' = [done EXCEPT ![g] = FALSE]

IterDone(g) ==
    /\ Asked(g) /\ (MatchEnd(g) \/ MatchNone(g))
    /\ owed' = [owed EXCEPT ![g] = OwedAt(g)]
    /\ seen' = [seen EXCEPT ![g] = SeenAt(g)]
    /\ done' = [done EXCEPT ![g] = TRUE]

IterFree(g) ==
    /\ FreeGenerator(g)
    /\ owed' = [owed EXCEPT ![g] = {}]
    /\ seen' = [seen EXCEPT ![g] = {}]
    /\ done' = [done EXCEPT ![g] = FALSE]

IterNext ==
    \/ IterEdit
    \/ \E g \in Gens : IterRewind(g) \/ IterDone(g) \/ IterFree(g)
    \/ \E g \in Gens, m \in Cells : IterFound(g, m)

IterSpec == IterInit /\ [][IterNext]_ivars

-----------------------------------------------------------------------------
G == INSTANCE Grammar WITH
        Vars      <- VarIds,
        Iters     <- Gens,
        variables <- variable_map,
        rules     <- RulesOf(heap),
        started   <- used

\* The store implements the grammar and its iterations: search() enumerates
\* each matching production once and misses none, however the client removes,
\* re-adds and adds productions and variables between two calls of
\* match_next(), including the ones the generator is parked on.
ImplementsGrammar == G!GSpec
=============================================================================
