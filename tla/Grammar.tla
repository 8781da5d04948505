------------------------------- MODULE Grammar -------------------------------
(***************************************************************************)
(* What fltl::CFG promises to its clients, with no pointers: a grammar is a  *)
(* set of variables and a set of rules, and an iteration over the rules that  *)
(* match a pattern may be interleaved with any editing of the grammar.  An   *)
(* iteration yields rules of the grammar only, each at most once, and it     *)
(* does not end before it has yielded every matching rule that was there     *)
(* when it started and has not been removed since.                           *)
(***************************************************************************)
CONSTANTS
    Vars,       \* variables
    Strings,    \* right hand sides
    Iters,      \* iterations
    Bound,      \* Bound[i]: the variable the pattern of i is bound to, or 0
    Shape       \* Shape[i]: the right hand sides the pattern of i matches

VARIABLES
    variables,
    rules,      \* pairs <<variable, right hand side>>
    started,    \* started[i]: iteration i has been asked for a rule
    owed,       \* owed[i]: rules that iteration i has still to yield
    seen,       \* seen[i]: rules of the grammar that iteration i yielded
    done        \* done[i]: iteration i has said that there is nothing more

gvars == <<variables, rules, started, owed, seen, done>>

Matching(i) == {r \in rules : Bound[i] \in {0, r[1]} /\ r[2] \in Shape[i]}

GInit ==
    /\ variables = {}
    /\ rules = {}
    /\ started = [i \in Iters |-> FALSE]
    /\ owed = [i \in Iters |-> {}]
    /\ seen = [i \in Iters |-> {}]
    /\ done = [i \in Iters |-> FALSE]

\* The rules in R go, and no iteration owes them any more.
Drop(R) ==
    /\ rules' = rules \ R
    /\ owed' = [i \in Iters |-> owed[i] \ R]
    /\ seen' = [i \in Iters |-> seen[i] \ R]
    /\ UNCHANGED <<started, done>>

GAddVariable(v) ==
    /\ v \notin variables
    /\ variables' = variables \cup {v}
    /\ UNCHANGED <<rules, started, owed, seen, done>>

GRemoveVariable(v) ==
    /\ v \in variables
    /\ variables' = variables \ {v}
    /\ Drop({r \in rules : r[1] = v})

\* A rule that is added is not owed to the iterations under way: they may
\* yield it or not.
GAddRule(v, s) ==
    /\ v \in variables
    /\ rules' = rules \cup {<<v, s>>}
    /\ UNCHANGED <<variables, started, owed, seen, done>>

GRemoveRule(r) ==
    /\ r \in rules
    /\ Drop({r})
    /\ UNCHANGED variables

GStart(i) ==
    /\ owed' = [owed EXCEPT ![i] = Matching(i)]
    /\ seen' = [seen EXCEPT ![i] = {}]
    /\ done' = [done EXCEPT ![i] = FALSE]
    /\ UNCHANGED <<variables, rules, started>>

\* Iteration i yields r; the first request of all also starts the iteration.
GYield(i, r) ==
    /\ r \in Matching(i)
    /\ ~done[i]
    /\ \/ /\ started[i]
          /\ r \notin seen[i]
          /\ owed' = [owed EXCEPT ![i] = @ \ {r}]
          /\ seen' = [seen EXCEPT ![i] = @ \cup {r}]
       \/ /\ ~started[i]
          /\ owed' = [owed EXCEPT ![i] = Matching(i) \ {r}]
          /\ seen' = [seen EXCEPT ![i] = {r}]
    /\ started' = [started EXCEPT ![i] = TRUE]
    /\ UNCHANGED <<variables, rules, done>>

\* Iteration i says that there is nothing more, which stays so until it starts
\* again.
GEnd(i) ==
    /\ IF started[i] THEN owed[i] = {} /\ UNCHANGED <<owed, seen>>
       ELSE /\ Matching(i) = {}
            /\ owed' = [owed EXCEPT ![i] = {}]
            /\ seen' = [seen EXCEPT ![i] = {}]
    /\ started' = [started EXCEPT ![i] = TRUE]
    /\ done' = [done EXCEPT ![i] = TRUE]
    /\ UNCHANGED <<variables, rules>>

\* Iteration i is given up and replaced by a new one.
GStop(i) ==
    /\ started' = [started EXCEPT ![i] = FALSE]
    /\ owed' = [owed EXCEPT ![i] = {}]
    /\ seen' = [seen EXCEPT ![i] = {}]
    /\ done' = [done EXCEPT ![i] = FALSE]
    /\ UNCHANGED <<variables, rules>>

GDestroy ==
    /\ variables' = {}
    /\ Drop(rules)

GNext ==
    \/ \E v \in Vars : GAddVariable(v) \/ GRemoveVariable(v)
    \/ \E v \in Vars, s \in Strings : GAddRule(v, s)
    \/ \E r \in rules : GRemoveRule(r)
    \/ \E i \in Iters : GStart(i) \/ GEnd(i) \/ GStop(i)
    \/ \E i \in Iters, r \in rules : GYield(i, r)
    \/ GDestroy

GSpec == GInit /\ [][GNext]_gvars
=============================================================================
