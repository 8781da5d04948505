------------------------------ MODULE CFGStore ------------------------------
(***************************************************************************)
(* The store of a context-free grammar: fltl::CFG with its variables, its   *)
(* reference-counted productions, the OpaqueProduction handles a client     *)
(* keeps on them and the generators that enumerate them while the client    *)
(* goes on editing the grammar.                                             *)
(*                                                                         *)
(* Productions are modelled at the level of their pointers: the productions *)
(* of a variable are a doubly linked list sorted by the hash of the right   *)
(* hand side, a removed production stays linked while anybody holds it, and *)
(* a production whose variable was removed keeps, in its prev field, a      *)
(* pointer to that variable so that a generator parked on it can go on.     *)
(* The program is single-threaded: one action is one call of a client.      *)
(***************************************************************************)
EXTENDS Integers, FiniteSets

CONSTANTS
    Cells,      \* slots of production_allocator (the pool of Production objects)
    Handles,    \* OpaqueProduction objects of the client
    Gens,       \* Generator objects of the client
    MaxVars,    \* bound on the variables ever allocated
    Strings,    \* right hand sides (SymbolString)
    Epsilon,    \* the empty right hand side
    Key,        \* Key[s]: the hash a list is sorted by; strings may collide
    NoCell,     \* the null Production pointer
    NoHandle,   \* the null binder
    Binder,     \* Binder[g]: the handle generator g binds, or NoHandle
    Bound,      \* Bound[g]: the variable its pattern is bound to, or 0
    Shape       \* Shape[g]: the right hand sides its pattern matches

VarIds == 1..MaxVars
Holders == Handles \cup Gens
CellOrNull == Cells \cup {NoCell}

ASSUME SetsAssumption ==
    /\ IsFiniteSet(Cells) /\ IsFiniteSet(Handles) /\ IsFiniteSet(Gens)
    /\ MaxVars \in Nat \ {0}
    /\ Epsilon \in Strings

ASSUME NullsAssumption ==
    /\ NoCell \notin Cells
    /\ NoHandle \notin Handles
    /\ VarIds \cap CellOrNull = {}

ASSUME KeyAssumption ==
    /\ Key \in [Strings -> Int]
    /\ \A s \in Strings \ {Epsilon} : Key[Epsilon] < Key[s]

ASSUME GensAssumption ==
    /\ Handles \cap Gens = {}
    /\ Binder \in [Gens -> Handles \cup {NoHandle}]
    /\ Bound \in [Gens -> VarIds \cup {0}]
    /\ Shape \in [Gens -> SUBSET Strings]

VARIABLES
    heap,             \* the productions and the heads of their lists
    variable_map,     \* ids whose entry of CFG::variable_map is not null
    next_variable_id,
    unused_variables, \* head of the chain of removed variables, 0 if empty
    var_next,         \* Variable::next, by id; 0 is null
    var_prev,         \* Variable::prev, by id; 0 is null
    var_count,        \* Variable::num_productions, by id
    num_productions_,
    num_variables_,
    first_production,
    start_variable,   \* 0 while there is none
    ptr,              \* OpaqueProduction::production / Generator::cursor
    used,             \* Generator::has_been_used
    alive             \* FALSE once ~CFG has run

varvars == <<variable_map, next_variable_id, unused_variables,
             var_next, var_prev, num_variables_, start_variable>>
countvars == <<var_count, num_productions_>>
vars == <<heap, varvars, countvars, first_production, ptr, used, alive>>

-----------------------------------------------------------------------------
(* The heap of productions.  A field of a free cell has the value that the  *)
(* allocator's re-construction gives it.                                    *)

Heap == [alloc : SUBSET Cells,
         ref   : [Cells -> Nat],
         del   : [Cells -> BOOLEAN],
         var   : [Cells -> VarIds \cup {0}],
         rhs   : [Cells -> Strings],
         prev  : [Cells -> CellOrNull \cup VarIds],
         next  : [Cells -> CellOrNull],
         first : [VarIds -> CellOrNull]]

EmptyHeap == [alloc |-> {},
              ref   |-> [c \in Cells |-> 0],
              del   |-> [c \in Cells |-> FALSE],
              var   |-> [c \in Cells |-> 0],
              rhs   |-> [c \in Cells |-> Epsilon],
              prev  |-> [c \in Cells |-> NoCell],
              next  |-> [c \in Cells |-> NoCell],
              first |-> [v \in VarIds |-> NoCell]]

OfVar(h, v) == {c \in h.alloc : h.var[c] = v}

\* The productions of the grammar: the list of their variable holds them.
Live(h) == {c \in h.alloc : ~h.del[c] /\ h.var[c] # 0}

Hold(h, c) == [h EXCEPT !.ref[c] = @ + 1]

\* Mutants of Free: the production is not unchained from the one after it, from
\* the one before it, or from the variable.
FreeKeepsPrev(h, c) ==
    [alloc |-> h.alloc \ {c},
     ref   |-> [h.ref EXCEPT ![c] = 0],
     del   |-> [h.del EXCEPT ![c] = FALSE],
     var   |-> [h.var EXCEPT ![c] = 0],
     rhs   |-> [h.rhs EXCEPT ![c] = Epsilon],
     prev  |-> [h.prev EXCEPT ![c] = NoCell],
     next  |-> [x \in Cells |-> CASE x = c                           -> NoCell
                                  [] x # c /\ x = h.prev[c]
                                     /\ h.var[c] # 0                 -> h.next[c]
                                  [] OTHER                           -> h.next[x]],
     first |-> [w \in VarIds |-> IF w = h.var[c] /\ h.prev[c] = NoCell
                                THEN h.next[c] ELSE h.first[w]]]

FreeKeepsNext(h, c) ==
    [FreeKeepsPrev(h, c) EXCEPT
        !.prev = [x \in Cells |-> IF x = h.next[c] THEN h.prev[c] ELSE @[x]],
        !.next = [h.next EXCEPT ![c] = NoCell]]

\* What release() does with the last reference: unchain, then deallocate.
Free(h, c) ==
    LET p == h.prev[c]
        n == h.next[c]
        v == h.var[c]
    IN  [alloc |-> h.alloc \ {c},
         ref   |-> [h.ref EXCEPT ![c] = 0],
         del   |-> [h.del EXCEPT ![c] = FALSE],
         var   |-> [h.var EXCEPT ![c] = 0],
         rhs   |-> [h.rhs EXCEPT ![c] = Epsilon],
         prev  |-> [x \in Cells |->
                      CASE x = c                     -> NoCell
                        [] x # c /\ x = n /\ h.var[x] # 0 -> p
                        [] OTHER                     -> h.prev[x]],
         next  |-> [x \in Cells |->
                      CASE x = c                     -> NoCell
                        [] x # c /\ x = p /\ v # 0   -> n
                        [] OTHER                     -> h.next[x]],
         first |-> [w \in VarIds |->
                      IF w = v /\ p = NoCell THEN n ELSE h.first[w]]]

\* A mutant of Release: the production goes with the last reference but one.
ReleaseEarly(h, c) ==
    IF h.ref[c] <= 2 THEN Free(h, c) ELSE [h EXCEPT !.ref[c] = @ - 1]

Release(h, c) ==
    IF h.ref[c] = 1 THEN Free(h, c) ELSE [h EXCEPT !.ref[c] = @ - 1]

HoldIf(h, c) == IF c = NoCell THEN h ELSE Hold(h, c)
ReleaseIf(h, c) == IF c = NoCell THEN h ELSE Release(h, c)

\* OpaqueProduction::assign on a handle that points to "old".
Assign(h, old, new) ==
    IF old = new THEN h ELSE HoldIf(ReleaseIf(h, old), new)

-----------------------------------------------------------------------------
(* Walks over the lists.                                                    *)

LeastVar(S) == CHOOSE v \in S : \A w \in S : v <= w
GreatestVar(S) == CHOOSE v \in S : \A w \in S : v >= w

\* find_variable(id, -1) and find_variable(id, 1)
VarBefore(id) == LET S == {v \in variable_map : v < id}
                 IN  IF S = {} THEN 0 ELSE GreatestVar(S)
VarAfter(id) == LET S == {v \in variable_map : v > id}
                IN  IF S = {} THEN 0 ELSE LeastVar(S)

\* The first production from c on, in its list, that is not deleted.
SkipDeleted(h, c) ==
    LET walk[x \in CellOrNull] ==
            IF x = NoCell \/ ~h.del[x] THEN x ELSE walk[h.next[x]]
    IN  walk[c]

\* The loops of set_next_production(id): the first live production of the
\* first variable, from id on, that has one.
FirstFrom(h, id) ==
    LET S == {v \in variable_map :
                 v >= id /\ SkipDeleted(h, h.first[v]) # NoCell}
    IN  IF S = {} THEN NoCell ELSE SkipDeleted(h, h.first[LeastVar(S)])

LiveFrom(h, id) == {c \in Live(h) : h.var[c] >= id}

\* set_next_production(id), over the heap h
SetNextProduction(h, id) ==
    \E c \in LiveFrom(h, id) \cup {NoCell} :
        /\ c = FirstFrom(h, id)
        /\ first_production' = c

\* A mutant of Onward: when the list of v ends, the variable after v is skipped.
OnwardSkips(h, v, p) ==
    LET walk[w \in VarIds \cup {0}] ==
            IF w = 0 THEN NoCell
            ELSE LET q == SkipDeleted(h, h.first[w])
                 IN  IF q # NoCell THEN q ELSE walk[var_next[w]]
        here == SkipDeleted(h, p)
    IN  IF here # NoCell \/ v = 0 \/ var_next[v] = 0 THEN here
        ELSE walk[var_next[var_next[v]]]

\* The loop of find_next_production, at production p of variable v.
Onward(h, v, p) ==
    LET walk[w \in VarIds \cup {0}] ==
            IF w = 0 THEN NoCell
            ELSE LET q == SkipDeleted(h, h.first[w])
                 IN  IF q # NoCell THEN q ELSE walk[var_next[w]]
        here == SkipDeleted(h, p)
    IN  CASE v = 0                    -> NoCell
          [] v # 0 /\ here # NoCell   -> here
          [] v # 0 /\ here = NoCell   -> walk[var_next[v]]

\* find_next_production(cfg, c).  A production without a variable was
\* orphaned by unsafe_remove_variable: start over at the first variable,
\* from the removed one on, that exists now.
FindNext(h, c) ==
    IF h.var[c] # 0 THEN Onward(h, h.var[c], h.next[c])
    ELSE LET S == {v \in variable_map : v >= h.prev[c]}
         IN  IF S = {} THEN NoCell
             ELSE Onward(h, LeastVar(S), h.first[LeastVar(S)])

\* find_current_production(cfg, c)
FindCurrent(h, c) ==
    IF c = NoCell \/ c \in Live(h) THEN c ELSE FindNext(h, c)

\* static_match of generator g's pattern on production c
Matches(h, g, c) ==
    /\ Bound[g] \in {0, h.var[c]}
    /\ h.rhs[c] \in Shape[g]

\* A mutant of Seek: it looks at one production only.
SeekOnce(h, g, c) == IF c # NoCell /\ Matches(h, g, c) THEN c ELSE NoCell
\* The loop of bind_next_pattern: the first match from c on.
Seek(h, g, c) ==
    LET walk[x \in CellOrNull] ==
            IF x = NoCell \/ Matches(h, g, x) THEN x ELSE walk[FindNext(h, x)]
    IN  walk[c]

\* The loop of add_production: the production before which right hand side s
\* goes, the one that has it already, or null when the loop runs off the end.
Spot(h, v, s) ==
    LET walk[x \in CellOrNull] ==
            IF x = NoCell \/ Key[s] < Key[h.rhs[x]] \/ h.rhs[x] = s
            THEN x ELSE walk[h.next[x]]
    IN  walk[h.first[v]]

-----------------------------------------------------------------------------
Init ==
    /\ heap = EmptyHeap
    /\ variable_map = {}
    /\ next_variable_id = 1
    /\ unused_variables = 0
    /\ var_next = [v \in VarIds |-> 0]
    /\ var_prev = [v \in VarIds |-> 0]
    /\ var_count = [v \in VarIds |-> 0]
    /\ num_productions_ = 0
    /\ num_variables_ = 0
    /\ first_production = NoCell
    /\ start_variable = 0
    /\ ptr = [x \in Holders |-> NoCell]
    /\ used = [g \in Gens |-> FALSE]
    /\ alive = TRUE

-----------------------------------------------------------------------------
(* Variables.                                                               *)

\* A mutant of LinkVariable: the variable after id does not point back to it.
LinkVariableOneWay(id) ==
    LET p == VarBefore(id)
        n == VarAfter(id)
    IN  /\ var_next' = [v \in VarIds |-> CASE v = id          -> n
                                           [] v # id /\ v = p -> id
                                           [] OTHER           -> var_next[v]]
        /\ var_prev' = [var_prev EXCEPT ![id] = p]

\* The links that add_variable gives variable id.
LinkVariable(id) ==
    LET p == VarBefore(id)
        n == VarAfter(id)
    IN  /\ var_next' = [v \in VarIds |-> CASE v = id          -> n
                                           [] v # id /\ v = p -> id
                                           [] OTHER           -> var_next[v]]
        /\ var_prev' = [v \in VarIds |-> CASE v = id          -> p
                                           [] v # id /\ v = n -> id
                                           [] OTHER           -> var_prev[v]]

\* add_variable(): reuse the variable removed last, else allocate one.
AddVariable ==
    /\ alive
    /\ \E id \in VarIds :
         /\ \/ /\ unused_variables = 0
               /\ id = next_variable_id
               /\ next_variable_id' = id + 1
               /\ UNCHANGED unused_variables
            \/ /\ unused_variables # 0
               /\ id = unused_variables
               /\ unused_variables' = var_next[id]
               /\ UNCHANGED next_variable_id
         /\ LinkVariable(id)
         /\ variable_map' = variable_map \cup {id}
         /\ var_count' = [var_count EXCEPT ![id] = 0]
         /\ start_variable' = IF start_variable = 0 THEN id ELSE start_variable
    /\ num_variables_' = num_variables_ + 1
    /\ UNCHANGED <<heap, num_productions_, first_production, ptr, used, alive>>

\* set_start_variable(v)
SetStartVariable(v) ==
    /\ alive
    /\ v \in variable_map
    /\ start_variable' = v
    /\ UNCHANGED <<heap, variable_map, next_variable_id, unused_variables,
                   var_next, var_prev, num_variables_, countvars,
                   first_production, ptr, used, alive>>

\* Mutants of Orphan: the list gives up its reference to removed productions a
\* second time; the productions keep their variable.
OrphanTwice(h, V, tag, mark) ==
    LET C    == {c \in h.alloc : h.var[c] \in V}
        gone == {c \in C : h.ref[c] = 1 /\ ~h.del[c]}
    IN  [h EXCEPT !.alloc = @ \ gone,
                  !.ref   = [c \in Cells |-> IF c \in C THEN @[c] - 1 ELSE @[c]],
                  !.del   = [c \in Cells |-> IF c \in C THEN mark /\ c \notin gone
                                             ELSE @[c]],
                  !.var   = [c \in Cells |-> IF c \in C THEN 0 ELSE @[c]],
                  !.prev  = [c \in Cells |-> IF c \in C \ gone THEN tag ELSE @[c]],
                  !.next  = [c \in Cells |-> IF c \in C THEN NoCell ELSE @[c]],
                  !.first = [v \in VarIds |-> IF v \in V THEN NoCell ELSE @[v]]]

\* The productions of the variables V after their variables went: each live
\* one loses its list's reference, and the ones somebody still holds stay as
\* orphans whose prev field is "tag", marked as deleted or not.
Orphan(h, V, tag, mark) ==
    LET C    == {c \in h.alloc : h.var[c] \in V}
        gone == {c \in C : ~h.del[c] /\ h.ref[c] = 1}
        kept == C \ gone
    IN  [alloc |-> h.alloc \ gone,
         ref   |-> [c \in Cells |-> IF c \in C /\ ~h.del[c] THEN h.ref[c] - 1
                                    ELSE h.ref[c]],
         del   |-> [c \in Cells |-> CASE c \in gone -> FALSE
                                      [] c \in kept -> h.del[c] \/ mark
                                      [] OTHER      -> h.del[c]],
         var   |-> [c \in Cells |-> IF c \in C THEN 0 ELSE h.var[c]],
         rhs   |-> [c \in Cells |-> IF c \in gone THEN Epsilon ELSE h.rhs[c]],
         prev  |-> [c \in Cells |-> CASE c \in gone -> NoCell
                                      [] c \in kept -> tag
                                      [] OTHER      -> h.prev[c]],
         next  |-> [c \in Cells |-> IF c \in C THEN NoCell ELSE h.next[c]],
         first |-> [v \in VarIds |-> IF v \in V THEN NoCell ELSE h.first[v]]]

\* unsafe_remove_variable(v)
UnsafeRemoveVariable(v) ==
    /\ alive
    /\ v \in variable_map
    /\ heap' = Orphan(heap, {v}, v, TRUE)
    /\ IF first_production # NoCell /\ heap.var[first_production] = v
       THEN SetNextProduction(heap, v + 1) ELSE UNCHANGED first_production
    /\ var_next' = [w \in VarIds |->
                      CASE w = v                    -> unused_variables
                        [] w # v /\ w = var_prev[v] -> var_next[v]
                        [] OTHER                    -> var_next[w]]
    /\ var_prev' = [w \in VarIds |->
                      CASE w = v                    -> 0
                        [] w # v /\ w = var_next[v] -> var_prev[v]
                        [] OTHER                    -> var_prev[w]]
    /\ unused_variables' = v
    /\ variable_map' = variable_map \ {v}
    /\ num_variables_' = num_variables_ - 1
    /\ num_productions_' = num_productions_ - Cardinality(OfVar(heap, v) \cap Live(heap))
    /\ var_count' = [var_count EXCEPT ![v] = 0]
    /\ UNCHANGED <<next_variable_id, start_variable, ptr, used, alive>>

-----------------------------------------------------------------------------
(* Productions.                                                             *)

\* A new production c, linked between p and n in the list of v.
Insert(h, c, v, s, p, n) ==
    [alloc |-> h.alloc \cup {c},
     ref   |-> [h.ref EXCEPT ![c] = 1],
     del   |-> h.del,
     var   |-> [h.var EXCEPT ![c] = v],
     rhs   |-> [h.rhs EXCEPT ![c] = s],
     prev  |-> [x \in Cells |-> CASE x = c          -> p
                                  [] x # c /\ x = n -> c
                                  [] OTHER          -> h.prev[x]],
     next  |-> [x \in Cells |-> CASE x = c          -> n
                                  [] x # c /\ x = p -> c
                                  [] OTHER          -> h.next[x]],
     first |-> [w \in VarIds |-> IF w = v /\ p = NoCell THEN c ELSE h.first[w]]]

\* The last lines of add_production, for the production c it returns: update
\* first_production and hand c to handle d, or to nobody.
Added(h, c, v, d) ==
    /\ first_production' =
         IF \/ first_production = NoCell
            \/ h.var[first_production] > v
            \/ /\ h.var[first_production] = v
               /\ Key[h.rhs[c]] < Key[h.rhs[first_production]]
         THEN c ELSE first_production
    /\ IF d = NoHandle
       THEN heap' = h /\ UNCHANGED ptr
       ELSE /\ heap' = Release(Assign(Hold(h, c), ptr[d], c), c)
            /\ ptr' = [ptr EXCEPT ![d] = c]

Counted(v, n) ==
    /\ num_productions_' = num_productions_ + n
    /\ var_count' = [var_count EXCEPT ![v] = @ + n]

\* add_production when no production of v has this right hand side.
AddNew(v, s, d) ==
    \E c \in Cells \ heap.alloc :
        /\ \/ /\ heap.first[v] = NoCell
              /\ Added(Insert(heap, c, v, s, NoCell, NoCell), c, v, d)
           \/ /\ Spot(heap, v, s) \in OfVar(heap, v)
              /\ heap.rhs[Spot(heap, v, s)] # s
              /\ LET n == Spot(heap, v, s)
                 IN  Added(Insert(heap, c, v, s, heap.prev[n], n), c, v, d)
           \/ /\ Spot(heap, v, s) = NoCell
              /\ \E p \in OfVar(heap, v) :
                   /\ heap.next[p] = NoCell
                   /\ Added(Insert(heap, c, v, s, p, NoCell), c, v, d)
        /\ Counted(v, 1)

AddDuplicateUnheld(v, s, d) ==
    \E c \in OfVar(heap, v) :
        /\ c = Spot(heap, v, s)
        /\ heap.rhs[c] = s
        /\ Added([heap EXCEPT !.del[c] = FALSE], c, v, d)
        /\ Counted(v, IF heap.del[c] THEN 1 ELSE 0)

\* add_production when there is one: a removed one that somebody still holds
\* comes back, a live one is returned as it is.
AddDuplicate(v, s, d) ==
    \E c \in OfVar(heap, v) :
        /\ c = Spot(heap, v, s)
        /\ heap.rhs[c] = s
        /\ \/ /\ heap.del[c]
              /\ Added(Hold([heap EXCEPT !.del[c] = FALSE], c), c, v, d)
              /\ Counted(v, 1)
           \/ /\ ~heap.del[c]
              /\ Added(heap, c, v, d)
              /\ Counted(v, 0)

AddProduction(v, s, d) ==
    /\ alive
    /\ v \in variable_map
    /\ AddNew(v, s, d) \/ AddDuplicate(v, s, d)
    /\ UNCHANGED <<varvars, used, alive>>

\* A mutant of RemoveProduction: it looks for the next first production from
\* the variable after the one of P.
RemoveProductionPast(d) ==
    LET c == ptr[d]
        h == [heap EXCEPT !.del[c] = TRUE]
    IN  /\ alive
        /\ c \in Live(heap)
        /\ heap' = Release(h, c)
        /\ IF first_production = c
           THEN SetNextProduction(h, heap.var[c] + 1) ELSE UNCHANGED first_production
        /\ Counted(heap.var[c], -1)
        /\ UNCHANGED <<varvars, ptr, used, alive>>

\* remove_production(P), P being handle d
RemoveProduction(d) ==
    LET c == ptr[d]
        h == [heap EXCEPT !.del[c] = TRUE]
    IN  /\ alive
        /\ c \in Live(heap)
        /\ heap' = Release(h, c)
        /\ IF first_production = c
           THEN SetNextProduction(h, heap.var[c]) ELSE UNCHANGED first_production
        /\ Counted(heap.var[c], -1)
        /\ UNCHANGED <<varvars, ptr, used, alive>>

\* d = e, for two handles
CopyHandle(d, e) ==
    /\ ptr[d] # ptr[e]
    /\ heap' = Assign(heap, ptr[d], ptr[e])
    /\ ptr' = [ptr EXCEPT ![d] = ptr[e]]
    /\ UNCHANGED <<varvars, countvars, first_production, used, alive>>

\* The destructor of a handle, or its assignment from an empty one.
ClearHandle(d) ==
    /\ ptr[d] # NoCell
    /\ heap' = Release(heap, ptr[d])
    /\ ptr' = [ptr EXCEPT ![d] = NoCell]
    /\ UNCHANGED <<varvars, countvars, first_production, used, alive>>

-----------------------------------------------------------------------------
(* Generators.                                                              *)

\* Where reset_next_production and reset_next_pattern put the cursor.
StartOf(h, g) ==
    CASE Bound[g] = 0                                        -> first_production
      [] Bound[g] # 0 /\ Bound[g] \in variable_map           -> h.first[Bound[g]]
      [] Bound[g] # 0 /\ Bound[g] \notin variable_map        -> NoCell

\* The reset function of g: release the cursor, which may unlink the
\* production it was on, and only then read where to start.
ResetCursor(g) == StartOf(ReleaseIf(heap, ptr[g]), g)
ResetHeap(g) == HoldIf(ReleaseIf(heap, ptr[g]), ResetCursor(g))

\* rewind()
Rewind(g) ==
    /\ alive
    /\ heap' = ResetHeap(g)
    /\ ptr' = [ptr EXCEPT ![g] = ResetCursor(g)]
    /\ UNCHANGED <<varvars, countvars, first_production, used, alive>>

\* The cursor of g and the heap when match_next() calls the binder function:
\* the first call of all resets the generator.
CursorOf(g) == IF used[g] THEN ptr[g] ELSE ResetCursor(g)
HeapAt(g) == IF used[g] THEN heap ELSE ResetHeap(g)

\* match_next() finds nothing from the cursor on: the binder is cleared.
MatchEnd(g) ==
    LET orig == CursorOf(g)
        b    == Binder[g]
        h    == ReleaseIf(HeapAt(g), orig)
    IN  /\ FindCurrent(HeapAt(g), orig) = NoCell
        /\ IF b = NoHandle
           THEN /\ heap' = h
                /\ ptr' = [ptr EXCEPT ![g] = NoCell]
           ELSE /\ heap' = ReleaseIf(h, ptr[b])
                /\ ptr' = [ptr EXCEPT ![g] = NoCell, ![b] = NoCell]

\* There are productions left but none matches: the binder stays as it is.
MatchNone(g) ==
    LET orig == CursorOf(g)
    IN  \E curr \in Live(HeapAt(g)) :
          /\ curr = FindCurrent(HeapAt(g), orig)
          /\ LET h == Release(Hold(HeapAt(g), curr), orig)
             IN  /\ Seek(h, g, curr) = NoCell
                 /\ heap' = Release(h, curr)
          /\ ptr' = [ptr EXCEPT ![g] = NoCell]

\* match_next() binds production m and moves the cursor past it.  A local
\* handle holds the production under consideration throughout.
MatchFound(g, m) ==
    LET orig == CursorOf(g)
        b    == Binder[g]
    IN  \E curr \in Live(HeapAt(g)) :
          /\ curr = FindCurrent(HeapAt(g), orig)
          /\ LET h1 == Release(Hold(HeapAt(g), curr), orig)
                 h2 == Assign(h1, curr, m)
                 h3 == IF b = NoHandle THEN h2 ELSE Assign(h2, ptr[b], m)
                 p  == IF b = NoHandle THEN ptr ELSE [ptr EXCEPT ![b] = m]
             IN  /\ m \in Live(h1)
                 /\ m = Seek(h1, g, curr)
                 /\ \E n \in Live(h3) \cup {NoCell} :
                      /\ n = FindNext(h3, m)
                      /\ heap' = Release(HoldIf(h3, n), m)
                      /\ ptr' = [p EXCEPT ![g] = n]

\* What every call of match_next() has in common.
Asked(g) ==
    /\ alive
    /\ used' = [used EXCEPT ![g] = TRUE]
    /\ UNCHANGED <<varvars, countvars, first_production, alive>>

MatchNext(g) ==
    /\ Asked(g)
    /\ \/ MatchEnd(g)
       \/ MatchNone(g)
       \/ \E m \in Cells : MatchFound(g, m)

\* ~Generator(), and a new generator in its place.
FreeGenerator(g) ==
    /\ used[g] \/ ptr[g] # NoCell
    /\ heap' = ReleaseIf(heap, ptr[g])
    /\ ptr' = [ptr EXCEPT ![g] = NoCell]
    /\ used' = [used EXCEPT ![g] = FALSE]
    /\ UNCHANGED <<varvars, countvars, first_production, alive>>

-----------------------------------------------------------------------------
\* ~CFG(): every variable is destroyed.  Handles and generators may outlive
\* the grammar; the productions they hold become orphans with no variable to
\* look for.
Destroy ==
    /\ alive
    /\ alive' = FALSE
    /\ heap' = Orphan(heap, VarIds, NoCell, FALSE)
    /\ variable_map' = {}
    /\ unused_variables' = 0
    /\ num_productions_' = 0
    /\ var_count' = [v \in VarIds |-> 0]
    /\ first_production' = NoCell
    /\ UNCHANGED <<next_variable_id, var_next, var_prev, num_variables_,
                   start_variable, ptr, used>>

Next ==
    \/ AddVariable
    \/ \E v \in VarIds : SetStartVariable(v)
    \/ \E v \in VarIds : UnsafeRemoveVariable(v)
    \/ \E v \in VarIds, s \in Strings, d \in Handles \cup {NoHandle} :
          AddProduction(v, s, d)
    \/ \E d \in Handles : RemoveProduction(d)
    \/ \E d, e \in Handles : CopyHandle(d, e)
    \/ \E d \in Handles : ClearHandle(d)
    \/ \E g \in Gens : Rewind(g)
    \/ \E g \in Gens : MatchNext(g)
    \/ \E g \in Gens : FreeGenerator(g)
    \/ Destroy

Spec == Init /\ [][Next]_vars

-----------------------------------------------------------------------------
(* Properties.                                                              *)

\* Every variable has its type: the pointers of the store are null or point
\* into the pool, the ids are ids (Variable.hpp, Production.hpp, CFG.hpp).
TypeOK ==
    /\ heap \in Heap
    /\ variable_map \in SUBSET VarIds
    /\ next_variable_id \in 1..MaxVars + 1
    /\ unused_variables \in VarIds \cup {0}
    /\ var_next \in [VarIds -> VarIds \cup {0}]
    /\ var_prev \in [VarIds -> VarIds \cup {0}]
    /\ var_count \in [VarIds -> Int]
    /\ num_productions_ \in Int
    /\ num_variables_ \in Int
    /\ first_production \in CellOrNull
    /\ start_variable \in VarIds \cup {0}
    /\ ptr \in [Holders -> CellOrNull]
    /\ used \in [Gens -> BOOLEAN]
    /\ alive \in BOOLEAN

HoldersOf(c) == {x \in Holders : ptr[x] = c}

\* A reference count is what it should be: one for the list the production is
\* live in and one for every handle and generator on it.  A production is
\* therefore given back to the pool exactly when its last holder lets go,
\* nobody is left pointing to a free slot, and the assertions of release()
\* ("Cannot release invalid production.") hold.
RefExact ==
    /\ \A c \in heap.alloc :
         /\ heap.ref[c] > 0
         /\ heap.ref[c] = Cardinality(HoldersOf(c))
                          + (IF c \in Live(heap) THEN 1 ELSE 0)
    /\ \A x \in Holders : ptr[x] \in heap.alloc \cup {NoCell}

\* The lists are doubly linked and closed: the neighbours of a production
\* that has a variable are productions of that variable that point back, the
\* head of a variable's list is its first production, and a production
\* without a variable is linked to none, as find_next_production asserts.
LinksOK(h) ==
    /\ \A c \in h.alloc :
         /\ h.next[c] # NoCell =>
              /\ h.var[c] # 0
              /\ h.next[c] \in OfVar(h, h.var[c])
              /\ h.prev[h.next[c]] = c
         /\ h.var[c] # 0 =>
              \/ h.prev[c] = NoCell /\ h.first[h.var[c]] = c
              \/ /\ h.prev[c] \in OfVar(h, h.var[c])
                 /\ h.next[h.prev[c]] = c
         /\ h.var[c] = 0 => h.prev[c] \in VarIds \cup {NoCell}
    /\ \A v \in VarIds :
         h.first[v] # NoCell => /\ h.first[v] \in OfVar(h, v)
                                /\ h.prev[h.first[v]] = NoCell

Linked == LinksOK(heap)

\* The cells that the list of v goes through.
ChainOf(v) ==
    LET after[x \in CellOrNull] ==
            IF x = NoCell THEN {} ELSE {x} \cup after[heap.next[x]]
    IN  after[heap.first[v]]

\* The list of a variable goes through all its productions, the removed ones
\* that are still held included, in the order of their hash, and no two of
\* them have the same right hand side: what the insertion sort of
\* add_production relies on to find duplicates.
ListsSorted ==
    /\ \A v \in variable_map : ChainOf(v) = OfVar(heap, v)
    /\ \A c \in heap.alloc : heap.var[c] # 0 => heap.var[c] \in variable_map
    /\ \A c \in heap.alloc : heap.next[c] # NoCell =>
         Key[heap.rhs[c]] <= Key[heap.rhs[heap.next[c]]]
    /\ \A v \in variable_map : \A c, e \in OfVar(heap, v) :
         heap.rhs[c] = heap.rhs[e] => c = e

\* The counters of the grammar and of its variables count what is there, after
\* duplicates, removals and revivals.
CountsAgree ==
    alive => /\ num_productions_ = Cardinality(Live(heap))
             /\ num_variables_ = Cardinality(variable_map)
             /\ \A v \in variable_map :
                  var_count[v] = Cardinality(OfVar(heap, v) \cap Live(heap))

\* The variables are doubly linked in the order of their ids, and those that
\* were removed are all in the chain add_variable reuses them from.
VariablesOK ==
    LET chain[v \in VarIds \cup {0}] ==
            IF v = 0 THEN {} ELSE {v} \cup chain[var_next[v]]
    IN  alive =>
          /\ \A v \in variable_map : /\ var_next[v] = VarAfter(v)
                                     /\ var_prev[v] = VarBefore(v)
          /\ chain[unused_variables]
               = {v \in VarIds : v < next_variable_id} \ variable_map

\* OrderKept: with hashes that collide, and variables that are removed and used
\* again in any order, the productions and the variables are still found where
\* the insertions look for them, and counted.
OrderKept == ListsSorted /\ CountsAgree /\ VariablesOK

\* From every production anybody may still hold, removed or orphaned, the
\* walk of a generator goes on to a production of the grammar or to the end,
\* and so does the search for the next first_production from every variable;
\* the walk of add_production stays in the list of its variable.  No walk
\* follows a pointer out of the store.
WalksStay ==
    alive =>
      /\ \A c \in heap.alloc : FindNext(heap, c) \in Live(heap) \cup {NoCell}
      /\ \A v \in VarIds : FirstFrom(heap, v) \in LiveFrom(heap, v) \cup {NoCell}
      /\ \A v \in variable_map, s \in Strings :
           Spot(heap, v, s) \in OfVar(heap, v) \cup {NoCell}

\* first_production is "the first production of the smallest variable"
\* (CFG.hpp): no live production comes before it, whatever was removed while
\* a handle kept it, and brought back.
FirstIsFirst ==
    /\ first_production = NoCell <=> Live(heap) = {}
    /\ first_production # NoCell =>
         /\ first_production \in Live(heap)
         /\ \A v \in variable_map :
              OfVar(heap, v) \cap Live(heap) # {} =>
                 heap.var[first_production] <= v
         /\ first_production
              = SkipDeleted(heap, heap.first[heap.var[first_production]])

\* What a holder sees does not change under it: as long as it points to a
\* production, no step gives that slot another right hand side, and the
\* production stays with its variable until the variable goes, for ever.
HeldStable ==
    [][\A x \in Holders : ptr[x] # NoCell /\ ptr'[x] = ptr[x] =>
         /\ heap'.rhs[ptr[x]] = heap.rhs[ptr[x]]
         /\ heap'.var[ptr[x]] \in {heap.var[ptr[x]], 0}]_vars
=============================================================================
