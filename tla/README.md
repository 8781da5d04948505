# Grail+ in TLA+

Grail+ is a library (`fltl`, the formal language template library) and a set of
command-line tools (`grail`) for context-free grammars (CFG), push-down automata
(PDA), finite automata (NFA) and operator-precedence grammars (TDOP).  The
library keeps each grammar or automaton in a *store*: intrusive, sorted,
reference-counted linked lists in pools of memory.  Clients (the algorithms, the
file readers) add and remove items **while generators enumerate the very same
lists**.  The program has one thread, no network and nothing persistent; what
makes it hard is that aliasing: an item that is removed while a handle or a
generator is on it, brought back, or orphaned when its variable goes away.

This directory specifies that in TLA+, model-checks it with TLC on small
instances and proves the central facts for every instance with TLAPS.

Paths below are relative to `src/`.

## 1. Inventory

| Component | Where | State | Operations | Correct when |
|---|---|---|---|---|
| CFG store | `fltl/include/CFG.hpp`, `cfg/Production.hpp`, `cfg/Variable.hpp`, `cfg/OpaqueProduction.hpp`, `cfg/Generator.hpp` | the variables (linked by id, a chain of removed ones), their productions (a list per variable sorted by hash), reference counts, `first_production`, `start_variable`, counters, handles, generator cursors | `add_variable`, `unsafe_remove_variable`, `remove_variable`, `add_production`, `remove_production`, `set_start_variable`, `search` and `match_next`/`rewind`, copies and destructors | counts are exact, lists linked, sorted, without duplicates; counters agree; an enumeration misses and repeats nothing |
| CFG names | `CFG.hpp` (the maps), `cfg/TerminalSymbol.hpp`, `cfg/VariableSymbol.hpp` | `terminal_map` and its inverse, `named_variable_map`, `variable_terminal_map`, `auto_symbol_upper_bound` | `get_terminal`, `get_variable`, `get_variable_symbol`, `get_name` | maps are inverse to each other; automatic names are fresh |
| Symbol strings | `cfg/SymbolString.hpp`, `cfg/ProductionBuilder.hpp` | shared arrays of symbols with a hash and a count | `assign`, `append_to`, substrings, comparison | equality is that of the symbols; the hash respects it |
| Patterns, other generators | `cfg/Pattern.hpp`, `cfg/Generator.hpp` | a template of symbols, unbound symbols and strings | `static_match`, `bind_next_variable`, `bind_next_terminal` | a match is a match of the template; bindings are of that match |
| PDA and NFA stores | `PDA.hpp`, `NFA.hpp`, `pda/*.hpp` | per state a sorted list of reference-counted transitions; symbols; start and final states | `add_transition`, `remove_transition`, `add_start_state`, `search` | as for the CFG store |
| Null, first and follow | `grail/include/cfg/compute_*.hpp` | bit sets per variable | three fixed points | they are the sets of the textbook |
| Transformations | `grail/include/algorithm/CFG_*.hpp` | the grammar they edit | remove epsilon, units, useless symbols, left recursion, loops; to 2-CFG, CNF, GNF | the language stays and the form is reached |
| Earley parser | `algorithm/CFG_PARSE_EARLEY.hpp`, `cfg/ParseTree.hpp` | charts of items | predict, scan, complete | it accepts exactly the derivable strings |
| Automata algorithms | `algorithm/NFA_REMOVE_EPSILON.hpp`, `PDA_INTERSECT_NFA.hpp`, `PDA_TO_CFG.hpp`, `CFG_TO_PDA.hpp` | two stores | construction by work lists and nested generators | the language is the one expected |
| LL(1) tables | `cli/CFG_TO_LL1.hpp` | a table of sets of productions | first/follow to table, conflict report | a conflict is reported exactly when there is one |
| TDOP grammars | `TDOP.hpp`, `tdop/*.hpp` | categories, rules, operator strings | as the CFG store | as the CFG store |
| Readers | `grail/include/io/fread_*.hpp`, `io/detail/*.hpp` | the parser's state, the store it fills | one transition per token | what is read is what was written |
| UTF-8 buffers | `io/UTF8FileBuffer.hpp`, `io/UTF8FileTokBuffer.hpp` | a sliding window, one code point of look-back, positions | `read`, `unread`, `reset` | every code point once, positions right |
| Command-line options | `io/CommandLineOptions.hpp`, `lib/io/CommandLineOptions.cpp` | options, positionals and whether a text is an option's value is decided yet | `parse`, `declare`, `declare_min/max_num_positional`, `get_positional` | a text is a value or a positional as the declarations say |
| NFA dominators, stack language | `cli/NFA_DOMINATORS.hpp`, `cli/CFG_STACK_LANG.hpp` | bit sets per state; contexts | data flow by a work list; an automaton over the variables | the tree is the dominator tree; the words are the stacks of a top-down parser |
| Memory helpers | `helper/BlockAllocator.hpp`, `StorageChain.hpp`, `Array.hpp`, `Table.hpp` | free lists, sizes | `allocate`, `deallocate`, `get`, `set` | no slot is used twice at a time |
| Writers | `io/fprint_*.hpp` | none | print a grammar or an automaton | what is written is read back |
| Diagnostics, the other tools, template helpers | `lib/io/error.cpp`, `grail/main.cpp`, `cli/*.hpp`, `mpl`, `preprocessor`, `trait` | none of their own | print; run one algorithm | see section 7 |

**How they interact.** Everything is a synchronous call.  A generator keeps a raw
pointer into the lists of its store; a handle (`OpaqueProduction`) shares
ownership through the reference count; `match_next` writes into handles it was
given by address (binders).  Algorithms hold several generators over one grammar
and edit it in their loops.  Readers and tools only call the store.

**What is hard.** The interleaving of edits with enumerations (a removed
production under a cursor, a removed and re-used variable); the life time of
objects shared by lists, handles and generators; cached facts
(`first_production`, `start_variable`, the counters); hashes that collide (the
hash of a string is the product of the hashes of its symbols,
`cfg/SymbolString.hpp:308`, so `AB` and `BA` always do).  Around that core: searches
that stop early because a chain is not in the order they go by; loops that edit
what they walk over, and have to end all the same; late decisions (whether a text
is the value of an option, whether a name is a variable or a terminal), taken
again in a second pass; a window that slides under a reader that gives a code
point back.  `PROJECT.json` lists these hazards at their lines.

## 2. Modules

| Module | Role |
|---|---|
| `CFGStore` | the CFG store at the level of its pointers and counts |
| `Grammar` | abstract specification: a set of rules that may be edited while it is iterated over |
| `CFGStoreIter` | `CFGStore` with history variables, and the refinement to `Grammar` |
| `CFGStoreProofs` | the inductive invariant of `CFGStore` and its proof; what each operation leaves alone: the action property `HeldStable`, and lists that stay tidy |
| `CFGOrderProofs` | the order of the lists, the counters, where the searches lead, `first_production` |
| `CFGIterProofs` | that the store implements `Grammar` |
| `WellOrder` | no code: least elements, linked lists, walks along them and recursive functions, as the proofs use them |
| `ContextFree` | what null and first sets and follow sets are: least sets closed under the rules |
| `FixedPoints`, `LL1` | the three functions that compute them, one after the other; the table made of them |
| `PDAStore` | the PDA store (and the NFA store, which forwards to it) at the level of chains and counts |
| `Languages` | reference: the words of bounded length that a grammar derives or an automaton accepts |
| `Transformations` | the eight transformations of grammars |
| `Automaton`, `AutomataTools` | an automaton as algorithms use one, and five algorithms on it |
| `Dominators` | `NFA_DOMINATORS`, on what its searches find in an automaton |
| `AutomataProofs` | the inductive invariants of `PDAStore` and of `Dominators` and their proofs |
| `Earley` | the parser |
| `ParsingProofs` | that the null and first sets computed are the right ones, and the table; that the parser's chart and its verdict are right |
| `CommandLine` | the option parser and the protocol `main` follows with it |
| `TextStream` | abstract specification: the code points of a file and their places, one may be given back |
| `TextBuffer` | the sliding window, checked against `TextStream`, and the tokenizer on top |
| `InputProofs` | that the window implements `TextStream`, that the tokenizer's tokens are those of the text, and that a tool finds the operands of its command line |
| `Scanning` | what the scanners of both readers share |
| `GrammarFile`, `AutomatonFile` | the readers, two passes each, and the writers |
| `Names` | the name tables of a grammar |
| `Strings` | symbol strings that share arrays |
| `ObjectsProofs` | the invariants of `Strings`, `Names` and `TDOPStore` and their proofs |
| `Patterns` | matching of productions with patterns |
| `TDOPStore`, `TDOPPatterns` | categories and rules of TDOP grammars, and patterns over rules (on `Patterns`) |
| `MCStore`, `MCIter`, `MCSets`, `MCPDA`, `MCTransform` | instances for TLC |
| `MCAutomata`, `MCTools`, `MCObjects` | instances of several small modules, one of which is at work in each behaviour |

### CFGStore and the code

| Model | Code |
|---|---|
| `Cells`, `heap.alloc` | `production_allocator`; a slot in `alloc` is in use |
| `heap.ref`, `del`, `var`, `rhs`, `prev`, `next` | the fields of `Production`; `var` is the variable's id, `0` for null; `prev` may be a variable id, as the code stores a `Variable *` there in `unsafe_remove_variable` |
| `heap.first`, `var_next`, `var_prev`, `var_count` | the fields of `Variable`; `var_next` of a removed variable is the link of `unused_variables`, as in the code |
| `variable_map` | the ids whose entry of the array is not null |
| `ptr` | `OpaqueProduction::production` of a handle, `cursor.production` of a generator |
| `used` | `Generator::has_been_used` |
| `Binder`, `Bound`, `Shape` | what a generator was made with by `search`: the handle it binds, the variable of its pattern if it is bound to one, and the right hand sides the pattern matches |
| `Key` | the hash of a right hand side: what `is_less_than` and `is_greater_than` compare.  Every string has a larger key than the empty one, which those two functions treat first |

Each action is one call of a client and the whole of that call.  The helpers
(`Hold`, `Release`, `Assign`, `Insert`, `Orphan`) return a new heap, and an
action composes them in the order of the code; this order matters (`Rewind`
releases the cursor, which may unchain that production, and only then reads
where to start).  `bind_next_production` and `bind_next_pattern` are one action:
the first is the second with a pattern that matches everything.  Three of its
outcomes differ in what they leave in the binder, and are `MatchEnd` (nothing
left: binder cleared), `MatchNone` (productions left, none matches: binder kept)
and `MatchFound`.

The walks over the lists (`SkipDeleted`, `FindNext`, `Seek`, `Spot`,
`FirstFrom`) are recursive *functions*, so that the module can be proved about.
The actions take the result of a walk with a bound, as in
`\E n \in Live(h3) \cup {NoCell} : n = FindNext(h3, m)`.  That bound never
disables a step: `WalksStay` says, and the run `store_all`
checks, that from everything a client may hold the walks end in it.

Calls whose assertions fail are not taken: a client does not remove a
production twice, nor use a generator after its grammar was destroyed (the code
asserts both).  `Destroy` leaves handles and generators alive, as C++ scopes may.

### Grammar and the refinement

`Grammar` says what `search` promises: an iteration *owes* the matching rules
that are there when it starts, forgets those that are removed, may yield those
that are added, yields nothing twice, ends only when it owes nothing, and stays ended until it is
rewound.
`CFGStoreIter` adds `owed`, `seen` and `done` as history variables, which record and
never restrict, and states `ImplementsGrammar` with the mapping: `rules` are the
pairs of variable and right hand side of the live productions, `started` is
`has_been_used`.

### FixedPoints and the code

`cfg-to-ll1` calls `compute_null_set`, `compute_first_terminals` and
`compute_follow_set` in this order on one grammar (`cfg-parse` the first two), so
they are one specification with `pc` for the loop that runs.  A step is one result
of a generator and the body of the loop for it; `todo` and `vars` are what the inner
and the outer generator have still to yield, `updated` is `found_nullable` or
`updated`.  Two abstractions: the bit vectors are sets, and the generators yield in
any order, where the code's order is that of ids and hashes.  The grammar is not
edited meanwhile, so what a search yields is the set of matching rules (which
`CFGStoreIter` establishes for generators of productions).  A right hand side is
scanned in one step: the scan reads only the set it extends, which it cannot
disturb, and sets of other variables.  What remains of the order is kept: a follow
scan inserts a terminal without setting `updated`, and passes over `V` itself.
`ContextFree` is the reference and translates no code.

After them `cfg-to-ll1` fills its table (`LL1`): a step is one cell, and every
production of the cell's variable is asked in turn whether it wants it.  The first
one gets it, the others are conflicts.

### PDAStore and the code

| Model | Code |
|---|---|
| `s.list[q]` | the chain of state `q` from `state_transitions[q]`; an object is named by its content, which `TransitionsKept` justifies: no chain holds the same twice |
| `s.ref`, `s.del`, `s.first`, `s.num` | `ref_count`, `is_deleted`, `first_transition`, `num_transitions_` (of `Width` values) |
| `ptr`, `used` | transitions of handles, cursors of generators |
| `kept`, `owed`, `found` | history: what was added and not removed; what a search still owes; what its last step returned |

`AddTransition`, `AddStartState` (which makes epsilon transitions),
`AddPushing` (`add_transition` with a buffer, which makes intermediate states) and
`RemoveTransition` are the editing calls; `MatchNext` and `Rewind` those of a
generator.  `Skips` is the comparison of the insertion sort, which continues while
*one* component is greater, so that a chain is not in lexicographic order; the
model does that.  A search gives its chain up at a read symbol greater than the bound
one (`Walked`), and one without a source starts at `first_transition` (`StartOf`).  So
what a search promises, and `owed` starts as, is `Wanted`: what it matches, but for what
stands before `first_transition` when it starts without a source, and for what is
`Hidden` behind a greater read symbol in its chain.  `ReAdd` says whether a removed
transition may be added again while a handle or a cursor is on it: the runs leave that
out, since it makes the counts wrong (section 5).  `MaxBusy` says how many generators are used at a time.

### Transformations and the code

A grammar is a set of rules here, with the searches of `Grammar`: `owed` are the
rules that the running search must still yield, `may` those it may yield because
they were added behind its back.  So the order of lists, which depends on hashes, is
every order.  A tool is a list of passes (`Passes`), a pass one search and its loop
body; `again` is the flag that makes a pass rewind.  Loops inside that edit nothing
another search can see are operators (`SubEpsilonAll`, `Tails`, `Without`, which is
`remove_variable` with its stack of emptied variables).  `memo` holds the variables a
pass has made for terminals and tails; whether `to2CFG` finds a tail it has
made again depends on the hash, and `MaxTails` bounds how often.  `unused` is the
chain of variables that `add_variable` takes from, the last one removed first; `start` is
an id, which no removal looks at, and which the next variable may get (`NewStart`,
`Straighten`).

### Automaton, AutomataTools, Dominators and the code

`Automaton` is the chain structure of `PDAStore` without counts: what a search finds
depends on the order of chains, which these algorithms rely on.  A transition that
was removed stays in its chain while the handle the algorithm reads through is on it
(`held`), as in the store.  A step of `AutomataTools` is a turn of the outer loop of
a stage: `EpsFollow` / `EpsNextPass` (`NFA_REMOVE_EPSILON`), `ProductTurn` /
`ProductAccepting` (`PDA_INTERSECT_NFA`, on the result of the former, as the tool
calls it), `BeginStack` / `ExpandOnStack` / `EmptyStack` (`CFG_TO_PDA`),
`BeginGrammar` / `NormalizeTurn` / `Produce` (`PDA_TO_CFG`), and `BeginContexts` /
`AddContexts` / `ContextsMade` / `AddRelated` / `Started` (`CFG_STACK_LANG`).  A product's
transition has what the PDA's has, by name: epsilon, which is not in the map of
names, becomes a symbol of its own (`NamedEpsilon`), and `Printed` is what the tool
writes, where that symbol reads as the empty one again.  The history variable
`missed` says that a search stopped before a transition it should have found; the
properties that need complete searches assume `~ missed`, and the model computes
what happens otherwise all the same.

`NFA_DOMINATORS` edits nothing while it searches, so `Dominators` needs of an automaton only
the chain of each state (what a search with a bound source finds) and what a
search of all transitions finds, which `MCAutomata` takes from `Automaton`.  `DomInit`
is the state when the work list is first read; `DominatorsTurn` is one turn of the loop:
`Meet` the intersection with the sets of the predecessors that are found, `Successors` what
is enqueued when the set has shrunk or the turn is the first (`force`).  `DominatorTree` is
the rest of `run`; `Closest` is the loop of `immediate_dominator`.  What a transition reads
is left out, as in the code.  `visits` counts the turns.

### Earley and the code

`sets[k]` is the array of items of set `k`, `index` its chains by initial set, `pos`
the item being worked on; `Predict`/`PredictNext`, `Complete`/`CompleteNext` and
`Scan` are turns of the three loops.  `Push` inserts where the code's search for a
duplicate stops: it looks in the chain of the item's initial set only, up to a
greater dot.  The parser's use of the first sets (`predict`) and the null sets are
inputs; they are right by `FixedPoints`.  `spans` is not code: it is what the rules
derive between two places of the word, for the properties.

### Command line and the code

An argument vector is a sequence of lexemes, as the scanner of `parse` cuts it.
`ParseLong`, `ParseShort`, `ParseEquals`, `ParseText`, `ParseBad` and `ParseEnd` are
the branches of `parse`; `Declare` is one declaration, with the checks of values, in
the order of `main` and the tool, so that an option that turns out to take no
value gives its text up as a positional (`SplitOpts`); `Dispatch` is
`main`'s choice of the tool; `Index` is `get_positional` with its cache: the scan starts at the
option found last and counts the positionals that it passes, so it finds the one with
so many lesser ones behind that start (`Nth`).

### Buffers, readers, writers and the code

`TextStream` says what readers rely on.  Bytes are of a few kinds (a character, a
delimiter, a line break, one that has no width, the leads of two, three and four bytes,
continuations, bytes that are wrong), which is all that the decoder and the places tell
apart here.  A reset seeks only if something was read, and may fail to (a pipe): then the
file is `lost`, and reads as if at its end until the next reset.  `TextBuffer` has the window
(`WindowSize`), fills it when needed (`Filled`) and slides what is left in it to
the front; `WindowHidden` is the refinement.  `TokBegin`/`TokSkip`/`TokFill` are
the loops of `UTF8FileTokBuffer::read`.

`GrammarFile` and `AutomatonFile` read a sequence of characters through the scanner
of the code (`GrammarToken`, `AutToken`, and `Scanning` for strings, symbols, comments
and braces) and go through the code's state tables (`GrammarState`,
`AutNextState`).  A step is a token of one pass.  The first pass is strict and notes
names, the second takes what the first accepted and adds to the store; that the two
disagree on some files is a matter of section 5.  In between the buffer is reset, and what
the second pass reads is the file if it is `seekable` and nothing otherwise (`Rewound`).  A
name too long is an error in the first pass, but for one of `$` and digits, which is cut.  `Printed` and
`PrintedAutomaton` are the writers.  The store they fill is a set of productions, and
an `Automaton`.

### Names, Strings, Patterns, TDOP

* `Names`: a name is an integer, `n >= 0` for `$n` and a negative one for any
  other; `upper` is the number in `auto_symbol_upper_bound`.  Actions: the six
  functions that look up or make a symbol, and the removal of a variable.
* `Strings`: objects, places for arrays with counts, and the builder's buffer.  Each
  operation is the code's sequence of increments and decrements (`Incref`,
  `Decref`), on places that are used again.  `value` is history: what each string
  would hold if nothing were shared.
* `Patterns`: `Fit` follows the templates part by part, on the objects of the caller
  themselves, which earlier parts of the same match write; `past` records a read
  behind the end of the body.
* `TDOPStore`: two chains per category; rules and categories with their counts,
  handles and one generator.  The loops of the code are functions that recur from one
  rule (`Stop`, `Chain`), or category and rule (`Current`, `FirstAfter`,
  `SearchFrom`), to the next.  `TDOPPatterns`: the same as `Patterns` for rules; a part is
  looked up at its offset in the pattern's type, and not every part is one wide.

## 3. Properties

The store:

* `TypeOK`: types; in particular counts do not go below zero.
* `RefExact`: a count is the number of holders plus one while the production is
  live.  This covers premature release, leaks, double release and pointers to
  freed slots at once.
* `Linked`: the lists stay closed and doubly linked, with the orphans outside.
* `OrderKept`: `ListsSorted` (each list has all productions of its variable, sorted
  by hash and without duplicates, with colliding hashes too), `CountsAgree` (the
  counters) and `VariablesOK` (variables linked in the order of ids; the removed
  ones, and only they, are in the chain that `add_variable` takes from).
* `WalksStay`: no walk leaves the store.
* `FirstIsFirst`: the cached `first_production` is the first one.
* `HeldStable` (action property): a slot never changes under a holder.
* `ImplementsGrammar`: the refinement above.

Sets and table:

* `NullExact`, `FirstExact`: the sets hold nothing wrong at any time, and when the
  loop ends they hold all that belongs there.
* `SetsAllocated`: the assertion in the scan for first sets.
* `TableRight`: a variable none of whose productions begins with a nullable symbol
  has a production in a cell exactly when one can begin with the terminal, and one that can.
* `TableComplete` (liveness): the three loops and the table end.

PDA store: `RefExact`; `TransitionsKept` (what was added and not removed is there,
once, whatever the order of the chain, while nothing is added again that was removed and is
held, section 5); `SearchComplete` (a search by pattern that
ended has returned all that it matches and that was there all the time, except what is
before `first_transition` when the pattern has no source, and what is behind a greater
read symbol; `search(~t)` returns none that was removed).  `AllFound` (`pda_all`) is what
the comments say of `search(~t)`.

Transformations: `LanguageKept`, `NothingDangles`, `FormReached` (epsilon-free,
unit-free, of length two, Chomsky, Greibach, not left-recursive, as the tool is
called) and `Ends` (liveness), for every order in which searches find rules.  Of
`removeUseless` `FormReached` says what it does reach, `Useful`: no rule uses a variable
that has none, and what had rules and is left was reachable.  Its comment says more (section 5).

Automata: `EpsilonRemoved` (the same letters lead from each state to each, no epsilon
transition is left, and the loops that edit what they walk over are bounded),
`Intersects` (of the product as it is printed, section 5), `PDAKeepsLanguage`, `CFGKeepsLanguage`, `TreeRight` (the turns are bounded; the
dominator tree, by what is reached without passing through a state), `StackRight`.

Around the core:

* `ItemsCovered`, `ChartRight`: an item is in a set only if what is before its dot
  covers the tokens in between; none is twice in a set; the verdict is derivability.
* `OperandsRight`: the k-th positional is the k-th text that is not a value by the
  declarations, although it is decided late and looked up through a cache.
* `WindowHidden` (refinement to `TextStream`), `TokensRight`.
* `GrammarKept`, `AutomatonKept`: what a file says, stated on its tokens alone, is what two
  passes come to, if the file can be read twice; what is written is read back.
* `NamesRight`: a terminal and its name or letter lead to each other, the name of a
  variable leads to its id, and the next automatic name is free.  A name that leads to an
  id need not be the name of the variable that has it now (section 5).
* `StringsRight`: sharing cannot be seen, and arrays are freed exactly in time.
* `PatternsRight`, `RulePatternsRight`: a match is a cut of the body (or of the
  rule's operators) as the pattern says, the leftmost-shortest one, and the objects
  hold that cut.
* `RulesRight`, `SearchRight`: exact counts and sorted chains of TDOP rules; searches
  miss and repeat nothing that was there all the time.

Several of these have a precondition that a comment at the property states: it is
the limit beyond which the code does something else, which section 5 describes.

A definition that is a deliberately wrong variant of another (a forgotten
`hold`, a comparison that is not strict) is used by nothing; `PROJECT.json` lists them under
`mutants`.  Replacing the original by the variant must make the named property fail, which
shows that the property can see that mistake.

## 4. Runs

| Run | Instance | Question |
|---|---|---|
| `store_all` | 1 handle, `search(~P)`, 2 variables, 3 productions, no collisions | the safety of the store and its refinement of `Grammar`, under every order of calls |
| `store_some` | 2 handles that share and copy, a search bound to variable 1, 3 variables, 2 productions, collisions | order of lists and variables, and the refinement, where hashes collide and variables are re-used |
| `sets_read` | 1836 grammars: 3 variables, 2 terminals, 3 or 4 productions, every variable has one, as the readers make them | null and first sets exact for every order of the productions, the table, and that all loops end |
| `pda_pass` | 2 states with the one made, 2 handles, `search(~t)` and searches of state 0, of what reads epsilon, of what reads 2, and of what reads 1 from state 0; 4 transitions whose components are not all ordered alike, a start state, a transition that pushes two symbols | counts, contents and searches of the PDA store |
| `transform_all` | all grammars of 2 variables and 2 or 3 rules over 8 right hand sides (for `toGNF` those of two rules that derive a word, and two that recurse on the left) | the eight transformations |
| `automata` | NFAs and PDAs of at most 3 transitions added in every order, graphs of 4 states, grammars of 3 variables | the six algorithms |
| `tools` | see `MCTools` | Earley, command line, buffers, readers and writers |
| `objects` | see `MCObjects` | names, strings, patterns, TDOP |
| `store_first`, `sets_follow`, `pda_all`, `transform_start` | as the runs above, or one input of theirs | the findings |

**Bounds.**  *Store*: three slots, three right hand sides and two variables give
every relative position in a list (front, middle, end; before and after a removed
production), a list that goes on in the next variable, the exhaustion and re-use of
slots, and re-use of a variable's id; three variables give removal in every order (`store_some` has two slots, for its three
variables and two handles).
Adding when no slot is free is not a step (the code's pool grows; the bound caps
it).  Nothing else is capped: counts are bounded by the holders.  Slots are symmetric in
`store_all`.  *Sets*: the right hand sides make chains over three variables (so that one pass
is not enough for some orders), cycles, nullable prefixes, left and inner recursion
and variables that generate nothing.  *PDA*: `MaxCount` caps the counter below
`Width`, beyond which it would wrap; `MaxBusy` is 1.  *Transformations*: `MaxVar`
(40) caps the ids, and is not reached; `MaxTails` caps how often one search finds what it just added
(once for `removeLR`, whose tails are new each time); languages are compared up to `WordLen` = 3
(2 for automata).  *Earley*: words of at most two tokens and some of three, among
them tokens the grammar does not have.  *Command line*: a tool and up to three
lexemes, and four of those that matter for late decisions; `MaxOffset` caps the
index asked for.  *Buffers*: a window of five bytes, of which a code point takes up
to four, so that every alignment of a code point and the window's end occurs;
lines of four bytes.  *Readers*: every file of at most two pieces that the scanner tells
apart, alone and in rules of both kinds; names shorter and longer than `ScratchSize`.
*Names*: `MostNumber` is 9, the last number for which the comparison of names as
text is one of numbers (section 5).  *Strings*: three places, so that a place is
freed and used again while two others are shared; strings of two symbols.
*Patterns*: three parts, bodies of three symbols, one production after another
(`MaxTries` more).  *TDOP*: two categories, three rules, three leaks
(`MaxLeaks`: a rewind of a search for categories leaves a count behind).

`CHECK_DEADLOCK FALSE` where a program may stop: after `Destroy` and the end of all
holders nothing is left to do in the stores; the pools of `objects` can be
full; the table of `sets_read` can be complete.  The others say with an
explicit step that they are done, so that being stuck is an error.

**Fairness.** The stores, the readers and the parser assume none: whether an
enumeration ends is up to the client, which may go on adding productions.
`FixedPoints`, `LL1` and `Transformations` assume `WF(Next)`: one thread runs
the loops, nothing in them waits, so while a step is possible one is taken.  Which
production comes next is left to the adversary.  The loops on automata are
deterministic, and bounded by a count of turns (`TurnsBounded`, `VisitsBounded`) rather than by
fairness; those of the parser end since no item is twice in a chart.

## 5. Findings

With a run each:

1. `first_production` is not always the first production (`store_first`).  The
   hash commutes, so AB and BA are neighbours with equal keys.  Remove AB while a
   handle holds it, and add it again: it comes back at its old place, before BA,
   but `first_production` stays at BA since the hashes are equal
   (`CFG.hpp:852`).  `search(~P)` then never yields AB.  This is why `store_all`
   assumes keys without collisions, and `store_some`, whose generator starts at
   its variable's list, does not.
2. The follow sets are not the follow sets (`sets_follow`): at the end of a
   production of `A` the code takes `first[A]` for `follow[A]`
   (`compute_follow_set.hpp:71`).
3. `search(~t)` of a PDA may miss transitions (`pda_all`): it starts at
   `first_transition`, the least one, which is not always at the head of its chain
   (`pda/Generator.hpp:207`).
4. A transformation may give the start variable's id to another variable
   (`transform_start`, `CFG.hpp:580`).  Removing a variable does not look at
   `start_variable`, and the next one that is made gets its id, so no assertion notices.
   `CFG_REMOVE_LR` on `1 -> 3 2`, `2 -> 2 a | b`, `3 -> 3`, which generates nothing, loses 3
   and with it all that leads to the start variable it has made; then it makes a tail for
   the recursion of 2, with an epsilon production, and this tail has become the start: the
   result generates the empty word, a, a a and so on.

Met while modelling.  The first five contradict what a comment or a tool's help says; no run
is kept for them, and the properties that hold say where they stop.

* A transition that is removed while it is held and then added again is freed with the
  last handle, although it belongs to the automaton: `make_transition` marks it live and
  takes no reference (`PDA.hpp:928`).  A cursor or a handle may be left on a transition
  that is freed.  With `ReAdd` set, TLC finds `TransitionsKept` violated after four steps.
* `CFG_REMOVE_USELESS` does not remove all non-generating variables, as its comment says
  it does (`CFG_REMOVE_USELESS.hpp:36` and `:104`): only those without productions go,
  so `1 -> 2`, `2 -> 2` stays as it is.
* The product of a PDA and an NFA pops and pushes a stack symbol whose name is epsilon where
  the PDA pops and pushes nothing (`PDA_INTERSECT_NFA.hpp:138`; `PDA.hpp:274` gives epsilon
  a name and no entry in the map of names).  Printed and read back it is epsilon, so that
  the tool's output is right (`Intersects`), and the object it is printed from is not.
* The name of a removed variable leads to the next variable with its id (`CFG.hpp:541`), so
  that `get_variable` with one name returns a variable with another.
* A grammar from a pipe is read as one without productions, and accepted: the second pass of
  the reader needs to go back to the start, and when that fails it sees the end of the
  file (`UTF8FileBuffer.hpp:117`, `fread_cfg.hpp:612`, and `fread_pda.hpp:541` for automata).
  The tools say of `--stdin` that they read from there, and do so when it is a file.

The rest is smaller; the models do what the code does.

* CFG store: a copy of a used generator has a cursor without a reference
  (`cfg/Generator.hpp:448`); a variable without productions whose id is less than
  that of the first production is skipped by `search(~V)`, and gets no first set (the
  readers give every variable a production).
* PDA store: `num_transitions_` counts an addition that was there already
  (`PDA.hpp:498`); a search bound to a read symbol gives up at a greater one, although the
  chain may go on with lesser ones; a pattern search may read the object its own
  unbinding freed.
* Transformations: the conversion to Chomsky form means to use a variable again that
  has only that terminal, but its search is for a null terminal and finds none; the removal of left
  recursion keeps self loops if the grammar has epsilon rules (the precondition in
  `FormReached`); a grammar without start variable is not modelled.
* Automata: `NFA_REMOVE_EPSILON` does not make a state accept that reaches an
  accepting one by epsilon transitions (so `EpsilonRemoved` is about letters); on
  epsilon moves of the PDA `PDA_INTERSECT_NFA` takes a stale state
  (`PDA_INTERSECT_NFA.hpp:148`); `PDA_TO_CFG` may take a PDA for an NFA when a
  search misses what distinguishes it (`PDA_TO_CFG.hpp:429`); dominators are wrong when
  predecessors are missed.
* LL(1): an entry is missed behind a nullable prefix; a production that can vanish
  goes by the follow set of its variable alone; rows of the printed table are off by one.
* Earley: with no token and a start variable without productions the answer is yes.
* Command line: `--a= --b` loses the diagnostic for the missing value; a capital and
  a small letter share a slot of the short options; declaring after a lookup leaves
  the cache of positionals stale (`main` does not do that).
* Buffers: the valid bytes before a rejected one go with it; a NUL byte ends the
  file; a token longer than a line loses a code point (the precondition of
  `TokensRight`); after `unread` the place reported is the one of the next code point.
* Grammar files: in a search for a closing pair the character that did not match is
  not looked at again (`**/` does not close); a `#` comment in the last line without a
  line break makes the second pass read for ever (`type = "hang"`); the passes do
  not skip the same things (`GrammarAgreed`, `fread_cfg.hpp:248`); the
  state for errors indexes beyond its row.
* Automaton files: a single start state with a name is also number 0, and one with a
  number also has it as a name (`TwiceNamed`).
* Names: names are compared as text, so from `$10` on the bound is not an upper
  bound (`CFG.hpp:459`); names that are made are not in the table.
* Strings: `copy` from a string that shares the array would drop a count; no caller
  does that, and `CopyString` has it as its guard.
* Patterns: a given string right behind a part that takes any string counts as any
  string (`Built`); a failed match leaves what its parts wrote.
* TDOP: a rule less than the first of its chain is lost (`ChainsRight` says which
  ones); a rewound search for categories leaves a count; in the type of a pattern the part
  `_` has width zero and the parts with a bound of their own have width two, where the matcher
  counts one for each, so that the part behind is looked up in the wrong place
  (`Aligned`), and what resets the strings of a pattern stops at the first such gap
  (`tdop/Pattern.hpp:771`, `helper/Pattern.hpp:143`).

## 6. Proofs

### The store

`CFGStoreProofs` proves, for every number of slots, handles, generators,
variables and strings, every hash function and every set of patterns:

| Theorem | Statement |
|---|---|
| `TypeCorrect` | `Spec => []TypeOK` |
| `CountsExact` | `Spec => []RefExact` |
| `ListsLinked` | `Spec => []Linked` |
| `Invariance` | `Spec => []IInv` |
| `HeldIsStable` | `Spec => HeldStable` |

Assumptions: the named `ASSUME`s of `CFGStore` (the sets of slots, handles and
generators are finite, nulls are not members, the constants have their types and
the empty string has the least key).  TLC evaluates them in each run.

**Argument.** `IInv` says that the heap is good for the holders
(`Held(heap, ptr)`), that `first_production` is null or live, and that the other
variables have their types.  `Good(h, n)` relates a heap to a function `n` that
says how many references are held from outside: it has its type, its lists are
linked (`LinksOK`), and each count is exact (`Exact`).  None of these is inductive
alone: to free a slot one must know that nobody points to it, which is the exact
count; to keep counts exact one must know that what the lists lead to is
allocated, which is the linking; and a reset takes `first_production` as cursor,
which must be allocated.  Separating `n` from the clients is what makes the proof
modular: one lemma per helper says how `Good(h, n)` moves (`HoldGood`:
`n` plus one at a slot; `ReleaseGood`: minus one, whether it frees or not;
`InsertGood`, `DeleteGood`, `UndeleteGood`, `OrphanGood`), one lemma
(`CountMove`) says how the number of holders moves when a pointer is assigned,
and a lemma per action composes them in the order in which the action composes
the helpers.  Inside a call the counts are temporarily off by a local handle,
which `n` accounts for.

`HeldIsStable` derives the action property from `IInv`.  Each heap helper but the
allocation leaves what stays allocated as it was, except that orphaning clears a
variable (`Ages`); no action frees a slot and then allocates one, so that a slot which
is allocated before and after a step was not re-used in between (`Steady`, one lemma
per action); and by the exact counts what is held before and after is allocated at
both ends.  That a held production is never freed and filled anew is thus a fact of the counts.

### The order of the store

`CFGOrderProofs` proves, for the same parameters:

| Theorem | Statement |
|---|---|
| `OrderInvariance` | `Spec => []OInv` |
| `OrderIsKept` | `Spec => []OrderKept` |
| `WalksDoStay` | `Spec => []WalksStay` |
| `FirstIsLeast` | `Spec => []LeastFirst` |
| `FirstIsTheFirst` | `KeyInjective /\ Spec => []FirstIsFirst` |

The hypothesis of the last one is needed: with two right hand sides of one hash the
property is false, which is the finding of the run `store_first`.  What is true
for any hash is `LeastFirst`: no live production is in a lesser variable, or
in the same one with a lesser hash.

**Argument.**  What the code follows are links; what must be shown is what is
reached by following them.  `WellOrder` states once what that takes: a set of nodes
in which each but the head comes after one (`Chained`), and places that
grow along the links (`Climbs`).  Then the places order the list totally
(`ChainFirst`, `ChainNext`), a walk ends, at the first node it may stop at
(`WalkExists`, `WalkFinds`), and a walk to the end meets every node (`WalkCovers`).
These are inductions over the natural numbers, in the form of the least
counterexample.  `Rising` says that the cells of the heap have such places; that
and what `Linked` says of links, apart from counts (`Threads`), the order of the hash
(`InOrder`) and `NoDuplicates` make up `Tidy`, which every helper of the heap keeps
(`FreeTidy`, `OrphanTidy`, `InsertTidy`; an insertion doubles all places and takes
an odd one).  `InsertTidy` needs to know where the walk of `add_production` ends
(`SpotFinds`): behind everything that is less, so that hashes that collide do not
hide a duplicate.  `OInv` adds that a production in a list has a variable that is there
(`Known`), that the variables are linked in the order of ids and the unused
ones chained (`VarsLinked`), and the counters.  `StepCases` sorts the steps by what
they do to the set of live productions, so that the counters and
`first_production` need five cases and not one per action.

### The refinement

`CFGIterProofs` proves, for the same parameters:

| Theorem | Statement |
|---|---|
| `GrammarImplemented` | `StartsRight /\ IterSpec => ImplementsGrammar` |
| `IterInvariance` | `StartsRight /\ IterSpec => []JInv` |

`StartsRight` says that no two right hand sides have one hash, or that the pattern of
every generator is bound to a variable.  The two runs that check the property are one of
each kind.  The hypothesis is needed: a search that is bound to no variable starts at
`first_production`, and in an instance with a collision TLC finds one
that ends without having yielded the production ahead of it in the list, after two
calls of `add_production`.  So the finding of `store_first` is the one reason
for which a search misses a production.

**Argument.**  `Rest(h, pos, c)` is what is left from production `c` on: the live
productions of later variables, and of its own those at later places; an
orphan stands ahead of the variable it lost, whose id its `prev` field keeps
(`Tagged`), so that it matters neither that the variable was removed nor that it was
added again.  `pos` are places that grow along the links, as in `Rising`.  `JInv`
says that there are such places, and that of each generator that has been asked, what
it owes is in the rest of its cursor, and what it has yielded is not (`Tracked`).
The links of a list decide which of two productions in it comes first; the places
make that order something to compute with, and an insertion gives new ones.

What the code does is then shown to move along this order.  `NextRest`: the production
that `find_next_production` returns leaves the rest less the one it came
from, whether that is live, removed or orphaned.  `SeekFinds`: the loop of `match_next()`
ends at the first production that matches (`FirstMatch`), by induction over the number of
live productions at or before the current one, which grows with each turn
(`RankRises`) and is bounded.  `StartRest`: what a reset makes the
cursor has all matching productions in its rest, which is where `StartsRight` comes in.
So a generator that yields `m` had nothing it owes ahead of `m` (`FoundRest`), and one
that finds nothing owes nothing (`EndRest`).

For the other generators, and for all when the grammar is edited, `Steadfast` says that
a rule that stays is left for a generator after the step exactly if it was before.
`AgesSteadfast` covers the steps that only hold, release, remove or
revive productions, `OrphanSteadfast` the removal of a variable,
`InsertSteadfast` a new production: it gets a place between two others, and its rule is one
that nobody owes or has yielded, since there was none.  `EditImplements` maps each
editing operation to one of `Grammar` or to none; `add_production` of a rule that is there
is a step that changes nothing.  The proof rests on `IInv`, `OInv` and `LeastFirst`, which
hold of `IterSpec` because the history variables never restrict (`IterIsStore`).

### The fixed points

`ParsingProofs` proves, for every set of variables and terminals, every grammar
and every order of enumeration:

| Theorem | Statement |
|---|---|
| `NullCorrect` | `Spec => []NullExact` |
| `FirstCorrect` | `Spec => []FirstExact` |
| `ScanIsAllocated` | `(\A G \in Grammars : UsedEnumerated(G)) /\ Spec => []SetsAllocated` |
| `TableCorrect` | `LL1Spec => []TableRight` |

Assumptions: ids are positive numbers, variables are not terminals, a null variable
is neither.  **Argument.**  Soundness is inductive with the lemmas that the
reference sets are closed (`NullSound`, `FirstSound`).  For completeness
`NullPass` and `FirstPass` say what a pass that has changed nothing *so far* has
established: the sets are closed under the productions visited since it began.  So
when a pass ends without a change they are closed under all of them, and contain
the least closed ones (`NullLeast`, `FirstLeast`).  Productions that start with a
terminal are not visited by the null loop and need not be; those that start with a
terminal are done in the base case of the first loop.  Every variable that has a
production is enumerated, which the first loop needs.
`UsedEnumerated` asks that no variable in a right hand side is below all that have a
production, as holds when each has one, which the readers see to; the code asserts what
follows from it.  For the table, the sets do not change while it is filled, and a cell
of a plain variable has a production that wants it as soon as the turn of the cell
is over.

### The Earley parser

`ParsingProofs` proves besides, for every grammar, every word and every order in which items come in:

| Theorem | Statement |
|---|---|
| `ItemsAreCovered` | `EarleySpec => []ItemsCovered` |
| `YesIsDerived` | `EarleySpec => []Answer`: the verdict is yes only for what the start variable derives |
| `EarleyInvariance` | `EarleySpec => []IInv` |
| `ChartInvariance` | `EarleySpec => [](IInv /\ CInv)` |
| `ItemsAreDistinct` | `EarleySpec => []NoneTwice` |
| `ChartIsRight` | `RightInputs /\ EarleySpec => []ChartRight`: the verdict is yes exactly for what the start variable derives |

Assumptions: the `spans` of an input are closed under its rules (`EarleyAssumption`), so
what holds for them holds for the least closed set, which is derivability.  The last
theorem has a hypothesis about the inputs besides, `RightInputs`: `spans` is that least
set, `null` is the null set of the rules, and with `predict` `first` is their first
sets, both as `ContextFree` defines them, which is what `NullCorrect` and `FirstCorrect`
say `CFG_COMPUTE_NULL` and `CFG_COMPUTE_FIRST` leave for the parser.  The inputs of
`MCTools` are made to satisfy it: `null` and `first` by `Null` and `First`, and `spans`
from nothing, round by round, until it is closed.

**Argument for yes.** The invariant says of *every* item in the chart that what is before its
dot covers the tokens between its sets: the scanner and the completer make an item from
one or two that are in the chart, by one more cut (`CoverOneMore`), and an item
with the dot at the end is a span by closure (`EndIsSpan`).  One lemma per action says how
the chart moves.  The types of the cursors (`Shape`, `InLoop`) are needed so that
the item at hand is one of the chart.

**Argument for no.**  `CInv` says what the chart owes.  `Charted`: the two indexes hold
each item of the sets they stand for once, in the chain of its initial set and by
dot, so that a search for an item that is there finds it, and `NoneTwice` is kept.
`Saturated` and `Underway`: every item that was looked at was worked off, that is, the
item was passed over an empty variable, the productions of its variable were predicted, it
was scanned, or the items that wait for it were advanced; of the item at hand, as far as
the cursor has come.  The hard case is an item that ends in the set it began in: the
completer goes over the current set, and misses the items that come in after its turn.
They wait for an empty span, and the predictor passes them over that variable,
since it is null; so nothing is owed of such an item (`Worked`).
When the sets up to the last are worked off, the spans that were passed over are
closed under the rules (`SpansRise`, `CutsRise`), so they are all spans; that is where
`Derived` is used.  With prediction a variable that is skipped begins no span that is
not empty with the token at hand (`TokenIsFirst`), and empty spans are by null variables
(`EmptyIsNull`).  At a token that is unknown the parser stops; no span reaches across it
(`NoneAcross`), and if no item scans the token none does either (`NoneStuck`).

### Symbol strings, names and rules

`ObjectsProofs` proves, for any number of strings, symbols and places for arrays,
any letters and numbers, and any categories, rules and handles:

| Theorem | Statement |
|---|---|
| `SharingIsRight` | `StringsSpec => []StringsRight` |
| `TerminalsAreRight` | `NamesSpec => []TerminalsRight` |
| `NamesAreRight` | `OneDigit /\ NamesSpec => []NamesRight` |
| `RulesAreRight` | `TdopSpec => []RulesRight` |
| `SearchIsRight` | `TdopSpec => []SearchRight` |

Assumptions: there are finitely many strings, and
the null array is not a place and the bound on lengths is a number (`StringsAssumption`);
the alphabet and the names are as `NamesAssumption` says; and `TdopAssumption`: there are
finitely many handles, the generator's among them, and rules and searches have their types.

**Strings.**  The property is
inductive together with the types.  Every operation moves one string from its array to
another, to a new one or to none, and `MovesRight` says when such a move is right: the
counts follow it, the arrays of the other strings keep their symbols, and the new array
holds what the string ought to hold.  A place is written to only when it is free;
by the exact count no other string has it (`NobodyElse`), also when the string lets
go of its own array first and gets the same place back (`Fresh`).

**Names.**  `OneDigit` says that no number in a name, read or made, is above nine.
Beyond that the code, which compares the texts of names, makes a name that is
there already (section 5); the theorem says that this is the only way it can.
The invariant says which numbers are taken: those of all names that are in use are
at most the bound, and each symbol that was made has its own; and that every name in the map
of variables leads to an id whose own name is in the map and leads back to it
(`VariablesRight`), which is all that is left of it once ids are used again.

**Rules of TDOP.**  `TdopInv` is the invariant of both theorems.  Its part on the chains
(`StoreOK`) speaks of neighbours only: a rule that is not less than the head leads to
the least of those greater, which leads back to it, and no two are equal.  A
rule that is less than the head leads up to it and is lost, so the chain cannot be said to hold all
rules of its list; this is the shape in which that holds.  The order of rules
is strict, and rules it does not tell apart are equal (`RuleOrder`, where
strings of operators are compared by their first difference).  So the place where
`add_rule` stops lies between the last lesser rule and the first that is not
(`StopRight`), and `PutBetween` keeps the chain (`InsertChain`).  Each loop
goes to ever greater rules or later categories, of which there are finitely many (`ToGo`,
`SpotToGo`); by `LoopExists` and `LoopEnds` of `WellOrder` its function exists
and ends, and what it returns is known from what every step keeps.

For the searches, `Rest` is what a cursor has before it: the rules in the chains of later
categories, and those of its own that are not less than the one it is on.  A search gives up
only rules that are removed or do not suit (`SearchRest`).  The invariant says that
`seen` has nothing in `Rest`, which is why nothing is bound twice, and that `owed` is inside it,
which is why at the end, where `Rest` is empty, nothing is owed.  A rule that is
added may come in before or behind the cursor, but it does not move the others
(`RestKept`).  The counts are `Counted`; a category's may exceed what is on it, as a
reset search over categories does not let go (section 5).

### The PDA store

`AutomataProofs` proves, for any number of states, symbols, transitions, handles
and generators:

| Theorem | Statement |
|---|---|
| `Invariance` | `Spec /\ [][~ Revives]_vars => []IInv` |
| `CountsExact` | `Spec /\ [][~ Revives]_vars => []RefExact` |
| `TransitionsAreKept` | `Spec /\ [][~ Revives]_vars => []TransitionsKept` |
| `NothingFreedEarly` | `Spec /\ [][~ Revives]_vars => []Sound` |

Assumptions: `PDAAssumption`, which gives the constants their types.  `Revives` is a step
that adds again a transition that was removed and is still held.  The code allows it and it
makes the counts wrong, after which a handle may be on a freed transition (section 5); all four theorems are about the behaviours without such a step, and say
that there is no other way to make the counts wrong.  Nothing is claimed of the store
after one.  **Argument.**  `Sane` says of a store and the
pointers into it that the chains hold each transition once, at its state, that each count is the
number of pointers plus one for the automaton, and that a transition is in a
chain exactly when it is counted.  Helpers (`Hold`, `Release`, `Assign`) keep it with
the pointers moved accordingly, one lemma each, and an action is a sequence of
helpers.  A search is the choice of the nearest transition beyond the cursor, so that
it needs no walk; what it returns is in a chain and hence counted.

### The dominators

`AutomataProofs` proves, for every automaton and every order of its transitions:

| Theorem | Statement |
|---|---|
| `DominatorsInvariant` | `DomSpec => []DomInv` |
| `TreeIsRight` | `DomSpec => []TreeRight` |

Assumptions (`GraphsAssumption`): there are finitely many states; the transitions of a
chain leave its state, lead to states that are there and are in it once, which `Invariance`
says of the store; what a search finds are transitions.  That the search finds *all* of them
is a condition of `TreeRight`, not an assumption, since it may miss some (section 5); that the loop
ends is proved without it.

**Domination** is defined by what is reached: `Reached(G, A)` is the least set that is
closed under the transitions past the states `A`, and `d` dominates `q` if `q` is not
reached past `d`.  That this is a tree on the states that are reached follows from least
sets alone: intersections and unions of reached sets are closed, which gives transitivity
(`DominatesTransitive`), antisymmetry and that of two dominators of a state one
dominates the other (`DominatorsCompare`).  No paths, and so no induction over them, are
needed.

**The loop.**  `DomInv` bounds the sets from both sides.  `Kept`: what dominates a state is
in its set, since it is the state itself or dominates every predecessor (`DominatesBack`).
`Pending`: behind each transition the set has but states of the set before it, and
the state itself, or the state is in the queue; what is taken from the queue becomes so by
`Meet`, and when its set shrinks, its successors are enqueued.  At first this fails behind the
start state, which is why the loop is forced to go on once (`force`).  With the queue empty,
the states whose set lacks `d` are closed past `d`, so nothing but dominators is left
(`DominatorsRight`).  **It ends** because each state that is enqueued was paid for: `Room`
has a place for each transition and each state in the set of its source, and a set that
shrinks loses a place for each transition of its state (`RoomShrinks`, `Budget`).

**The tree.**  `immediate_dominator` throws away one of the two least states that are left, by
whether one dominates the other.  Whatever it throws away, each strict dominator still
dominates one that is left (`ClosestRight`), so the last one is dominated by all, and
there is only one such state.

### The file buffers

`InputProofs` proves, for every text, every size of the window from four bytes up
and every length of a line:

| Theorem | Statement |
|---|---|
| `BufferWindowHidden` | `BufferSpec => WindowHidden`: the window implements `TextStream` |
| `BufferInvariant` | `BufferSpec => []TokensInv` |
| `BufferTokensRight` | `BufferSpec => []TokensRight` |

Assumptions (`BufferAssumption`): texts are sequences of kinds of bytes; a window has room for
the longest code point, as the code makes sure where it takes the larger of the two
(`UTF8FileBuffer.hpp:60`); the length of a line is a natural number.

**Argument.**  What is left in the window, followed by what was not read of the file, is the
rest of the text (`Core`), and the position that the reader has counted is that of the rest.
Decoding looks at four bytes at most, so it comes out the same in the window as in the text,
provided the window holds four bytes or all that is left; this is what a refill sees to, and
why a window of three bytes would not do.  What `unread` gives back is still there, because
a refill keeps it (`Good`).  If seeking fails at a reset the text is lost (`Lost`): nothing is
read until the next reset (a tokenizer is only reset before it reads, `CFG_PARSE.hpp:222`).  For the tokenizer, the tokens made so far, followed by those of
what is not yet consumed, are those of the whole text: `TokensInv` says so
in each of its loops, with the bytes of the token under way set apart.  The reference (`TokensFrom`),
the code point at an offset (`ReadAt`) and the reads of the window (`Take`) are
recursive functions; `WellOrder` has, once and for all, that a function
which recurs to arguments of lesser measure exists and is unique (`DescentExists`,
`DescentUnique`), and here the measure is what is left of the text.

### The command line

`InputProofs` proves of the option parser, for all arguments and declarations:

| Theorem | Statement |
|---|---|
| `CliInvariant` | `CliSpec => []CliInv` |
| `OperandsAreRight` | `CliSpec => []OperandsRight` |

Assumptions (`CliAssumption`): arguments are lexemes, and an option has a name, as `parse` makes
sure; of the declarations of `main` and of one tool no two share a name, long or short.  The
code's own declarations are like that (`main.cpp:142` to `147`, and the start of each tool in
`include/cli/`); with a name declared twice the second one would find the option settled,
and could take from it the value that the first one required.

**Argument.**  The chain is in the order of the arguments and holds every option and every
positional that has been passed (`ListInv`).  A text is a positional unless the option
before it has it as its value; an option with a sign of equality keeps its value for good,
and one without can lose it to become a positional, which `SplitList` puts into
the chain right behind the option, hence in its place (`SplitStep`; at the end
of the chain it would be out of order).  Names lead to the option given by that name or, by a
declaration that has been made, to the one given by its other name (`LongsRight`,
`ShortsRight`).  A declaration that is new therefore finds just the options it names, none of
which was named by an earlier one (`NamesFound`), and `CheckOption` settles it once: it has
a value afterwards unless it was declared without (`SettledInv`).  An error stops the
command before files are asked for, so nothing is said of the options after one.  When the
number of files is checked, the options that nobody named give up their values, and the
positionals are the operands that the arguments and declarations
define (`BoundStep`).  In an ascending chain the positionals before a place are the
lesser ones, so a scan from the one found last, with the number it has, ends at the one
that is asked for (`ScanRight`, `IndexStep`).

**Only model-checked.**  Liveness and termination (`TableComplete`, `Ends`, the bounds
on turns except `VisitsBounded` of the dominators) and what needs ENABLED.  The follow sets.  Induction over the
natural numbers is no obstacle, as `WellOrder` shows, but a `RECURSIVE` operator is
one for the provers used here: the
modules that have them (`Languages`, and with it `Transformations` and
`AutomataTools`; `Patterns`, `TDOPPatterns`, the files)
cannot be proved about as they stand.

## 7. Not modelled

* `compute_first_variables` and `cfg/ParseTree.hpp`: nothing in the repository uses them.
* The text of the parser that `cfg-to-ll1` prints, the other writers, diagnostics:
  they change no state.
* The symbol generator of TDOP, and the fields of TDOP objects that nothing reads.
* The generators of states and symbols of automata, which are counters (the algorithms
  model them as loops); copies of generators that were used already.
* The growth of arrays and the index of tables (`helper/Array.hpp:108`,
  `helper/Table.hpp:68` index in ways that work for the sizes the repository uses only).
* A file that cannot be opened (a null `fp`), and what the second pass of a reader writes behind
  its scratch array when a name is too long.
* Tools that read files, call one algorithm and print.
* Compile-time helpers, which have no run-time state.

## 8. What is next

1. Proofs: the follow sets; `Patterns` and `TDOPPatterns`, with their recursive
   operators written as functions.
2. A larger instance of the PDA store with two generators in use.
3. `PatternsRight` with patterns whose objects are written twice, against a
   reference that follows the order of writing.
