----------------------------- MODULE TDOPStore -----------------------------
(***************************************************************************)
(* TDOP: categories of parser rules.  A category has two chains of rules,    *)
(* the initial ones and the extensions; handles and generators count their    *)
(* references to rules and categories.  A removed rule is only marked.        *)
(*                                                                           *)
(* Rules and categories are numbers from 1 in the order of their making; 0 is  *)
(* the null pointer.  Categories are never removed (remove_category is not     *)
(* implemented), so the next category is the next number.                    *)
(***************************************************************************)
EXTENDS Integers, Sequences, FiniteSets, SequencesExt

CONSTANTS
    RuleChoices,        \* the rules added: [ub, str], an upper bound and a
                        \* sequence of operators <<term, lower bound>>
    Handles,            \* rule objects of the program
    Binder,             \* the one that the generator binds
    Wanted,             \* what generators search for: [cat, sort], the sort
                        \* "categories", or of rules "any" or a chain's
    MaxCategories,      \* bound on categories
    MaxRules,           \* bound on rules
    MaxLeaks            \* bound on the references a category comes to count


VARIABLES
    heads,      \* per category: the first rule of each of its lists
    rules,      \* the rules
    refs,       \* the references counted by each rule
    catRefs,    \* the references counted by each category
    handle,     \* the rule of each handle
    want,       \* what the generator in use searches for
    cursor,     \* the generator: [cat, rule]
    seen,       \* rules the generator has bound since it was reset (history)
    owed        \* rules it has yet to bind (history)

tdopVars == <<heads, rules, refs, catRefs, handle, want, cursor, seen, owed>>

END     == -1   \* the rule pointer that tells a generator it has finished
INITIAL == -1   \* the upper bound of an initial rule
Lists   == {"initial", "extension"}

ASSUME TdopAssumption ==
    /\ IsFiniteSet(Handles) /\ Binder \in Handles
    /\ RuleChoices \subseteq [ub : Nat \cup {INITIAL}, str : Seq(Int \X Int)]
    /\ Wanted \subseteq [cat : Nat, sort : Lists \cup {"any", "categories"}]

-----------------------------------------------------------------------------
\* Operators by their terms and then their bounds; strings by their first
\* difference, a prefix before what it is a prefix of.
OperatorLess(a, b) == a[1] < b[1] \/ (a[1] = b[1] /\ a[2] < b[2])

StringLess(a, b) ==
    \E k \in 0 .. Len(a) :
        /\ k <= Len(b) /\ SubSeq(a, 1, k) = SubSeq(b, 1, k)
        /\ k < Len(b)
        /\ k = Len(a) \/ OperatorLess(a[k + 1], b[k + 1])

\* Initial rules before extensions, these by their strings and then bounds.
IsLessThan(a, b) ==
    \/ a.ub = INITIAL /\ b.ub # INITIAL
    \/ /\ a.ub = INITIAL <=> b.ub = INITIAL
       /\ \/ StringLess(a.str, b.str)
          \/ (a.str = b.str /\ a.ub < b.ub)

List(ub) == IF ub = INITIAL THEN "initial" ELSE "extension"

RulesOrNull == 0 .. Len(rules)

\* Where the search for a rule in a chain stops: the rule it stops at, the
\* first that is not less, and the one before.
Stop(key, first) ==
    LET stop[at \in RulesOrNull \X RulesOrNull] ==
          IF at[2] # 0 /\ IsLessThan(rules[at[2]], key) THEN stop[<<at[2], rules[at[2]].next>>]
          ELSE at
    IN  stop[<<0, first>>]

\* The counts when one reference moves from `lost' to `gained'.
Moved(counts, lost, gained) ==
    [n \in DOMAIN counts |->
        counts[n] + (IF n = gained THEN 1 ELSE 0) - (IF n = lost THEN 1 ELSE 0)]

-----------------------------------------------------------------------------
TdopInit ==
    /\ heads = <<>> /\ rules = <<>> /\ refs = <<>> /\ catRefs = <<>>
    /\ handle = [h \in Handles |-> 0]
    /\ want \in Wanted
    /\ cursor = [cat |-> 0, rule |-> 0]
    /\ seen = <<>> /\ owed = {}

AddCategory ==
    /\ Len(heads) < MaxCategories
    /\ heads' = Append(heads, [list \in Lists |-> 0])
    /\ catRefs' = Append(catRefs, 1)
    /\ UNCHANGED <<rules, refs, handle, want, cursor, seen, owed>>

\* Mutant of PutBetween: the rule in front still leads to the one behind.
PutBehind(rule, prev, next, n) ==
    IF next = 0 THEN Append(rules, rule)
    ELSE Append([rules EXCEPT ![next].prev = n], rule)

\* The rule n put between two others, and the head set if there was none: a
\* rule put in front of the first does not become the head.
PutBetween(rule, prev, next, n) ==
    LET linked == IF next = 0 THEN rules ELSE [rules EXCEPT ![next].prev = n]
        new    == Append(linked, rule)
    IN  IF prev = 0 THEN new ELSE [new EXCEPT ![prev].next = n]

\* The rule is searched in its chain; it is made if it is not there, and its
\* mark is taken off if it is.  A handle takes what is returned.
AddRule(h, c, ub, str) ==
    LET list == List(ub)
        key  == [cat |-> c, ub |-> ub, str |-> str]
        at   == Stop(key, heads[c][list])
        same == at[2] # 0 /\ ~ IsLessThan(key, rules[at[2]])
        n    == IF same THEN at[2] ELSE Len(rules) + 1
    IN  /\ same \/ Len(rules) < MaxRules
        /\ handle' = [handle EXCEPT ![h] = n]
        /\ rules' = IF same THEN [rules EXCEPT ![n].deleted = FALSE]
                    ELSE PutBetween([cat |-> c, ub |-> ub, str |-> str,
                                  prev |-> at[1], next |-> at[2],
                                  deleted |-> FALSE], at[1], at[2], n)
        /\ refs' = Moved(IF same THEN refs ELSE Append(refs, 1), handle[h], n)
        /\ heads' = IF same \/ heads[c][list] # 0 THEN heads
                    ELSE [heads EXCEPT ![c][list] = n]
        /\ UNCHANGED <<catRefs, want, cursor, seen, owed>>

RemoveRule(h) ==
    /\ handle[h] # 0
    /\ rules' = [rules EXCEPT ![handle[h]].deleted = TRUE]
    /\ owed' = owed \ {handle[h]}
    /\ UNCHANGED <<heads, refs, catRefs, handle, want, cursor, seen>>

AssignRule(h, from) ==
    /\ handle' = [handle EXCEPT ![h] = from]
    /\ refs' = Moved(refs, handle[h], from)
    /\ UNCHANGED <<heads, rules, catRefs, want, cursor, seen, owed>>

-----------------------------------------------------------------------------
NextCategory(c) == IF c < Len(heads) THEN c + 1 ELSE 0

FirstRule(c) ==
    IF c = 0 THEN 0
    ELSE IF heads[c]["initial"] # 0 THEN heads[c]["initial"]
    ELSE heads[c]["extension"]

\* The next rule of the same category: the extensions follow the initial ones.
NextCatRule(c, r) ==
    IF r = 0 THEN 0
    ELSE IF rules[r].next # 0 THEN rules[r].next
    ELSE IF rules[r].ub < 0 THEN heads[c]["extension"]
    ELSE 0

Spots == (0 .. Len(heads)) \X RulesOrNull
NextFirst(c) == <<NextCategory(c), FirstRule(NextCategory(c))>>

\* curr: from where the cursor is, the first rule that is not removed.
Current(c, r) ==
    LET curr[at \in Spots] ==
          IF at[1] = 0 THEN <<0, END>>
          ELSE IF at[2] = 0 THEN curr[NextFirst(at[1])]
          ELSE IF rules[at[2]].deleted THEN curr[<<at[1], NextCatRule(at[1], at[2])>>]
          ELSE at
    IN  curr[<<c, r>>]

\* next: the rule behind, removed or not.
FirstAfter(c, r) ==
    LET after[at \in Spots] ==
          IF at[1] = 0 THEN <<0, END>>
          ELSE IF at[2] = 0 THEN after[NextFirst(at[1])]
          ELSE at
    IN  after[<<c, r>>]

\* Mutant of Following: the extensions are forgotten behind initial rules.
FollowingOfList(c, r) ==
    FirstAfter(c, IF r = 0 THEN 0 ELSE rules[r].next)

Following(c, r) == FirstAfter(c, NextCatRule(c, r))

Suits(r) ==
    /\ want.cat # 0 => rules[r].cat = want.cat
    /\ want.sort # "any" => List(rules[r].ub) = want.sort

\* The first rule from the cursor on that suits what is searched for.
Found(x) == x[2] = END \/ Suits(x[2])
SearchFrom(c, r) ==
    LET find[at \in Spots] ==
          LET x == Current(at[1], at[2])
              y == Following(x[1], x[2])
          IN  IF Found(x) THEN x ELSE IF y[2] = END THEN y ELSE find[y]
    IN  find[<<c, r>>]

\* A pattern on a given category starts there and goes on to the end.
Begin == IF want.cat # 0 THEN want.cat ELSE IF heads = <<>> THEN 0 ELSE 1

Pointee(r) == IF r = END THEN 0 ELSE r

\* Rules that can be come by from the heads.
Chain[n \in RulesOrNull] == IF n = 0 THEN <<>> ELSE <<n>> \o Chain[rules[n].next]
Reachable == UNION {ToSet(Chain[heads[c][list]]) : c \in DOMAIN heads, list \in Lists}
ToBind    == {r \in Reachable : ~ rules[r].deleted /\ Suits(r)}

\* match_next: find the current rule, bind it and move to the one behind.  The
\* walk begins when the cursor is nowhere.
MatchNext ==
    LET starts == cursor.rule # END /\ cursor.cat = 0
        c0 == IF starts THEN Begin ELSE cursor.cat
        r0 == IF starts THEN FirstRule(Begin) ELSE cursor.rule
        x  == IF cursor.rule = END THEN <<0, END>> ELSE SearchFrom(c0, r0)
        y  == IF x[2] = END THEN x ELSE Following(x[1], x[2])
        bound == IF x[2] = END THEN handle[Binder] ELSE x[2]
    IN  /\ want.sort # "categories" /\ want.cat <= Len(heads)
        /\ cursor' = [cat |-> y[1], rule |-> y[2]]
        /\ handle' = [handle EXCEPT ![Binder] = bound]
        /\ refs' = Moved(Moved(refs, Pointee(cursor.rule), Pointee(y[2])),
                         handle[Binder], bound)
        /\ catRefs' = Moved(catRefs, cursor.cat, y[1])
        /\ seen' = (IF starts THEN <<>> ELSE seen)
                       \o (IF x[2] = END THEN <<>> ELSE <<x[2]>>)
        /\ owed' = (IF starts THEN ToBind ELSE owed) \ {x[2]}
        /\ UNCHANGED <<heads, rules, want>>

\* The generator's end; a reset of a walk over rules is no different.
FreeGenerator ==
    /\ cursor' = [cat |-> 0, rule |-> 0]
    /\ refs' = Moved(refs, Pointee(cursor.rule), 0)
    /\ catRefs' = Moved(catRefs, cursor.cat, 0)
    /\ seen' = <<>> /\ owed' = {}
    /\ UNCHANGED <<heads, rules, handle, want>>

-----------------------------------------------------------------------------
\* Resetting a category generator does not let go of the category it is on.
RewindCategories ==
    /\ want.sort = "categories"
    /\ cursor.cat # 0 => catRefs[cursor.cat] < MaxLeaks
    /\ cursor' = [cat |-> 0, rule |-> 0]
    /\ UNCHANGED <<heads, rules, refs, catRefs, handle, want, seen, owed>>

MatchCategory ==
    LET c == IF cursor.cat # 0 THEN NextCategory(cursor.cat)
             ELSE IF cursor.rule # END /\ heads # <<>> THEN 1 ELSE 0
    IN  /\ want.sort = "categories"
        /\ cursor' = [cat |-> c, rule |-> IF c = 0 THEN END ELSE 0]
        /\ catRefs' = Moved(catRefs, cursor.cat, c)
        /\ UNCHANGED <<heads, rules, refs, handle, want, seen, owed>>

TdopNext ==
    \/ AddCategory
    \/ \E h \in Handles, c \in DOMAIN heads, choice \in RuleChoices :
           AddRule(h, c, choice.ub, choice.str)
    \/ \E h \in Handles : RemoveRule(h)
    \/ \E h \in Handles, from \in {0} \cup {handle[g] : g \in Handles} :
           AssignRule(h, from)
    \/ MatchNext \/ FreeGenerator
    \/ RewindCategories \/ MatchCategory

TdopSpec == TdopInit /\ [][TdopNext]_tdopVars

-----------------------------------------------------------------------------
\* RulesHeld: a rule counts one reference for its chain and one for every handle
\* and generator on it, so none is given back while somebody can reach it, and a
\* category counts no fewer than those that are on it (OpaqueRule,
\* RuleGenerator::curr and next, signal_end).
RulesHeld ==
    /\ \A r \in DOMAIN rules :
           refs[r] = 1 + Cardinality({h \in Handles : handle[h] = r})
                       + (IF cursor.rule = r THEN 1 ELSE 0)
    /\ \A c \in DOMAIN heads :
           catRefs[c] >= 1 + (IF cursor.cat = c THEN 1 ELSE 0)

\* ChainsRight: however rules are added, removed and added again, a chain is
\* strictly ascending, linked both ways behind its head, and has every rule of
\* its list that is not less than the head.  The rules that are less than the
\* first one ever added are not in it: they are lost (TDOP::add_rule).
ChainsRight ==
    \A c \in DOMAIN heads, list \in Lists :
        LET chain == Chain[heads[c][list]]
            mine  == {r \in DOMAIN rules :
                         rules[r].cat = c /\ List(rules[r].ub) = list}
        IN  /\ \A i \in 1 .. Len(chain) - 1 :
                   /\ IsLessThan(rules[chain[i]], rules[chain[i + 1]])
                   /\ rules[chain[i + 1]].prev = chain[i]
            /\ ToSet(chain) = {r \in mine : ~ IsLessThan(rules[r], rules[chain[1]])}

\* RulesRight: what is in the chains, and what keeps it there.
RulesRight == RulesHeld /\ ChainsRight

\* SearchRight: a search that has come to its end has bound every rule that
\* could be come by when it began and was not removed before its turn, whatever
\* was added, removed and added again meanwhile, and none twice (RuleGenerator
\* and PatternGenerator).
SearchRight ==
    /\ cursor.rule = END => owed = {}
    /\ Cardinality(ToSet(seen)) = Len(seen)
=============================================================================
