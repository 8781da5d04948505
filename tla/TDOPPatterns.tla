---------------------------- MODULE TDOPPatterns ----------------------------
(***************************************************************************)
(* Patterns over TDOP rules (tdop/Pattern.hpp): the head says the category    *)
(* and the sort of rule, the parts are matched with the rule's operators.  A   *)
(* part has a place in the pattern's type, its offset, and is looked up there;  *)
(* not every part is one wide, so some patterns are not matched as they read.   *)
(*                                                                           *)
(* An operator is a term with a bound, as in Operator.hpp.  The objects are     *)
(* those that the match writes through PatternData::slots; pieces and cuts are   *)
(* those of Patterns.                                                         *)
(***************************************************************************)
EXTENDS Patterns

CONSTANTS
    TdopPatterns,   \* the patterns: [head, name, bound, parts]
    TdopBindings,   \* what the objects may hold at first
    TdopRules,      \* the rules matched: [cat, ub, str]
    CategoryTerms   \* the terms that are categories

VARIABLES
    rulePattern,  \* the pattern that a generator matches with
    slots,        \* what the objects of the pattern hold
    ruleTried,    \* history: the last match
    ruleTries     \* history: how many there were

rulePatternVars == <<rulePattern, slots, ruleTried, ruleTries>>

PREDICATE == -3
UNBOUND   == -2

IsCategory(x)      == x.term \in CategoryTerms
IsBoundCategory(x) == IsCategory(x) /\ x.lb # UNBOUND
IsPredicate(x)     == ~ IsCategory(x) /\ x.lb = PREDICATE

StringKinds == {"~ops", "__", "__n"}
Wide        == {"cat[n]", "op", "~op"}  \* they take two places, and _ takes none
WidthOf(part) == IF part.kind \in Wide THEN 2 ELSE IF part.kind = "_" THEN 0 ELSE 1

Offset(parts, k) == FoldLeft(LAMBDA n, part : n + WidthOf(part), 0,
                             SubSeq(parts, 1, k - 1))

\* The part found at an offset, or 0: of the parts that begin no later the last,
\* if it begins there.
FactorAt(parts, off) ==
    LET before == {k \in DOMAIN parts : Offset(parts, k) <= off}
        k      == CHOOSE k \in before : \A j \in before : j <= k
    IN  IF Offset(parts, k) = off THEN k ELSE 0

TdopMinAfter(parts, off) ==
    Cardinality({k \in DOMAIN parts :
                    Offset(parts, k) > off /\ parts[k].kind \notin StringKinds})

\* Mutant of TakesOp: an unbound symbol takes a predicate as well.
TakesPredicates(part, x, o) ==
    CASE part.kind = "cat"    -> IsCategory(x) /\ x.lb = UNBOUND
                                   /\ x.term = o[part.name]
      [] part.kind = "cat[n]" -> IsBoundCategory(x) /\ x.term = o[part.name]
      [] part.kind = "sym"    -> ~ IsCategory(x) /\ ~ IsPredicate(x)
                                   /\ x.term = o[part.name]
      [] part.kind = "term"   -> x.term = o[part.name]
      [] part.kind = "op"     -> x = o[part.name]
      [] part.kind = "~cat"   -> IsCategory(x) /\ ~ IsBoundCategory(x)
      [] part.kind = "~sym"   -> ~ IsCategory(x)
      [] part.kind = "*~sym"  -> IsPredicate(x)
      [] OTHER                -> TRUE

\* Whether a part takes an operator.
TakesOp(part, x, o) ==
    CASE part.kind = "cat"    -> IsCategory(x) /\ x.lb = UNBOUND
                                   /\ x.term = o[part.name]
      [] part.kind = "cat[n]" -> IsBoundCategory(x) /\ x.term = o[part.name]
      [] part.kind = "sym"    -> ~ IsCategory(x) /\ ~ IsPredicate(x)
                                   /\ x.term = o[part.name]
      [] part.kind = "term"   -> x.term = o[part.name]
      [] part.kind = "op"     -> x = o[part.name]
      [] part.kind = "~cat"   -> IsCategory(x) /\ ~ IsBoundCategory(x)
      [] part.kind = "~sym"   -> ~ IsCategory(x) /\ ~ IsPredicate(x)
      [] part.kind = "*~sym"  -> IsPredicate(x)
      [] OTHER                -> TRUE

\* What it writes, taken or not: a last category is written before its bound is
\* looked at, a symbol before it is seen to be a predicate.
Puts(part, x, last, o) ==
    CASE part.kind = "cat[n]" /\ TakesOp(part, x, o) -> [o EXCEPT ![part.bound] = x.lb]
      [] part.kind = "~op"   -> [o EXCEPT ![part.name] = x]
      [] \/ part.kind = "~term"
         \/ part.kind \in {"~cat", "*~sym"} /\ TakesOp(part, x, o)
         \/ part.kind = "~cat" /\ last /\ IsCategory(x)
         \/ part.kind = "~sym" /\ ~ IsCategory(x)
         -> [o EXCEPT ![part.name] = x.term]
      [] OTHER -> o

WritesOne == {"~cat", "~sym", "*~sym", "~term", "~op"}

RECURSIVE TdopFit(_, _, _, _), TdopFitFrom(_, _, _, _, _)

TdopFitOne(parts, off, s, o) ==
    LET part == parts[FactorAt(parts, off)]
        last == FactorAt(parts, off + 1) = 0
    IN  IF last /\ Len(s) > 1 THEN Outcome(FALSE, o, FALSE)
        ELSE IF s = <<>>
        THEN Outcome(FALSE, o, last /\ part.kind \in WritesOne)
        ELSE LET put == Puts(part, s[1], last, o)
             IN  IF ~ TakesOp(part, s[1], o) THEN Outcome(FALSE, put, FALSE)
                 ELSE IF last THEN Outcome(TRUE, put, FALSE)
                 ELSE TdopFit(parts, off + 1, Tail(s), put)

\* A number of operators.
TdopFitLength(parts, off, s, o) ==
    LET n    == o[parts[FactorAt(parts, off)].name]
        last == FactorAt(parts, off + 1) = 0
    IN  IF last THEN Outcome(Len(s) = n, o, FALSE)
        ELSE IF Len(s) < n + TdopMinAfter(parts, off) THEN Outcome(FALSE, o, FALSE)
        ELSE TdopFit(parts, off + 1, SubSeq(s, n + 1, Len(s)), o)

\* Any operators, as few as the rest allows.
TdopFitFrom(parts, off, i, s, o) ==
    LET rest == TdopFit(parts, off + 1, SubSeq(s, i + 1, Len(s)), o)
    IN  IF i > Len(s) - TdopMinAfter(parts, off) THEN Outcome(FALSE, o, FALSE)
        ELSE IF rest.ok \/ rest.past THEN rest
        ELSE TdopFitFrom(parts, off, i + 1, s, rest.objects)

\* The part at an offset with the operators s.  A string that is written can
\* only stand last: the code for one elsewhere does not compile.
TdopFit(parts, off, s, o) ==
    LET part == parts[FactorAt(parts, off)]
    IN  IF part.kind = "~ops" THEN Outcome(TRUE, [o EXCEPT ![part.name] = s], FALSE)
        ELSE IF part.kind = "__n" THEN TdopFitLength(parts, off, s, o)
        ELSE IF part.kind # "__" THEN TdopFitOne(parts, off, s, o)
        ELSE IF FactorAt(parts, off + 1) = 0 THEN Outcome(TRUE, o, FALSE)
        ELSE IF Len(s) < TdopMinAfter(parts, off) THEN Outcome(FALSE, o, TRUE)
        ELSE TdopFitFrom(parts, off, 0, s, o)

\* The strings to be written are emptied first: those that ResetPattern gets to,
\* which goes from offset to offset and ends where no part begins.
EmptyStrings(parts, o) ==
    LET reached == {off \in 0 .. 2 * Len(parts) : \A n \in 0 .. off : FactorAt(parts, n) # 0}
        emptied == {k \in {FactorAt(parts, off) : off \in reached} : parts[k].kind = "~ops"}
    IN  [x \in DOMAIN o |-> IF \E k \in emptied : parts[k].name = x THEN <<>> ELSE o[x]]

InitialHeads == {"cat", "~cat", "_"}

HeadBound(p, rule, o) ==
    IF p.head = "~cat[n]" \/ (p.head = "cat[n]" /\ o[p.name] = rule.cat)
    THEN [o EXCEPT ![p.bound] = rule.ub] ELSE o

HeadWritten(p, rule, o) ==
    IF p.head \in {"~cat", "~cat[n]"} THEN [o EXCEPT ![p.name] = rule.cat] ELSE o

\* The sort of rule first, then the head's objects, then the operators.
TdopDestructure(p, rule, o) ==
    LET o1 == EmptyStrings(p.parts, o)
        o2 == HeadBound(p, rule, HeadWritten(p, rule, o1))
        n  == Cardinality({k \in DOMAIN p.parts : p.parts[k].kind \notin StringKinds})
    IN  IF (rule.ub < 0) # (p.head \in InitialHeads) THEN Outcome(FALSE, o, FALSE)
        ELSE IF p.head \in {"cat", "cat[n]"} /\ o1[p.name] # rule.cat
        THEN Outcome(FALSE, o2, FALSE)
        ELSE IF Len(rule.str) < n THEN Outcome(FALSE, o2, FALSE)
        ELSE TdopFit(p.parts, 0, rule.str, o2)

-----------------------------------------------------------------------------
TdopPatternInit ==
    /\ rulePattern \in TdopPatterns
    /\ slots \in TdopBindings
    /\ ruleTried = <<>>
    /\ ruleTries = 0

MatchRule(rule) ==
    LET r == TdopDestructure(rulePattern, rule, slots)
    IN  /\ ruleTries < MaxTries
        /\ slots' = r.objects
        /\ ruleTried' = [rule |-> rule, before |-> slots, ok |-> r.ok, past |-> r.past]
        /\ ruleTries' = ruleTries + 1
        /\ UNCHANGED rulePattern

TdopPatternNext == \E rule \in TdopRules : MatchRule(rule)

TdopPatternSpec == TdopPatternInit /\ [][TdopPatternNext]_rulePatternVars

-----------------------------------------------------------------------------
\* What a part says of a piece of the operators, given the objects v.
PlainSymbol(x)   == ~ IsCategory(x) /\ ~ IsPredicate(x)
OpenCategory(x)  == IsCategory(x) /\ ~ IsBoundCategory(x)

Says(part, piece, v) ==
    LET x  == piece[1]
        is(S(_)) == Len(piece) = 1 /\ S(x) /\ x.term = v[part.name]
        any(y) == TRUE
    IN  CASE part.kind = "~ops"              -> piece = v[part.name]
          [] part.kind = "__"                -> TRUE
          [] part.kind = "__n"               -> Len(piece) = v[part.name]
          [] part.kind = "_"                 -> Len(piece) = 1
          [] part.kind \in {"op", "~op"}     -> piece = <<v[part.name]>>
          [] part.kind \in {"term", "~term"} -> is(any)
          [] part.kind \in {"cat", "~cat"}   -> is(OpenCategory)
          [] part.kind = "cat[n]"            -> is(IsBoundCategory) /\ x.lb = v[part.bound]
          [] part.kind \in {"sym", "~sym"}   -> is(PlainSymbol)
          [] part.kind = "*~sym"             -> is(IsPredicate)

\* The objects of a head: the category, and the bound of an extension.
HeadSays(p, rule, v) ==
    /\ (rule.ub < 0) <=> p.head \in InitialHeads
    /\ p.head # "_" => v[p.name] = rule.cat
    /\ p.head \in {"cat[n]", "~cat[n]"} => v[p.bound] = rule.ub

TdopAgrees(p, c, rule, v) ==
    /\ HeadSays(p, rule, v)
    /\ \A k \in DOMAIN p.parts : Says(p.parts[k], Piece(c, rule.str, k), v)

\* The patterns that are matched as they read: every part begins one place
\* behind the one before.
Aligned(p) == \A k \in DOMAIN p.parts : Offset(p.parts, k) = k - 1

\* The places at which a pattern writes an object; the head is place 0.
PutAt(p, x) ==
    (IF \/ p.head \in {"~cat", "~cat[n]"} /\ p.name = x
        \/ p.head \in {"cat[n]", "~cat[n]"} /\ p.bound = x THEN {0} ELSE {})
        \cup {k \in DOMAIN p.parts :
                 \/ p.parts[k].kind \in WritesOne \cup {"~ops"} /\ p.parts[k].name = x
                 \/ p.parts[k].kind = "cat[n]" /\ p.parts[k].bound = x}

\* What the piece at a place gives an object that is written there.
Given(part, x, piece) ==
    IF part.kind = "~ops" THEN piece
    ELSE IF part.kind = "~op" THEN piece[1]
    ELSE IF part.kind = "cat[n]" THEN piece[1].lb
    ELSE piece[1].term

\* The objects with what a cut gives those that the pattern writes.
TdopValues(p, c, rule, before) ==
    [x \in DOMAIN before |->
        LET at == PutAt(p, x)
            k  == CHOOSE k \in at : TRUE
        IN  IF at = {} THEN before[x]
            ELSE IF k = 0 THEN IF p.name = x THEN rule.cat ELSE rule.ub
            ELSE IF Piece(c, rule.str, k) = <<>> /\ p.parts[k].kind # "~ops"
                 THEN before[x]
            ELSE Given(p.parts[k], x, Piece(c, rule.str, k))]

\* No object is written twice or read in front of where it is written.
WrittenOnce(p) ==
    \A x \in DOMAIN slots :
        /\ Cardinality(PutAt(p, x)) <= 1
        /\ \A k \in DOMAIN p.parts, j \in PutAt(p, x) :
               x \in {p.parts[k].name, p.parts[k].bound} => j <= k
        /\ p.head \in {"cat", "cat[n]"} /\ p.name = x => PutAt(p, x) = {}

\* RulePatternsRight: an aligned pattern matches a rule exactly if the rule is of
\* the head's sort and its operators can be cut as the pattern says, and the
\* objects then hold the pieces of the first such cut; no pattern writes an
\* object that it does not name or reads behind the last operator
\* (DestructuringBind and Match of tdop/Pattern.hpp).
RulePatternsRight ==
    ruleTried # <<>> =>
        LET p    == rulePattern
            v(c) == TdopValues(p, c, ruleTried.rule, ruleTried.before)
            cuts == {c \in Cuts(Len(p.parts), Len(ruleTried.rule.str)) :
                        TdopAgrees(p, c, ruleTried.rule, v(c))}
        IN  /\ ~ ruleTried.past
            /\ \A x \in DOMAIN slots :
                   PutAt(p, x) = {} => slots[x] = ruleTried.before[x]
            /\ Aligned(p) /\ WrittenOnce(p) =>
                   /\ ruleTried.ok <=> cuts # {}
                   /\ ruleTried.ok => \E c \in cuts :
                          /\ \A d \in cuts : ~ Precedes(d, c)
                          /\ slots = v(c)
=============================================================================
