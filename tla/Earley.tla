------------------------------- MODULE Earley -------------------------------
(* CFG_PARSE_EARLEY (grail/include/algorithm) on a tokenised word.  A step   *)
(* is one turn of the innermost loop that is running.  Sets and positions    *)
(* are counted from 1, so set k holds what is known before token k.          *)
EXTENDS ContextFree

CONSTANTS
    EarleyInputs,  \* what the parser is run on
    Unknown        \* a token that is no terminal of the grammar

(* An input is a record: rules, the productions in the order searches find   *)
(* them; start, the start variable or 0; null and first, the sets of         *)
(* FixedPoints; predict, whether first is used; varTerms, the variable       *)
(* terminals; word, the tokens.  spans is used by the properties only.       *)

VARIABLES
    input,
    sets,      \* the Earley sets, each in the order of its items
    index,     \* set_index of the current set: its items, by initial set
    nextIndex, \* set_index of the next set
    at,        \* curr_set
    pos,       \* curr_item, as a position in the set
    rel,       \* rel_item, as a position in the initial set, or what
               \* predictor_related is at, as a position in the rules
    phase,     \* which loop is running
    result     \* parse_result

earleyVars == <<input, sets, index, nextIndex, at, pos, rel, phase, result>>

SV == 0  \* the fake start variable
SP == <<SV, <<input.start>>>>

Item(rule, dot, from) == [rule |-> rule, dot |-> dot, from |-> from]
AtEnd(it) == it.dot = Len(it.rule[2])
Looking(it) == it.rule[2][it.dot + 1]  \* the symbol behind the dot
ScannedHere(it) == [it EXCEPT !.dot = @ + 1, !.from = at]
Scanned(it) == [it EXCEPT !.dot = @ + 1]

NotAtEnd == at <= Len(input.word)
Token == input.word[at]
IsKnown(tok) == tok # Unknown
Match(in, tok, a) == IF IsKnown(tok) THEN a = tok ELSE a \in in.varTerms

Current == sets[at][pos]

-----------------------------------------------------------------------------
(* indexed_push: the items of a set with the same initial set are chained in  *)
(* the order of their dots; a new item is looked for up to the first greater  *)
(* dot.                                                                       *)

PlaceOf(chain, it) ==
    LET stops == {i \in DOMAIN chain : it.dot < chain[i].dot \/ it = chain[i]}
    IN  IF stops = {} THEN Len(chain) + 1 ELSE CHOOSE i \in stops : \A j \in stops : i <= j

IsIn(chain, it) == PlaceOf(chain, it) <= Len(chain) /\ chain[PlaceOf(chain, it)] = it
Chained(idx, it) ==
    LET chain == idx[it.from]
        i == PlaceOf(chain, it)
    IN  [idx EXCEPT ![it.from] =
            SubSeq(chain, 1, i - 1) \o <<it>> \o SubSeq(chain, i, Len(chain))]

\* Push the item on the current set, or nothing.
Push(it) ==
    IF IsIn(index[it.from], it) THEN UNCHANGED <<sets, index>>
    ELSE sets' = [sets EXCEPT ![at] = Append(@, it)] /\ index' = Chained(index, it)
PushIf(c, it) == IF c THEN Push(it) ELSE UNCHANGED <<sets, index>>

EmptyIndex == [k \in 1 .. Len(input.word) + 1 |-> <<>>]

-----------------------------------------------------------------------------
WorthParsing == \E i \in DOMAIN input.rules : input.rules[i][1] = input.start

\* A grammar without productions accepts the empty word.
EarleyInit ==
    /\ input \in EarleyInputs
    /\ sets = <<<<Item(SP, 0, 1)>>>>
    /\ index = EmptyIndex /\ nextIndex = EmptyIndex
    /\ at = 1 /\ pos = 1 /\ rel = 1
    /\ phase = IF WorthParsing THEN "set" ELSE "done"
    /\ result = (~ WorthParsing /\ input.word = <<>>)

Stop(verdict) == phase' = "done" /\ result' = verdict

ReadToken ==
    /\ phase = "set"
    /\ IF NotAtEnd /\ ~ IsKnown(Token) /\ input.varTerms = {}
       THEN Stop(FALSE)
       ELSE phase' = "items" /\ UNCHANGED result
    /\ pos' = 1
    /\ UNCHANGED <<input, sets, index, nextIndex, at, rel>>

PredictNoneNull ==
    /\ phase = "items" /\ pos <= Len(sets[at])
    /\ ~ AtEnd(Current) /\ Looking(Current) \in Variables
    /\ IF /\ input.predict /\ NotAtEnd /\ IsKnown(Token)
          /\ Token \notin input.first[Looking(Current)]
       THEN pos' = pos + 1 /\ UNCHANGED <<phase, rel>>
       ELSE phase' = "predict" /\ rel' = 1 /\ UNCHANGED pos
    /\ UNCHANGED <<input, sets, index, nextIndex, at, result>>
\* The predictor: passes a nullable variable, and adds its productions unless
\* the first sets say that none can begin with the token.
Predict ==
    /\ phase = "items" /\ pos <= Len(sets[at])
    /\ ~ AtEnd(Current) /\ Looking(Current) \in Variables
    /\ PushIf(Looking(Current) \in input.null, Scanned(Current))
    /\ IF /\ input.predict /\ NotAtEnd /\ IsKnown(Token)
          /\ Token \notin input.first[Looking(Current)]
       THEN pos' = pos + 1 /\ UNCHANGED <<phase, rel>>
       ELSE phase' = "predict" /\ rel' = 1 /\ UNCHANGED pos
    /\ UNCHANGED <<input, nextIndex, at, result>>
PredictNext ==
    /\ phase = "predict"
    /\ IF rel <= Len(input.rules)
       THEN /\ PushIf(input.rules[rel][1] = Looking(Current), Item(input.rules[rel], 0, at))
            /\ rel' = rel + 1 /\ UNCHANGED <<phase, pos>>
       ELSE phase' = "items" /\ pos' = pos + 1 /\ UNCHANGED <<sets, index, rel>>
    /\ UNCHANGED <<input, nextIndex, at, result>>

\* The completer goes over the initial set of the item, which may be the
\* current one and grow.
Complete ==
    /\ phase = "items" /\ pos <= Len(sets[at]) /\ AtEnd(Current)
    /\ phase' = "complete" /\ rel' = 1
    /\ UNCHANGED <<input, sets, index, nextIndex, at, pos, result>>
Related == sets[Current.from][rel]
CompleteNext ==
    /\ phase = "complete"
    /\ IF rel <= Len(sets[Current.from])
       THEN /\ PushIf(~ AtEnd(Related) /\ Looking(Related) = Current.rule[1], Scanned(Related))
            /\ rel' = rel + 1 /\ UNCHANGED <<phase, pos>>
       ELSE phase' = "items" /\ pos' = pos + 1 /\ UNCHANGED <<sets, index, rel>>
    /\ UNCHANGED <<input, nextIndex, at, result>>

\* The scanner; the next set and its index are made for its first item.
Scan ==
    /\ phase = "items" /\ pos <= Len(sets[at])
    /\ ~ AtEnd(Current) /\ Looking(Current) \notin Variables
    /\ LET it == Scanned(Current)
           fresh == Len(sets) = at
       IN  IF NotAtEnd /\ Match(input, Token, Looking(Current))
           THEN IF fresh
                THEN sets' = Append(sets, <<it>>) /\ nextIndex' = Chained(EmptyIndex, it)
                ELSE IF IsIn(nextIndex[it.from], it) THEN UNCHANGED <<sets, nextIndex>>
                ELSE /\ sets' = [sets EXCEPT ![at + 1] = Append(@, it)]
                     /\ nextIndex' = Chained(nextIndex, it)
           ELSE UNCHANGED <<sets, nextIndex>>
    /\ pos' = pos + 1
    /\ UNCHANGED <<input, index, at, rel, phase, result>>

\* All items were looked at: on to the next set, or to the verdict.
NextSet ==
    /\ phase = "items" /\ pos > Len(sets[at])
    /\ IF NotAtEnd /\ at < Len(sets)
       THEN /\ at' = at + 1 /\ phase' = "set" /\ UNCHANGED result
            /\ index' = nextIndex /\ nextIndex' = index
       ELSE /\ Stop(~ NotAtEnd /\ \E i \in DOMAIN sets[at] : /\ sets[at][i].dot = 1
                                                               /\ sets[at][i].rule[1] = SV)
            /\ UNCHANGED <<at, index, nextIndex>>
    /\ UNCHANGED <<input, sets, pos, rel>>

EarleyStep ==
    ReadToken \/ Predict \/ PredictNext \/ Complete \/ CompleteNext \/ Scan \/ NextSet
EarleyDone == phase = "done" /\ UNCHANGED earleyVars
EarleyNext == EarleyStep \/ EarleyDone
EarleySpec == EarleyInit /\ [][EarleyNext]_earleyVars

-----------------------------------------------------------------------------
(* What the items say.  Covers, Covered and Closed belong to the properties:  *)
(* spans holds triples <<A, j, k>>, "A derives the tokens from j up to before *)
(* k", and is closed under the rules.                                         *)

Positions(in) == 1 .. Len(in.word) + 1
Covers(in, X, j, k) ==
    IF X \in Variables THEN <<X, j, k>> \in in.spans
    ELSE j \in DOMAIN in.word /\ k = j + 1 /\ Match(in, in.word[j], X)
\* The first n symbols of w cover the tokens from j up to before k: there are
\* cuts between what each of them covers.
Covered(in, w, n, j, k) ==
    \E cuts \in [0 .. n -> Positions(in)] :
        /\ cuts[0] = j /\ cuts[n] = k
        /\ \A i \in 1 .. n : Covers(in, w[i], cuts[i - 1], cuts[i])
Closed(in) ==
    /\ \A i \in DOMAIN in.rules : \A j, k \in Positions(in) :
         Covered(in, in.rules[i][2], Len(in.rules[i][2]), j, k) => <<in.rules[i][1], j, k>> \in in.spans
    /\ \A v \in in.null : \A k \in Positions(in) : <<v, k, k>> \in in.spans

ASSUME EarleyAssumption ==
    /\ SV \notin Terminals
    /\ \A in \in EarleyInputs :
         /\ in.rules \in Seq(Rules) /\ in.start \in Variables \cup {0}
         /\ in.word \in Seq(Terminals \cup {Unknown})
         /\ Closed(in)

\* An item is in a set only if what is before its dot covers the tokens from
\* its initial set up to this one.
ItemsCovered ==
    \A k \in DOMAIN sets : \A i \in DOMAIN sets[k] :
        LET it == sets[k][i] IN Covered(input, it.rule[2], it.dot, it.from, k)

\* No item is in a set twice, although only the chain of its initial set is
\* searched, and that only up to a greater dot: this is what ends the loops.
NoneTwice ==
    \A k \in DOMAIN sets : \A i, j \in DOMAIN sets[k] : sets[k][i] = sets[k][j] => i = j

\* The parser says yes exactly to what the start variable derives, if
\* input.spans is what the rules derive, whether it predicts or not.
Verdict ==
    phase = "done" /\ WorthParsing =>
        (result <=> <<input.start, 1, Len(input.word) + 1>> \in input.spans)

\* The chart of a word, however its items come in: none is there twice, so it
\* is finished, and then it tells whether the start variable derives the word.
ChartRight == NoneTwice /\ Verdict
=============================================================================
