------------------------------ MODULE Patterns ------------------------------
(***************************************************************************)
(* Patterns over productions (cfg/Pattern.hpp, helper/Pattern.hpp): a head   *)
(* and a row of parts that read or write objects of the caller.  A part       *)
(* works on the objects themselves while the match runs, so what an earlier    *)
(* part of the same match wrote is what a later part compares with.           *)
(*                                                                           *)
(* A part is a record of its kind and of the object it names.                 *)
(***************************************************************************)
EXTENDS Integers, Sequences, FiniteSets, SequencesExt

CONSTANTS
    PatternChoices, \* the patterns tried: records [head, name, parts]
    Bindings,       \* what the objects may hold at first: functions from names
    Bodies,         \* right-hand sides of productions
    PatVariables,   \* the symbols that are variables
    MaxTries        \* bound on the productions tried with one pattern

VARIABLES
    pattern,    \* the pattern in use
    objects,    \* what each object of the caller holds
    tried,      \* the last match: [head, body, before, ok, past], <<>> at first
    tries       \* productions tried

patternVars == <<pattern, objects, tried, tries>>

-----------------------------------------------------------------------------
ReadsSymbol  == {"symbol", "variable", "terminal"}
WritesSymbol == {"~symbol", "~variable", "~terminal"}
\* The parts that stand for exactly one symbol.
Single       == ReadsSymbol \cup WritesSymbol \cup {"any"}

MinAfter(parts, k) ==
    Cardinality({j \in k + 1 .. Len(parts) : parts[j].kind \in Single})
MinNumSymbols(parts) == MinAfter(parts, 0)

Variadic(part) == part.kind \in {"~string", "any*"}

\* Behind a part that takes any string the builder has no overload for a
\* given string: it becomes another part that takes any string.
Built(parts) ==
    [k \in DOMAIN parts |->
        IF parts[k].kind = "string" /\ k > 1 /\ Variadic(parts[k - 1])
        THEN [parts[k] EXCEPT !.kind = "any*"]
        ELSE parts[k]]

Outcome(ok, o, past) == [ok |-> ok, objects |-> o, past |-> past]

\* Whether the part takes the first symbol of s.
Accepts(part, s, o) ==
    CASE part.kind \in ReadsSymbol -> s[1] = o[part.name]
      [] part.kind = "~variable"   -> s[1] \in PatVariables
      [] part.kind = "~terminal"   -> s[1] \notin PatVariables
      [] OTHER                     -> TRUE

Written(part, s, o) ==
    IF part.kind \in WritesSymbol THEN [o EXCEPT ![part.name] = s[1]] ELSE o

RECURSIVE Fit(_, _, _, _), FitFrom(_, _, _, _, _)

\* Mutant of FitGiven: it does not ask for the symbols of the parts behind.
FitGivenShort(parts, k, s, o) ==
    LET part == parts[k]
        n    == IF part.kind = "string" THEN Len(o[part.name]) ELSE o[part.name]
    IN  IF \/ n > Len(s)
           \/ k = Len(parts) /\ n # Len(s)
           \/ part.kind = "string" /\ SubSeq(s, 1, n) # o[part.name]
        THEN Outcome(FALSE, o, FALSE)
        ELSE IF k = Len(parts) THEN Outcome(TRUE, o, FALSE)
        ELSE Fit(parts, k + 1, SubSeq(s, n + 1, Len(s)), o)

\* One symbol, then the rest.  The last of the parts that write a symbol only
\* checks that no more than one is left.
FitSingle(parts, k, s, o) ==
    LET part == parts[k]
        last == k = Len(parts)
    IN  IF last /\ Len(s) > 1 THEN Outcome(FALSE, o, FALSE)
        ELSE IF s = <<>>
        THEN Outcome(FALSE, o, last /\ part.kind \in WritesSymbol)
        ELSE IF ~ Accepts(part, s, o) THEN Outcome(FALSE, o, FALSE)
        ELSE IF last THEN Outcome(TRUE, Written(part, s, o), FALSE)
        ELSE Fit(parts, k + 1, Tail(s), Written(part, s, o))

\* A given string, or a given number of symbols, then the rest.
FitGiven(parts, k, s, o) ==
    LET part == parts[k]
        n    == IF part.kind = "string" THEN Len(o[part.name]) ELSE o[part.name]
    IN  IF \/ n > Len(s)
           \/ Len(s) - n < MinAfter(parts, k)
           \/ k = Len(parts) /\ n # Len(s)
           \/ part.kind = "string" /\ SubSeq(s, 1, n) # o[part.name]
        THEN Outcome(FALSE, o, FALSE)
        ELSE IF k = Len(parts) THEN Outcome(TRUE, o, FALSE)
        ELSE Fit(parts, k + 1, SubSeq(s, n + 1, Len(s)), o)

\* Any string: the shortest for which the rest matches.  The number of lengths
\* to try is an unsigned difference.
FitFrom(parts, k, i, s, o) ==
    LET part  == parts[k]
        bound == IF part.kind = "~string"
                 THEN [o EXCEPT ![part.name] = SubSeq(s, 1, i)] ELSE o
        rest  == Fit(parts, k + 1, SubSeq(s, i + 1, Len(s)), bound)
    IN  IF i > Len(s) - MinAfter(parts, k)
        THEN Outcome(FALSE,
                     IF part.kind = "~string"
                     THEN [o EXCEPT ![part.name] = <<>>] ELSE o, FALSE)
        ELSE IF rest.ok \/ rest.past THEN rest
        ELSE FitFrom(parts, k, i + 1, s, rest.objects)

FitVariadic(parts, k, s, o) ==
    LET part == parts[k]
    IN  IF k = Len(parts)
        THEN Outcome(TRUE,
                     IF part.kind = "~string" THEN [o EXCEPT ![part.name] = s]
                     ELSE o, FALSE)
        ELSE IF Len(s) < MinAfter(parts, k) THEN Outcome(FALSE, o, TRUE)
        ELSE FitFrom(parts, k, 0, s, o)

\* The parts from k on against the symbols s.
Fit(parts, k, s, o) ==
    CASE parts[k].kind \in Single           -> FitSingle(parts, k, s, o)
      [] parts[k].kind \in {"string", "^n"} -> FitGiven(parts, k, s, o)
      [] OTHER                              -> FitVariadic(parts, k, s, o)

ResetStrings(parts, o) ==
    [x \in DOMAIN o |->
        IF \E k \in DOMAIN parts : parts[k].kind = "~string" /\ parts[k].name = x
        THEN <<>> ELSE o[x]]

\* The head first, then the body: DestructuringBind.
Destructure(p, head, body, o) ==
    LET parts == Built(p.parts)
        o0    == ResetStrings(parts, o)
        o1    == IF p.head = "~variable" THEN [o0 EXCEPT ![p.name] = head] ELSE o0
    IN  IF \/ p.head = "variable" /\ o1[p.name] # head
           \/ Len(body) < MinNumSymbols(parts)
        THEN Outcome(FALSE, o1, FALSE)
        ELSE Fit(parts, 1, body, o1)

-----------------------------------------------------------------------------
PatternInit ==
    /\ pattern \in PatternChoices
    /\ objects \in Bindings
    /\ tried = <<>>
    /\ tries = 0

\* The search hands one production after another to the same pattern.
TryProduction(head, body) ==
    LET r == Destructure(pattern, head, body, objects)
    IN  /\ tries < MaxTries
        /\ objects' = r.objects
        /\ tried' = [head |-> head, body |-> body, before |-> objects,
                     ok |-> r.ok, past |-> r.past]
        /\ tries' = tries + 1
        /\ UNCHANGED pattern

PatternNext == \E head \in PatVariables, body \in Bodies : TryProduction(head, body)

PatternSpec == PatternInit /\ [][PatternNext]_patternVars

-----------------------------------------------------------------------------
\* What a pattern says, read without regard to how it is matched: the body is
\* cut into as many pieces as there are parts, each piece is of its part's
\* kind, and all the parts that name an object agree on what it holds.
Cuts(n, size) ==
    {c \in [0 .. n -> 0 .. size] :
        c[0] = 0 /\ c[n] = size /\ \A k \in 1 .. n : c[k - 1] <= c[k]}

Piece(c, body, k) == SubSeq(body, c[k - 1] + 1, c[k])

KindOK(part, piece, v) ==
    CASE part.kind \in ReadsSymbol \cup {"~symbol"} -> piece = <<v[part.name]>>
      [] part.kind = "~variable" ->
             piece = <<v[part.name]>> /\ v[part.name] \in PatVariables
      [] part.kind = "~terminal" ->
             piece = <<v[part.name]>> /\ v[part.name] \notin PatVariables
      [] part.kind = "any"                 -> Len(piece) = 1
      [] part.kind \in {"string", "~string"} -> piece = v[part.name]
      [] part.kind = "^n"                  -> Len(piece) = v[part.name]
      [] OTHER                             -> TRUE

Writes(p, k)  == p.parts[k].kind \in WritesSymbol \cup {"~string"}
HeadWrites(p) == p.head = "~variable"
WrittenBy(p, x) ==
    (IF HeadWrites(p) /\ p.name = x THEN {0} ELSE {})
        \cup {k \in DOMAIN p.parts : Writes(p, k) /\ p.parts[k].name = x}

\* The objects with what a cut of the body gives the parts that write them.
Values(p, c, head, body, before) ==
    [x \in DOMAIN before |->
        IF WrittenBy(p, x) = {} THEN before[x]
        ELSE LET k == CHOOSE k \in WrittenBy(p, x) : TRUE
             IN  IF k = 0 THEN head
                 ELSE IF p.parts[k].kind = "~string" THEN Piece(c, body, k)
                 ELSE IF Piece(c, body, k) = <<>> THEN before[x]
                 ELSE Piece(c, body, k)[1]]

Agrees(p, c, head, body, before) ==
    LET v == Values(p, c, head, body, before)
    IN  /\ p.head = "variable" => v[p.name] = head
        /\ \A k \in DOMAIN p.parts : KindOK(p.parts[k], Piece(c, body, k), v)

\* The patterns for which this is what the code decides: no object is written
\* twice or read before the part that writes it, and no given string stands
\* right behind a part that takes any string (see Built).
Plain(p) ==
    /\ \A x \in {p.name} \cup {p.parts[k].name : k \in DOMAIN p.parts} :
           /\ Cardinality(WrittenBy(p, x)) <= 1
           /\ \A k \in DOMAIN p.parts, j \in WrittenBy(p, x) :
                  p.parts[k].name = x => j <= k
           /\ p.head = "variable" /\ p.name = x => WrittenBy(p, x) = {}
    /\ Built(p.parts) = p.parts

Precedes(c, d) ==
    \E k \in DOMAIN c : c[k] < d[k] /\ \A j \in DOMAIN c : j < k => c[j] = d[j]

\* PatternsRight: a pattern accepts a production exactly if the body can be cut
\* as the pattern says, whatever earlier attempts left in the objects; of the
\* cuts it takes the one that gives the leftmost strings as little as possible,
\* the objects then hold that cut's pieces, and after a failure the strings it
\* would have written are empty.  No part reads behind the end of the body and
\* no difference of lengths wraps around (DestructuringBind, Match,
\* GetMinNumSymbolsAfter, ResetPattern).
PatternsRight ==
    tried # <<>> =>
        LET p    == pattern
            cuts == {c \in Cuts(Len(p.parts), Len(tried.body)) :
                        Agrees(p, c, tried.head, tried.body, tried.before)}
        IN  /\ ~ tried.past
            /\ Plain(p) =>
                   /\ tried.ok <=> cuts # {}
                   /\ tried.ok => \E c \in cuts :
                          /\ \A d \in cuts : ~ Precedes(d, c)
                          /\ objects = Values(p, c, tried.head, tried.body,
                                              tried.before)
                   /\ ~ tried.ok => \A k \in DOMAIN p.parts :
                          p.parts[k].kind = "~string"
                              => objects[p.parts[k].name] = <<>>
=============================================================================
