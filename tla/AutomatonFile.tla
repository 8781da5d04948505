---------------------------- MODULE AutomatonFile ----------------------------
(* Reading an automaton (grail/include/io/fread_pda.hpp, which fread_nfa.hpp  *)
(* hands on to) in two passes, and writing one (fprint_pda.hpp).              *)
EXTENDS Scanning, Automaton

CONSTANTS
    AutomatonTexts,  \* files, as sequences of characters
    Automata         \* what is written and read back: records [aut, names, syms]

VARIABLES
    source,       \* what the file was written from, or Nothing
    autPass,      \* 1, 2, or 3 when done
    autReadAt,
    autStates,    \* <<prev_prev_state, prev_state, state>>
    starts,       \* num_start_states
    startName, startVal,
    machine,      \* the PDA and the maps of fread
    autAccepted   \* what fread returned

autVars == <<chars, seekable, source, autPass, autReadAt, autStates, starts, startName, startVal,
             machine, autAccepted>>

(* machine has the automaton, its symbols other than epsilon, by number, as   *)
(* <<"input", text>> or <<"stack", name>>, the names of states, the two maps  *)
(* from numbers and from names to states, and what the line has shown so far. *)
Empty == [aut |-> NewAutomaton, syms |-> <<>>, names |-> {}, numbered |-> {}, named |-> {},
          states |-> <<>>, symbols |-> <<>>]
Nothing == [aut |-> NewAutomaton, names |-> <<>>, syms |-> <<>>]

EntryOf(map, key) == (CHOOSE e \in map : e[1] = key)[2]
Knows(map, key) == \E e \in map : e[1] = key

-----------------------------------------------------------------------------
(* get_token<strict>; the words START and FINAL are letters here *)

AutCodepoints == Letters \cup Digits \cup {":", "$", "@"}

RECURSIVE AutToken(_, _)
AutToken(p, strict) ==
    LET c == CharAt(p)
        c2 == CharAt(p + 1)
        Strange(next) == IF strict THEN Tok("error", <<>>, next) ELSE AutToken(next, strict)
        word == FindSymbol(p + 1, <<>>, AutCodepoints, strict)
        comment == FindNext(p + 2, <<"*", "/">>, strict)
    IN  CASE c = EOF -> Tok("end", <<>>, p)
          [] c \in {"'", "\""} ->
               LET t == FindString(p + 1, c, strict)
               IN  IF t.type = "terminal" THEN Tok("input", t.text, t.next) ELSE t
          [] c = "," -> Tok("comma", <<>>, p + 1)
          [] c = "-" -> IF c2 = "|" THEN Tok("finalSet", <<>>, p + 2) ELSE Strange(p + 2)
          [] c = "|" -> IF c2 = "-" THEN Tok("startSet", <<>>, p + 2) ELSE Strange(p + 2)
          [] c = "(" -> IF CharAt(word.next) = ")" /\ word.text = <<"START">>
                        THEN Tok("start", <<>>, word.next + 1)
                        ELSE IF CharAt(word.next) = ")" /\ word.text = <<"FINAL">>
                        THEN Tok("final", <<>>, word.next + 1)
                        ELSE Strange(word.next + 1)
          [] c = "/" /\ c2 = "/" -> IgnoreLine(p + 2, strict)
          [] c = "/" /\ c2 = "*" -> IF ~ strict THEN AutToken(p + 2, strict)
                                      ELSE IF comment.type = "error" THEN comment
                                      ELSE AutToken(comment.next, strict)
          [] c = "/" /\ c2 \notin {"/", "*"} -> Tok("slash", <<>>, p + 1)
          [] c = "#" -> IgnoreLine(p + 1, strict)
          [] c = "\n" -> Tok("newline", <<>>, p + 1)
          [] c = "$" -> LET t == FindSymbol(p + 1, <<"$">>, NumericCodepoints, strict)
                        IN  Retyped(t, "stack")
          [] c = " " -> AutToken(p + 1, strict)
          [] c \in Digits -> LET t == FindSymbol(p + 1, <<c>>, NumericCodepoints, strict)
                             IN  Retyped(t, "number")
          [] c = "@" -> NotLong(word, "name")
          [] c \in Letters \cup {":"} -> NotLong(FindSymbol(p + 1, <<c>>, AutCodepoints, strict), "stack")
          [] OTHER -> Strange(p + 1)

-----------------------------------------------------------------------------
(* next_state, by its edges; what is not there goes to the sink *)

AutStart == 0
AutSeenStartSet == 4
AutSeenFinalSet == 7
AutFinal == 3
AutAddedAny == 5
AutAddedNFATrans == 8
AutSeenComma == 9
AutAddedNoPush == 11
AutSink == 12

Edges ==
    {<<0, "start", 2>>, <<0, "newline", 0>>, <<0, "end", 3>>, <<2, "startSet", 4>>,
     <<1, "finalSet", 7>>, <<7, "final", 5>>, <<5, "newline", 0>>, <<8, "comma", 9>>,
     <<8, "newline", 0>>, <<9, "slash", 11>>, <<10, "slash", 11>>, <<11, "newline", 0>>}
    \cup {<<q, type, p>> : type \in {"number", "name"}, <<q, p>> \in {<<0, 1>>, <<4, 5>>, <<6, 8>>}}
    \cup {<<q, type, p>> : type \in {"input", "stack"}, <<q, p>> \in {<<1, 6>>, <<9, 10>>, <<11, 5>>}}
AutNextState(q, type) ==
    LET to == {e \in Edges : e[1] = q /\ e[2] = type}
    IN  IF to = {} THEN AutSink ELSE (CHOOSE e \in to : TRUE)[3]

-----------------------------------------------------------------------------
(* fprint *)

PrintedState(names, q) ==
    IF Knows(names, q) THEN <<"@">> \o EntryOf(names, q)
    ELSE IF q < 10 THEN <<ToString(q)>> ELSE <<ToString(q \div 10), ToString(q % 10)>>
PrintedEntry(syms, x) ==
    IF x = 0 THEN Epsilon
    ELSE IF syms[x][1] = "input" THEN <<"\"">> \o syms[x][2] \o <<"\"">> ELSE syms[x][2]
PrintedTrans(s, t) ==
    PrintedState(s.names, t.source) \o <<" ">> \o PrintedEntry(s.syms, t.read) \o <<" ">>
        \o PrintedState(s.names, t.sink) \o <<",", " ">> \o PrintedEntry(s.syms, t.pop)
        \o <<" ", "/", " ">> \o PrintedEntry(s.syms, t.push) \o <<"\n">>
PrintedAutomaton(s) ==
    LET accept == SetToSortSeq(s.aut.accept, LAMBDA q, p : q < p)
        walk == Walk(s.aut)
    IN  IF accept = <<>> THEN <<>>
        ELSE <<"(", "START", ")", " ", "|", "-", " ">> \o PrintedState(s.names, s.aut.start) \o <<"\n">>
             \o FlattenSeq([i \in DOMAIN accept |->
                  PrintedState(s.names, accept[i]) \o <<" ", "-", "|", " ", "(", "FINAL", ")", "\n">>])
             \o FlattenSeq([i \in DOMAIN walk |-> PrintedTrans(s, walk[i])]) \o <<"\n">>

-----------------------------------------------------------------------------
(* fread *)

AutInit ==
    /\ \/ chars \in AutomatonTexts /\ source = Nothing
       \/ source \in Automata /\ chars = PrintedAutomaton(source)
    /\ seekable \in BOOLEAN
    /\ autPass = 1 /\ autReadAt = 0 /\ autStates = <<AutSink, AutSink, AutStart>>
    /\ starts = 0 /\ startName = <<>> /\ startVal = <<>>
    /\ machine = Empty /\ autAccepted = FALSE

\* strtoul: zeros in front do not count, and no digits at all are 0.
RECURSIVE Value(_)
Value(text) == IF text # <<>> /\ text[1] = "0" THEN Value(Tail(text)) ELSE text

\* The first pass looks for errors, and for the start state if there is one;
\* then its number is known, 0 if it has a name.
AutFirstPass ==
    /\ autPass = 1
    /\ LET tt == AutToken(autReadAt, TRUE)
           s == AutNextState(autStates[3], tt.type)
           first == autStates[3] = AutSeenStartSet /\ starts = 0
           count == starts + (IF autStates[3] = AutSeenStartSet THEN 1 ELSE 0)
       IN  IF tt.type = "error"
           THEN autPass' = 3 /\ UNCHANGED <<autReadAt, autStates, starts, startName, startVal, machine>>
           ELSE /\ starts' = count
                /\ startName' = IF first THEN tt.text ELSE startName
                /\ startVal' = IF first /\ tt.type = "number" THEN Value(tt.text) ELSE startVal
                /\ IF s = AutFinal
                   THEN /\ autPass' = 2 /\ autReadAt' = Rewound /\ autStates' = <<AutSink, AutSink, AutStart>>
                        /\ machine' = IF count = 1
                                      THEN [Empty EXCEPT !.numbered = {<<startVal, Empty.aut.start>>}]
                                      ELSE Empty
                   ELSE /\ autPass' = IF s = AutSink THEN 3 ELSE 1
                        /\ autReadAt' = tt.next /\ autStates' = <<autStates[2], autStates[3], s>>
                        /\ UNCHANGED machine
    /\ UNCHANGED <<chars, seekable, source, autAccepted>>

\* get_alphabet_symbol and get_stack_symbol
WithSymbol(m, entry) ==
    LET i == SelectInSeq(m.syms, LAMBDA e : e = entry)
    IN  IF i # 0 THEN [m EXCEPT !.symbols = Append(@, i)]
        ELSE [m EXCEPT !.syms = Append(@, entry), !.symbols = Append(@, Len(m.syms) + 1)]

NumberedState(m, value) ==
    LET new == NumStates(m.aut)
    IN  IF starts = 1 /\ value = startVal THEN [m EXCEPT !.states = Append(@, m.aut.start)]
        ELSE IF Knows(m.numbered, value) THEN [m EXCEPT !.states = Append(@, EntryOf(m.numbered, value))]
        ELSE [m EXCEPT !.aut = AddState(@), !.numbered = @ \cup {<<value, new>>},
                       !.states = Append(@, new)]

NamedStateAlwaysNew(m, name) ==
    LET q == NumStates(m.aut)
    IN  IF Knows(m.named, name) THEN [m EXCEPT !.states = Append(@, EntryOf(m.named, name))]
        ELSE [m EXCEPT !.aut = AddState(@), !.names = @ \cup {<<q, name>>},
                       !.named = @ \cup {<<name, q>>}, !.states = Append(@, q)]
NamedState(m, name) ==
    LET isStart == starts = 1 /\ name = startName
        q == IF isStart THEN m.aut.start ELSE NumStates(m.aut)
    IN  IF Knows(m.named, name) THEN [m EXCEPT !.states = Append(@, EntryOf(m.named, name))]
        ELSE [m EXCEPT !.aut = IF isStart THEN @ ELSE AddState(@), !.names = @ \cup {<<q, name>>},
                       !.named = @ \cup {<<name, q>>}, !.states = Append(@, q)]

Noted(m, tt) ==
    CASE tt.type = "input" -> WithSymbol(m, <<"input", tt.text>>)
      [] tt.type = "stack" -> IF tt.text = Epsilon THEN [m EXCEPT !.symbols = Append(@, 0)]
                              ELSE WithSymbol(m, <<"stack", tt.text>>)
      [] tt.type = "number" -> NumberedState(m, Value(tt.text))
      [] tt.type = "name" -> NamedState(m, tt.text)
      [] OTHER -> m

\* The line ends in s, after the states prevprev and prev: what does it add?
\* popped and pushed tell which of the symbols are popped and pushed, if any.
Adding(m, popped, pushed) ==
    [m EXCEPT !.aut = Add(@, Trans(m.states[1], m.symbols[1],
                                   IF popped THEN m.symbols[2] ELSE 0,
                                   IF ~ pushed THEN 0 ELSE m.symbols[IF popped THEN 3 ELSE 2],
                                   m.states[2]))]
LineEnd(m, prevprev, prev, s) ==
    CASE s = AutStart /\ prev = AutAddedNoPush -> Adding(m, prevprev # AutSeenComma, FALSE)
      [] s = AutStart /\ prev = AutAddedNFATrans -> Adding(m, FALSE, FALSE)
      [] s = AutAddedAny /\ prev = AutAddedNoPush -> Adding(m, prevprev # AutSeenComma, TRUE)
      [] s = AutAddedAny /\ prev = AutSeenStartSet -> [m EXCEPT !.aut = AddStart(@, m.states[1])]
      [] s = AutAddedAny /\ prev = AutSeenFinalSet -> [m EXCEPT !.aut.accept = @ \cup {m.states[1]}]
      [] OTHER -> m

\* Only input symbols and epsilon may be read: add_transition asserts it.
Aborts(m, prev, s) ==
    /\ \/ s = AutStart /\ prev \in {AutAddedNoPush, AutAddedNFATrans}
       \/ s = AutAddedAny /\ prev = AutAddedNoPush
    /\ m.symbols[1] # 0 /\ m.syms[m.symbols[1]][1] = "stack"

AutSecondPass ==
    /\ autPass = 2
    /\ LET tt == AutToken(autReadAt, FALSE)
           s == AutNextState(autStates[3], tt.type)
           noted == Noted(machine, tt)
           ended == LineEnd(noted, autStates[2], autStates[3], s)
       IN  /\ tt.type # "hang" /\ autReadAt' = tt.next
           /\ IF Aborts(noted, autStates[3], s)
              THEN autPass' = 3 /\ machine' = noted /\ UNCHANGED <<autStates, autAccepted>>
              ELSE /\ machine' = IF s = AutStart THEN [ended EXCEPT !.states = <<>>, !.symbols = <<>>]
                                 ELSE ended
                   /\ autStates' = CASE s = AutStart -> <<s, s, s>>
                                     [] s = AutAddedAny -> <<autStates[2], AutSink, s>>
                                     [] OTHER -> <<autStates[2], autStates[3], s>>
                   /\ autPass' = IF s = AutFinal THEN 3 ELSE 2
                   /\ autAccepted' = (s = AutFinal)
    /\ UNCHANGED <<chars, seekable, source, starts, startName, startVal>>

AutStopped ==
    /\ autPass = 3 \/ (autPass = 2 /\ AutToken(autReadAt, FALSE).type = "hang")
    /\ UNCHANGED autVars

AutNext == AutFirstPass \/ AutSecondPass \/ AutStopped
AutSpec == AutInit /\ [][AutNext]_autVars

-----------------------------------------------------------------------------
(* What a file says, line by line.  A state is called by a number or a name.  *)

AutTokens ==
    LET from[p \in Nat] ==
          LET t == AutToken(p, TRUE)
          IN  IF t.type \in {"end", "error"} THEN <<t>> ELSE <<t>> \o from[t.next]
    IN  from[0]
AutAgreed ==
    LET from[p \in Nat] ==
          LET t == AutToken(p, TRUE)
          IN  t.type = "error" \/ (AutToken(p, FALSE) = t /\ (t.type = "end" \/ from[t.next]))
    IN  from[0]

IsState(t) == t.type \in {"number", "name"}
IsSym(t) == t.type \in {"input", "stack"}
Called(t) == IF t.type = "number" THEN <<"number", Value(t.text)>> ELSE <<"name", t.text>>

\* The lines of the file, as sequences of tokens.
Lines ==
    FoldLeft(LAMBDA ls, t : IF t.type = "newline" THEN Append(ls, <<>>) ELSE [ls EXCEPT ![Len(ls)] = Append(@, t)],
             <<<<>>>>, AutTokens)
StartLines == {l \in ToSet(Lines) : Len(l) = 3 /\ l[1].type = "start"}
FinalLines == {l \in ToSet(Lines) : Len(l) = 3 /\ l[2].type = "finalSet"}
TransLines == {l \in ToSet(Lines) : Len(l) >= 3 /\ IsState(l[1]) /\ IsSym(l[2])}

StateOf(t) == IF t.type = "number" THEN EntryOf(machine.numbered, Value(t.text))
              ELSE EntryOf(machine.named, t.text)
SymbolOf(t) == IF t.type = "stack" /\ t.text = Epsilon THEN 0
               ELSE SelectInSeq(machine.syms, LAMBDA e : e = <<t.type, t.text>>)
Said(l) == Trans(StateOf(l[1]), SymbolOf(l[2]),
                 IF Len(l) >= 5 /\ IsSym(l[5]) THEN SymbolOf(l[5]) ELSE 0,
                 IF Len(l) > 4 /\ IsSym(l[Len(l)]) THEN SymbolOf(l[Len(l)]) ELSE 0,
                 StateOf(l[3]))

\* A single start state with a name is also number 0, and one with a number
\* also has that number as a name.
TwiceNamed(calls) ==
    starts = 1 /\ \E l \in StartLines : \E c \in calls :
        c[1] # l[3].type /\ c[2] = IF l[3].type = "name" THEN <<>> ELSE l[3].text

\* An automaton is read into what its file says: a state for each number and
\* each name, the transitions, the accepting states, and the start state, or
\* epsilon transitions to the start states if there are several lines for them.
AutomatonRead ==
    autAccepted /\ seekable /\ AutAgreed =>
        LET toks == {t \in ToSet(AutTokens) : IsState(t)}
            entries == {StateOf(l[3]) : l \in StartLines}
        IN  ~ TwiceNamed({Called(t) : t \in toks}) =>
              /\ \A t, u \in toks : StateOf(t) = StateOf(u) <=> Called(t) = Called(u)
              /\ machine.aut.accept = {StateOf(l[1]) : l \in FinalLines}
              /\ starts = 1 => entries = {machine.aut.start}
              /\ Live(machine.aut) =
                   {Said(l) : l \in TransLines}
                     \cup {Trans(machine.aut.start, 0, 0, 0, q) : q \in entries \ {machine.aut.start}}

\* An automaton that is written is read back: the states are numbered anew,
\* but nothing else changes, if its searches find everything.
AutomatonReadsBack ==
    source # Nothing /\ seekable /\ source.aut.accept # {} /\ autPass = 3 =>
        /\ autAccepted
        /\ \E f \in [States(source.aut) -> States(machine.aut)] :
             /\ f[source.aut.start] = machine.aut.start
             /\ machine.aut.accept = {f[q] : q \in source.aut.accept}
             /\ {PrintedTrans([names |-> {}, syms |-> machine.syms], t) : t \in Live(machine.aut)} =
                  {PrintedTrans([names |-> {}, syms |-> source.syms],
                                [t EXCEPT !.source = f[@], !.sink = f[@]]) : t \in ToSet(Walk(source.aut))}

\* An automaton that is in a file, by hand or by the writer, is the automaton
\* that the two passes of the reader come to, up to the numbers of its states,
\* if the file can be read twice.
AutomatonKept == AutomatonRead /\ AutomatonReadsBack
=============================================================================
