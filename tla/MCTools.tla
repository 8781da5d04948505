------------------------------- MODULE MCTools -------------------------------
(***************************************************************************)
(* What a command does before and behind the grammar: the options, the        *)
(* buffer, the two readers with their writers, and the Earley parser.  Each    *)
(* behaviour is one of the five at work on one of its inputs; the others stay   *)
(* at one initial state.                                                     *)
(***************************************************************************)
EXTENDS Earley, CommandLine, TextBuffer, GrammarFile, AutomatonFile, FiniteSetsExt

VARIABLE who  \* the module at work

Seqs(S, n) == UNION {[1 .. k -> S] : k \in 0 .. n}
Flat(S)    == {FlattenSeq(s) : s \in S}

-----------------------------------------------------------------------------
(* Earley: the grammars of two variables with a unit rule, recursion on         *)
(* either side and nullable variables; 13 is a variable terminal, 0 a token     *)
(* that names no terminal.                                                     *)

MCVariables == 1 .. 2
MCTerminals == {11, 12, 13}
MCWords == Seqs({11, 12, 0}, 2) \cup {<<11, 11, 12>>, <<11, 0, 12>>, <<0, 12, 11>>}

\* What the rules derive between two places of the word, by iteration.
Spanned(in) ==
    LET joined(R, Q) == {<<p[1][1], p[2][2]>> : p \in {p \in R \X Q : p[1][2] = p[2][1]}}
        at1(S, X)    == IF X \in MCVariables THEN {<<e[2], e[3]>> : e \in {e \in S : e[1] = X}}
                        ELSE {<<j, j + 1>> : j \in {j \in DOMAIN in.word : Match(in, in.word[j], X)}}
        along(S, w)  == FoldLeft(LAMBDA R, X : joined(R, at1(S, X)),
                                 {<<p, p>> : p \in 1 .. Len(in.word) + 1}, w)
        more(S)      == UNION {{<<r[1], e[1], e[2]>> : e \in along(S, r[2])} : r \in ToSet(in.rules)}
        upTo[n \in 0 .. 8] == IF n = 0 THEN {} ELSE more(upTo[n - 1])
    IN  upTo[8]

MCGrammars ==
    {<<<<1, s>>, <<1, t>>, <<2, u>>, <<2, w>>>> :
        s \in {<<1, 1>>, <<2, 2>>, <<11, 2, 1>>}, t \in {<<>>, <<2>>, <<13, 1>>},
        u \in {<<11>>, <<2, 12>>, <<>>}, w \in {<<1>>, <<13>>}} \cup {<<>>}
InputsOf(g) ==
    LET null  == Null(ToSet(g))
        first == First(ToSet(g))
        in(p, w) == [rules |-> g, start |-> 1, null |-> null, first |-> first,
                     predict |-> p, varTerms |-> {13}, word |-> w, spans |-> {}]
    IN  UNION {LET spans == Spanned(in(TRUE, w))
               IN  {[in(p, w) EXCEPT !.spans = spans] : p \in BOOLEAN} : w \in MCWords}
MCEarleyInputs == UNION {InputsOf(g) : g \in MCGrammars}

-----------------------------------------------------------------------------
(* The command line.                                                          *)

Declared(l, s, v) == [long |-> l, short |-> s, required |-> FALSE, vals |-> v]
Word(k, n) == [kind |-> k, name |-> n]
MCGeneral == <<Declared("help", "h", "none"), Declared("tool", "", "requires"),
               Declared("verbose", "v", "none")>>
MCTools0 == [parse |-> [own |-> <<Declared("predict", "", "none"), Declared("delim", "", "requires"),
                                  Declared("stdin", "", "none")>>, files |-> 2],
             cnf   |-> [own |-> <<Declared("stdin", "", "none")>>, files |-> 1]]
ParseTool == <<Word("long", "tool"), Word("text", "parse")>>
MCLexemes == {Word("long", n) : n \in {"tool", "predict", "delim", "stdin", "dot"}}
             \cup {Word("short", "v"), Word("short", "H"), Word("eq", ""),
                   Word("text", "file"), Word("text", "parse")}
FewLexemes == {Word("long", "predict"), Word("long", "dot"), Word("text", "file"), Word("short", "v")}
MCCommandLines ==
    {pre \o w : pre \in {ParseTool, <<Word("long", "tool"), Word("eq", ""), Word("text", "cnf")>>},
                w \in Seqs(MCLexemes, 3)}
      \cup {ParseTool \o w \o <<Word("text", "file")>> : w \in [1 .. 4 -> FewLexemes]}
      \cup [1 .. 2 -> MCLexemes]
      \cup {<<Word("long", "version")>>, <<Word("bad", "")>>}

-----------------------------------------------------------------------------
(* Texts whose code points lie across the window, with bytes that are wrong.     *)

MCTexts == Seqs({"char", "nl", "ctrl", "lead2", "lead3", "cont"}, 4)
    \cup {s \o t \o u :
            s \in {<<"char", "tab">>, <<"lead4", "cont", "cont">>, <<"delim", "char", "char">>},
            t \in [1 .. 2 -> {"cont", "char", "lead3", "delim", "lead2"}],
            u \in {<<"cont", "cont", "delim", "nl">>, <<"char">>,
                   <<"bad", "char", "nl", "lead3", "cont">>}}
MCDelims == {"delim", "nl"}

-----------------------------------------------------------------------------
(* Grammars in files: every short text of the pieces that the scanner tells     *)
(* apart, rules that are closed by ; or by the end of the line, and what the    *)
(* writer makes of names and terminals that are hard to write.                   *)

FewPieces == {<<"a">>, <<"e">>, <<":">>, <<"|">>, <<";">>, <<"-", ">">>, <<"\n">>,
              <<"\"", "b", "\"">>, <<" ">>}
Pieces == FewPieces \cup {<<"'", "'">>, <<"'", "\\">>, <<"#", "a", "\n">>, <<"/", "*">>, <<"*", "/">>,
                          <<"{">>, <<"}">>, <<"%">>, <<"$", "1">>}
LongName == <<"$">> \o [i \in 1 .. 7 |-> "1"]
MCGrammarTexts ==
    Flat(Seqs(Pieces, 2))
      \cup {x \o <<"-", ">">> \o y \o <<"\n">> : x \in {<<"a">>, LongName}, y \in {LongName, LongName \o <<" ", "a">>}}
      \cup {<<"a", ":">> \o s \o <<" ", ";">> : s \in Flat(Seqs(Pieces, 2))}
      \cup {<<"a", ":">> \o s \o <<"\n", ";", "b", "\n", ":">> \o t \o <<";">> :
              s \in Flat(Seqs(FewPieces, 2)), t \in Flat(Seqs(FewPieces, 1))}
      \cup {<<"a", "-", ">">> \o s \o <<"\n", "b", "-", ">">> \o t \o <<"\n">> :
              s \in Flat(Seqs(FewPieces, 1)), t \in Flat(Seqs(FewPieces, 2))}

VarA == <<"var", <<"a">>>>
Var1 == <<"var", <<"$", "1">>>>
HardSymbols == {<<"term", <<"b">>>>, <<"term", <<" ">>>>, <<"term", <<"\\", "\"">>>>,
                <<"varTerm", <<"b">>>>}
MCPrintable ==
    {[vars  |-> <<<<"a">>, <<"$", "1">>>>, terms |-> <<>>,
      prods |-> {<<<<"a">>, <<x, Var1>>>>, <<<<"a">>, y>>, <<<<"$", "1">>, z>>}] :
        x \in HardSymbols, y \in {<<>>, <<VarA>>} \cup [1 .. 2 -> HardSymbols],
        z \in {<<Var1, VarA>>, <<>>} \cup {<<s>> : s \in HardSymbols}}

-----------------------------------------------------------------------------
(* Automata in files: a start line, a transition and a final line in any order,  *)
(* with states by number and by name, and lines that are wrong.                  *)

MCLetters == {"a", "X", "b", "e", "START", "FINAL"}
MCDigits  == {"0", "1", "2"}
StateTexts == {<<"0">>, <<"1">>, <<"0", "1">>, <<"@", "b">>}
FewStates  == {<<"0">>, <<"1">>, <<"@", "b">>}
ReadTexts  == {<<"\"", "b", "\"">>, <<"e">>, <<"'", " ", "'">>}
StartTexts == {<<"(", "START", ")", "|", "-">> \o q : q \in StateTexts}
FinalTexts == {q \o <<"-", "|", "(", "FINAL", ")">> : q \in StateTexts}
TransTexts == {q \o <<" ">> \o s \o r \o w : q, r \in FewStates, s \in ReadTexts,
                  w \in {<<>>, <<",", "/">>, <<",", "X", "/">>, <<",", "/", "\"", "b", "\"">>,
                         <<",", "X", "/", "b">>}}
OddTexts == {<<"#">>, <<"/", "/", "b">>, <<"/", "*", "b", "*", "/">>, <<"(", "b">>, <<"-">>, <<"|">>,
             <<"0", "X", "1">>, <<"0", "X", "1", ",", "/">>, <<"0", "b", "@">>, <<"%">>, <<"$", "1">>,
             <<"@", "b", "b", "b", "b", "b", "b", "b">>, <<"0", "\"", "b">>, [i \in 1 .. 8 |-> "1"], <<":", "b">>, <<" ", "\n">>}
BareRead == <<"0", "\"", "b", "\"", "1">>
NL == <<"\n">>
MCAutomatonTexts ==
    {x \o NL \o y \o NL \o z \o NL : x \in StartTexts, y \in TransTexts, z \in FinalTexts \cup {<<>>, BareRead}}
      \cup {x \o NL \o y \o NL \o z \o NL : x, y \in StartTexts, z \in FinalTexts}
      \cup {x \o NL \o y \o NL : x \in OddTexts \cup FinalTexts, y \in OddTexts}
      \cup OddTexts
      \cup {x \o NL \o y \o NL : x \in TransTexts,
              y \in {<<"@", "b", "e", "0">>, BareRead \o <<",", "/", "X">>}}
MCAutomata ==
    {[aut   |-> [AddAll(AddStates(NewAutomaton, 2),
                        <<Trans(0, r, p, 0, 1), Trans(1, 0, u, 2, 2), Trans(v, 1, 0, p, 0)>>)
                   EXCEPT !.accept = final],
      names |-> named, syms |-> <<<<"input", <<"b">>>>, <<"stack", <<"$", "1">>>>>>] :
        r \in 0 .. 1, p \in 0 .. 2, u \in 0 .. 2, v \in 0 .. 2, final \in {{}, {0}, {1, 2}},
        named \in {{}, {<<0, <<"b">>>>}, {<<1, <<"X">>>>, <<2, <<"1">>>>}}}
MCNone == [source |-> 0, read |-> 0, pop |-> 0, push |-> 0, sink |-> 77]

-----------------------------------------------------------------------------
ToolInit ==
    /\ who \in {"earley", "options", "buffer", "grammar", "automaton"}
    /\ who # "earley" => input = CHOOSE in \in EarleyInputs : TRUE
    /\ EarleyInit
    /\ who # "options" => argv = <<Word("bad", "")>>
    /\ CliInit
    /\ who # "buffer" => text = <<>> /\ tokenizing = TRUE
    /\ BufferInit
    /\ IF who = "grammar" THEN ReaderInit
       ELSE /\ printed = NoGrammar /\ readAt = 0 /\ pass = 1 /\ state = ReaderInitial
            /\ grammar = NoGrammar /\ head = <<>> /\ prodBuffer = <<>> /\ accepted = FALSE
    /\ who \notin {"grammar", "automaton"} => chars = <<>> /\ seekable = TRUE
    /\ IF who = "automaton" THEN AutInit
       ELSE /\ source = Nothing
            /\ autPass = 1 /\ autReadAt = 0 /\ autStates = <<AutSink, AutSink, AutStart>>
            /\ starts = 0 /\ startName = <<>> /\ startVal = <<>>
            /\ machine = Empty /\ autAccepted = FALSE

ToolNext ==
    /\ UNCHANGED who
    /\ \/ /\ who = "earley" /\ EarleyNext
          /\ UNCHANGED <<cliVars, bufferVars, readerVars, autVars>>
       \/ /\ who = "options" /\ CliNext
          /\ UNCHANGED <<earleyVars, bufferVars, readerVars, autVars>>
       \/ /\ who = "buffer" /\ BufferNext
          /\ UNCHANGED <<earleyVars, cliVars, readerVars, autVars>>
       \/ /\ who = "grammar" /\ ReaderNext
          /\ UNCHANGED <<earleyVars, cliVars, bufferVars, autVars>>
       \/ /\ who = "automaton" /\ AutNext
          /\ UNCHANGED <<earleyVars, cliVars, bufferVars, readerVars>>

ToolSpec == ToolInit /\ [][ToolNext]_<<who, earleyVars, cliVars, bufferVars, readerVars, autVars>>
=============================================================================
