----------------------------- MODULE GrammarFile -----------------------------
(* Reading a grammar (grail/include/io/fread_cfg.hpp) in two passes over the  *)
(* same file, and writing one (fprint_cfg.hpp).  A step is one token of one   *)
(* of the passes; what is under the tokenizer is TextStream.                  *)
EXTENDS Scanning

CONSTANTS
    GrammarTexts,  \* files, as sequences of characters
    Printable      \* grammars that are written and read back

(* A grammar is a record [vars, terms, prods]: names and terminals in the     *)
(* order they were met, and productions <<name, symbols>>; a symbol is        *)
(* <<"var", name>>, <<"varTerm", name>> or <<"term", text>>.                  *)

VARIABLES
    printed,     \* the grammar it was written from, or NoGrammar
    readAt,      \* how many characters were read
    pass,        \* 1, 2, or 3 when done
    state,       \* of next_state
    grammar,
    head,        \* var
    prodBuffer,
    accepted     \* what fread returned

readerVars == <<chars, seekable, printed, readAt, pass, state, grammar, head, prodBuffer, accepted>>

NoGrammar == [vars |-> <<>>, terms |-> <<>>, prods |-> {}]
SymbolCodepoints == Letters \cup Digits

-----------------------------------------------------------------------------
(* get_token<strict> *)

RECURSIVE GrammarToken(_, _)
GrammarToken(p, strict) ==
    LET c == CharAt(p)
        c2 == CharAt(p + 1)
        \* Over a block: the second pass steps over its first two characters.
        Over(block) == IF ~ strict THEN GrammarToken(p + 2, strict)
                       ELSE IF block.type = "error" THEN block ELSE GrammarToken(block.next, strict)
        Strange(next) == IF strict THEN Tok("error", <<>>, next) ELSE GrammarToken(next, strict)
    IN  CASE c = EOF -> Tok("end", <<>>, p)
          [] c = ":" -> Tok("multi", <<>>, p + 1)
          [] c = "|" -> Tok("extend", <<>>, p + 1)
          [] c = ";" -> Tok("close", <<>>, p + 1)
          [] c \in {"=", "-"} -> IF c2 = ">" THEN Tok("single", <<>>, p + 2) ELSE Strange(p + 2)
          [] c \in {"'", "\""} -> FindString(p + 1, c, strict)
          [] c = "{" /\ c2 = ":" -> Over(FindNext(p + 2, <<":", "}">>, strict))
          [] c = "{" /\ c2 # ":" -> Over(IF c2 = EOF THEN Tok("error", <<>>, p + 1) ELSE FindBalanced(p + 2))
          [] c = "%" /\ c2 = "{" -> Over(FindNext(p + 2, <<"%", "}">>, strict))
          [] c = "%" /\ c2 # "{" -> IF strict /\ c2 = EOF THEN Tok("error", <<>>, p + 1)
                                      ELSE IgnoreLine(p + 2, strict)
          [] c = "/" /\ c2 = "*" -> Over(FindNext(p + 2, <<"*", "/">>, strict))
          [] c = "/" /\ c2 = "/" -> IgnoreLine(p + 2, strict)
          [] c = "/" /\ c2 \notin {"*", "/"} -> Strange(p + 2)
          [] c = "#" -> IgnoreLine(p + 1, strict)
          [] c = "\n" -> Tok("newline", <<>>, p + 1)
          [] c = "$" -> Retyped(FindSymbol(p + 1, <<"$">>, NumericCodepoints, strict), "symbol")
          [] c = " " -> GrammarToken(p + 1, strict)
          [] c \in SymbolCodepoints -> NotLong(FindSymbol(p + 1, <<c>>, SymbolCodepoints, strict), "symbol")
          [] OTHER -> Strange(p + 1)

-----------------------------------------------------------------------------
(* next_state *)

ReaderInitial == 0
SeenProductionVariable == 1
ReaderFinal == 3
CatSingleLine == 5
ExtendOrCatMultiline == 6
DoneProduction == 7
ReaderSink == 8

Column(type) ==
    CASE type = "terminal" -> 1 [] type = "symbol" -> 2 [] type = "single" -> 3
      [] type = "multi" -> 4 [] type = "extend" -> 5 [] type = "close" -> 6
      [] type = "newline" -> 7 [] OTHER -> 8
GrammarState(s, type) ==
    <<<<8, 1, 8, 8, 8, 8, 2, 3>>,
      <<8, 8, 5, 6, 8, 8, 4, 8>>,
      <<8, 1, 8, 8, 8, 8, 2, 8>>,
      <<8, 8, 8, 8, 8, 8, 8, 8>>,
      <<8, 8, 8, 6, 8, 8, 4, 8>>,
      <<5, 5, 8, 8, 8, 8, 7, 8>>,
      <<6, 6, 8, 8, 6, 7, 6, 8>>,
      <<8, 1, 8, 8, 7, 8, 7, 3>>,
      <<8, 8, 8, 8, 8, 8, 8, 8>>>>[s + 1][Column(type)]

WithVar(g, name) == IF Contains(g.vars, name) THEN g ELSE [g EXCEPT !.vars = Append(@, name)]
WithTerm(g, t) == IF Contains(g.terms, t) THEN g ELSE [g EXCEPT !.terms = Append(@, t)]

-----------------------------------------------------------------------------
(* fprint: the start variable is the first one; there is nothing useless.     *)

PrintedSymbol(s) == <<" ">> \o IF s[1] = "term" THEN <<"\"">> \o s[2] \o <<"\"">> ELSE s[2]
PrintedProduction(rhs, sep) ==
    <<" ", " ">> \o sep \o (IF rhs = <<>> THEN <<" ">> \o Epsilon
                            ELSE FlattenSeq([i \in DOMAIN rhs |-> PrintedSymbol(rhs[i])])) \o <<"\n">>
PrintedVariable(g, v) ==
    LET rules == SetToSeq({p \in g.prods : p[1] = v})
    IN  v \o <<"\n">>
          \o FlattenSeq([i \in DOMAIN rules |-> PrintedProduction(rules[i][2], IF i = 1 THEN <<":">> ELSE <<"|">>)])
          \o <<" ", " ", ";", "\n">>
Printed(g) ==
    IF g.prods = {} THEN <<>>
    ELSE FlattenSeq([i \in DOMAIN g.vars |-> PrintedVariable(g, g.vars[i])]) \o <<"\n">>

-----------------------------------------------------------------------------
ReaderInit ==
    /\ \/ chars \in GrammarTexts /\ printed = NoGrammar
       \/ printed \in Printable /\ chars = Printed(printed)
    /\ seekable \in BOOLEAN
    /\ readAt = 0 /\ pass = 1 /\ state = ReaderInitial
    /\ grammar = NoGrammar /\ head = <<>> /\ prodBuffer = <<>> /\ accepted = FALSE

\* The first pass looks for errors and collects terminals and variables; at
\* the end the buffer is reset.
FirstPass ==
    /\ pass = 1
    /\ LET tt == GrammarToken(readAt, TRUE)
           s == GrammarState(state, tt.type)
           seen == IF tt.type = "terminal" THEN WithTerm(grammar, tt.text) ELSE grammar
       IN  IF tt.type = "error"
           THEN pass' = 3 /\ UNCHANGED <<grammar, state, readAt>>
           ELSE IF s = ReaderSink \/ (s = SeenProductionVariable /\ tt.text = Epsilon)
           THEN pass' = 3 /\ grammar' = seen /\ state' = s /\ UNCHANGED readAt
           ELSE IF s = ReaderFinal
           THEN pass' = 2 /\ readAt' = Rewound /\ state' = ReaderInitial /\ UNCHANGED grammar
           ELSE /\ readAt' = tt.next /\ state' = s
                /\ grammar' = IF s = SeenProductionVariable THEN WithVar(seen, tt.text) ELSE seen
                /\ UNCHANGED pass
    /\ UNCHANGED <<chars, seekable, printed, head, prodBuffer, accepted>>

GetVariableSymbol(g, name) == IF Contains(g.vars, name) THEN <<"var", name>> ELSE <<"varTerm", name>>

AddSymbol(tt) ==
    CASE tt.type = "terminal" ->
           /\ prodBuffer' = Append(prodBuffer, <<"term", tt.text>>)
           /\ grammar' = WithTerm(grammar, tt.text)
      [] tt.type = "symbol" /\ tt.text # Epsilon ->
           prodBuffer' = Append(prodBuffer, GetVariableSymbol(grammar, tt.text)) /\ UNCHANGED grammar
      [] OTHER -> UNCHANGED <<prodBuffer, grammar>>
AddProductionKept == grammar' = [grammar EXCEPT !.prods = @ \cup {<<head, prodBuffer>>}] /\ UNCHANGED prodBuffer
AddProduction == grammar' = [grammar EXCEPT !.prods = @ \cup {<<head, prodBuffer>>}] /\ prodBuffer' = <<>>

\* The second pass looks for nothing that is wrong.
SecondPass ==
    /\ pass = 2
    /\ LET tt == GrammarToken(readAt, FALSE)
           s == GrammarState(state, tt.type)
       IN  /\ tt.type # "hang"
           /\ readAt' = tt.next /\ state' = s
           /\ CASE \/ s = CatSingleLine
                   \/ s = ExtendOrCatMultiline /\ tt.type # "extend" -> AddSymbol(tt) /\ UNCHANGED head
                [] \/ s = ExtendOrCatMultiline /\ tt.type = "extend"
                   \/ s = DoneProduction /\ state \in {CatSingleLine, ExtendOrCatMultiline} ->
                     AddProduction /\ UNCHANGED head
                [] s = SeenProductionVariable ->
                     head' = tt.text /\ grammar' = WithVar(grammar, tt.text) /\ UNCHANGED prodBuffer
                [] OTHER -> UNCHANGED <<head, grammar, prodBuffer>>
           /\ IF s = ReaderFinal THEN pass' = 3 /\ accepted' = TRUE ELSE UNCHANGED <<pass, accepted>>
    /\ UNCHANGED <<chars, seekable, printed>>

\* fread returned, or the second pass reads on without an end.
ReaderStopped ==
    /\ pass = 3 \/ (pass = 2 /\ GrammarToken(readAt, FALSE).type = "hang")
    /\ UNCHANGED readerVars

ReaderNext == FirstPass \/ SecondPass \/ ReaderStopped
ReaderSpec == ReaderInit /\ [][ReaderNext]_readerVars

-----------------------------------------------------------------------------
(* What a file says, by its tokens: a name is the head of a rule if ":",      *)
(* maybe on another line, or "->" follows; the rule goes up to ";" or to the  *)
(* end of the line, and "|" separates its productions.                        *)

StrictTokens ==
    LET from[p \in Nat] ==
          LET t == GrammarToken(p, TRUE)
          IN  IF t.type \in {"end", "error"} THEN <<t>> ELSE <<t>> \o from[t.next]
    IN  from[0]
Least(S) == CHOOSE i \in S : \A j \in S : i <= j
After(toks, i, types) == Least({j \in DOMAIN toks : j > i /\ toks[j].type \in types})
Follower(toks, i) == Least({j \in DOMAIN toks : j > i /\ toks[j].type # "newline"})
Heads(toks) ==
    {i \in DOMAIN toks : /\ toks[i].type = "symbol"
                         /\ \/ toks[Follower(toks, i)].type = "multi"
                            \/ toks[i + 1].type = "single"}
SaidRules(toks) ==
    LET names == {toks[i].text : i \in Heads(toks)}
        Sym(t) == IF t.type = "terminal" THEN <<"term", t.text>>
                  ELSE IF t.text \in names THEN <<"var", t.text>> ELSE <<"varTerm", t.text>>
        Body(i, j) ==
            LET body == SelectSeq(SubSeq(toks, i + 1, j - 1),
                                  LAMBDA t : t.type = "terminal" \/ (t.type = "symbol" /\ t.text # Epsilon))
            IN  [k \in DOMAIN body |-> Sym(body[k])]
        RulesOf(h) ==
            LET r == Follower(toks, h)
                e == After(toks, r, IF toks[r].type = "multi" THEN {"close"} ELSE {"newline"})
                cuts == {r, e} \cup {i \in r .. e : toks[i].type = "extend"}
            IN  {<<toks[h].text, Body(i, Least({j \in cuts : j > i}))>> : i \in cuts \ {e}}
    IN  UNION {RulesOf(h) : h \in Heads(toks)}

\* Both passes see the same tokens.
GrammarAgreed ==
    LET from[p \in Nat] ==
          LET t == GrammarToken(p, TRUE)
          IN  t.type = "error" \/ (GrammarToken(p, FALSE) = t /\ (t.type = "end" \/ from[t.next]))
    IN  from[0]

\* A file that the first pass accepts and that both passes see alike is read
\* to its end, and into the productions that it says; the variables are those
\* that have a rule, the first rule's first.
ReadAsSaid ==
    (pass = 2 \/ accepted) /\ GrammarAgreed =>
        /\ pass = 2 => state # ReaderSink
        /\ accepted =>
            LET toks == StrictTokens IN
            /\ grammar.prods = SaidRules(toks)
            /\ ToSet(grammar.vars) = {toks[i].text : i \in Heads(toks)}
            /\ Heads(toks) # {} => grammar.vars[1] = toks[Least(Heads(toks))].text

\* What was written is read back, whatever the names and terminals, as long as
\* no terminal has a bare quote; a grammar without productions is an empty file.
ReadsBack ==
    printed # NoGrammar =>
        /\ accepted /\ seekable => grammar.prods = printed.prods /\ grammar.vars = printed.vars
        /\ pass = 3 => accepted

\* A grammar that is in a file, by hand or by the writer, is the grammar that
\* the two passes of the reader come to, if the file can be read twice.  (From a
\* pipe it cannot, and the second pass takes it for an empty file.)
GrammarKept == (seekable => ReadAsSaid) /\ ReadsBack
=============================================================================
