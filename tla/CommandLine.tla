----------------------------- MODULE CommandLine -----------------------------
(* io::CommandLineOptions (grail/lib/io) and the protocol main follows with   *)
(* it: parse, declare, disambiguate, look up.  The arguments are a sequence   *)
(* of lexemes [kind, name]; kind is "long", "short", "eq", "text" or "bad".   *)
EXTENDS Integers, FiniteSets, SequencesExt

CONSTANTS
    CommandLines,  \* sequences of lexemes
    General,       \* what main declares
    Tools,         \* by name, records [own, files]: what the tool declares,
                   \* and how many files it reads
    MaxOffset      \* bound on the positionals asked for

(* A declaration is a record [long, short, required, vals]; long or short may *)
(* be NoName; vals is "requires", "none" or "optional".                         *)
NoName == ""
Declarations == [long : STRING, short : STRING, required : BOOLEAN,
                 vals : {"requires", "none", "optional"}]
Lexemes == [kind : {"long", "short", "eq", "text", "bad"}, name : STRING]

\* alpha_to_offset: a letter and its capital share a slot.
Offset(c) == CASE c = "H" -> "h" [] c = "V" -> "v" [] OTHER -> c

\* No two of the declarations share a name.
NoneShared(ds) ==
    \A i, j \in DOMAIN ds :
        i # j => /\ ds[i].long = ds[j].long => ds[i].long = NoName
                 /\ Offset(ds[i].short) = Offset(ds[j].short) => ds[i].short = NoName

ASSUME CliAssumption ==
    /\ CommandLines \subseteq Seq(Lexemes)
    /\ \A line \in CommandLines : \A i \in DOMAIN line :
           line[i].kind \in {"long", "short"} => line[i].name # NoName
    /\ General \in Seq(Declarations) /\ NoneShared(General)
    /\ \A t \in DOMAIN Tools :
           Tools[t].own \in Seq(Declarations) /\ NoneShared(General \o Tools[t].own)
    /\ MaxOffset \in Nat

VARIABLES
    argv, tool,
    here,       \* position of first_char
    opts,       \* the options; one is named by the lexeme it begins with
    list,       \* the chain from first to last
    longs,      \* long_options, as a set of <<name, option>>
    shorts,     \* short_options, as a set of <<offset, option>>
    karg,       \* last_karg or 0
    equals,     \* seen_equal
    cliPhase,
    cliErrors,  \* has_errors
    declared,   \* how many declarations were made in this phase
    positionals,\* num_positional
    cached,     \* <<last_positional_index, last_positional_indexed>>
    got         \* the last positional asked for: <<offset, option>>

cliVars == <<argv, tool, here, opts, list, longs, shorts, karg, equals,
             cliPhase, cliErrors, declared, positionals, cached, got>>
tables == <<opts, list, longs, shorts>>

Option(val, positional) ==
    [val |-> val, positional |-> positional, candidate |-> TRUE, accounted |-> FALSE]

Defined(map, name) == \E e \in map : e[1] = name
Get(map, name) == IF Defined(map, name) THEN (CHOOSE e \in map : e[1] = name)[2] ELSE 0

CliInit ==
    /\ argv \in CommandLines /\ tool = NoName
    /\ here = 1 /\ karg = 0 /\ equals = FALSE
    /\ opts = [i \in 1 .. Len(argv) |-> Option(0, FALSE)] /\ list = <<>>
    /\ longs = {} /\ shorts = {}
    /\ cliPhase = "parse" /\ cliErrors = FALSE
    /\ declared = 0 /\ positionals = 0 /\ cached = <<0, 0>> /\ got = <<0, 0>>

-----------------------------------------------------------------------------
(* parse *)

Lexeme == argv[here]
Parsing(kind) == cliPhase = "parse" /\ here <= Len(argv) /\ Lexeme.kind = kind
Fail == cliPhase' = "stop" /\ cliErrors' = TRUE

MakeOption ==
    /\ list' = Append(list, here)
    /\ opts' = [opts EXCEPT ![here] = Option(0, FALSE)]
    /\ karg' = here /\ equals' = FALSE /\ here' = here + 1

ParseLong ==
    /\ Parsing("long")
    /\ IF Defined(longs, Lexeme.name) THEN Fail /\ UNCHANGED <<here, karg, equals, tables>>
       ELSE /\ MakeOption /\ longs' = longs \cup {<<Lexeme.name, here>>}
            /\ UNCHANGED <<shorts, cliPhase, cliErrors>>
    /\ UNCHANGED <<argv, tool, declared, positionals, cached, got>>

ParseShort ==
    /\ Parsing("short")
    /\ IF Defined(shorts, Offset(Lexeme.name)) THEN Fail /\ UNCHANGED <<here, karg, equals, tables>>
       ELSE /\ MakeOption /\ shorts' = shorts \cup {<<Offset(Lexeme.name), here>>}
            /\ UNCHANGED <<longs, cliPhase, cliErrors>>
    /\ UNCHANGED <<argv, tool, declared, positionals, cached, got>>

ParseBad ==
    /\ Parsing("bad") /\ Fail
    /\ UNCHANGED <<argv, tool, here, tables, karg, equals, declared, positionals, cached, got>>

ParseEquals ==
    /\ Parsing("eq")
    /\ IF karg = 0 \/ argv[karg].kind = "short" \/ equals
       THEN Fail /\ UNCHANGED <<here, opts, equals>>
       ELSE /\ opts' = [opts EXCEPT ![karg].candidate = FALSE]
            /\ equals' = TRUE /\ here' = here + 1
            /\ UNCHANGED <<cliPhase, cliErrors>>
    /\ UNCHANGED <<argv, tool, list, longs, shorts, karg, declared, positionals, cached, got>>

\* A text is the value of the option before it, for now, or a positional.
ParseText ==
    /\ Parsing("text")
    /\ IF karg = 0
       THEN /\ list' = Append(list, here) /\ opts' = [opts EXCEPT ![here] = Option(here, TRUE)]
            /\ positionals' = positionals + 1
       ELSE opts' = [opts EXCEPT ![karg].val = here] /\ UNCHANGED <<list, positionals>>
    /\ karg' = 0 /\ equals' = FALSE /\ here' = here + 1
    /\ UNCHANGED <<argv, tool, longs, shorts, cliPhase, cliErrors, declared, cached, got>>

ParseEnd ==
    /\ cliPhase = "parse" /\ here > Len(argv)
    /\ IF karg # 0 /\ equals THEN Fail ELSE cliPhase' = "general" /\ UNCHANGED cliErrors
    /\ UNCHANGED <<argv, tool, here, tables, karg, equals, declared, positionals, cached, got>>

-----------------------------------------------------------------------------
(* declare and check_option *)

SplitListAtEnd(os) ==
    list \o SelectSeq([i \in DOMAIN list |-> IF list[i] \in os THEN opts[list[i]].val ELSE 0],
                      LAMBDA o : o # 0)
\* The options os give up their values, which become positionals behind them.
SplitList(os) ==
    FlattenSeq([i \in DOMAIN list |->
        IF list[i] \in os THEN <<list[i], opts[list[i]].val>> ELSE <<list[i]>>])
SplitOpts(os, accounted) ==
    [i \in DOMAIN opts |->
        IF i \in os
        THEN [opts[i] EXCEPT !.val = 0, !.candidate = FALSE, !.accounted = accounted]
        ELSE IF \E o \in os : opts[o].val = i THEN Option(i, TRUE) ELSE opts[i]]

CheckOption(o, vals) ==
    LET valued == opts[o].val # 0
    IN  CASE vals = "requires" /\ ~ valued ->
               cliErrors' = TRUE /\ UNCHANGED <<opts, list, positionals>>
          [] vals = "none" /\ valued /\ opts[o].candidate ->
               /\ list' = SplitList({o}) /\ opts' = SplitOpts({o}, TRUE)
               /\ positionals' = positionals + 1 /\ UNCHANGED cliErrors
          [] OTHER ->
               /\ opts' = [opts EXCEPT ![o].accounted = TRUE]
               /\ cliErrors' = (cliErrors \/ (vals = "none" /\ valued))
               /\ UNCHANGED <<list, positionals>>

\* A name that was not given becomes another name of the same option.
Aliased(map, name, o, other) ==
    IF name # NoName /\ o = 0 /\ other # 0 THEN map \cup {<<name, other>>} ELSE map

Declaring == IF cliPhase = "general" THEN General ELSE Tools[tool].own

Declare ==
    /\ cliPhase \in {"general", "own"} /\ declared < Len(Declaring)
    /\ LET d == Declaring[declared + 1]
           long == Get(longs, d.long)
           short == Get(shorts, Offset(d.short))
       IN  /\ IF long = 0 /\ short = 0
              THEN cliErrors' = (cliErrors \/ d.required) /\ UNCHANGED <<opts, list, positionals>>
              ELSE IF long # 0 /\ short # 0
              THEN cliErrors' = TRUE /\ UNCHANGED <<opts, list, positionals>>
              ELSE CheckOption(IF long = 0 THEN short ELSE long, d.vals)
           /\ longs' = Aliased(longs, d.long, long, short)
           /\ shorts' = Aliased(shorts, Offset(d.short), short, long)
    /\ declared' = declared + 1
    /\ UNCHANGED <<argv, tool, here, karg, equals, cliPhase, cached, got>>

Lookup(name) == IF cliErrors THEN 0 ELSE Get(longs, name)
Valid(name) == Lookup(name) # 0

\* main, once its own options are declared.
Dispatch ==
    /\ cliPhase = "general" /\ declared = Len(General)
    /\ LET named == opts[Lookup("tool")].val
       IN  IF cliErrors \/ Valid("version") \/ Valid("tools") \/ (Valid("help") /\ ~ Valid("tool"))
           THEN cliPhase' = "stop" /\ UNCHANGED <<tool, cliErrors>>
           ELSE IF ~ Valid("tool") \/ argv[named].name \notin DOMAIN Tools
           THEN Fail /\ UNCHANGED tool
           ELSE tool' = argv[named].name /\ cliPhase' = "own" /\ UNCHANGED cliErrors
    /\ declared' = 0
    /\ UNCHANGED <<argv, here, tables, positionals, karg, equals, cached, got>>

\* declare_min_num_positional and declare_max_num_positional: first the values
\* of options nobody declared become positionals; an option that reads the
\* standard input stands for one of them.
Bound ==
    /\ cliPhase = "own" /\ declared = Len(Declaring)
    /\ IF Valid("help") THEN UNCHANGED <<list, opts, positionals, cliErrors>> /\ cliPhase' = "stop"
       ELSE LET os == {o \in ToSet(list) : /\ ~ opts[o].accounted /\ ~ opts[o].positional
                                            /\ opts[o].val # 0 /\ opts[o].candidate}
                n == positionals + Cardinality(os)
                given == IF Valid("stdin") THEN 1 ELSE 0
            IN  /\ list' = SplitList(os) /\ opts' = SplitOpts(os, FALSE) /\ positionals' = n
                /\ cliErrors' = (cliErrors \/ n + given # Tools[tool].files)
                /\ cliPhase' = IF cliErrors' THEN "stop" ELSE "use"
    /\ UNCHANGED <<argv, tool, here, longs, shorts, karg, equals, declared, cached, got>>

-----------------------------------------------------------------------------
(* operator[](unsigned): the scan starts from the option found last, if that  *)
(* is no further than what is asked for.                                      *)

\* The member of a set of numbers with n lesser ones in it, or 0.
Nth(S, n) ==
    LET at == {p \in S : Cardinality({q \in S : q < p}) = n}
    IN  IF at = {} THEN 0 ELSE CHOOSE p \in at : TRUE

ScannedBy(o, i, k) ==
    LET from == IF o = 0 THEN 1 ELSE CHOOSE p \in DOMAIN list : list[p] = o
        at   == Nth({p \in from .. Len(list) : opts[list[p]].positional}, k - i)
    IN  IF at = 0 THEN 0 ELSE list[at]

Index ==
    /\ cliPhase = "use"
    /\ \E k \in 0 .. MaxOffset :
         LET near == cached[2] # 0 /\ k >= cached[1]
             o == IF k >= positionals THEN 0
                  ELSE IF near THEN ScannedBy(cached[2], cached[1], k) ELSE ScannedBy(0, 0, k)
         IN  /\ got' = <<k, o>>
             /\ cached' = IF o = 0 THEN cached ELSE <<k, o>>
    /\ UNCHANGED <<argv, tool, here, tables, positionals, karg, equals, cliPhase, cliErrors, declared>>

CliStep == \/ ParseLong \/ ParseShort \/ ParseBad \/ ParseEquals \/ ParseText \/ ParseEnd
           \/ Declare \/ Dispatch \/ Bound \/ Index
CliDone == cliPhase = "stop" /\ UNCHANGED cliVars
CliNext == CliStep \/ CliDone
CliSpec == CliInit /\ [][CliNext]_cliVars

-----------------------------------------------------------------------------
(* Which texts are positionals, read off the arguments and the declarations   *)
(* alone: one that does not follow an option, and one that follows, without   *)
(* "=", an option that was declared without a value or not at all.            *)

Names(d, o) ==
    \/ argv[o].kind = "long" /\ argv[o].name = d.long
    \/ argv[o].kind = "short" /\ Offset(argv[o].name) = Offset(d.short)
Takes(o) ==
    \E d \in ToSet(General) \cup ToSet(Tools[tool].own) : d.vals # "none" /\ Names(d, o)
IsOperand(i) ==
    /\ argv[i].kind = "text"
    /\ i > 1 => /\ argv[i - 1].kind # "eq"
                /\ argv[i - 1].kind \in {"long", "short"} => ~ Takes(i - 1)
Operands == {i \in DOMAIN argv : IsOperand(i)}

\* A tool that asks for its k-th file gets the k-th operand of the command
\* line, although options gave up the values they had taken while they were
\* declared, in any order, and the search starts from the last one found.
OperandsRight ==
    cliPhase = "use" =>
        /\ positionals = Cardinality(Operands)
        /\ got = <<0, 0>> \/ got[2] = Nth(Operands, got[1])
=============================================================================
