------------------------------ MODULE Scanning ------------------------------
(* What the readers of grammars and of automata share (grail/include/io/      *)
(* detail).  The file is a sequence of code points; TextStream says how they  *)
(* get there.                                                                 *)
EXTENDS Integers, SequencesExt

CONSTANTS
    Letters, Digits,
    ScratchSize    \* SCRATCH_SIZE - 1

VARIABLES
    chars,    \* the file
    seekable  \* whether it can be read again, as a pipe or a terminal cannot

\* Where a reader goes on after buffer.reset(): see the lost of TextStream.
Rewound == IF seekable THEN 0 ELSE Len(chars)

Epsilon == <<"e">>  \* stands for the name "epsilon"
EOF == "eof"
NumericCodepoints == Digits

(* A token is a record [type, text, next].  A search that would read the end  *)
(* of the file for ever returns the type "hang".                              *)

CharAt(p) == IF p < Len(chars) THEN chars[p + 1] ELSE EOF
Tok(type, text, next) == [type |-> type, text |-> text, next |-> next]

\* find_next: what closes is looked for from its start after a mismatch, and
\* the character that did not match is not looked at again.
FindNext(from, close, strict) ==
    LET find[p \in Nat, k \in Nat] ==
          CASE CharAt(p) = EOF -> Tok(IF strict THEN "error" ELSE "hang", <<>>, p)
            [] CharAt(p) # EOF /\ CharAt(p) # close[k] -> find[p + 1, 1]
            [] OTHER -> IF k = Len(close) THEN Tok("found", <<>>, p + 1) ELSE find[p + 1, k + 1]
    IN  find[from, 1]

\* find_balanced, behind an opening brace and the character after it.
FindBalanced(from) ==
    LET find[p \in Nat, open \in Nat] ==
          CASE CharAt(p) = EOF -> Tok("error", <<>>, p)
            [] CharAt(p) = "{" -> find[p + 1, open + 1]
            [] CharAt(p) = "}" -> IF open = 1 THEN Tok("found", <<>>, p + 1) ELSE find[p + 1, open - 1]
            [] OTHER -> find[p + 1, open]
    IN  find[from, 1]

\* find_string: a string ends at as many delimiters as it began with.
Escapable == {"s", "t", "n", "r", "\\", "\"", "'"}
FindString(from, delim, strict) ==
    LET delims[p \in Nat] == IF CharAt(p) = delim THEN delims[p + 1] ELSE p
        num == delims[from] - from + 1
        \* seen delimiters in a row are at the end of the text
        find[p \in Nat, text \in Seq(STRING), seen \in Nat] ==
          IF seen = num /\ ~ (strict /\ num > 1 /\ Len(text) >= ScratchSize)
          THEN Tok("terminal", SubSeq(text, 1, Len(text) - num), p)
          ELSE IF strict /\ Len(text) >= ScratchSize THEN Tok("error", text, p)
          ELSE IF CharAt(p) = EOF THEN Tok(IF strict THEN "error" ELSE "hang", text, p)
          ELSE IF seen > 0 \/ CharAt(p) # "\\"
          THEN find[p + 1, Append(text, CharAt(p)), IF CharAt(p) = delim THEN seen + 1 ELSE 0]
          ELSE IF CharAt(p + 1) \in Escapable THEN find[p + 2, text \o <<"\\", CharAt(p + 1)>>, 0]
          ELSE IF strict THEN Tok("error", text, p + 2) ELSE find[p + 2, Append(text, "\\"), 0]
    IN  find[delims[from], <<>>, 0]

\* find_symbol, behind the first character; what ends it is given back.  A name
\* that fills the scratch array is cut there; not every caller says an error.
FindSymbol(from, text0, Codepoints, strict) ==
    LET find[p \in Nat, text \in Seq(STRING)] ==
          IF CharAt(p) \notin Codepoints THEN Tok("symbol", text, p)
          ELSE IF strict /\ Len(text) + 1 >= ScratchSize
          THEN Tok("long", Append(text, CharAt(p)), p + 1)
          ELSE find[p + 1, Append(text, CharAt(p))]
    IN  find[from, text0]
Retyped(t, type) == [t EXCEPT !.type = type]
NotLong(t, type) == Retyped(t, IF t.type = "long" THEN "error" ELSE type)

IgnoreLine(from, strict) ==
    LET end == FindNext(from, <<"\n">>, strict)
    IN  IF end.type = "hang" THEN end ELSE Tok("newline", <<>>, end.next)
=============================================================================
