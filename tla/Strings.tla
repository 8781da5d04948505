------------------------------ MODULE Strings ------------------------------
(***************************************************************************)
(* SymbolString and ProductionBuilder: strings of symbols that share their   *)
(* arrays, with a count of the strings that refer to each array; comparing    *)
(* two equal strings makes them share.  The hash is left to CFGStore; here    *)
(* equality is decided by the symbols.                                       *)
(***************************************************************************)
EXTENDS Integers, Sequences, FiniteSets, SequencesExt

CONSTANTS
    Strings,    \* the string objects of the program
    Letter,     \* the symbols
    Places,     \* the memory for arrays; freed places are used again
    Longest,    \* bound on the length of a string
    Nil         \* the array of the empty string

ASSUME StringsAssumption ==
    /\ IsFiniteSet(Strings)
    /\ Nil \notin Places
    /\ Longest \in Nat

VARIABLES
    arr,    \* symbols: the array of each string, or Nil
    mem,    \* the arrays: how many refer to each (0: free), and its symbols
    buf,    \* the builder's buffer
    value   \* what each string ought to hold (history)

stringVars == <<arr, mem, buf, value>>

Content(x) == IF arr[x] = Nil THEN <<>> ELSE mem[arr[x]].syms

StringsInit ==
    /\ arr = [x \in Strings |-> Nil]
    /\ mem = [p \in Places |-> [refs |-> 0, syms |-> <<>>]]
    /\ buf = <<>>
    /\ value = [x \in Strings |-> <<>>]

-----------------------------------------------------------------------------
\* The freed place keeps its symbols until it is allocated again.
Decref(m, p) == IF p = Nil THEN m ELSE [m EXCEPT ![p].refs = @ - 1]
Incref(m, p) == IF p = Nil THEN m ELSE [m EXCEPT ![p].refs = @ + 1]

FreePlaces(m) == {p \in DOMAIN m : m[p].refs = 0}

\* x comes to hold the symbols s in an array of its own, after letting go of
\* the one it had; an empty string has none.
Fresh(x, s) ==
    LET m == Decref(mem, arr[x])
    IN  \/ /\ s = <<>>
           /\ arr' = [arr EXCEPT ![x] = Nil]
           /\ mem' = m
        \/ /\ s # <<>>
           /\ \E p \in FreePlaces(m) :
                  /\ arr' = [arr EXCEPT ![x] = p]
                  /\ mem' = [m EXCEPT ![p] = [refs |-> 1, syms |-> s]]

\* x takes over a result s that was built while x still had its old array.
Takes(x, s) ==
    \/ /\ s = <<>>
       /\ arr' = [arr EXCEPT ![x] = Nil]
       /\ mem' = Decref(mem, arr[x])
    \/ /\ s # <<>>
       /\ \E p \in FreePlaces(mem) :
              /\ arr' = [arr EXCEPT ![x] = p]
              /\ mem' = [Decref(mem, arr[x]) EXCEPT ![p] = [refs |-> 1, syms |-> s]]

\* operator=(symbol), where 0 is the symbol that stands for no symbol.
AssignSymbol(x, s) ==
    /\ Fresh(x, s)
    /\ value' = [value EXCEPT ![x] = s]
    /\ UNCHANGED buf

\* Mutant of AssignString: does not count the new reference.
AssignStringUnheld(x, y) ==
    /\ arr[x] # arr[y]
    /\ arr' = [arr EXCEPT ![x] = arr[y]]
    /\ mem' = Decref(mem, arr[x])
    /\ value' = [value EXCEPT ![x] = value[y]]
    /\ UNCHANGED buf

\* assign and operator=(string).
AssignString(x, y) ==
    /\ arr[x] # arr[y]
    /\ arr' = [arr EXCEPT ![x] = arr[y]]
    /\ mem' = Incref(Decref(mem, arr[x]), arr[y])
    /\ value' = [value EXCEPT ![x] = value[y]]
    /\ UNCHANGED buf

\* copy, whose callers must not pass a string that shares the array of x: the
\* count would go down and x would keep the array.
CopyString(x, y) ==
    /\ arr[x] # arr[y]
    /\ Fresh(x, Content(y))
    /\ value' = [value EXCEPT ![x] = value[y]]
    /\ UNCHANGED buf

\* operator+ of two strings.
Concatenate(x, y, z) ==
    /\ Len(Content(y)) + Len(Content(z)) <= Longest
    /\ Takes(x, Content(y) \o Content(z))
    /\ value' = [value EXCEPT ![x] = value[y] \o value[z]]
    /\ UNCHANGED buf

\* append_symbol and prepend_symbol; the symbol for none is assignment.
AppendSymbol(x, y, s) ==
    /\ s # <<>>
    /\ Len(Content(y)) < Longest
    /\ Takes(x, Content(y) \o s)
    /\ value' = [value EXCEPT ![x] = value[y] \o s]
    /\ UNCHANGED buf

PrependSymbol(x, s, y) ==
    /\ s # <<>>
    /\ Len(Content(y)) < Longest
    /\ Takes(x, s \o Content(y))
    /\ value' = [value EXCEPT ![x] = s \o value[y]]
    /\ UNCHANGED buf

\* substring(start, stride): the whole of a string shares its array.
Substring(x, y, start, stride) ==
    /\ start + stride <= Len(Content(y))
    /\ IF stride = Len(Content(y)) /\ stride # 0
       THEN /\ arr' = [arr EXCEPT ![x] = arr[y]]
            /\ mem' = Decref(Incref(mem, arr[y]), arr[x])
       ELSE Takes(x, SubSeq(Content(y), start + 1, start + stride))
    /\ value' = [value EXCEPT ![x] = SubSeq(value[y], start + 1, start + stride)]
    /\ UNCHANGED buf

\* clear and the destructor.
ClearString(x) ==
    /\ arr[x] # Nil
    /\ arr' = [arr EXCEPT ![x] = Nil]
    /\ mem' = Decref(mem, arr[x])
    /\ value' = [value EXCEPT ![x] = <<>>]
    /\ UNCHANGED buf

Same(x, y) == Content(x) = Content(y)

\* operator== of strings with arrays of their own: when they are equal, the one
\* whose array has fewer references takes the array of the other.
Compare(x, y) ==
    LET loser == IF mem[arr[x]].refs < mem[arr[y]].refs THEN x ELSE y
        winner == IF loser = x THEN y ELSE x
    IN  /\ arr[x] # arr[y] /\ arr[x] # Nil /\ arr[y] # Nil
        /\ Same(x, y)
        /\ arr' = [arr EXCEPT ![loser] = arr[winner]]
        /\ mem' = Incref(Decref(mem, arr[loser]), arr[winner])
        /\ UNCHANGED <<buf, value>>

-----------------------------------------------------------------------------
\* The builder.
BuilderClear == buf # <<>> /\ buf' = <<>> /\ UNCHANGED <<arr, mem, value>>

BuilderAppend(s) ==
    /\ s # <<>>
    /\ Len(buf) + Len(s) <= Longest
    /\ buf' = buf \o s
    /\ UNCHANGED <<arr, mem, value>>

BuilderSymbols(x) ==
    /\ Takes(x, buf)
    /\ value' = [value EXCEPT ![x] = buf]
    /\ UNCHANGED buf

Symbol0or1 == {<<>>} \cup {<<a>> : a \in Letter}

StringsNext ==
    \/ \E x \in Strings : ClearString(x) \/ BuilderSymbols(x) \/ BuilderAppend(Content(x))
    \/ \E x \in Strings, s \in Symbol0or1 : AssignSymbol(x, s)
    \/ \E x, y \in Strings : AssignString(x, y) \/ CopyString(x, y) \/ Compare(x, y)
    \/ \E x, y, z \in Strings : Concatenate(x, y, z)
    \/ \E x, y \in Strings, s \in Symbol0or1 : AppendSymbol(x, y, s) \/ PrependSymbol(x, s, y)
    \/ \E x, y \in Strings, start, stride \in 0..Longest : Substring(x, y, start, stride)
    \/ \E s \in Symbol0or1 : BuilderAppend(s)
    \/ BuilderClear

StringsSpec == StringsInit /\ [][StringsNext]_stringVars

-----------------------------------------------------------------------------

\* Sharing shows nowhere: whatever strings were assigned, cut, joined, compared
\* and cleared, each holds what it would hold with an array of its own; and an
\* array is freed exactly when the last string lets go of it.
StringsRight ==
    /\ \A x \in Strings : Content(x) = value[x]
    /\ \A p \in Places : mem[p].refs = Cardinality({x \in Strings : arr[x] = p})
=============================================================================
