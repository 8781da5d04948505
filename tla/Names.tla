------------------------------- MODULE Names -------------------------------
(***************************************************************************)
(* The names of a CFG: variables by name, variable terminals by name,        *)
(* terminals by what they stand for in the alphabet, and the names "$1",      *)
(* "$2", ... that are made when one is needed.                               *)
(* A name is an integer: n >= 0 is "$n", a negative one any other name.       *)
(***************************************************************************)
EXTENDS Integers, Sequences

CONSTANTS
    ReadNames,      \* the names that callers pass
    Letters0,       \* the alphabet
    MostSymbols,    \* bound on the variables and on the terminals
    MostNumber      \* bound on the numbers of the names that are made

NoName == -1000
NoLetter == "none"

ASSUME NamesAssumption ==
    /\ ReadNames \subseteq (NoName + 1)..99
    /\ NoLetter \notin Letters0
    /\ MostSymbols \in Nat
    /\ MostNumber \in 1..99

VARIABLES
    varNames,   \* variable_map: by id, the name of each variable, removed or not
    unused,     \* unused_variables, the ids that were removed, last one first
    named,      \* named_variable_map
    terms,      \* terminal_map without its first element, epsilon
    nextTerm,   \* next_terminal_id
    letters,    \* terminal_map_inv
    namedTerms, \* variable_terminal_map
    upper       \* auto_symbol_upper_bound: n, if that is "$n"

varPart == <<varNames, unused, named>>
termPart == <<terms, nextTerm, letters, namedTerms>>
nameVars == <<varPart, termPart, upper>>

Nowhere == [x \in {} |-> 0]

\* A map after map[key] = v.
Entered(map, key, v) == [x \in DOMAIN map \cup {key} |-> IF x = key THEN v ELSE map[x]]

NamesInit ==
    /\ varNames = <<>> /\ unused = <<>> /\ named = Nowhere
    /\ terms = <<>> /\ nextTerm = -1 /\ letters = Nowhere /\ namedTerms = Nowhere
    /\ upper = 0

-----------------------------------------------------------------------------
\* Where a decimal of at most two digits stands in the order of strcmp.
Rank(n) == IF n < 10 THEN 11 * n ELSE 11 * (n \div 10) + (n % 10) + 1

\* The upper bound when a name comes in from outside.
Bound(name) == IF name >= 0 /\ Rank(name) > Rank(upper) THEN name ELSE upper

\* add_variable: an id that was removed is used again, with the name that its
\* variable still has.
Added == IF unused = <<>> THEN Len(varNames) + 1 ELSE Head(unused)
Named(name) ==
    /\ varNames' = IF unused = <<>> THEN Append(varNames, name)
                   ELSE [varNames EXCEPT ![Added] = IF name = NoName THEN @ ELSE name]
    /\ unused' = IF unused = <<>> THEN unused ELSE Tail(unused)
RoomForVariable == Len(varNames) < MostSymbols \/ unused # <<>>

AddUnnamed ==
    /\ RoomForVariable
    /\ Named(NoName)
    /\ UNCHANGED <<named, termPart, upper>>

\* Mutant of GetVariable: the name leads to the next new id, used again or not.
GetVariableNew(name) ==
    /\ name \notin DOMAIN named
    /\ RoomForVariable
    /\ Named(name)
    /\ named' = Entered(named, name, Len(varNames) + 1)
    /\ upper' = Bound(name)
    /\ UNCHANGED termPart

\* get_variable, when the map does not know this name; else nothing happens.
GetVariable(name) ==
    /\ name \notin DOMAIN named
    /\ RoomForVariable
    /\ Named(name)
    /\ named' = Entered(named, name, Added)
    /\ upper' = Bound(name)
    /\ UNCHANGED termPart

Alive(id) == id \in DOMAIN varNames /\ \A i \in DOMAIN unused : unused[i] # id

\* unsafe_remove_variable, as far as names go.
ForgetVariable(id) ==
    /\ Alive(id)
    /\ unused' = <<id>> \o unused
    /\ UNCHANGED <<varNames, named, termPart, upper>>

\* get_name of a variable makes a name if there is none, which no map knows.
NameVariable(id) ==
    /\ Alive(id)
    /\ varNames[id] = NoName
    /\ upper < MostNumber
    /\ varNames' = [varNames EXCEPT ![id] = upper + 1]
    /\ upper' = upper + 1
    /\ UNCHANGED <<unused, named, termPart>>

NewTerminal(letter, name) ==
    /\ Len(terms) < MostSymbols
    /\ terms' = Append(terms, [letter |-> letter, name |-> name])
    /\ nextTerm' = nextTerm - 1

\* get_variable_symbol, when there is neither a variable nor a variable
\* terminal of this name.
GetVariableSymbol(name) ==
    /\ name \notin DOMAIN named \cup DOMAIN namedTerms
    /\ NewTerminal(NoLetter, name)
    /\ namedTerms' = Entered(namedTerms, name, nextTerm)
    /\ upper' = Bound(name)
    /\ UNCHANGED <<varPart, letters>>

\* The map of variable terminals does not learn of this one.
AddVariableTerminal ==
    /\ upper < MostNumber
    /\ NewTerminal(NoLetter, upper + 1)
    /\ upper' = upper + 1
    /\ UNCHANGED <<varPart, letters, namedTerms>>

GetTerminal(letter) ==
    /\ letter \notin DOMAIN letters
    /\ NewTerminal(letter, NoName)
    /\ letters' = Entered(letters, letter, nextTerm)
    /\ UNCHANGED <<varPart, namedTerms, upper>>

NamesNext ==
    \/ AddUnnamed \/ AddVariableTerminal
    \/ \E name \in ReadNames : GetVariable(name) \/ GetVariableSymbol(name)
    \/ \E letter \in Letters0 : GetTerminal(letter)
    \/ \E id \in DOMAIN varNames : ForgetVariable(id) \/ NameVariable(id)

NamesSpec == NamesInit /\ [][NamesNext]_nameVars

-----------------------------------------------------------------------------

TermsBy(field) == {<<i, terms[i][field]>> : i \in DOMAIN terms}

\* The id of a terminal is where it stands in terminal_map, whichever of the
\* three functions made it; what the two maps find there is what was looked up,
\* and an element of the alphabet is there once.
TerminalsRight ==
    /\ nextTerm = -(Len(terms) + 1)
    /\ \A x \in DOMAIN letters : <<-letters[x], x>> \in TermsBy("letter")
    /\ \A n \in DOMAIN namedTerms : <<-namedTerms[n], n>> \in TermsBy("name")
    /\ \A i, j \in DOMAIN terms :
           terms[i].letter # NoLetter /\ terms[i].letter = terms[j].letter => i = j

\* An id that a name leads to is one that a variable has or had, and the name
\* it bears leads to it, however often the id was removed and used again.
VariablesRight ==
    \A n \in DOMAIN named :
        /\ named[n] \in DOMAIN varNames
        /\ varNames[named[n]] \in DOMAIN named
        /\ named[varNames[named[n]]] = named[n]

Taken == {varNames[i] : i \in DOMAIN varNames} \cup {terms[i].name : i \in DOMAIN terms}

\* The name that would be made next belongs to no symbol, in whatever order
\* names were read and made and variables removed, while no number has more
\* than one digit.  (With two it may: the bound is compared as text.)
NextNameFree == upper + 1 \notin Taken

\* NamesRight: a terminal and its name or letter lead to each other, a variable's
\* name leads to its id, and no symbol that is made takes the name of another
\* (CFG::get_terminal, get_variable_symbol, get_variable, get_name).  Other names
\* may lead to the same id: those of the removed variables that had it before.
NamesRight == TerminalsRight /\ VariablesRight /\ NextNameFree
=============================================================================
