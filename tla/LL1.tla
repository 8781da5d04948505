-------------------------------- MODULE LL1 --------------------------------
(***************************************************************************)
(* The table of cfg-to-ll1: when the null, first and follow sets are there,  *)
(* every cell (variable, terminal) gets the first of the variable's           *)
(* productions that wants it; the later ones are reported as conflicts.      *)
(***************************************************************************)
EXTENDS FixedPoints

VARIABLES
    table,  \* the cells filled so far, with their productions
    cells   \* the cells not looked at yet

lvars == <<fvars, table, cells>>

AllNullable(s) == \A i \in DOMAIN s : s[i] \in nullable

\* The terminals for which a production that starts with a variable is taken.
\* What stands behind a nullable variable is not looked at, and an all nullable
\* right hand side is judged by what follows its first variable.
WantedByVariable(s) ==
    CASE s[1] \notin nullable -> first[s[1]]
      [] s[1] \in nullable /\ AllNullable(s) -> follow[s[1]]
      [] OTHER -> {}

\* Mutant of Wants: looks the left hand side up instead.
WantsOwn(r, a) ==
    CASE r[2] = <<>> -> a \in follow[r[1]]
      [] r[2] # <<>> /\ r[2][1] \in Variables -> a \in first[r[1]]
      [] OTHER -> r[2][1] = a

Wants(r, a) ==
    CASE r[2] = <<>> -> a \in follow[r[1]]
      [] r[2] # <<>> /\ r[2][1] \in Variables -> a \in WantedByVariable(r[2])
      [] OTHER -> r[2][1] = a

LL1Init ==
    /\ Init
    /\ table = [c \in {} |-> <<>>]
    /\ cells = {}

\* The loops over search(~A) and search(~a) begin.
StartTable ==
    /\ pc = "done"
    /\ pc' = "table"
    /\ cells' = Enumerated \X Terminals
    /\ UNCHANGED <<rules, nullable, first, follow, todo, vars, V, updated, table>>

\* add_to_table: the cells do not touch each other, so they are taken in some
\* fixed order; which production the generator yields first is left open.
FillCell ==
    LET c == CHOOSE c \in cells : TRUE
        wanting == {r \in rules : r[1] = c[1] /\ Wants(r, c[2])}
    IN  /\ pc = "table"
        /\ cells # {}
        /\ cells' = cells \ {c}
        /\ \/ wanting = {} /\ UNCHANGED table
           \/ \E r \in wanting :
                  table' = [x \in DOMAIN table \cup {c} |-> IF x = c THEN r ELSE table[x]]
        /\ UNCHANGED fvars

LL1Next ==
    \/ Next /\ UNCHANGED <<table, cells>>
    \/ StartTable
    \/ FillCell

LL1Spec == LL1Init /\ [][LL1Next]_lvars /\ WF_lvars(LL1Next)

-----------------------------------------------------------------------------

\* A table one can parse by: if none of a variable's productions is empty or
\* begins with a nullable variable, a cell of it is filled exactly when one of
\* them can begin with the terminal, and with a production that can.  (For the
\* others the code has no claim to that: it looks no further than the first
\* symbol, and the follow sets are not the follow sets.)
TableRight ==
    LET N == Null(rules)
        F == First(rules)
        plain(v) == \A r \in rules : r[1] = v => r[2] # <<>> /\ r[2][1] \notin N
        starts(v, a) == {r \in rules : r[1] = v /\ a \in Begin(F, r[2][1])}
    IN  pc = "table" /\ cells = {} =>
            \A c \in Enumerated \X Terminals : plain(c[1]) =>
                /\ c \in DOMAIN table <=> starts(c[1], c[2]) # {}
                /\ c \in DOMAIN table => table[c] \in starts(c[1], c[2])

\* The loops of the three sets end, and that over the table does.
TableComplete == <>(pc = "table" /\ cells = {})
=============================================================================
