SPECIFICATION LL1Spec
CONSTANTS
    a = a  b = b
    Variables <- MCVariables
    Terminals <- MCTerminals
    NoVariable = NoVariable
    Grammars <- ReadGrammars
CHECK_DEADLOCK FALSE
INVARIANT FollowExact
