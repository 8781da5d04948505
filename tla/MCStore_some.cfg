SPECIFICATION IterSpec
CONSTANTS
    eps = eps  AB = AB  BA = BA
    c1 = c1  c2 = c2  c3 = c3
    P = P  Q = Q  all = all  some = some
    NoCell = NoCell
    NoHandle = NoHandle
    Cells <- MCCells2
    Handles = {P, Q}
    Gens = {some}
    MaxVars = 3
    Strings <- MCStrings
    Epsilon = eps
    Key <- Colliding
    Binder <- MCBinderSome
    Bound <- MCBoundSome
    Shape <- MCShapeSome
CHECK_DEADLOCK FALSE
INVARIANT OrderKept
PROPERTY ImplementsGrammar
