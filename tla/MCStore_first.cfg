SPECIFICATION Spec
CONSTANTS
    eps = eps  AB = AB  BA = BA
    c1 = c1  c2 = c2  c3 = c3
    P = P  Q = Q  all = all  some = some
    NoCell = NoCell
    NoHandle = NoHandle
    Cells <- MCCells
    Handles = {P}
    Gens = {all}
    MaxVars = 2
    Strings <- MCStrings
    Epsilon = eps
    Key <- Colliding
    Binder <- MCBinder1
    Bound <- MCBound1
    Shape <- MCShape1
SYMMETRY CellSymmetry
CHECK_DEADLOCK FALSE
INVARIANT FirstIsFirst
