SPECIFICATION Spec
CONSTANTS
    Which = "order"
    Trans <- MCTrans
    Pattern <- MCPattern
    Binder <- MCBinder
    StateIds = {0, 1}
    Starts = {}
    Pushed = {}
    Handles = {"h"}
    Gens = {"all"}
    Plain = {"all"}
    MaxBusy = 1
    ReAdd = FALSE
    MaxCount = 4
    Width = 6
    Wild = Wild
    None = None
    End = End
INVARIANTS AllFound
CHECK_DEADLOCK FALSE
