SPECIFICATION Spec
CONSTANTS
    Which = "pass"
    Trans <- MCTrans
    Pattern <- MCPattern
    Binder <- MCBinder
    StateIds = {0, 1}
    Starts = {1}
    Pushed <- MCPushed
    Handles = {"h", "i"}
    Gens = {"all", "of0", "read0", "read2", "of0read1"}
    Plain = {"all"}
    MaxBusy = 1
    ReAdd = FALSE
    MaxCount = 2
    Width = 4
    Wild = Wild
    None = None
    End = End
INVARIANTS RefExact TransitionsKept
PROPERTY SearchComplete
CHECK_DEADLOCK FALSE
