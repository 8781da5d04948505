SPECIFICATION ToolsSpec
CONSTANTS
    None = None
    Jobs = {"intersect", "toPDA", "toCFG", "stack"}
    Inputs <- MCInputs
    Graphs <- MCGraphs
INVARIANTS EpsilonRemoved Intersects PDAKeepsLanguage CFGKeepsLanguage TreeRight StackRight

