SPECIFICATION Spec
CONSTANTS
    a = a  b = b
    Terminals = {a, b}
    MaxVar = 40
    MaxTails <- MCTails
    Inputs <- MCInputs
    Tools = {"removeEpsilon", "removeUnits", "removeLoops", "removeUseless", "to2CFG", "toCNF", "removeLR", "toGNF"}
INVARIANTS LanguageKept NothingDangles FormReached
PROPERTIES Ends
