SPECIFICATION Spec
CONSTANTS
    a = a  b = b
    Terminals = {a, b}
    MaxVar = 40
    MaxTails <- MCTails
    Inputs <- MCStartInputs
    Tools = {"removeLR"}
INVARIANT LanguageKept
