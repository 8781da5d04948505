SPECIFICATION ToolSpec
CONSTANTS
    Variables <- MCVariables
    Terminals <- MCTerminals
    Unknown = 0
    EarleyInputs <- MCEarleyInputs
    CommandLines <- MCCommandLines
    General <- MCGeneral
    Tools <- MCTools0
    MaxOffset = 2
    Texts <- MCTexts
    Delims <- MCDelims
    WindowSize = 5
    LineLength = 4
    GrammarTexts <- MCGrammarTexts
    Printable <- MCPrintable
    AutomatonTexts <- MCAutomatonTexts
    Automata <- MCAutomata
    None <- MCNone
    Letters <- MCLetters
    Digits <- MCDigits
    ScratchSize = 6
INVARIANTS ItemsCovered ChartRight OperandsRight TokensRight GrammarKept AutomatonKept
PROPERTY WindowHidden
