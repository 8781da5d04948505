SPECIFICATION ObjectSpec
CONSTANTS
    ReadNames <- MCReadNames
    Letters0 = {"x", "y"}
    MostSymbols = 2
    MostNumber = 9
    Strings = {u, v}
    Letter = {"x", "y"}
    Places = {p, q, r}
    Longest = 2
    Nil = Nil
    PatternChoices <- MCPatternChoices
    Bindings <- MCBindings
    Bodies <- MCBodies
    PatVariables = {"A"}
    MaxTries = 1
    RuleChoices <- MCRuleChoices
    Handles = {h}
    Binder = h
    Wanted <- MCWanted
    MaxCategories = 2
    MaxRules = 3
    MaxLeaks = 3
    TdopPatterns <- MCTdopPatterns
    TdopBindings <- MCTdopBindings
    TdopRules <- MCTdopRules
    CategoryTerms = {"E", "T"}
INVARIANTS  StringsRight PatternsRight RulesRight SearchRight RulePatternsRight
CHECK_DEADLOCK FALSE
