SPECIFICATION Spec
CONSTANTS
    Strings = {"x"}
    Width <- MCWidth
    NestingLimit = 2
    IntMax = 24
    DefaultSize = 3
    Pieces <- MCPieces
    Longest <- MCLongest
    Limit <- MCLimit
    Texts <- MCTexts
    Items <- MCItems
    NoItem = "none"
    KeyOf <- MCKeyOf
    HashOf <- MCHashOf
    Rank <- MCRank
    InitialBuckets = 2
    Threshold = 1
INVARIANTS
    ParseIsGrammar
    PrintIsInverse
    StringSurvives
    EscapesDecode
    MinifyKeepsTokens
    WordsFound
    TableIsDictionary
\* One step evaluates an input; nothing follows it.
CHECK_DEADLOCK FALSE
