\* Pages of two elements; the ranking model sees the first.
CONSTANTS
    blank = blank  full = full  denied = denied  half = half
    Passage <- Texts
    Blank <- blank
    Length <- Lengths
    Elements = 2
    Token <- Tokens
    Term <- TermSet
    Stop <- StopWords
    Variants <- VariantsOf
    Words <- WordsOf
    Negated <- Denials
    Idf <- Weight
    AdjacencyBonus = 500
    Questions <- Asked
    MaxEvidenceItems = 2
    PoolSize = 3
    Ranked <- First
    MaxSources = 2
    Shapes <- ManyThenPlain
SPECIFICATION Spec
INVARIANT StanceCarriesHalf
CHECK_DEADLOCK FALSE
