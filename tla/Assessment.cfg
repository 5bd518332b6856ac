\* Pages of three elements, two to a request; the ranking model sees the second.
CONSTANTS
    blank = blank  full = full  denied = denied  half = half
    Passage <- Texts
    Blank <- blank
    Length <- Lengths
    Elements = 3
    Token <- Tokens
    Term <- TermSet
    Stop <- StopWords
    Variants <- VariantsOf
    Words <- WordsOf
    Negated <- Denials
    Idf <- Weight
    AdjacencyBonus = 500
    Questions <- Asked
    MaxEvidenceItems = 2
    PoolSize = 3
    Ranked <- Later
    MaxSources = 2
    Shapes <- ManyThenPlain
SPECIFICATION Spec
INVARIANTS EachPassageOnce StanceIsFounded ContradictionIsFounded
CHECK_DEADLOCK FALSE
