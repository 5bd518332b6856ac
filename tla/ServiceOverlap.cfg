\* Two requests that overlap, ranking calls shorter than their estimate.
CONSTANTS
    r1 = r1  r2 = r2  a = a  b = b
    Request <- TwoRequests
    Url <- TwoUrls
    Asked <- TwoAndOne
    Landing <- Redirecting
    MaxConcurrentFetches = 2
    MaxUrls = 4
    MaxSupplied = 5
    MaxEvidence = 2
    Reasoning = TRUE
    PoolSize = 3
    Budget = 6
    RobotsPolicy = "ignore"
    Matching <- Many
    Elapsed <- Short
    Nothing = Nothing
SPECIFICATION Spec
INVARIANT RankingDropsNothing
CHECK_DEADLOCK FALSE
