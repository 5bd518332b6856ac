\* Two requests that may overlap, one slot, redirects, robots.txt, failures, ranking.
CONSTANTS
    r1 = r1  r2 = r2  a = a  b = b
    Request <- TwoRequests
    Url <- TwoUrls
    Asked <- TwoAndOne
    Landing <- Redirecting
    MaxConcurrentFetches = 1
    MaxUrls = 2
    MaxSupplied = 3
    MaxEvidence = 2
    Reasoning = TRUE
    PoolSize = 3
    Budget = 6
    RobotsPolicy = "enforce"
    Matching <- Many
    Elapsed <- Long
    Nothing = Nothing
SPECIFICATION Spec
INVARIANTS TypeOK SlotsReturned HitIsTheRequestedPage CountIsExact NoLostWakeup AloneKeepsEvidence
PROPERTIES RankingWithinBudget EveryRequestAnswered EverySuspendedAdmitted
CHECK_DEADLOCK FALSE
