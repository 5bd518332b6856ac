\* Two clients and one bucket; a clock that may be set back; two days, on which
\* each of the two quotas can be the one that refuses.
CONSTANTS
    k1 = k1  k2 = k2  NoKey = NoKey
    Edge <- Edges
    Stray <- Strays
    Key <- TwoKeys
    TicksPerToken = 3
    TicksPerSecond = 2
    Capacity = 3
    IdleTtl = 1
    MaxBuckets = 1
    SweepLimit = 1
    PerIpDay = 2
    GlobalDay = 3
    McpPerDay = 1
    MaxTime = 3
    MaxDay = 1
SYMMETRY Clients
SPECIFICATION Spec
INVARIANTS GrantsBounded RetryAfterHonoured BucketsBounded QuotasHold RefusalsAreEarned
CHECK_DEADLOCK FALSE
