\* Two checks, two origins, room for one; an origin may replace its file once.
CONSTANTS
    r1 = r1  r2 = r2  o1 = o1  o2 = o2
    Check <- TwoChecks
    Origin <- TwoOrigins
    Agent <- Agents
    OurNames <- Ours
    Pattern <- Patterns
    EmptyPattern = ""
    Length <- Lengths
    Matching <- Matches
    Path <- Paths
    Sites <- ManySites
    Ttl = 1
    FetchTime = 1
    MaxCached = 1
    MaxNow = 3
SYMMETRY Symmetric
SPECIFICATION RobotsSpec
INVARIANTS VerdictIsRecent CacheIsBounded
CHECK_DEADLOCK FALSE
