\* Two calls through the gate, a signal at any time.
CONSTANTS
    c1 = c1  c2 = c2
    Call <- TwoCalls
    Via <- EvidenceAndWeather
    Visit <- TwoCalls
    Ttl = 2
    ProbeTimeout = 1
    MaxNow = 2
SPECIFICATION Spec
INVARIANTS PairsReleasedOnce ShutdownCutsNobodyOff AnsweredAsServed
PROPERTY ForwardedOnlyToLiving SignalEndsProcess
CHECK_DEADLOCK FALSE
