\* Two calls on both routes: timeouts, lost receipts and a restart.
CONSTANTS
    c1 = c1  c2 = c2  p = p
    Call <- TwoCalls
    Proof <- OneProof
    NoProof = NoProof
    Bodies <- Requesting
    EdgeTimeouts = TRUE
    LostReceipts = TRUE
    MaxCrashes = 1
SPECIFICATION Spec
PROPERTY EveryCallConcluded
INVARIANTS TypeOK ChargedForEvidence EvidencePaidFor OneDeliveryPerProof HandshakesDoNotOverlap
CHECK_DEADLOCK FALSE
