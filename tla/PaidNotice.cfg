\* One call whose body is a message without an id.
CONSTANTS
    c1 = c1  c2 = c2  p = p
    Call <- OneCall
    Proof <- OneProof
    NoProof = NoProof
    Bodies <- Notices
    EdgeTimeouts = FALSE
    LostReceipts = FALSE
    MaxCrashes = 0
SPECIFICATION Spec
INVARIANT NeverChargedForNothing
CHECK_DEADLOCK FALSE
