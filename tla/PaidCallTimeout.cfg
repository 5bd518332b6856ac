\* The Worker gives up while the backend settles.
CONSTANTS
    c1 = c1  c2 = c2  p = p
    Call <- OneCall
    Proof <- OneProof
    NoProof = NoProof
    Bodies <- NoBody
    EdgeTimeouts = TRUE
    LostReceipts = FALSE
    MaxCrashes = 0
SPECIFICATION Spec
INVARIANT ChargedIsDelivered
CHECK_DEADLOCK FALSE
