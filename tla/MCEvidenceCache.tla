--------------------------- MODULE MCEvidenceCache ---------------------------
(* The instance of EvidenceCache for TLC: three keys, so that one more row *)
(* than the larger bound can be stored and ties in storedAt occur.         *)
EXTENDS EvidenceCache

ThreeKeys == 1..3
OneOrTwo == {1, 2}
=============================================================================
