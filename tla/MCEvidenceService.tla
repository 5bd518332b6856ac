-------------------------- MODULE MCEvidenceService --------------------------
(* Instances of EvidenceService for TLC: two requests, two URLs of which   *)
(* the first may redirect to the second.                                   *)
EXTENDS EvidenceService, TLC

CONSTANTS r1, r2, a, b

TwoRequests == {r1, r2}
TwoUrls == {a, b}

TwoAndOne == [r \in Request |-> IF r = r1 THEN {a, b} ELSE {a}]
Redirecting == [u \in Url |-> IF u = a THEN {b} ELSE {u}]

Short == {1}
Long == {5}
Many == {4}
=============================================================================
