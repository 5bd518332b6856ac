----------------------------- MODULE MCAdmission -----------------------------
(* Instance of Admission for TLC.                                          *)
EXTENDS Admission, TLC

CONSTANTS k1, k2

TwoKeys == {k1, k2}
Clients == Permutations(TwoKeys)

(* With and without an address of its own on the request to the backend.   *)
Edges == [cf : TwoKeys \cup {NoKey}, ip : TwoKeys]
Strays == [backendAuth : {"none", "wrong"}, bearer : {"none", "wrong"},
           cf : {NoKey}, forwarded : TwoKeys, ip : TwoKeys]
=============================================================================
