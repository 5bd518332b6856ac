----------------------------- MODULE MCPaidCall -----------------------------
(* Instances of PaidCall for TLC: two calls that may carry the same proof. *)
EXTENDS PaidCall

CONSTANTS c1, c2, p

OneCall == {c1}
TwoCalls == {c1, c2}
OneProof == {p}

Requesting == {{"free"}, {"paid"}, {"notice"}, {"free", "paid"}, {"paid", "notice"}}
Notices == {{"notice"}}
NoBody == {}
=============================================================================
