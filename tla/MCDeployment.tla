----------------------------- MODULE MCDeployment -----------------------------
(* Instance of Deployment for TLC.                                         *)
EXTENDS Deployment, TLC

CONSTANTS c1, c2

TwoCalls == {c1, c2}
EvidenceAndWeather == c1 :> {"evidence"} @@ c2 :> {"weather", "plain"}
=============================================================================
