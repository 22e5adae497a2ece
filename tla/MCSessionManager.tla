-------------------------- MODULE MCSessionManager --------------------------
(* The values SessionManager is model-checked with: a file of three chunks *)
(* and an empty one, sent under one name.                                  *)
EXTENDS SessionManager, TLC

CONSTANTS a, b, c1, c2, c3, report

TwoFiles == a :> <<c1, c2, c3>> @@ b :> <<>>
OneName  == a :> report @@ b :> report
=============================================================================
