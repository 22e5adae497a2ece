--------------------------- MODULE MCDiodeTransfer ---------------------------
(* The values DiodeTransfer is model-checked with: a file of two chunks    *)
(* whose name is accepted, and one of one chunk whose name is rejected.    *)
EXTENDS DiodeTransfer, TLC

CONSTANTS a, b, c1, c2, c3, report, odd

TwoFiles == a :> <<c1, c2>> @@ b :> <<c3>>
TwoNames == a :> report @@ b :> odd
=============================================================================
