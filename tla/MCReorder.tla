------------------------------ MODULE MCReorder ------------------------------
(***************************************************************************)
(* Three clients for SharedSession and ReorderLoop.  Two of them send the  *)
(* same file under the same name: with one id, they are two copies of each *)
(* of its five frames.                                                     *)
(***************************************************************************)
EXTENDS ReorderLoop, TLC

CONSTANTS k1, k2, k3, i1, i2, log, report

TwoSources == k1 :> <<"a1", "a2", "a3", "a4">> @@ k2 :> <<"a1", "a2", "a3", "a4">>
              @@ k3 :> <<"b1", "b2">>
Chunks == {"a1", "a2", "a3", "a4", "b1", "b2"}
TwoNames == k1 :> report @@ k2 :> report @@ k3 :> log

(* Nothing but equality is asked of an id.                                 *)
IdSymmetry == Permutations(Id)
=============================================================================
