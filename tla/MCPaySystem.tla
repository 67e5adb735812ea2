---------------------------- MODULE MCPaySystem -----------------------------
(***************************************************************************)
(* The transfers of MCSettlement compete for one charge, the worker takes  *)
(* the callbacks one at a time.                                            *)
(***************************************************************************)
EXTENDS PaySystem, MCSettlement

ThreeTransfers == {T1, T2, T3}
=============================================================================
