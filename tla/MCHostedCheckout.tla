-------------------------- MODULE MCHostedCheckout --------------------------
(***************************************************************************)
(* The instances of MCSettlement with a customer who chooses a gateway and *)
(* claims a TrxID that no transfer has, and a server that polls verify.    *)
(***************************************************************************)
EXTENDS HostedCheckout, MCSettlement

CONSTANTS p1

BothTxns == {T1, T2}
CheckoutRequests == {Request("A", 5, Alice, FALSE)}
=============================================================================
