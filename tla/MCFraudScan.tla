----------------------------- MODULE MCFraudScan ----------------------------
(***************************************************************************)
(* The instances of MCSettlement with a scan in progress: two amounts, one *)
(* txn_id on two gateways, a number declared in another format and another *)
(* subscriber's payment.                                                   *)
(***************************************************************************)
EXTENDS FraudScan, MCSettlement

T5 == Transfer("nagad", "T1", 7, Bob)
ScanTxns == {T1, T2, T5}
ScanReadings == [s \in Sms |-> IF s = s3 THEN {T5} ELSE AsParsed[s]]
ScanRequests == {Request("A", 5, Alice, FALSE), Request("B", 7, Alice, FALSE)}
=============================================================================
