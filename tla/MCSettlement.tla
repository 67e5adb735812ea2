---------------------------- MODULE MCSettlement ----------------------------
(***************************************************************************)
(* Small instances of Settlement.  Three transfers of one amount compete   *)
(* for the charges; the same subscriber writes his number in two formats;  *)
(* one txn_id is used by both gateways; one request is not valid.          *)
(***************************************************************************)
EXTENDS Reconciliation, TLC

CONSTANTS h1, h2, c1, c2, i1, s1, s2, s3

Symmetry == Permutations(Handler) \cup Permutations(ChargeId)

Alice == <<"1", "7">>
AliceAbroad == <<"+", "8", "1", "7">>
Bob   == <<"0", "2", "5">>
Phones == {Alice, AliceAbroad, Bob}

Transfer(gw, id, amount, sender) ==
    [gateway |-> gw, txn_id |-> id, amount_minor |-> amount, sender_msisdn |-> sender]

T1 == Transfer("bkash", "T1", 5, AliceAbroad)
T2 == Transfer("bkash", "T2", 5, Bob)
T3 == Transfer("nagad", "T1", 5, None)

\* Under AiReadings s1 is read by the AI chain, which may read another txn_id the next time.
T1Drifted == Transfer("bkash", "I1", 5, AliceAbroad)

AllTxns == {T1, T2, T3, T1Drifted}

AsParsed == s1 :> {T1} @@ s2 :> {T2} @@ s3 :> {T3}
RegexReadings == [s \in Sms |-> AsParsed[s]]
AiReadings == [s \in Sms |-> AsParsed[s] \cup (IF s = s1 THEN {T1Drifted} ELSE {})]

Request(order, amount, phone, callback) ==
    [order_id |-> order, amount_minor |-> amount,
     customer_msisdn |-> phone, callback_url |-> callback]

Requests == {Request("A", 5, Alice, TRUE), Request("A", 7, Bob, FALSE),
             Request("B", 0, None, FALSE)}
OneRequest == {Request("A", 5, Alice, TRUE)}
NoRequest == {}

Invoices5 == [i \in InvoiceId |-> 5]
=============================================================================
