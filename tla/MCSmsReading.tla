----------------------------- MODULE MCSmsReading ---------------------------
(***************************************************************************)
(* A small instance of SmsReading. s1 is read by the patterns, s2 only by  *)
(* the providers, who may take its txn_id for s1's or another, s3 comes    *)
(* from a gateway the server does not know.                                *)
(***************************************************************************)
EXTENDS SmsReading, TLC

CONSTANTS h1, c1, s1, s2, s3

Alice == <<"1", "7">>
AliceAbroad == <<"+", "8", "1", "7">>
Bob == <<"0", "2", "5">>
Phones == {Alice, AliceAbroad, Bob}

Captured(gw, id, amount, sender) ==
    [gateway |-> gw, txn_id |-> id, amount |-> amount, sender_msisdn |-> sender]

\* "2,000.5", and an amount without a digit.
Messages == s1 :> Captured("bkash", "T1", <<2, Comma, 0, 0, 0, Point, 5>>, AliceAbroad)
         @@ s2 :> Captured("nagad", None, <<Comma>>, None)
         @@ s3 :> Captured("rocket", "T1", <<5>>, None)

Extracted(id, n, k, sender) ==
    [txn_id |-> id, amount_bdt |-> [n |-> n, k |-> k], sender_msisdn |-> sender]

NotATransfer == [txn_id |-> None, amount_bdt |-> None, sender_msisdn |-> None]

\* The two providers do not read alike, and each may fail in several ways.
AiReplies ==
    [s \in Sms |-> <<{NoReply, Extracted("T1", -5, 0, None), Extracted("T1", 20005, 1, Bob)},
                   {Reversed, NotATransfer, Extracted("T2", 2000499, 3, Bob)}>>]

Providers == <<"openrouter", "opencode-zen">>

Txns == {[gateway |-> "bkash", txn_id |-> "T1", amount_minor |-> 200050, sender_msisdn |-> AliceAbroad],
         [gateway |-> "nagad", txn_id |-> "T1", amount_minor |-> 200050, sender_msisdn |-> Bob],
         [gateway |-> "nagad", txn_id |-> "T2", amount_minor |-> 200050, sender_msisdn |-> Bob]}

ReadAs == [s \in Sms |-> Possible(s)]

Request(order, amount, phone, callback) ==
    [order_id |-> order, amount_minor |-> amount,
     customer_msisdn |-> phone, callback_url |-> callback]

Requests == {Request("A", 200050, Alice, TRUE)}

\* The texts of up to four characters that the patterns can capture as an amount of at
\* most two decimals: digits and commas, then perhaps a point and digits.
Amounts ==
    {raw \in UNION {[1..n -> {0, 1, 5, Comma, Point}] : n \in 1..4} :
        /\ IsAmount(raw)
        /\ \A m, n \in DOMAIN raw : raw[m] = Point /\ m < n => IsDigit(raw[n])
        /\ Decimals(raw) <= 2}

\* Every one of them is stored as what it is worth.
ASSUME AmountsAreRead == \A raw \in Amounts : amount_to_minor(raw) = Worth(raw)

NoInvoices == [i \in {} |-> 0]
=============================================================================
