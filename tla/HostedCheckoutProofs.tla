------------------------ MODULE HostedCheckoutProofs ------------------------
(***************************************************************************)
(* Proofs about HostedCheckout: it leaves the money path alone, so that    *)
(* every theorem of SettlementProofs holds of it too, and what verify      *)
(* calls completed is verified and final.                                  *)
(***************************************************************************)
EXTENDS HostedCheckout, SettlementProofs

USE HostedAssumption
-----------------------------------------------------------------------------
(* The money path.                                                          *)

\* A step of the composition is a step of Settlement or leaves it alone.
LEMMA HostedStepIsMoneyStep == [HostedNext]_<<vars, hosted>> => [Next]_vars
BY DEF HostedNext, Next, Restart, select_gateway, submit_manual, VerifyCharge,
       VerifyEvent, Hangup

\* Customers and pollers, however they interleave with it, never make the money
\* path do what it would not do alone: no claim settles a charge (checkout.rs:184).
THEOREM MoneyPathUnmoved == HostedSpec => CustomersCannotSettle
<1>1. HostedInit => Init
  BY DEF HostedInit
<1> QED
  BY <1>1, HostedStepIsMoneyStep, PTL DEF HostedSpec, Spec, CustomersCannotSettle
-----------------------------------------------------------------------------
(* What a poller carries and was told.                                      *)

\* What verify has read of a paid charge is still what the charge says.
RowsCurrent ==
    \A p \in Poller :
        row[p] # None /\ row[p].status = "paid" =>
            /\ status[row[p].charge_id] = "paid"
            /\ row[p].gateway = gateway[row[p].charge_id]
            /\ row[p].claimed = claimed[row[p].charge_id]

Answers == HostedTypeOK /\ RowsCurrent /\ CompletedIsVerified /\ CompletedIsFinal

\* A recorded event is never lost.
LEMMA EventsPersist == ASSUME [Next]_vars PROVE sms_events \subseteq sms_events'
BY DEF Next, Serve, HandlerStep, create, create_checkout, IssueCheckout, Receive, Match,
       RejectDuplicate, RecordUnmatched, RecordMatched, InsertEvent, Post, MarkPaid,
       SettleInvoices, Notify, IssueLink, Abandon, Crash, vars, db

\* A paid charge has an event: it was posted, and a posting is backed by one.
LEMMA PaidHasEvent ==
    ASSUME Books, NEW c \in ChargeId, status[c] = "paid"
    PROVE  \E e \in sms_events : e.charge_id = c
BY DEF Books, PaidIsPosted, PostingsOf, LedgerBacked

LEMMA AnswersInit == HostedInit => Answers
BY DEF HostedInit, Answers, HostedTypeOK, RowsCurrent, CompletedIsVerified,
       CompletedIsFinal, Completed

\* Neither the money path nor a poller that goes away disturbs what was answered.
LEMMA AnswersKept ==
    ASSUME Shape, Answers, [Next]_vars, UNCHANGED <<gateway, claimed, answer>>,
           HostedTypeOK', \A p \in Poller : row'[p] \in {row[p], None}
    PROVE  Answers'
<1>1. Persistent /\ sms_events \subseteq sms_events'
  BY RowsPersist, EventsPersist
<1>2. RowsCurrent'
  BY <1>1 DEF Answers, HostedTypeOK, CheckoutRow, RowsCurrent, Persistent
<1>3. CompletedIsVerified'
  BY <1>1 DEF Answers, HostedTypeOK, VerifyResult, CompletedIsVerified, Completed,
              Attributed, Persistent
<1>4. CompletedIsFinal'
  BY DEF Answers, CompletedIsFinal, Completed
<1> QED
  BY <1>2, <1>3, <1>4 DEF Answers

LEMMA AnswersStep ==
    Shape /\ Books /\ Answers /\ [HostedNext]_<<vars, hosted>> => Answers'
<1> SUFFICES ASSUME Shape, Books, Answers, [HostedNext]_<<vars, hosted>>
             PROVE  Answers'
  OBVIOUS
<1>1. CASE Serve /\ UNCHANGED hosted
  BY <1>1, AnswersKept DEF hosted, Next, Answers, HostedTypeOK
<1>2. CASE Restart
  BY <1>2, AnswersKept DEF Restart, Next, Answers, HostedTypeOK
<1>3. CASE UNCHANGED <<vars, hosted>>
  BY <1>3, AnswersKept DEF hosted, Answers, HostedTypeOK
<1>4. ASSUME NEW p \in Poller, Hangup(p)
      PROVE  Answers'
  BY <1>4, AnswersKept DEF Hangup, Answers, HostedTypeOK
<1>5. ASSUME NEW c \in ChargeId, NEW g \in Gateway, select_gateway(c, g)
      PROVE  Answers'
  <2>1. UNCHANGED <<status, sms_events, claimed, row, answer>> /\ status[c] # "paid"
    BY <1>5 DEF select_gateway, OpenToCustomer, vars, db
  <2>2. \A d \in ChargeId : status[d] = "paid" => gateway'[d] = gateway[d]
    BY <1>5, <2>1 DEF select_gateway, Answers, HostedTypeOK
  <2>3. HostedTypeOK'
    BY <1>5, <2>1 DEF select_gateway, Answers, HostedTypeOK
  <2> QED
    BY <2>1, <2>2, <2>3 DEF Answers, HostedTypeOK, CheckoutRow, VerifyResult, RowsCurrent,
        CompletedIsVerified, CompletedIsFinal, Completed, Attributed
<1>6. ASSUME NEW c \in ChargeId, NEW trx_id \in Claim, submit_manual(c, trx_id)
      PROVE  Answers'
  <2>1. UNCHANGED <<status, sms_events, gateway, row, answer>> /\ status[c] # "paid"
    BY <1>6 DEF submit_manual, OpenToCustomer, vars, db
  <2>2. \A d \in ChargeId : status[d] = "paid" => claimed'[d] = claimed[d]
    BY <1>6, <2>1 DEF submit_manual, Answers, HostedTypeOK
  <2>3. HostedTypeOK'
    BY <1>6, <2>1 DEF submit_manual, Answers, HostedTypeOK
  <2> QED
    BY <2>1, <2>2, <2>3 DEF Answers, HostedTypeOK, CheckoutRow, VerifyResult, RowsCurrent,
        CompletedIsVerified, CompletedIsFinal, Completed, Attributed
<1>7. ASSUME NEW p \in Poller, NEW c \in ChargeId, VerifyCharge(p, c)
      PROVE  Answers'
  <2>1. UNCHANGED <<status, sms_events, gateway, claimed, answer>>
    BY <1>7 DEF VerifyCharge, vars, db
  <2> DEFINE read == [charge_id |-> c, status |-> status[c],
                      gateway |-> gateway[c], claimed |-> claimed[c]]
  <2>2. read \in CheckoutRow
    BY <1>7 DEF VerifyCharge, HasPayRef, Shape, TypeOK, RowsExist, Answers, HostedTypeOK,
                CheckoutRow
  <2>3. row' = [row EXCEPT ![p] = read]
    BY <1>7 DEF VerifyCharge
  <2>4. HostedTypeOK'
    BY <2>1, <2>2, <2>3 DEF Answers, HostedTypeOK
  <2>5. RowsCurrent'
    BY <2>1, <2>3 DEF Answers, HostedTypeOK, RowsCurrent
  <2> QED
    BY <2>1, <2>4, <2>5 DEF Answers, CompletedIsVerified, CompletedIsFinal, Completed,
        Attributed
<1>8. ASSUME NEW p \in Poller, VerifyEvent(p)
      PROVE  Answers'
  <2>1. UNCHANGED <<status, sms_events, gateway, claimed>>
    BY <1>8 DEF VerifyEvent, vars, db
  <2> DEFINE c == row[p].charge_id
  <2>2. row[p] \in CheckoutRow /\ c \in ChargeId
    BY <1>8 DEF VerifyEvent, Answers, HostedTypeOK, CheckoutRow
  <2>3. PICK settled \in SettledTrx(c) :
          answer' = [answer EXCEPT ![p] =
              [charge_id      |-> c,
               status         |-> IF row[p].status = "paid" THEN "completed" ELSE "pending",
               gateway        |-> row[p].gateway,
               sender         |-> row[p].claimed,
               transaction_id |-> TransactionId(settled, row[p].claimed)]]
    BY <1>8 DEF VerifyEvent
  <2>4. /\ settled \in TrxId \cup {None}
        /\ settled # None => Attributed(c, settled)
        /\ settled = None => \A e \in sms_events : e.charge_id # c
    BY <2>3 DEF SettledTrx, Attributed, TrxId, Shape, TypeOK
  <2>5. /\ answer'[p].charge_id = c
        /\ answer'[p].status = "completed" <=> row[p].status = "paid"
        /\ answer'[p].gateway = row[p].gateway
        /\ answer'[p].sender = row[p].claimed
        /\ settled # None => answer'[p].transaction_id = settled
        /\ \A q \in Poller \ {p} : answer'[q] = answer[q]
        /\ answer'[p] \in VerifyResult
    BY <2>2, <2>3, <2>4 DEF Answers, HostedTypeOK, CheckoutRow, VerifyResult, TransactionId
  <2>6. row[p].status = "paid" => status[c] = "paid" /\ Attributed(c, settled) /\ settled # None
    BY <1>8, <2>2, <2>4, PaidHasEvent DEF VerifyEvent, Answers, RowsCurrent
  <2>7. HostedTypeOK' /\ RowsCurrent'
    BY <1>8, <2>1, <2>3, <2>5 DEF VerifyEvent, Answers, HostedTypeOK, RowsCurrent
  <2>8. CompletedIsVerified'
    BY <2>1, <2>5, <2>6 DEF Answers, CompletedIsVerified, Completed, Attributed
  <2>9. CompletedIsFinal'
    BY <1>8, <2>1, <2>5 DEF VerifyEvent, Answers, RowsCurrent, CompletedIsFinal, Completed
  <2> QED
    BY <2>7, <2>8, <2>9 DEF Answers
<1> QED
  BY <1>1, <1>2, <1>3, <1>4, <1>5, <1>6, <1>7, <1>8 DEF HostedNext
-----------------------------------------------------------------------------
(* The theorems.                                                            *)

LEMMA AnswersAlways == HostedSpec => []Answers
<1>1. HostedSpec => [](Shape /\ Books)
  BY MoneyPathUnmoved, SpecIsConsistent, PTL DEF CustomersCannotSettle
<1> QED
  BY <1>1, AnswersInit, AnswersStep, PTL DEF HostedSpec

\* The customer's columns and the rows and answers of verify have the values they may
\* have (checkout.rs:206-280).
THEOREM HostedIsTyped == HostedSpec => []HostedTypeOK
<1>1. Answers => HostedTypeOK
  BY DEF Answers
<1> QED
  BY <1>1, AnswersAlways, PTL

\* A payment reported as completed is paid and carries the TrxID of a transfer
\* that was received for it, however verify's two reads interleave with
\* settlements, claims and crashes (checkout.rs:224-262).
THEOREM CompletedPaymentsAreVerified == HostedSpec => []CompletedIsVerified
<1>1. Answers => CompletedIsVerified
  BY DEF Answers
<1> QED
  BY <1>1, AnswersAlways, PTL

\* No late gateway choice or claim changes what a completed answer said.
THEOREM CompletedAnswersAreFinal == HostedSpec => []CompletedIsFinal
<1>1. Answers => CompletedIsFinal
  BY DEF Answers
<1> QED
  BY <1>1, AnswersAlways, PTL
=============================================================================
