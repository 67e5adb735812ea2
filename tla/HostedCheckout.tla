--------------------------- MODULE HostedCheckout ---------------------------
(***************************************************************************)
(* The hosted checkout page (src/src/checkout.rs) beside the money path:   *)
(* the customer picks a gateway and may enter a TrxID by hand, the         *)
(* merchant's server asks verify what became of the payment, and           *)
(* Settlement goes on meanwhile.                                           *)
(*                                                                         *)
(* select_gateway and submit_manual are one UPDATE each.  verify reads the *)
(* charge and then the event that settled it, in two statements, so that a *)
(* settlement, a claim or a crash may come in between.                     *)
(***************************************************************************)
EXTENDS Settlement

CONSTANTS
    Gateway,   \* gateways the page offers
    Claim,     \* TrxIDs customers type in (the sender they type goes with it)
    Poller     \* requests to verify-payment

VARIABLES
    gateway,   \* charges.gateway
    claimed,   \* charges.claimed_trx_id and claimed_sender
    row,       \* poller local: what verify's first statement read
    answer     \* the last answer each poller got

hosted == <<gateway, claimed, row, answer>>

TrxId == {t.txn_id : t \in Txn}

\* The columns of a charge that verify goes on to use.
CheckoutRow == [charge_id : ChargeId, status : {"pending", "paid"},
                gateway : Gateway \cup {None}, claimed : Claim \cup {None}]

VerifyResult == [charge_id : ChargeId, status : {"pending", "completed"},
                 gateway : Gateway \cup {None}, sender : Claim \cup {None},
                 transaction_id : TrxId \cup Claim \cup {None}]

ASSUME HostedAssumption ==
    None \notin Gateway \cup Claim \cup TrxId \cup CheckoutRow \cup VerifyResult

HostedTypeOK ==
    /\ gateway \in [ChargeId -> Gateway \cup {None}]
    /\ claimed \in [ChargeId -> Claim \cup {None}]
    /\ row \in [Poller -> CheckoutRow \cup {None}]
    /\ answer \in [Poller -> VerifyResult \cup {None}]

HostedInit ==
    /\ Init
    /\ gateway = [c \in ChargeId |-> None]
    /\ claimed = [c \in ChargeId |-> None]
    /\ row = [p \in Poller |-> None]
    /\ answer = [p \in Poller |-> None]
-----------------------------------------------------------------------------
(* The customer.                                                            *)

\* Only checkouts have a pay_ref, which is their order_id too.
HasPayRef(c) == terms[c] # None /\ terms[c].order_id = c

\* Mutant of OpenToCustomer: the status is not looked at.
KnownToCustomer(c) == HasPayRef(c)

\* WHERE pay_ref = ? AND status = 'pending': no other charge can be written to.
OpenToCustomer(c) == HasPayRef(c) /\ status[c] = "pending"

select_gateway(c, g) ==
    /\ OpenToCustomer(c)
    /\ gateway' = [gateway EXCEPT ![c] = g]
    /\ UNCHANGED <<vars, claimed, row, answer>>

\* Mutant of submit_manual: the customer's word is taken for a payment.
submit_and_settle(c, trx_id) ==
    /\ OpenToCustomer(c)
    /\ claimed' = [claimed EXCEPT ![c] = trx_id]
    /\ status' = [status EXCEPT ![c] = "paid"]
    /\ UNCHANGED <<terms, sms_events, ledger, invoices, deliveries, locals, faults,
                   gateway, row, answer>>

submit_manual(c, trx_id) ==
    /\ OpenToCustomer(c)
    /\ claimed' = [claimed EXCEPT ![c] = trx_id]
    /\ UNCHANGED <<vars, gateway, row, answer>>
-----------------------------------------------------------------------------
(* verify, one action per statement.                                        *)

VerifyCharge(p, c) ==
    /\ row[p] = None
    /\ HasPayRef(c)
    /\ row' = [row EXCEPT ![p] = [charge_id |-> c, status |-> status[c],
                                  gateway |-> gateway[c], claimed |-> claimed[c]]]
    /\ UNCHANGED <<vars, gateway, claimed, answer>>

\* What SELECT txn_id ... ORDER BY received_at DESC LIMIT 1 may return.  received_at is
\* the wall clock in milliseconds, which may tie or be set back: when a charge has
\* several events, any of them may come first.
SettledTrx(c) ==
    LET settling == {e \in sms_events : e.charge_id = c}
    IN  IF settling = {} THEN {None} ELSE {e.txn.txn_id : e \in settling}

\* Mutant of TransactionId: the claim comes first.
ClaimedOr(settled, claim) == IF claim # None THEN claim ELSE settled

\* settled_trx.or(claimed_trx_id)
TransactionId(settled, claim) == IF settled # None THEN settled ELSE claim

VerifyEvent(p) ==
    /\ row[p] # None
    /\ \E settled \in SettledTrx(row[p].charge_id) :
          answer' = [answer EXCEPT ![p] =
              [charge_id      |-> row[p].charge_id,
               status         |-> IF row[p].status = "paid" THEN "completed" ELSE "pending",
               gateway        |-> row[p].gateway,
               sender         |-> row[p].claimed,
               transaction_id |-> TransactionId(settled, row[p].claimed)]]
    /\ row' = [row EXCEPT ![p] = None]
    /\ UNCHANGED <<vars, gateway, claimed>>

\* The poller hangs up, or the second statement fails.
Hangup(p) ==
    /\ row[p] # None
    /\ row' = [row EXCEPT ![p] = None]
    /\ UNCHANGED <<vars, gateway, claimed, answer>>
-----------------------------------------------------------------------------
\* The process stops: requests to verify end with the others.
Restart ==
    /\ Crash
    /\ row' = [p \in Poller |-> None]
    /\ UNCHANGED <<gateway, claimed, answer>>

HostedNext ==
    \/ Serve /\ UNCHANGED hosted
    \/ Restart
    \/ \E c \in ChargeId, g \in Gateway : select_gateway(c, g)
    \/ \E c \in ChargeId, trx_id \in Claim : submit_manual(c, trx_id)
    \/ \E p \in Poller, c \in ChargeId : VerifyCharge(p, c)
    \/ \E p \in Poller : VerifyEvent(p) \/ Hangup(p)

HostedSpec == HostedInit /\ [][HostedNext]_<<vars, hosted>>
-----------------------------------------------------------------------------
(* Properties.                                                              *)

Completed(p) == answer[p] # None /\ answer[p].status = "completed"

\* A transfer of this TrxID was attributed to charge c.
Attributed(c, trx_id) ==
    \E e \in sms_events : e.charge_id = c /\ e.txn.txn_id = trx_id

\* A merchant who is told "completed" is told the TrxID of a transfer that was
\* received for that charge, never one the customer made up (checkout.rs:231): the
\* status is read first, and a charge is paid only after its event is on record.
CompletedIsVerified ==
    \A p \in Poller :
        Completed(p) => /\ status[answer[p].charge_id] = "paid"
                        /\ Attributed(answer[p].charge_id, answer[p].transaction_id)

\* What a completed answer says of the customer's choices is final: once verify
\* has seen a charge paid, neither select_gateway nor submit_manual, whenever it
\* was sent, changes what the next answer says (checkout.rs:170-204).
CompletedIsFinal ==
    \A p \in Poller :
        Completed(p) => /\ answer[p].gateway = gateway[answer[p].charge_id]
                        /\ answer[p].sender = claimed[answer[p].charge_id]

\* "A customer must never be able to mark themselves paid" (checkout.rs:184): with
\* customers and pollers at work, the money path does only what it does alone.
CustomersCannotSettle == Spec
=============================================================================
