----------------------------- MODULE Settlement -----------------------------
(***************************************************************************)
(* The money path of SpritEXAI Pay: an SMS is read, matched to a pending   *)
(* charge, recorded (sms::ingest) and settled (charge::mark_paid: ledger,  *)
(* status, invoice, webhook queue), while merchants create charges and     *)
(* issue invoices.                                                         *)
(*                                                                         *)
(* Every request runs in a task of its own (a Handler) and every SQL       *)
(* statement is one atomic step, so the steps of several handlers          *)
(* interleave at each await.  A handler may be abandoned at any await: its *)
(* client disconnects, a statement fails, the process stops.  The handler's*)
(* locals are gone then, the database stays.                               *)
(***************************************************************************)
EXTENDS Matching, FiniteSets

CONSTANTS
    Handler,        \* request tasks of the server
    Sms,            \* transfer messages the forwarder may deliver, any number of times
    Txn,            \* transactions a message can be read as (ParsedTxn)
    Readings,       \* Readings[s]: what parsing s may yield, regex first, AI otherwise
    ChargeReq,      \* bodies of create-charge and create-checkout requests
    InvoiceId,      \* drafted invoices
    InvoiceAmount,  \* their totals
    MaxFaults       \* how many handlers or processes may be abandoned

\* What the server is serving at one moment is finite.
ASSUME HandlerAssumption == IsFiniteSet(Handler)

\* (gateway, txn_id), the UNIQUE key of sms_events.
Key(t) == <<t.gateway, t.txn_id>>
Keys == {Key(t) : t \in Txn}

ASSUME TxnAssumption ==
    /\ None \notin Txn
    /\ \A t \in Txn : /\ t.amount_minor \in Nat
                      /\ t.sender_msisdn \in Msisdn \cup {None}
    /\ Readings \in [Sms -> SUBSET Txn]

ASSUME RequestAssumption ==
    \A r \in ChargeReq : /\ r.amount_minor \in Int
                         /\ r.customer_msisdn \in Msisdn \cup {None}
                         /\ r.callback_url \in BOOLEAN

ASSUME InvoiceAssumption ==
    /\ None \notin InvoiceId
    /\ InvoiceAmount \in [InvoiceId -> Nat \ {0}]

ASSUME FaultAssumption == MaxFaults \in Nat

VARIABLES
    status,      \* charges.status, "absent" before the row exists
    terms,       \* the columns of a charge that no statement ever changes
    sms_events,  \* rows of sms_events; matched = 1 iff charge_id is set
    ledger,      \* ledger transactions, in posting order
    invoices,    \* status and charge_id of each invoice
    deliveries,  \* webhook_deliveries enqueued, in order
    pc,          \* where a handler stands
    txn,         \* handler local: the parsed transaction
    target,      \* handler local: the matched charge, or the minted one
    issuing,     \* handler local: the invoice being issued
    faults       \* how many times something was abandoned (bounded by MaxFaults)

db     == <<status, terms, sms_events, ledger, invoices, deliveries>>
locals == <<pc, txn, target, issuing>>
vars   == <<db, locals, faults>>

OrderIds == {r.order_id : r \in ChargeReq} \cup ChargeId

\* `invoice' is a history field: which invoice a checkout was minted for.
Terms == [order_id : OrderIds, amount_minor : Nat \ {0},
          customer_msisdn : Msisdn \cup {None}, callback_url : BOOLEAN,
          invoice : InvoiceId \cup {None}]

ASSUME RowAssumption == None \notin Terms

\* `event' is a history field of both: the SMS event that caused the row.
LedgerTxn == [reference : ChargeId, amount_minor : Nat \ {0}, event : Keys]
Delivery  == [charge_id : ChargeId, event : Keys]

Stages == {"idle", "match", "record", "post", "mark", "invoice", "notify", "link"}

TypeOK ==
    /\ status \in [ChargeId -> {"absent", "pending", "paid"}]
    /\ terms \in [ChargeId -> Terms \cup {None}]
    /\ sms_events \subseteq [txn : Txn, charge_id : ChargeId \cup {None}]
    /\ ledger \in Seq(LedgerTxn)
    /\ invoices \in [InvoiceId -> [status : {"unpaid", "paid"},
                                   charge_id : ChargeId \cup {None}]]
    /\ deliveries \in Seq(Delivery)
    /\ pc \in [Handler -> Stages]
    /\ txn \in [Handler -> Txn \cup {None}]
    /\ target \in [Handler -> ChargeId \cup {None}]
    /\ issuing \in [Handler -> InvoiceId \cup {None}]
    /\ faults \in 0..MaxFaults

Init ==
    /\ status = [c \in ChargeId |-> "absent"]
    /\ terms = [c \in ChargeId |-> None]
    /\ sms_events = {}
    /\ ledger = <<>>
    /\ invoices = [i \in InvoiceId |-> [status |-> "unpaid", charge_id |-> None]]
    /\ deliveries = <<>>
    /\ pc = [h \in Handler |-> "idle"]
    /\ txn = [h \in Handler |-> None]
    /\ target = [h \in Handler |-> None]
    /\ issuing = [h \in Handler |-> None]
    /\ faults = 0
-----------------------------------------------------------------------------
(* Charges.  Creating one is a single INSERT, so it needs no handler state. *)

\* idx_charges_order: no two charges share an order_id.
OrderIsFree(order) == \A c \in ChargeId : terms[c] # None => terms[c].order_id # order

\* Mutant of ValidAmount: zero passes.
ZeroIsValid(amount) == amount >= 0

\* Both creators, and the CHECK of the table, refuse other amounts.
ValidAmount(amount) == amount > 0

\* The INSERT common to charge::create and checkout::create_checkout.
InsertCharge(c, order, r, i) ==
    /\ status[c] = "absent"
    /\ ValidAmount(r.amount_minor)
    /\ OrderIsFree(order)
    /\ status' = [status EXCEPT ![c] = "pending"]
    /\ terms' = [terms EXCEPT ![c] =
                    [order_id        |-> order,
                     amount_minor    |-> r.amount_minor,
                     customer_msisdn |-> r.customer_msisdn,
                     callback_url    |-> r.callback_url,
                     invoice         |-> i]]

create(c, r) ==
    /\ InsertCharge(c, r.order_id, r, None)
    /\ UNCHANGED <<sms_events, ledger, invoices, deliveries, locals, faults>>

\* A checkout's order_id is its own fresh pay_ref, here the charge itself.
create_checkout(c, r) ==
    /\ InsertCharge(c, c, r, None)
    /\ UNCHANGED <<sms_events, ledger, invoices, deliveries, locals, faults>>
-----------------------------------------------------------------------------
(* Invoices.  issue_payment mints a checkout and then stores the link; it   *)
(* looks at nothing but the invoice's total, so it may run again.           *)

InvoiceReq(i) == [amount_minor |-> InvoiceAmount[i], customer_msisdn |-> None,
                  callback_url |-> FALSE]

IssueCheckout(h, i, c) ==
    /\ pc[h] = "idle"
    /\ InsertCharge(c, c, InvoiceReq(i), i)
    /\ pc' = [pc EXCEPT ![h] = "link"]
    /\ target' = [target EXCEPT ![h] = c]
    /\ issuing' = [issuing EXCEPT ![h] = i]
    /\ UNCHANGED <<sms_events, ledger, invoices, deliveries, txn, faults>>

\* The handler is done, or abandoned: its locals are forgotten.
Leave(h) ==
    /\ pc' = [pc EXCEPT ![h] = "idle"]
    /\ txn' = [txn EXCEPT ![h] = None]
    /\ target' = [target EXCEPT ![h] = None]
    /\ issuing' = [issuing EXCEPT ![h] = None]

IssueLink(h) ==
    /\ pc[h] = "link"
    /\ invoices' = [invoices EXCEPT ![issuing[h]].charge_id = target[h]]
    /\ Leave(h)
    /\ UNCHANGED <<status, terms, sms_events, ledger, deliveries, faults>>
-----------------------------------------------------------------------------
(* sms::ingest: parse, match, record.                                       *)

\* The next stage of a handler whose other locals stay.
Proceed(h, stage) ==
    /\ pc' = [pc EXCEPT ![h] = stage]
    /\ UNCHANGED <<txn, target, issuing>>

Receive(h, s) ==
    /\ pc[h] = "idle"
    /\ \E t \in Readings[s] : txn' = [txn EXCEPT ![h] = t]
    /\ pc' = [pc EXCEPT ![h] = "match"]
    /\ UNCHANGED <<db, target, issuing, faults>>

Match(h) ==
    /\ pc[h] = "match"
    /\ pc' = [pc EXCEPT ![h] = "record"]
    /\ target' = [target EXCEPT ![h] = find_matching_charge(status, terms, txn[h])]
    /\ UNCHANGED <<db, txn, issuing, faults>>

\* Mutant of IsRecorded: the unique index is missing.
NeverRecorded(t) == FALSE

\* idx_sms_dedup: the transaction is on record already.
IsRecorded(t) == \E e \in sms_events : Key(e.txn) = Key(t)

RejectDuplicate(h) ==
    /\ pc[h] = "record"
    /\ IsRecorded(txn[h])
    /\ Leave(h)
    /\ UNCHANGED <<db, faults>>

InsertEvent(h) ==
    /\ pc[h] = "record"
    /\ ~IsRecorded(txn[h])
    /\ sms_events' = sms_events \cup {[txn |-> txn[h], charge_id |-> target[h]]}
    /\ UNCHANGED <<status, terms, ledger, invoices, deliveries, faults>>

RecordUnmatched(h) == target[h] = None /\ InsertEvent(h) /\ Leave(h)

\* Mutant of RecordMatched: the charge is marked paid before it is posted.
RecordThenMark(h) == target[h] # None /\ InsertEvent(h) /\ Proceed(h, "mark")

RecordMatched(h) == target[h] # None /\ InsertEvent(h) /\ Proceed(h, "post")
-----------------------------------------------------------------------------
(* charge::mark_paid, statement by statement.                               *)

\* ledger::post is one database transaction: both entries or none.
Post(h) ==
    /\ pc[h] = "post"
    /\ ledger' = Append(ledger, [reference    |-> target[h],
                                 amount_minor |-> terms[target[h]].amount_minor,
                                 event        |-> Key(txn[h])])
    /\ Proceed(h, "mark")
    /\ UNCHANGED <<status, terms, sms_events, invoices, deliveries, faults>>

\* Mutant of MarkPaid: the UPDATE finds no row.
MarkNothing(h) ==
    /\ pc[h] = "mark"
    /\ Proceed(h, "invoice")
    /\ UNCHANGED <<db, faults>>

MarkPaid(h) ==
    /\ pc[h] = "mark"
    /\ status' = [status EXCEPT ![target[h]] = "paid"]
    /\ Proceed(h, "invoice")
    /\ UNCHANGED <<terms, sms_events, ledger, invoices, deliveries, faults>>

\* Mutants of settle_for_charge: no WHERE clause; one that matches nothing.
settle_all(c) == [i \in InvoiceId |-> [invoices[i] EXCEPT !.status = "paid"]]
settle_none(c) == invoices

\* The invoice rows after UPDATE ... WHERE charge_id = ? AND status = 'unpaid'.
settle_for_charge(c) ==
    [i \in InvoiceId |-> IF invoices[i].charge_id = c
                         THEN [invoices[i] EXCEPT !.status = "paid"]
                         ELSE invoices[i]]

\* Mutant of SettleInvoices: mark_paid returns without looking for a callback.
SettleAndLeave(h) ==
    /\ pc[h] = "invoice"
    /\ invoices' = settle_for_charge(target[h])
    /\ Leave(h)
    /\ UNCHANGED <<status, terms, sms_events, ledger, deliveries, faults>>

SettleInvoices(h) ==
    /\ pc[h] = "invoice"
    /\ invoices' = settle_for_charge(target[h])
    /\ IF terms[target[h]].callback_url THEN Proceed(h, "notify") ELSE Leave(h)
    /\ UNCHANGED <<status, terms, sms_events, ledger, deliveries, faults>>

Notify(h) ==
    /\ pc[h] = "notify"
    /\ deliveries' = Append(deliveries, [charge_id |-> target[h], event |-> Key(txn[h])])
    /\ Leave(h)
    /\ UNCHANGED <<status, terms, sms_events, ledger, invoices, faults>>
-----------------------------------------------------------------------------
(* Faults.                                                                  *)

\* A statement fails or the client hangs up: the handler's future is dropped.
Abandon(h) ==
    /\ pc[h] # "idle"
    /\ faults < MaxFaults
    /\ faults' = faults + 1
    /\ Leave(h)
    /\ UNCHANGED db

\* The process stops and starts again: no handler survives.
Crash ==
    /\ \E h \in Handler : pc[h] # "idle"
    /\ faults < MaxFaults
    /\ faults' = faults + 1
    /\ pc' = [h \in Handler |-> "idle"]
    /\ txn' = [h \in Handler |-> None]
    /\ target' = [h \in Handler |-> None]
    /\ issuing' = [h \in Handler |-> None]
    /\ UNCHANGED db
-----------------------------------------------------------------------------
\* What a handler does once its request is in.
HandlerStep(h) ==
    \/ Match(h)
    \/ RejectDuplicate(h)
    \/ RecordUnmatched(h)
    \/ RecordMatched(h)
    \/ Post(h)
    \/ MarkPaid(h)
    \/ SettleInvoices(h)
    \/ Notify(h)
    \/ IssueLink(h)

\* What happens while the process is up.
Serve ==
    \/ \E c \in ChargeId, r \in ChargeReq : create(c, r) \/ create_checkout(c, r)
    \/ \E h \in Handler, i \in InvoiceId, c \in ChargeId : IssueCheckout(h, i, c)
    \/ \E h \in Handler, s \in Sms : Receive(h, s)
    \/ \E h \in Handler : HandlerStep(h)
    \/ \E h \in Handler : Abandon(h)

Next == Serve \/ Crash

Spec == Init /\ [][Next]_vars

\* The runtime polls every ready task and SQLite answers every statement, so a
\* request that is not abandoned runs to its end.  Nothing obliges requests to come.
FairSpec == Spec /\ \A h \in Handler : WF_vars(HandlerStep(h))
-----------------------------------------------------------------------------
(* What holds between the steps: the inductive strengthening of the safety  *)
(* properties below.                                                        *)

Settling(h) == pc[h] \in {"post", "mark", "invoice", "notify"}

PostingsOf(c) == {n \in DOMAIN ledger : ledger[n].reference = c}

PostedFor(c, k) == \E n \in PostingsOf(c) : ledger[n].event = k

\* Charge c exists and asks for exactly this amount.
AsksFor(c, amount) ==
    /\ c \in ChargeId
    /\ terms[c] # None
    /\ terms[c].amount_minor = amount

\* Charge c was minted to collect invoice i in full.
MintedFor(c, i) == AsksFor(c, InvoiceAmount[i]) /\ terms[c].invoice = i

\* A row exists as soon as a charge has a status.
RowsExist == \A c \in ChargeId : terms[c] = None <=> status[c] = "absent"

\* A handler's locals fit its stage and the rows they refer to.
LocalsFit ==
    \A h \in Handler :
        /\ pc[h] \notin {"idle", "link"} => txn[h] \in Txn
        /\ pc[h] = "record" /\ target[h] # None =>
             AsksFor(target[h], txn[h].amount_minor)
        /\ Settling(h) => /\ target[h] # None
                          /\ [txn |-> txn[h], charge_id |-> target[h]] \in sms_events
        /\ pc[h] = "link" => issuing[h] \in InvoiceId /\ MintedFor(target[h], issuing[h])

\* One event per transaction, matched to a charge of its amount or to none.
EventsFit ==
    /\ \A e, f \in sms_events : Key(e.txn) = Key(f.txn) => e = f
    /\ \A e \in sms_events :
          e.charge_id # None => AsksFor(e.charge_id, e.txn.amount_minor)

\* An invoice is linked only to charges minted for it.
LinksFit ==
    \A i \in InvoiceId :
        invoices[i].charge_id # None => MintedFor(invoices[i].charge_id, i)

\* A settling handler is alone with its event; it posts first, marks, then notifies.
InOrder(h) ==
    /\ \A g \in Handler : Settling(g) /\ Key(txn[g]) = Key(txn[h]) => g = h
    /\ pc[h] = "post" => \A n \in DOMAIN ledger : ledger[n].event # Key(txn[h])
    /\ pc[h] # "post" => PostedFor(target[h], Key(txn[h]))
    /\ pc[h] \in {"invoice", "notify"} => status[target[h]] = "paid"
    /\ \A n \in DOMAIN deliveries : deliveries[n].event # Key(txn[h])

SettlingInOrder == \A h \in Handler : Settling(h) => InOrder(h)
-----------------------------------------------------------------------------
(* Properties.                                                              *)

\* Every ledger transaction was caused by a recorded SMS that was matched to the
\* charge it settles and carries exactly the charge's amount, although the match
\* (sms.rs:54) is as old as the record that follows it.
LedgerBacked ==
    \A n \in DOMAIN ledger :
        \E e \in sms_events :
            /\ Key(e.txn) = ledger[n].event
            /\ e.charge_id = ledger[n].reference
            /\ e.txn.amount_minor = ledger[n].amount_minor

\* However often a message is delivered, and whatever is abandoned on the way,
\* one transaction is posted at most once (migrations/0003_sms_events.sql:4).
OnePostingPerEvent ==
    \A m, n \in DOMAIN ledger : ledger[m].event = ledger[n].event => m = n

\* A charge is reported paid only when the money is in the ledger: mark_paid
\* posts before it flips the status, whatever interrupts it (charge.rs:114-134).
PaidIsPosted == \A c \in ChargeId : status[c] = "paid" => PostingsOf(c) # {}

\* A merchant is told of a payment only once per SMS event, after the charge is
\* paid and on account of a posting of that very event (charge.rs:142).
NotifiedWasSettled ==
    /\ \A n \in DOMAIN deliveries :
        /\ status[deliveries[n].charge_id] = "paid"
        /\ PostedFor(deliveries[n].charge_id, deliveries[n].event)
    /\ \A m, n \in DOMAIN deliveries : deliveries[m].event = deliveries[n].event => m = n

\* An invoice is paid only if a charge minted for it was, for its full total
\* (invoice.rs:170): a re-issue swaps the link under a settlement in progress.
PaidInvoiceWasCollected ==
    \A i \in InvoiceId : invoices[i].status = "paid" =>
        \E c \in ChargeId :
            /\ status[c] = "paid"
            /\ terms[c].invoice = i
            /\ terms[c].amount_minor = InvoiceAmount[i]

\* Some handler is on its way through mark_paid for this event.
BeingSettled(e) == \E h \in Handler : Settling(h) /\ txn[h] = e.txn

\* mark_paid ran to its end for this event.
FullySettled(e) ==
    /\ status[e.charge_id] = "paid"
    /\ PostedFor(e.charge_id, Key(e.txn))
    /\ terms[e.charge_id].callback_url =>
         \E n \in DOMAIN deliveries : deliveries[n].event = Key(e.txn)

\* Without a fault nothing is dropped between the steps of ingest and mark_paid:
\* a matched event is being settled, or is posted, its charge paid, and its
\* callback queued (sms.rs:81, charge.rs:111-156).
SettledUnlessInterrupted ==
    faults = 0 => \A e \in sms_events :
                     e.charge_id # None => BeingSettled(e) \/ FullySettled(e)

\* The inductive invariant: everything above it, and the safety properties.
Consistent ==
    /\ TypeOK /\ RowsExist /\ LocalsFit /\ EventsFit /\ LinksFit
    /\ LedgerBacked /\ OnePostingPerEvent /\ SettlingInOrder
    /\ PaidIsPosted /\ NotifiedWasSettled /\ PaidInvoiceWasCollected

\* The number of postings a charge can collect: each handler acts on at most one
\* stale match, and only a fault leaves a posted charge open to a fresh one.
OverSettlementBounded ==
    \A c \in ChargeId :
        Cardinality(PostingsOf(c)) <= Cardinality(Handler) * (1 + faults)

\* A charge settles exactly once (tests/sms.rs:98).
SettledOnce ==
    \A m, n \in DOMAIN ledger : ledger[m].reference = ledger[n].reference => m = n

\* "If this charge was collecting an invoice, flip that invoice to paid too"
\* (charge.rs:136): true of it once nobody is settling the paid charge any more.
InvoiceFollowsItsCharge ==
    \A c \in ChargeId :
        (/\ status[c] = "paid"
         /\ terms[c].invoice # None
         /\ \A h \in Handler : target[h] # c)
            => invoices[terms[c].invoice].status = "paid"

\* One request at a time and no fault.
Sequential == Cardinality(Handler) = 1 /\ faults = 0

\* Taken one at a time and unhindered, requests settle a charge exactly once however
\* messages repeat (tests/sms.rs:98), and an invoice follows the charge that collected
\* it, re-issued or not: both fail only between the statements of two requests.
SequentialIsExact == Sequential => SettledOnce /\ InvoiceFollowsItsCharge

\* The charge a handler settles on was the only pending one that fits: any other
\* of the same amount is told apart by the number its customer declared, written
\* in whatever format (sms.rs:105-112, "never guess which customer paid").
NeverGuesses ==
    [][\A h \in Handler :
          pc[h] = "match" /\ pc'[h] = "record" /\ target'[h] # None =>
            /\ status[target'[h]] = "pending"
            /\ terms[target'[h]].amount_minor = txn[h].amount_minor
            /\ \A d \in ChargeId \ {target'[h]} :
                  status[d] = "pending" /\ terms[d].amount_minor = txn[h].amount_minor =>
                    /\ txn[h].sender_msisdn # None
                    /\ \/ terms[d].customer_msisdn = None
                       \/ normalize_msisdn(terms[d].customer_msisdn)
                            # normalize_msisdn(txn[h].sender_msisdn)
      ]_vars

-----------------------------------------------------------------------------
(* The abstract lifecycle of a payment, as the tables show it.              *)

ShownState(c) == CASE status[c] = "absent"  -> "absent"
                   [] status[c] = "pending" -> "open"
                   [] status[c] = "paid"    -> "paid"

Lifecycle == INSTANCE PaymentLifecycle WITH
    Charge    <- ChargeId,
    Transfer  <- Keys,
    state     <- [c \in ChargeId |-> ShownState(c)],
    price     <- [c \in ChargeId |-> IF terms[c] = None THEN None ELSE terms[c].amount_minor],
    collected <- [c \in ChargeId |-> {[transfer |-> ledger[n].event,
                                       amount   |-> ledger[n].amount_minor] : n \in PostingsOf(c)}],
    told      <- [c \in ChargeId |-> {deliveries[n].event :
                                       n \in {m \in DOMAIN deliveries : deliveries[m].charge_id = c}}]

\* Seen through the tables, every request, race and fault is a step of the abstract
\* lifecycle or none: the stale match (sms.rs:54) may collect a second transfer on a
\* charge, but never the same one twice, never for another price, and nothing is
\* told before it is collected (charge.rs:111-156).
FollowsLifecycle == Lifecycle!LifecycleSpec
-----------------------------------------------------------------------------
\* "We confirm your payment automatically" (checkout_page.rs:78): a transfer that
\* was attributed to a charge eventually makes that charge paid.
MatchedIsPaid ==
    \A c \in ChargeId :
        (\E e \in sms_events : e.charge_id = c) ~> status[c] = "paid"
=============================================================================
