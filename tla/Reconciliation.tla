--------------------------- MODULE Reconciliation ---------------------------
(***************************************************************************)
(* The two places a merchant reads his money from: the reconciliation      *)
(* report, which sums matched SMS events (src/src/reconcile.rs), and the   *)
(* balance of a ledger account (src/src/ledger.rs, account_balance).  Both *)
(* are queries over the state of Settlement.                               *)
(***************************************************************************)
EXTENDS Settlement, FiniteSetsExt

Account == {"merchant:receivable", "customer:clearing"}

\* mark_paid's two entries: a debit of the receivable, a credit of the clearing account.
Entry(account, amount) == IF account = "merchant:receivable" THEN amount ELSE -amount

account_balance(account) ==
    MapThenSumSet(LAMBDA n : Entry(account, ledger[n].amount_minor), DOMAIN ledger)

\* Mutant of reconcile: events that matched no charge are counted too.
reconcile_all(gateway) ==
    LET received == {e \in sms_events : gateway \in {None, e.txn.gateway}}
    IN  [total_settled_minor |-> MapThenSumSet(LAMBDA e : e.txn.amount_minor, received),
         settled_count       |-> Cardinality(received),
         pending_charges     |-> Cardinality({c \in ChargeId : status[c] = "pending"})]

\* The report, for one gateway or (None) for all.
reconcile(gateway) ==
    LET settled == {e \in sms_events : /\ e.charge_id # None
                                       /\ gateway \in {None, e.txn.gateway}}
    IN  [total_settled_minor |-> MapThenSumSet(LAMBDA e : e.txn.amount_minor, settled),
         settled_count       |-> Cardinality(settled),
         pending_charges     |-> Cardinality({c \in ChargeId : status[c] = "pending"})]
-----------------------------------------------------------------------------
\* Recorded as settled and about to be posted.
Underway ==
    MapThenSumSet(LAMBDA h : terms[target[h]].amount_minor, {h \in Handler : pc[h] = "post"})

\* The ledger never shows money the report does not, and without a fault the two
\* differ only by what is being posted at this moment (reconcile.rs:19,
\* charge.rs:114): a double settlement, for one, is in both.
BooksReconcile ==
    LET difference == reconcile(None).total_settled_minor
                        - account_balance("merchant:receivable")
    IN  difference >= Underway /\ (faults = 0 => difference = Underway)
=============================================================================
