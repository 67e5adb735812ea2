-------------------------- MODULE SettlementProofs --------------------------
(***************************************************************************)
(* Proofs about Settlement, for any handlers, messages, charges, invoices  *)
(* and any number of faults: the books, the matching, what settles twice,  *)
(* and that Settlement implements PaymentLifecycle.                        *)
(***************************************************************************)
EXTENDS Settlement, FiniteSetTheorems, SequenceTheorems, TLAPS

USE NoneAssumption, TxnAssumption, RequestAssumption, InvoiceAssumption, FaultAssumption
-----------------------------------------------------------------------------
(* The matching of a transfer to a charge.                                  *)

\* Sole picks a member of a set of charges, the only one, or nothing.
LEMMA SoleIsTheOnlyMember ==
    ASSUME NEW S \in SUBSET ChargeId
    PROVE  /\ Sole(S) \in ChargeId \cup {None}
           /\ Sole(S) # None => S = {Sole(S)}
BY DEF Sole

\* A match is a pending charge of the transfer's amount; another pending charge
\* of that amount is told apart by its declared number (sms.rs:105-143).
LEMMA MatchIsUnambiguous ==
    ASSUME NEW t \in Txn, NEW match,
           match = find_matching_charge(status, terms, t)
    PROVE  /\ match \in ChargeId \cup {None}
           /\ match # None =>
                /\ status[match] = "pending"
                /\ terms[match].amount_minor = t.amount_minor
                /\ \A d \in ChargeId \ {match} :
                      status[d] = "pending" /\ terms[d].amount_minor = t.amount_minor =>
                        /\ t.sender_msisdn # None
                        /\ \/ terms[d].customer_msisdn = None
                           \/ normalize_msisdn(terms[d].customer_msisdn)
                                # normalize_msisdn(t.sender_msisdn)
<1> DEFINE C == Candidates(status, terms, t.amount_minor)
           H == SenderHits(terms, C, t.sender_msisdn)
<1>1. C \in SUBSET ChargeId /\ H \in SUBSET C
  BY DEF Candidates, SenderHits
<1>2. /\ Sole(C) \in ChargeId \cup {None}
      /\ Sole(C) # None => C = {Sole(C)}
  BY <1>1, SoleIsTheOnlyMember
<1>3. /\ Sole(H) \in ChargeId \cup {None}
      /\ Sole(H) # None => H = {Sole(H)}
  BY <1>1, SoleIsTheOnlyMember
<1>4. CASE Sole(C) # None \/ t.sender_msisdn = None
  <2>1. match = Sole(C)
    BY <1>4 DEF find_matching_charge
  <2> QED
    BY <2>1, <1>2 DEF Candidates
<1>5. CASE ~(Sole(C) # None \/ t.sender_msisdn = None)
  <2>1. match = Sole(H)
    BY <1>5 DEF find_matching_charge
  <2> QED
    BY <2>1, <1>3, <1>5 DEF Candidates, SenderHits
<1> QED
  BY <1>4, <1>5
-----------------------------------------------------------------------------
(* Types and the consistency of rows, events, links and handler locals.     *)

Shape == TypeOK /\ RowsExist /\ LocalsFit /\ EventsFit /\ LinksFit

LEMMA ShapeInit == Init => Shape
BY DEF Init, Shape, TypeOK, RowsExist, LocalsFit, EventsFit, LinksFit, Settling, Stages

\* The three ways to create a charge add one row and touch no other.
LEMMA InsertAddsOneRow ==
    ASSUME TypeOK, RowsExist, NEW c \in ChargeId, NEW order \in OrderIds, NEW r,
           r.amount_minor \in Int, r.customer_msisdn \in Msisdn \cup {None},
           r.callback_url \in BOOLEAN, NEW i \in InvoiceId \cup {None},
           InsertCharge(c, order, r, i)
    PROVE  /\ status' \in [ChargeId -> {"absent", "pending", "paid"}]
           /\ terms' \in [ChargeId -> Terms \cup {None}]
           /\ RowsExist'
           /\ terms[c] = None
           /\ AsksFor(c, r.amount_minor)'
           /\ terms'[c].invoice = i
           /\ \A d \in ChargeId : d # c => status'[d] = status[d] /\ terms'[d] = terms[d]
<1> DEFINE row == [order_id |-> order, amount_minor |-> r.amount_minor,
                   customer_msisdn |-> r.customer_msisdn,
                   callback_url |-> r.callback_url, invoice |-> i]
<1>1. row \in Terms /\ row.amount_minor = r.amount_minor /\ row.invoice = i
  BY DEF InsertCharge, ValidAmount, Terms
<1>2. row # None
  BY <1>1, RowAssumption
<1> QED
  BY <1>1, <1>2 DEF InsertCharge, TypeOK, RowsExist, AsksFor

\* Rows that exist keep what AsksFor and MintedFor say of them.
LEMMA InsertKeepsRows ==
    ASSUME TypeOK, RowsExist, NEW c \in ChargeId,
           terms[c] = None, \A d \in ChargeId : d # c => terms'[d] = terms[d]
    PROVE  /\ \A d, a : AsksFor(d, a) => AsksFor(d, a)'
           /\ \A d, j : MintedFor(d, j) => MintedFor(d, j)'
BY DEF AsksFor, MintedFor

LEMMA ShapeStep == Shape /\ [Next]_vars => Shape'
<1> SUFFICES ASSUME Shape, [Next]_vars PROVE Shape'
  OBVIOUS
<1> USE DEF Shape
<1>1. ASSUME NEW c \in ChargeId, NEW r \in ChargeReq, create(c, r) \/ create_checkout(c, r)
      PROVE  Shape'
  <2>1. PICK order \in OrderIds : InsertCharge(c, order, r, None)
    BY <1>1 DEF create, create_checkout, OrderIds
  <2>2. UNCHANGED <<sms_events, ledger, invoices, deliveries, locals, faults>>
    BY <1>1 DEF create, create_checkout
  <2>3. /\ status' \in [ChargeId -> {"absent", "pending", "paid"}]
        /\ terms' \in [ChargeId -> Terms \cup {None}]
        /\ RowsExist'
        /\ terms[c] = None
        /\ \A d \in ChargeId : d # c => terms'[d] = terms[d]
    BY <2>1, InsertAddsOneRow
  <2>4. /\ \A d, a : AsksFor(d, a) => AsksFor(d, a)'
        /\ \A d, j : MintedFor(d, j) => MintedFor(d, j)'
    BY <2>3, InsertKeepsRows
  <2>5. TypeOK'
    BY <2>2, <2>3 DEF TypeOK, locals
  <2>6. LocalsFit'
    BY <2>2, <2>4 DEF LocalsFit, Settling, locals
  <2>7. EventsFit' /\ LinksFit'
    BY <2>2, <2>4 DEF EventsFit, LinksFit
  <2> QED
    BY <2>3, <2>5, <2>6, <2>7
<1>2. ASSUME NEW h \in Handler, NEW i \in InvoiceId, NEW c \in ChargeId, IssueCheckout(h, i, c)
      PROVE  Shape'
  <2>1. /\ InvoiceReq(i).amount_minor = InvoiceAmount[i]
        /\ InvoiceReq(i).amount_minor \in Int
        /\ InvoiceReq(i).customer_msisdn \in Msisdn \cup {None}
        /\ InvoiceReq(i).callback_url \in BOOLEAN
    BY DEF InvoiceReq
  <2>2. /\ status' \in [ChargeId -> {"absent", "pending", "paid"}]
        /\ terms' \in [ChargeId -> Terms \cup {None}]
        /\ RowsExist'
        /\ terms[c] = None
        /\ AsksFor(c, InvoiceAmount[i])'
        /\ terms'[c].invoice = i
        /\ \A d \in ChargeId : d # c => terms'[d] = terms[d]
    BY <1>2, <2>1, InsertAddsOneRow DEF IssueCheckout, OrderIds
  <2>3. /\ \A d, a : AsksFor(d, a) => AsksFor(d, a)'
        /\ \A d, j : MintedFor(d, j) => MintedFor(d, j)'
    BY <2>2, InsertKeepsRows
  <2>4. MintedFor(c, i)'
    BY <2>2 DEF MintedFor
  <2>5. TypeOK'
    BY <1>2, <2>2 DEF TypeOK, IssueCheckout, Stages
  <2>6. LocalsFit'
    BY <1>2, <2>3, <2>4 DEF TypeOK, LocalsFit, Settling, IssueCheckout
  <2>7. EventsFit' /\ LinksFit'
    BY <1>2, <2>3 DEF EventsFit, LinksFit, IssueCheckout
  <2> QED
    BY <2>2, <2>5, <2>6, <2>7
<1>3. ASSUME NEW h \in Handler, NEW s \in Sms, Receive(h, s)
      PROVE  Shape'
  BY <1>3 DEF Receive, db, TypeOK, Stages, RowsExist, LocalsFit, EventsFit, LinksFit,
              Settling, AsksFor, MintedFor
<1>4. ASSUME NEW h \in Handler, Match(h)
      PROVE  Shape'
  <2>1. txn[h] \in Txn
    BY <1>4 DEF Match, LocalsFit
  <2>2. /\ target'[h] \in ChargeId \cup {None}
        /\ target'[h] # None => /\ status[target'[h]] = "pending"
                                /\ terms[target'[h]].amount_minor = txn[h].amount_minor
    BY <1>4, <2>1, MatchIsUnambiguous DEF Match, TypeOK
  <2>3. target'[h] # None => AsksFor(target'[h], txn[h].amount_minor)
    BY <2>2 DEF AsksFor, RowsExist
  <2>4. TypeOK'
    BY <1>4, <2>2 DEF Match, db, TypeOK, Stages
  <2>5. LocalsFit'
    BY <1>4, <2>1, <2>3 DEF Match, db, TypeOK, LocalsFit, Settling, AsksFor, MintedFor
  <2> QED
    BY <1>4, <2>4, <2>5 DEF Match, db, RowsExist, EventsFit, LinksFit, AsksFor, MintedFor
<1>5. ASSUME NEW h \in Handler, RejectDuplicate(h) \/ Abandon(h)
      PROVE  Shape'
  <2>1. Leave(h) /\ UNCHANGED db /\ faults' \in 0..MaxFaults
    BY <1>5 DEF RejectDuplicate, Abandon, TypeOK
  <2>2. TypeOK'
    BY <2>1 DEF Leave, db, TypeOK, Stages
  <2>3. LocalsFit'
    BY <2>1 DEF Leave, db, TypeOK, LocalsFit, Settling, AsksFor, MintedFor
  <2> QED
    BY <2>1, <2>2, <2>3 DEF db, RowsExist, EventsFit, LinksFit, AsksFor, MintedFor
<1>6. ASSUME NEW h \in Handler, RecordUnmatched(h) \/ RecordMatched(h)
      PROVE  Shape'
  <2> DEFINE e == [txn |-> txn[h], charge_id |-> target[h]]
  <2>1. /\ txn[h] \in Txn
        /\ ~IsRecorded(txn[h])
        /\ target[h] # None => AsksFor(target[h], txn[h].amount_minor)
        /\ sms_events' = sms_events \cup {e}
        /\ UNCHANGED <<status, terms, ledger, invoices, deliveries, faults>>
    BY <1>6 DEF RecordUnmatched, RecordMatched, InsertEvent, LocalsFit
  <2>2. ASSUME Leave(h) PROVE TypeOK' /\ LocalsFit'
    <3>1. TypeOK'
      BY <2>1, <2>2 DEF Leave, TypeOK, Stages
    <3>2. LocalsFit'
      BY <2>1, <2>2 DEF Leave, TypeOK, LocalsFit, Settling, AsksFor, MintedFor
    <3> QED
      BY <3>1, <3>2
  <2>3. ASSUME target[h] # None, Proceed(h, "post") PROVE TypeOK' /\ LocalsFit'
    <3>1. TypeOK'
      BY <2>1, <2>3 DEF Proceed, TypeOK, Stages
    <3>2. LocalsFit'
      BY <2>1, <2>3 DEF Proceed, TypeOK, LocalsFit, Settling, AsksFor, MintedFor
    <3> QED
      BY <3>1, <3>2
  <2>4. EventsFit'
    BY <2>1 DEF EventsFit, IsRecorded, AsksFor
  <2> QED
    BY <1>6, <2>1, <2>2, <2>3, <2>4 DEF RecordUnmatched, RecordMatched, RowsExist,
                                        LinksFit, AsksFor, MintedFor
<1>7. ASSUME NEW h \in Handler, Post(h)
      PROVE  Shape'
  <2>1. /\ txn[h] \in Txn /\ target[h] \in ChargeId /\ terms[target[h]] \in Terms
    BY <1>7 DEF Post, TypeOK, LocalsFit, EventsFit, Settling, AsksFor
  <2>2. [reference |-> target[h], amount_minor |-> terms[target[h]].amount_minor,
         event |-> Key(txn[h])] \in LedgerTxn
    BY <2>1 DEF LedgerTxn, Terms, Keys
  <2>3. TypeOK'
    BY <1>7, <2>2, AppendProperties DEF Post, Proceed, TypeOK, Stages
  <2> QED
    BY <1>7, <2>3 DEF Post, Proceed, TypeOK, RowsExist, LocalsFit, EventsFit, LinksFit,
                      Settling, AsksFor, MintedFor
<1>8. ASSUME NEW h \in Handler, MarkPaid(h)
      PROVE  Shape'
  <2>1. target[h] \in ChargeId /\ terms[target[h]] # None
    BY <1>8 DEF MarkPaid, TypeOK, LocalsFit, EventsFit, Settling, AsksFor
  <2> QED
    BY <1>8, <2>1 DEF MarkPaid, Proceed, TypeOK, Stages, RowsExist, LocalsFit, EventsFit,
                      LinksFit, Settling, AsksFor, MintedFor
<1>9. ASSUME NEW h \in Handler, SettleInvoices(h)
      PROVE  Shape'
  <2>1. /\ invoices' \in [InvoiceId -> [status : {"unpaid", "paid"},
                                        charge_id : ChargeId \cup {None}]]
        /\ \A i \in InvoiceId : invoices'[i].charge_id = invoices[i].charge_id
    BY <1>9 DEF SettleInvoices, settle_for_charge, TypeOK
  <2>2. /\ pc[h] = "invoice"
        /\ \/ Proceed(h, "notify")
           \/ Leave(h)
        /\ UNCHANGED <<status, terms, sms_events, ledger, deliveries, faults>>
    BY <1>9 DEF SettleInvoices
  <2>3. /\ pc' \in [Handler -> Stages]
        /\ txn' \in [Handler -> Txn \cup {None}]
        /\ target' \in [Handler -> ChargeId \cup {None}]
        /\ issuing' \in [Handler -> InvoiceId \cup {None}]
    <3>1. CASE Proceed(h, "notify")
      BY <3>1 DEF Proceed, TypeOK, Stages
    <3>2. CASE Leave(h)
      BY <3>2 DEF Leave, TypeOK, Stages
    <3> QED
      BY <2>2, <3>1, <3>2
  <2>4. TypeOK'
    BY <2>1, <2>2, <2>3 DEF TypeOK
  <2>5. LocalsFit'
    <3>1. CASE Proceed(h, "notify")
      BY <2>2, <3>1 DEF Proceed, TypeOK, LocalsFit, Settling, AsksFor, MintedFor
    <3>2. CASE Leave(h)
      BY <2>2, <3>2 DEF Leave, TypeOK, LocalsFit, Settling, AsksFor, MintedFor
    <3> QED
      BY <2>2, <3>1, <3>2
  <2> QED
    BY <2>1, <2>2, <2>4, <2>5 DEF RowsExist, EventsFit, LinksFit, AsksFor, MintedFor
<1>10. ASSUME NEW h \in Handler, Notify(h)
       PROVE  Shape'
  <2>1. [charge_id |-> target[h], event |-> Key(txn[h])] \in Delivery
    BY <1>10 DEF Notify, TypeOK, LocalsFit, Settling, Delivery, Keys
  <2>2. TypeOK'
    BY <1>10, <2>1, AppendProperties DEF Notify, Leave, TypeOK, Stages
  <2> QED
    BY <1>10, <2>2 DEF Notify, Leave, TypeOK, RowsExist, LocalsFit, EventsFit, LinksFit,
                       Settling, AsksFor, MintedFor
<1>11. ASSUME NEW h \in Handler, IssueLink(h)
       PROVE  Shape'
  <2>1. /\ issuing[h] \in InvoiceId
        /\ MintedFor(target[h], issuing[h])
        /\ target[h] \in ChargeId
    BY <1>11 DEF IssueLink, LocalsFit, MintedFor, AsksFor
  <2>2. TypeOK'
    <3>1. invoices' \in [InvoiceId -> [status : {"unpaid", "paid"},
                                       charge_id : ChargeId \cup {None}]]
      <4>1. invoices' = [invoices EXCEPT ![issuing[h]] =
                            [invoices[issuing[h]] EXCEPT !.charge_id = target[h]]]
        BY <1>11 DEF IssueLink
      <4>2. ASSUME NEW row \in [status : {"unpaid", "paid"}, charge_id : ChargeId \cup {None}],
                   NEW c \in ChargeId
            PROVE  [row EXCEPT !.charge_id = c]
                     \in [status : {"unpaid", "paid"}, charge_id : ChargeId \cup {None}]
        OBVIOUS
      <4>3. invoices \in [InvoiceId -> [status : {"unpaid", "paid"},
                                        charge_id : ChargeId \cup {None}]]
        BY DEF TypeOK
      <4> QED
        BY <2>1, <4>1, <4>2, <4>3
    <3>2. /\ pc' \in [Handler -> Stages]
          /\ txn' \in [Handler -> Txn \cup {None}]
          /\ target' \in [Handler -> ChargeId \cup {None}]
          /\ issuing' \in [Handler -> InvoiceId \cup {None}]
      BY <1>11 DEF IssueLink, Leave, TypeOK, Stages
    <3> QED
      BY <1>11, <3>1, <3>2 DEF IssueLink, TypeOK
  <2>3. LinksFit'
    BY <1>11, <2>1 DEF IssueLink, TypeOK, LinksFit, MintedFor, AsksFor
  <2> QED
    BY <1>11, <2>2, <2>3 DEF IssueLink, Leave, TypeOK, RowsExist, LocalsFit, EventsFit,
                             Settling, AsksFor, MintedFor
<1>12. CASE Crash
  BY <1>12 DEF Crash, db, TypeOK, Stages, RowsExist, LocalsFit, EventsFit, LinksFit,
               Settling, AsksFor, MintedFor
<1>13. CASE UNCHANGED vars
  BY <1>13 DEF vars, db, locals, TypeOK, RowsExist, LocalsFit, EventsFit, LinksFit,
               Settling, AsksFor, MintedFor
<1> QED
  BY <1>1, <1>2, <1>3, <1>4, <1>5, <1>6, <1>7, <1>8, <1>9, <1>10, <1>11, <1>12, <1>13
     DEF Next, Serve, HandlerStep

\* Every value keeps its type: no statement acts on a missing row, a missing match
\* or a forgotten local, however requests interleave and whatever is abandoned.
THEOREM TypeCorrect == Spec => []TypeOK
<1>1. Spec => []Shape
  BY ShapeInit, ShapeStep, PTL DEF Spec
<1> QED
  BY <1>1, PTL DEF Shape
-----------------------------------------------------------------------------
(* The books: events, ledger, paid charges and notifications agree.         *)

Books == /\ LedgerBacked /\ OnePostingPerEvent /\ SettlingInOrder
         /\ PaidIsPosted /\ NotifiedWasSettled

LEMMA BooksInit == Init => Books
BY DEF Init, Books, LedgerBacked, OnePostingPerEvent, SettlingInOrder, PaidIsPosted,
       NotifiedWasSettled, Settling

\* A step that settles nothing: no posting, no payment, no notification, and a
\* handler that is settling stays where it is or forgets everything.
Quiet ==
    /\ UNCHANGED <<ledger, deliveries>>
    /\ sms_events \subseteq sms_events'
    /\ \A c \in ChargeId : status'[c] = "paid" <=> status[c] = "paid"
    /\ \A h \in Handler : Settling(h)' =>
          Settling(h) /\ UNCHANGED <<pc[h], txn[h], target[h]>>

LEMMA RowTypes ==
    ASSUME TypeOK
    PROVE  /\ DOMAIN ledger = 1..Len(ledger) /\ Len(ledger) \in Nat
           /\ \A n \in DOMAIN ledger : ledger[n] \in LedgerTxn
           /\ DOMAIN deliveries = 1..Len(deliveries) /\ Len(deliveries) \in Nat
           /\ \A n \in DOMAIN deliveries : /\ deliveries[n] \in Delivery
                                          /\ deliveries[n].charge_id \in ChargeId
<1>1. ledger \in Seq(LedgerTxn) /\ deliveries \in Seq(Delivery)
  BY DEF TypeOK
<1>2. DOMAIN ledger = 1..Len(ledger) /\ Len(ledger) \in Nat /\ ledger \in [1..Len(ledger) -> LedgerTxn]
  BY <1>1, LenProperties
<1>3. /\ DOMAIN deliveries = 1..Len(deliveries) /\ Len(deliveries) \in Nat
      /\ deliveries \in [1..Len(deliveries) -> Delivery]
  BY <1>1, LenProperties
<1> QED
  BY <1>2, <1>3 DEF Delivery

LEMMA QuietKeepsBooks == ASSUME Shape, Books, Quiet PROVE Books'
<1> USE DEF Books, Quiet, Shape
<1>1. LedgerBacked' /\ OnePostingPerEvent'
  BY DEF LedgerBacked, OnePostingPerEvent
<1>2. \A c, k : PostedFor(c, k)' <=> PostedFor(c, k)
  BY DEF PostedFor, PostingsOf
<1>3. PaidIsPosted'
  BY DEF PaidIsPosted, PostingsOf
<1>4. NotifiedWasSettled'
  <2>1. \A n \in DOMAIN deliveries : deliveries[n].charge_id \in ChargeId
    BY RowTypes
  <2> QED
    BY <1>2, <2>1 DEF NotifiedWasSettled
<1>5. SettlingInOrder'
  <2> SUFFICES ASSUME NEW h \in Handler, Settling(h)'
               PROVE  InOrder(h)'
    BY DEF SettlingInOrder
  <2>1. /\ Settling(h)
        /\ UNCHANGED <<pc[h], txn[h], target[h]>>
        /\ target[h] \in ChargeId
    BY DEF LocalsFit, TypeOK
  <2>2. \A g \in Handler : Settling(g)' /\ Key(txn'[g]) = Key(txn'[h]) => g = h
    BY <2>1 DEF SettlingInOrder, InOrder
  <2> QED
    BY <1>2, <2>1, <2>2 DEF SettlingInOrder, InOrder
<1> QED
  BY <1>1, <1>3, <1>4, <1>5

\* Every step but the five of mark_paid's path is quiet.
LEMMA QuietSteps ==
    ASSUME Shape, [Next]_vars,
           ~ \E h \in Handler : \/ RecordMatched(h) \/ Post(h) \/ MarkPaid(h)
                                \/ SettleInvoices(h) \/ Notify(h)
    PROVE  Quiet
<1> USE DEF Shape, Quiet, TypeOK, Settling
<1>1. ASSUME NEW c \in ChargeId, NEW r \in ChargeReq, create(c, r) \/ create_checkout(c, r)
      PROVE  Quiet
  BY <1>1 DEF create, create_checkout, InsertCharge, locals
<1>2. ASSUME NEW h \in Handler, NEW i \in InvoiceId, NEW c \in ChargeId, IssueCheckout(h, i, c)
      PROVE  Quiet
  BY <1>2 DEF IssueCheckout, InsertCharge
<1>3. ASSUME NEW h \in Handler, NEW s \in Sms, Receive(h, s)
      PROVE  Quiet
  BY <1>3 DEF Receive, db
<1>4. ASSUME NEW h \in Handler, Match(h)
      PROVE  Quiet
  BY <1>4 DEF Match, db
<1>5. ASSUME NEW h \in Handler, RejectDuplicate(h) \/ Abandon(h)
      PROVE  Quiet
  BY <1>5 DEF RejectDuplicate, Abandon, Leave, db
<1>6. ASSUME NEW h \in Handler, RecordUnmatched(h)
      PROVE  Quiet
  BY <1>6 DEF RecordUnmatched, InsertEvent, Leave
<1>7. ASSUME NEW h \in Handler, IssueLink(h)
      PROVE  Quiet
  BY <1>7 DEF IssueLink, Leave
<1>8. CASE Crash
  BY <1>8 DEF Crash, db
<1>9. CASE UNCHANGED vars
  BY <1>9 DEF vars, db, locals
<1> QED
  BY <1>1, <1>2, <1>3, <1>4, <1>5, <1>6, <1>7, <1>8, <1>9 DEF Next, Serve, HandlerStep

\* Appending to the ledger only adds the one posting.
LEMMA AppendPosting ==
    ASSUME TypeOK, NEW row \in LedgerTxn, ledger' = Append(ledger, row)
    PROVE  /\ DOMAIN ledger' = DOMAIN ledger \cup {Len(ledger) + 1}
           /\ Len(ledger) + 1 \notin DOMAIN ledger
           /\ ledger'[Len(ledger) + 1] = row
           /\ \A n \in DOMAIN ledger : ledger'[n] = ledger[n]
           /\ \A c, k : PostedFor(c, k) => PostedFor(c, k)'
           /\ \A c : PostingsOf(c) \subseteq PostingsOf(c)'
           /\ PostedFor(row.reference, row.event)'
<1>1. ledger \in Seq(LedgerTxn)
  BY DEF TypeOK
<1>2. /\ Len(ledger') = Len(ledger) + 1
      /\ \A n \in 1..Len(ledger) : ledger'[n] = ledger[n]
      /\ ledger'[Len(ledger) + 1] = row
      /\ DOMAIN ledger' = 1..Len(ledger')
      /\ DOMAIN ledger = 1..Len(ledger)
      /\ Len(ledger) \in Nat
  BY <1>1, AppendProperties, LenProperties
<1> QED
  BY <1>2 DEF PostedFor, PostingsOf

LEMMA BooksStep == Shape /\ Books /\ [Next]_vars => Books'
<1> SUFFICES ASSUME Shape, Books, [Next]_vars PROVE Books'
  OBVIOUS
<1> USE DEF Books, Shape
<1>1. ASSUME NEW h \in Handler, RecordMatched(h)
      PROVE  Books'
  <2> DEFINE e == [txn |-> txn[h], charge_id |-> target[h]]
  <2>1. /\ pc[h] = "record" /\ pc' = [pc EXCEPT ![h] = "post"]
        /\ ~IsRecorded(txn[h])
        /\ sms_events' = sms_events \cup {e}
        /\ UNCHANGED <<status, ledger, deliveries, txn, target>>
    BY <1>1 DEF RecordMatched, InsertEvent, Proceed
  <2>2. \A c, k : PostedFor(c, k)' <=> PostedFor(c, k)
    BY <2>1 DEF PostedFor, PostingsOf
  <2>3. LedgerBacked' /\ OnePostingPerEvent' /\ PaidIsPosted' /\ NotifiedWasSettled'
    BY <2>1, <2>2 DEF LedgerBacked, OnePostingPerEvent, PaidIsPosted, PostingsOf,
                      NotifiedWasSettled
  <2>4. \A g \in Handler : g # h =>
            /\ pc'[g] = pc[g]
            /\ Settling(g)' <=> Settling(g)
            /\ Settling(g) => Key(txn[g]) # Key(txn[h])
    BY <2>1 DEF TypeOK, LocalsFit, IsRecorded, Settling
  <2>5. \A n \in DOMAIN ledger : ledger[n].event # Key(txn[h])
    BY <2>1 DEF LedgerBacked, IsRecorded
  <2>6. \A n \in DOMAIN deliveries : deliveries[n].event # Key(txn[h])
    BY <2>5 DEF NotifiedWasSettled, PostedFor, PostingsOf
  <2>7. SettlingInOrder'
    <3>1. pc'[h] = "post"
      BY <2>1 DEF TypeOK
    <3>2. ASSUME NEW g \in Handler, Settling(g)' PROVE InOrder(g)'
      BY <2>1, <2>2, <2>4, <2>5, <2>6, <3>1, <3>2 DEF SettlingInOrder, InOrder
    <3> QED
      BY <3>2 DEF SettlingInOrder
  <2> QED
    BY <2>3, <2>7
<1>2. ASSUME NEW h \in Handler, Post(h)
      PROVE  Books'
  <2> DEFINE e == [txn |-> txn[h], charge_id |-> target[h]]
             row == [reference |-> target[h], amount_minor |-> terms[target[h]].amount_minor,
                     event |-> Key(txn[h])]
  <2>1. /\ pc[h] = "post" /\ pc' = [pc EXCEPT ![h] = "mark"]
        /\ ledger' = Append(ledger, row)
        /\ UNCHANGED <<status, terms, sms_events, deliveries, txn, target>>
    BY <1>2 DEF Post, Proceed
  <2>2. /\ txn[h] \in Txn /\ target[h] \in ChargeId /\ e \in sms_events
        /\ terms[target[h]] \in Terms
        /\ terms[target[h]].amount_minor = txn[h].amount_minor
    BY <2>1 DEF TypeOK, LocalsFit, EventsFit, Settling, AsksFor
  <2>3. row \in LedgerTxn
    BY <2>2 DEF LedgerTxn, Terms, Keys
  <2>4. /\ DOMAIN ledger' = DOMAIN ledger \cup {Len(ledger) + 1}
        /\ Len(ledger) + 1 \notin DOMAIN ledger
        /\ ledger'[Len(ledger) + 1] = row
        /\ \A n \in DOMAIN ledger : ledger'[n] = ledger[n]
        /\ \A c, k : PostedFor(c, k) => PostedFor(c, k)'
        /\ \A c : PostingsOf(c) \subseteq PostingsOf(c)'
        /\ PostedFor(target[h], Key(txn[h]))'
    BY <2>1, <2>3, AppendPosting
  <2>5. Settling(h) /\ InOrder(h)
    BY <2>1 DEF SettlingInOrder, Settling
  <2>6. LedgerBacked'
    <3>1. /\ Key(e.txn) = row.event
          /\ e.charge_id = row.reference
          /\ e.txn.amount_minor = row.amount_minor
      BY <2>2
    <3>2. \A n \in DOMAIN ledger' : n \in DOMAIN ledger \/ ledger'[n] = row
      BY <2>4
    <3>3. ASSUME NEW n \in DOMAIN ledger'
          PROVE  \E f \in sms_events' :
                    /\ Key(f.txn) = ledger'[n].event
                    /\ f.charge_id = ledger'[n].reference
                    /\ f.txn.amount_minor = ledger'[n].amount_minor
      <4>1. CASE n \in DOMAIN ledger
        <5>1. PICK f \in sms_events : /\ Key(f.txn) = ledger[n].event
                                      /\ f.charge_id = ledger[n].reference
                                      /\ f.txn.amount_minor = ledger[n].amount_minor
          BY <4>1 DEF LedgerBacked
        <5> QED
          BY <2>1, <2>4, <4>1, <5>1
      <4>2. CASE ledger'[n] = row
        <5>1. e \in sms_events'
          BY <2>1, <2>2
        <5> HIDE DEF e, row
        <5> QED
          BY <3>1, <4>2, <5>1
      <4> QED
        BY <3>2, <4>1, <4>2
    <3> QED
      BY <3>3 DEF LedgerBacked, Key
  <2>7. OnePostingPerEvent'
    BY <2>1, <2>4, <2>5 DEF OnePostingPerEvent, InOrder
  <2>8. PaidIsPosted' /\ NotifiedWasSettled'
    BY <2>1, <2>4 DEF PaidIsPosted, NotifiedWasSettled
  <2>9. SettlingInOrder'
    <3>1. \A g \in Handler : /\ Settling(g)' <=> Settling(g)
                             /\ g # h => pc'[g] = pc[g]
                             /\ pc'[h] = "mark"
      BY <2>1 DEF TypeOK, Settling
    <3>2. \A g \in Handler : Settling(g) /\ g # h => Key(txn[g]) # Key(txn[h])
      BY <2>5 DEF InOrder
    <3>3. ASSUME NEW g \in Handler, Settling(g)' PROVE InOrder(g)'
      <4>1. Settling(g) /\ InOrder(g)
        BY <3>1, <3>3 DEF SettlingInOrder
      <4>2. CASE g = h
        BY <2>1, <2>4, <3>1, <4>1, <4>2 DEF InOrder
      <4>3. CASE g # h
        BY <2>1, <2>4, <3>1, <3>2, <4>1, <4>3 DEF InOrder
      <4> QED
        BY <4>2, <4>3
    <3> QED
      BY <3>3 DEF SettlingInOrder
  <2> QED
    BY <2>6, <2>7, <2>8, <2>9
<1>3. ASSUME NEW h \in Handler, MarkPaid(h)
      PROVE  Books'
  <2>1. /\ pc[h] = "mark" /\ pc' = [pc EXCEPT ![h] = "invoice"]
        /\ status' = [status EXCEPT ![target[h]] = "paid"]
        /\ UNCHANGED <<sms_events, ledger, deliveries, txn, target>>
    BY <1>3 DEF MarkPaid, Proceed
  <2>2. /\ target[h] \in ChargeId /\ Settling(h) /\ InOrder(h)
        /\ PostedFor(target[h], Key(txn[h]))
    <3>1. Settling(h)
      BY <2>1 DEF Settling
    <3>2. target[h] \in ChargeId
      BY <3>1 DEF TypeOK, LocalsFit
    <3> QED
      BY <2>1, <3>1, <3>2 DEF SettlingInOrder, InOrder
  <2>3. \A c, k : PostedFor(c, k)' <=> PostedFor(c, k)
    BY <2>1 DEF PostedFor, PostingsOf
  <2>4. status' \in [ChargeId -> {"absent", "pending", "paid"}]
        /\ status'[target[h]] = "paid"
        /\ \A c \in ChargeId : status'[c] = "paid" <=> (status[c] = "paid" \/ c = target[h])
    BY <2>1, <2>2 DEF TypeOK
  <2>5. LedgerBacked' /\ OnePostingPerEvent'
    BY <2>1 DEF LedgerBacked, OnePostingPerEvent
  <2>6. PaidIsPosted'
    BY <2>1, <2>2, <2>4 DEF PaidIsPosted, PostingsOf, PostedFor
  <2>7. NotifiedWasSettled'
    BY <2>1, <2>3, <2>4, RowTypes DEF NotifiedWasSettled
  <2>8. SettlingInOrder'
    <3>1. \A g \in Handler : /\ Settling(g)' <=> Settling(g)
                             /\ g # h => pc'[g] = pc[g]
                             /\ pc'[h] = "invoice"
                             /\ Settling(g) => target[g] \in ChargeId
      BY <2>1 DEF TypeOK, LocalsFit, Settling
    <3>2. ASSUME NEW g \in Handler, Settling(g)' PROVE InOrder(g)'
      BY <2>1, <2>2, <2>3, <2>4, <3>1, <3>2 DEF SettlingInOrder, InOrder
    <3> QED
      BY <3>2 DEF SettlingInOrder
  <2> QED
    BY <2>5, <2>6, <2>7, <2>8
<1>4. ASSUME NEW h \in Handler, SettleInvoices(h)
      PROVE  Books'
  <2>1. /\ pc[h] = "invoice"
        /\ Proceed(h, "notify") \/ Leave(h)
        /\ UNCHANGED <<status, sms_events, ledger, deliveries>>
    BY <1>4 DEF SettleInvoices
  <2>2. \A c, k : PostedFor(c, k)' <=> PostedFor(c, k)
    BY <2>1 DEF PostedFor, PostingsOf
  <2>3. LedgerBacked' /\ OnePostingPerEvent' /\ PaidIsPosted' /\ NotifiedWasSettled'
    BY <2>1, <2>2 DEF LedgerBacked, OnePostingPerEvent, PaidIsPosted, PostingsOf,
                      NotifiedWasSettled
  <2>4. \A g \in Handler : Settling(g)' =>
            /\ Settling(g)
            /\ UNCHANGED <<txn[g], target[g]>>
            /\ pc'[g] = pc[g] \/ (pc[g] = "invoice" /\ pc'[g] = "notify")
    BY <2>1 DEF Proceed, Leave, TypeOK, Settling
  <2>5. ASSUME NEW g \in Handler, Settling(g)' PROVE InOrder(g)'
    BY <2>1, <2>2, <2>4, <2>5 DEF SettlingInOrder, InOrder
  <2> QED
    BY <2>3, <2>5 DEF SettlingInOrder
<1>5. ASSUME NEW h \in Handler, Notify(h)
      PROVE  Books'
  <2> DEFINE row == [charge_id |-> target[h], event |-> Key(txn[h])]
  <2>1. /\ pc[h] = "notify" /\ Leave(h)
        /\ deliveries' = Append(deliveries, row)
        /\ UNCHANGED <<status, sms_events, ledger>>
    BY <1>5 DEF Notify
  <2>2. Settling(h) /\ InOrder(h) /\ txn[h] \in Txn /\ target[h] \in ChargeId
    BY <2>1 DEF TypeOK, LocalsFit, SettlingInOrder, Settling
  <2>3. /\ DOMAIN deliveries' = DOMAIN deliveries \cup {Len(deliveries) + 1}
        /\ deliveries'[Len(deliveries) + 1] = row
        /\ \A n \in DOMAIN deliveries : deliveries'[n] = deliveries[n]
    <3>1. row \in Delivery /\ deliveries \in Seq(Delivery)
      BY <2>2 DEF Delivery, Keys, TypeOK
    <3> QED
      BY <2>1, <3>1, AppendProperties, LenProperties
  <2>4. \A c, k : PostedFor(c, k)' <=> PostedFor(c, k)
    BY <2>1 DEF PostedFor, PostingsOf
  <2>5. LedgerBacked' /\ OnePostingPerEvent' /\ PaidIsPosted'
    BY <2>1 DEF LedgerBacked, OnePostingPerEvent, PaidIsPosted, PostingsOf
  <2>6. NotifiedWasSettled'
    <3>1. status[target[h]] = "paid" /\ PostedFor(target[h], Key(txn[h]))
      BY <2>1, <2>2 DEF InOrder
    <3>2. \A n \in DOMAIN deliveries : deliveries[n].event # Key(txn[h])
      BY <2>2 DEF InOrder
    <3> QED
      BY <2>1, <2>3, <2>4, <3>1, <3>2 DEF NotifiedWasSettled
  <2>7. \A g \in Handler : Settling(g)' =>
            /\ Settling(g) /\ g # h
            /\ UNCHANGED <<pc[g], txn[g], target[g]>>
    BY <2>1 DEF Leave, TypeOK, Settling
  <2>8. ASSUME NEW g \in Handler, Settling(g)' PROVE InOrder(g)'
    <3>1. Key(txn[g]) # Key(txn[h])
      BY <2>2, <2>7, <2>8 DEF InOrder
    <3> QED
      BY <2>1, <2>3, <2>4, <2>7, <2>8, <3>1 DEF SettlingInOrder, InOrder
  <2> QED
    BY <2>5, <2>6, <2>8 DEF SettlingInOrder
<1>6. CASE ~ \E h \in Handler : \/ RecordMatched(h) \/ Post(h) \/ MarkPaid(h)
                                \/ SettleInvoices(h) \/ Notify(h)
  BY <1>6, QuietSteps, QuietKeepsBooks
<1> QED
  BY <1>1, <1>2, <1>3, <1>4, <1>5, <1>6
-----------------------------------------------------------------------------
(* Invoices, and what no step takes back.                                   *)

\* A charge's row never changes once it exists, and a paid charge stays paid.
Persistent ==
    \A c \in ChargeId : /\ terms[c] # None => terms'[c] = terms[c]
                        /\ status[c] = "paid" => status'[c] = "paid"

LEMMA RowsPersist == ASSUME Shape, [Next]_vars PROVE Persistent
<1> USE DEF Shape, TypeOK, RowsExist, Persistent
<1>1. CASE UNCHANGED <<status, terms>>
  BY <1>1
<1>2. ASSUME NEW d \in ChargeId, NEW order, NEW r, NEW i, InsertCharge(d, order, r, i)
      PROVE  Persistent
  BY <1>2 DEF InsertCharge
<1>3. ASSUME NEW h \in Handler, MarkPaid(h)
      PROVE  Persistent
  BY <1>3 DEF MarkPaid
<1> QED
  BY <1>1, <1>2, <1>3 DEF Next, Serve, HandlerStep, create, create_checkout, IssueCheckout, Receive,
        Match, RejectDuplicate, RecordUnmatched, RecordMatched, InsertEvent, Post,
        SettleInvoices, Notify, IssueLink, Abandon, Crash, vars, db

\* The status of an invoice changes only when a handler settles its charge.
LEMMA InvoiceStatusChange ==
    ASSUME Shape, [Next]_vars, NEW i \in InvoiceId,
           invoices'[i].status = "paid", invoices[i].status # "paid"
    PROVE  \E h \in Handler : /\ pc[h] = "invoice"
                              /\ invoices[i].charge_id = target[h]
<1> USE DEF Shape, TypeOK
<1>1. invoices' # invoices
  OBVIOUS
<1>2. ASSUME NEW h \in Handler, IssueLink(h)
      PROVE  FALSE
  BY <1>2 DEF IssueLink
<1>3. ASSUME NEW h \in Handler, SettleInvoices(h)
      PROVE  pc[h] = "invoice" /\ invoices[i].charge_id = target[h]
  BY <1>3 DEF SettleInvoices, settle_for_charge
<1> QED
  BY <1>1, <1>2, <1>3 DEF Next, Serve, HandlerStep, create, create_checkout, IssueCheckout, Receive,
        Match, RejectDuplicate, RecordUnmatched, RecordMatched, InsertEvent, Post, MarkPaid,
        Notify, Abandon, Crash, vars, db

LEMMA InvoiceStep ==
    Shape /\ Books /\ PaidInvoiceWasCollected /\ [Next]_vars => PaidInvoiceWasCollected'
<1> SUFFICES ASSUME Shape, Books, PaidInvoiceWasCollected, [Next]_vars,
                    NEW i \in InvoiceId, invoices'[i].status = "paid"
             PROVE  \E c \in ChargeId : /\ status'[c] = "paid"
                                        /\ terms'[c].invoice = i
                                        /\ terms'[c].amount_minor = InvoiceAmount[i]
  BY DEF PaidInvoiceWasCollected
<1>1. \E c \in ChargeId : /\ status[c] = "paid"
                          /\ terms[c].invoice = i
                          /\ terms[c].amount_minor = InvoiceAmount[i]
  <2>1. CASE invoices[i].status = "paid"
    BY <2>1 DEF PaidInvoiceWasCollected
  <2>2. CASE invoices[i].status # "paid"
    <3>1. PICK h \in Handler : pc[h] = "invoice" /\ invoices[i].charge_id = target[h]
      BY <2>2, InvoiceStatusChange
    <3>2. Settling(h) /\ target[h] # None /\ status[target[h]] = "paid"
      BY <3>1 DEF Shape, Books, LocalsFit, Settling, SettlingInOrder, InOrder
    <3>3. MintedFor(target[h], i)
      BY <3>1, <3>2 DEF Shape, LinksFit
    <3> QED
      BY <3>2, <3>3 DEF MintedFor, AsksFor
  <2> QED
    BY <2>1, <2>2
<1>2. \A c \in ChargeId : status[c] = "paid" => terms[c] # None
  BY DEF Shape, RowsExist
<1> QED
  BY <1>1, <1>2, RowsPersist DEF Persistent

LEMMA InvoiceInit == Init => PaidInvoiceWasCollected
BY DEF Init, PaidInvoiceWasCollected
-----------------------------------------------------------------------------
(* Nothing is lost without a fault.                                         *)

\* A fully settled event stays so.
LEMMA FullySettledIsStable ==
    ASSUME Shape, Books, [Next]_vars, NEW e \in sms_events, e.charge_id # None,
           FullySettled(e)
    PROVE  FullySettled(e)'
<1>1. e.charge_id \in ChargeId /\ terms[e.charge_id] # None
  BY DEF Shape, EventsFit, AsksFor
<1>2. status'[e.charge_id] = "paid" /\ terms'[e.charge_id] = terms[e.charge_id]
  BY <1>1, RowsPersist DEF Persistent, FullySettled
<1>3. PostedFor(e.charge_id, Key(e.txn))'
  <2>1. CASE UNCHANGED ledger
    BY <2>1 DEF FullySettled, PostedFor, PostingsOf
  <2>2. ASSUME NEW h \in Handler, Post(h)
        PROVE  PostedFor(e.charge_id, Key(e.txn))'
    <3>1. txn[h] \in Txn /\ target[h] \in ChargeId /\ terms[target[h]] \in Terms
      <4>1. /\ txn[h] \in Txn /\ target[h] # None
            /\ [txn |-> txn[h], charge_id |-> target[h]] \in sms_events
        BY <2>2 DEF Post, Shape, LocalsFit, Settling
      <4>2. target[h] \in ChargeId /\ terms[target[h]] # None
        BY <4>1 DEF Shape, EventsFit, AsksFor
      <4>3. terms \in [ChargeId -> Terms \cup {None}]
        BY DEF Shape, TypeOK
      <4> QED
        BY <4>1, <4>2, <4>3
    <3>2. [reference |-> target[h], amount_minor |-> terms[target[h]].amount_minor,
           event |-> Key(txn[h])] \in LedgerTxn
      BY <3>1 DEF LedgerTxn, Terms, Keys
    <3>3. \A c, k : PostedFor(c, k) => PostedFor(c, k)'
      BY <2>2, <3>2, AppendPosting DEF Post, Shape
    <3> QED
      BY <3>3 DEF FullySettled
  <2> QED
    BY <2>1, <2>2 DEF Next, Serve, HandlerStep, create, create_checkout, IssueCheckout, Receive,
        Match, RejectDuplicate, RecordUnmatched, RecordMatched, InsertEvent, MarkPaid,
        SettleInvoices, Notify, IssueLink, Abandon, Crash, vars, db
<1>4. ASSUME NEW n \in DOMAIN deliveries
      PROVE  n \in DOMAIN deliveries' /\ deliveries'[n] = deliveries[n]
  <2>1. CASE UNCHANGED deliveries
    BY <2>1
  <2>2. ASSUME NEW h \in Handler, Notify(h)
        PROVE  n \in DOMAIN deliveries' /\ deliveries'[n] = deliveries[n]
    <3> DEFINE row == [charge_id |-> target[h], event |-> Key(txn[h])]
    <3>1. /\ deliveries \in Seq(Delivery) /\ deliveries' = Append(deliveries, row)
          /\ row \in Delivery
      BY <2>2 DEF Notify, Shape, TypeOK, LocalsFit, Settling, Delivery, Keys
    <3> HIDE DEF row
    <3> QED
      BY <3>1, AppendProperties, LenProperties
  <2> QED
    BY <2>1, <2>2 DEF Next, Serve, HandlerStep, create, create_checkout, IssueCheckout, Receive,
        Match, RejectDuplicate, RecordUnmatched, RecordMatched, InsertEvent, Post, MarkPaid,
        SettleInvoices, IssueLink, Abandon, Crash, vars, db
<1> QED
  BY <1>2, <1>3, <1>4 DEF FullySettled

\* The last statement a handler runs for its event leaves the event fully settled.
LEMMA LastStatementSettles ==
    ASSUME Shape, Books, NEW e \in sms_events, NEW h \in Handler, Settling(h),
           txn[h] = e.txn, Notify(h) \/ (SettleInvoices(h) /\ ~terms[target[h]].callback_url)
    PROVE  FullySettled(e)'
<1>1. /\ target[h] = e.charge_id /\ InOrder(h) /\ txn[h] \in Txn /\ target[h] \in ChargeId
      /\ terms[target[h]] # None
  <2>1. /\ [txn |-> txn[h], charge_id |-> target[h]] \in sms_events /\ txn[h] \in Txn
        /\ target[h] \in ChargeId
    BY DEF Shape, TypeOK, LocalsFit, Settling
  <2>2. e = [txn |-> txn[h], charge_id |-> target[h]]
    BY <2>1 DEF Shape, EventsFit
  <2> QED
    BY <2>1, <2>2 DEF Shape, Books, EventsFit, AsksFor, SettlingInOrder
<1>2. CASE SettleInvoices(h) /\ ~terms[target[h]].callback_url
  <2>1. /\ UNCHANGED <<status, terms, ledger>>
        /\ status[target[h]] = "paid" /\ PostedFor(target[h], Key(txn[h]))
    BY <1>1, <1>2 DEF SettleInvoices, InOrder
  <2> QED
    BY <1>1, <1>2, <2>1 DEF FullySettled, PostedFor, PostingsOf
<1>3. CASE Notify(h)
  <2> DEFINE row == [charge_id |-> target[h], event |-> Key(txn[h])]
  <2>1. /\ UNCHANGED <<status, terms, ledger>>
        /\ status[target[h]] = "paid" /\ PostedFor(target[h], Key(txn[h]))
    BY <1>1, <1>3 DEF Notify, InOrder
  <2>2. \E n \in DOMAIN deliveries' : deliveries'[n].event = Key(txn[h])
    <3>1. /\ deliveries \in Seq(Delivery) /\ deliveries' = Append(deliveries, row)
          /\ row \in Delivery /\ row.event = Key(txn[h])
      BY <1>1, <1>3 DEF Notify, Shape, TypeOK, Delivery, Keys
    <3> HIDE DEF row
    <3>2. /\ deliveries' \in Seq(Delivery) /\ Len(deliveries') = Len(deliveries) + 1
          /\ deliveries'[Len(deliveries) + 1] = row /\ Len(deliveries) \in Nat
          /\ DOMAIN deliveries' = 1..Len(deliveries')
      BY <3>1, AppendProperties, LenProperties
    <3> QED
      BY <3>1, <3>2
  <2> QED
    BY <1>1, <2>1, <2>2 DEF FullySettled, PostedFor, PostingsOf
<1> QED
  BY <1>2, <1>3

\* A settling handler goes on, or completes its event, unless it is abandoned.
LEMMA SettlingGoesOn ==
    ASSUME Shape, Books, [Next]_vars, faults' = 0, NEW e \in sms_events,
           e.charge_id # None, NEW h \in Handler, Settling(h), txn[h] = e.txn
    PROVE  BeingSettled(e)' \/ FullySettled(e)'
<1>1. CASE Settling(h)' /\ txn'[h] = txn[h]
  BY <1>1 DEF BeingSettled
<1>2. CASE Notify(h) \/ (SettleInvoices(h) /\ ~terms[target[h]].callback_url)
  BY <1>2, LastStatementSettles
<1>3. \/ Settling(h)' /\ txn'[h] = txn[h]
      \/ SettleInvoices(h) /\ ~terms[target[h]].callback_url
      \/ Notify(h)
  <2> USE DEF Shape, TypeOK, Settling
  <2>1. CASE UNCHANGED <<pc, txn>>
    BY <2>1
  <2>2. ASSUME NEW g \in Handler,
               \/ \E i \in InvoiceId, c \in ChargeId : IssueCheckout(g, i, c)
               \/ \E s \in Sms : Receive(g, s)
               \/ Match(g) \/ RejectDuplicate(g) \/ RecordUnmatched(g) \/ RecordMatched(g)
               \/ IssueLink(g)
        PROVE  Settling(h)' /\ txn'[h] = txn[h]
    BY <2>2 DEF IssueCheckout, Receive, Match, RejectDuplicate, RecordUnmatched,
                RecordMatched, InsertEvent, IssueLink, Leave, Proceed
  <2>3. ASSUME NEW g \in Handler, Post(g) \/ MarkPaid(g)
        PROVE  Settling(h)' /\ txn'[h] = txn[h]
    BY <2>3 DEF Post, MarkPaid, Proceed
  <2>4. ASSUME NEW g \in Handler, SettleInvoices(g) \/ Notify(g)
        PROVE  \/ Settling(h)' /\ txn'[h] = txn[h]
               \/ SettleInvoices(h) /\ ~terms[target[h]].callback_url
               \/ Notify(h)
    BY <2>4 DEF SettleInvoices, Notify, Leave, Proceed
  <2>5. ASSUME Crash \/ \E g \in Handler : Abandon(g)
        PROVE  FALSE
    BY <2>5 DEF Crash, Abandon
  <2> QED
    BY <2>1, <2>2, <2>3, <2>4, <2>5 DEF Next, Serve, HandlerStep, create, create_checkout, vars, locals
<1> QED
  BY <1>1, <1>2, <1>3

LEMMA InterruptedInit == Init => SettledUnlessInterrupted
BY DEF Init, SettledUnlessInterrupted

LEMMA InterruptedStep ==
    Shape /\ Books /\ SettledUnlessInterrupted /\ [Next]_vars => SettledUnlessInterrupted'
<1> SUFFICES ASSUME Shape, Books, SettledUnlessInterrupted, [Next]_vars, faults' = 0,
                    NEW e \in sms_events', e.charge_id # None
             PROVE  BeingSettled(e)' \/ FullySettled(e)'
  BY DEF SettledUnlessInterrupted
<1>1. CASE e \in sms_events
  <2>1. faults = 0
    <3>1. faults \in Nat
      BY DEF Shape, TypeOK
    <3>2. UNCHANGED faults \/ faults' = faults + 1
      BY DEF Next, Serve, HandlerStep, create, create_checkout, IssueCheckout, Receive,
        Match, RejectDuplicate, RecordUnmatched, RecordMatched, InsertEvent, Post, MarkPaid,
        SettleInvoices, Notify, IssueLink, Abandon, Crash, vars
    <3> QED
      BY <3>1, <3>2
  <2>2. BeingSettled(e) \/ FullySettled(e)
    BY <1>1, <2>1 DEF SettledUnlessInterrupted
  <2>3. CASE FullySettled(e)
    BY <1>1, <2>3, FullySettledIsStable
  <2>4. CASE BeingSettled(e)
    <3>1. PICK h \in Handler : Settling(h) /\ txn[h] = e.txn
      BY <2>4 DEF BeingSettled
    <3> QED
      BY <1>1, <3>1, SettlingGoesOn
  <2> QED
    BY <2>2, <2>3, <2>4
<1>2. CASE e \notin sms_events
  <2>1. PICK h \in Handler : RecordUnmatched(h) \/ RecordMatched(h)
    BY <1>2 DEF Next, Serve, HandlerStep, create, create_checkout, IssueCheckout, Receive,
        Match, RejectDuplicate, Post, MarkPaid, SettleInvoices, Notify, IssueLink,
        Abandon, Crash, vars, db
  <2>2. e = [txn |-> txn[h], charge_id |-> target[h]]
    BY <1>2, <2>1 DEF RecordUnmatched, RecordMatched, InsertEvent
  <2>3. RecordMatched(h)
    BY <2>1, <2>2 DEF RecordUnmatched
  <2>4. txn'[h] = e.txn /\ pc'[h] = "post"
    BY <2>2, <2>3 DEF RecordMatched, Proceed, Shape, TypeOK
  <2> QED
    BY <2>4 DEF BeingSettled, Settling
<1> QED
  BY <1>1, <1>2
-----------------------------------------------------------------------------
(* The theorems.                                                            *)

LEMMA SpecIsConsistent ==
    Spec => [](Shape /\ Books /\ PaidInvoiceWasCollected /\ SettledUnlessInterrupted)
<1> DEFINE I == Shape /\ Books /\ PaidInvoiceWasCollected /\ SettledUnlessInterrupted
<1>1. Init => I
  BY ShapeInit, BooksInit, InvoiceInit, InterruptedInit
<1>2. I /\ [Next]_vars => I'
  BY ShapeStep, BooksStep, InvoiceStep, InterruptedStep
<1> QED
  BY <1>1, <1>2, PTL DEF Spec

\* The invariant that the runs check is inductive and holds of every execution.
THEOREM ConsistentAlways == Spec => []Consistent
<1>1. Shape /\ Books /\ PaidInvoiceWasCollected => Consistent
  BY DEF Shape, Books, Consistent
<1> QED
  BY <1>1, SpecIsConsistent, PTL

\* Money enters the ledger only for a recorded transfer attributed to that charge
\* and of exactly its amount, and at most once per transfer, however requests
\* interleave, repeat and fail (sms.rs:36-90, charge.rs:111-156).
THEOREM LedgerIsSound == Spec => [](LedgerBacked /\ OnePostingPerEvent)
<1>1. Books => LedgerBacked /\ OnePostingPerEvent
  BY DEF Books
<1> QED
  BY <1>1, SpecIsConsistent, PTL

\* No charge is paid without a posting.
THEOREM PaidMeansPosted == Spec => []PaidIsPosted
<1>1. Books => PaidIsPosted
  BY DEF Books
<1> QED
  BY <1>1, SpecIsConsistent, PTL

\* No merchant is notified of a payment that did not happen, or twice of one event.
THEOREM NotificationsAreTrue == Spec => []NotifiedWasSettled
<1>1. Books => NotifiedWasSettled
  BY DEF Books
<1> QED
  BY <1>1, SpecIsConsistent, PTL

\* No invoice is marked paid unless a charge minted for it collected its total.
THEOREM PaidInvoicesWereCollected == Spec => []PaidInvoiceWasCollected
BY SpecIsConsistent, PTL

\* Interleaving alone loses nothing: only a fault can leave a matched event unsettled.
THEOREM OnlyFaultsLose == Spec => []SettledUnlessInterrupted
BY SpecIsConsistent, PTL

\* find_matching_charge never picks between two charges that fit equally.
THEOREM MatchingNeverGuesses == Spec => NeverGuesses
<1> DEFINE Careful(h) ==
        pc[h] = "match" /\ pc'[h] = "record" /\ target'[h] # None =>
            /\ status[target'[h]] = "pending"
            /\ terms[target'[h]].amount_minor = txn[h].amount_minor
            /\ \A d \in ChargeId \ {target'[h]} :
                  status[d] = "pending" /\ terms[d].amount_minor = txn[h].amount_minor =>
                    /\ txn[h].sender_msisdn # None
                    /\ \/ terms[d].customer_msisdn = None
                       \/ normalize_msisdn(terms[d].customer_msisdn)
                            # normalize_msisdn(txn[h].sender_msisdn)
<1>1. ASSUME Shape, Next, NEW h \in Handler
      PROVE  Careful(h)
  <2>1. ASSUME Match(h)
        PROVE  Careful(h)
    <3>1. /\ txn[h] \in Txn
          /\ target'[h] = find_matching_charge(status, terms, txn[h])
      BY <1>1, <2>1 DEF Shape, TypeOK, LocalsFit, Match
    <3> QED
      BY <3>1, MatchIsUnambiguous
  <2>2. ASSUME pc[h] = "match", pc'[h] = "record"
        PROVE  Match(h)
    <3>1. pc \in [Handler -> Stages]
      BY <1>1 DEF Shape, TypeOK
    <3>2. PICK g \in Handler : Match(g)
      <4>1. \A g \in Handler : ~RecordMatched(g) /\ ~Post(g) /\ ~MarkPaid(g)
        BY <2>2, <3>1 DEF RecordMatched, InsertEvent, Post, MarkPaid, Proceed
      <4>2. \A g \in Handler : ~SettleInvoices(g)
        BY <2>2, <3>1 DEF SettleInvoices, Proceed, Leave
      <4>3. \A g \in Handler : /\ ~RejectDuplicate(g) /\ ~RecordUnmatched(g) /\ ~Notify(g)
                                /\ ~IssueLink(g) /\ ~Abandon(g)
        BY <2>2, <3>1 DEF RejectDuplicate, RecordUnmatched, Notify, IssueLink, Abandon, Leave
      <4>4. /\ ~Crash
            /\ \A g \in Handler, i \in InvoiceId, c \in ChargeId : ~IssueCheckout(g, i, c)
            /\ \A g \in Handler, s \in Sms : ~Receive(g, s)
        BY <2>2, <3>1 DEF Crash, IssueCheckout, Receive
      <4>5. \A c \in ChargeId, r \in ChargeReq : ~create(c, r) /\ ~create_checkout(c, r)
        BY <2>2 DEF create, create_checkout, locals
      <4> QED
        BY <1>1, <4>1, <4>2, <4>3, <4>4, <4>5 DEF Next, Serve, HandlerStep
    <3> QED
      BY <2>2, <3>1, <3>2 DEF Match
  <2> QED
    BY <2>1, <2>2
<1>2. Shape /\ [Next]_vars => [\A h \in Handler : Careful(h)]_vars
  BY <1>1
<1> QED
  BY <1>2, SpecIsConsistent, PTL DEF Spec, NeverGuesses
-----------------------------------------------------------------------------
(* How often a charge can settle.                                           *)

\* The handlers that will mark charge c, and those that may still post to it.
Marking(c) == {h \in Handler : pc[h] = "mark" /\ target[h] = c}
Posting(c) == {h \in Handler : pc[h] \in {"record", "post"} /\ target[h] = c}

\* While a charge is pending every posting is of a handler about to mark it or of one
\* that a fault took away; once it is paid, the stale matches still under way count.
Covered(c) ==
    IF status[c] = "paid"
    THEN Cardinality(PostingsOf(c)) + Cardinality(Posting(c))
           <= Cardinality(Handler) * (1 + faults)
    ELSE Cardinality(PostingsOf(c))
           <= Cardinality(Marking(c)) + Cardinality(Handler) * faults

PostingsCovered == \A c \in ChargeId : Covered(c)

LEMMA CountsAreNumbers ==
    ASSUME TypeOK, NEW c
    PROVE  /\ IsFiniteSet(PostingsOf(c)) /\ Cardinality(PostingsOf(c)) \in Nat
           /\ IsFiniteSet(Marking(c)) /\ Cardinality(Marking(c)) \in Nat
           /\ IsFiniteSet(Posting(c)) /\ Cardinality(Posting(c)) \in Nat
           /\ Cardinality(Handler) \in Nat
           /\ Cardinality(Marking(c)) + Cardinality(Posting(c)) <= Cardinality(Handler)
<1>1. IsFiniteSet(PostingsOf(c))
  <2>1. DOMAIN ledger = 1..Len(ledger) /\ Len(ledger) \in Nat
    BY RowTypes
  <2>2. IsFiniteSet(1..Len(ledger))
    <3>1. \A n \in Nat : IsFiniteSet(1..n)
      BY FS_Interval
    <3> QED
      BY <2>1, <3>1
  <2>3. PostingsOf(c) \in SUBSET (1..Len(ledger))
    BY <2>1 DEF PostingsOf
  <2> QED
    BY <2>2, <2>3, FS_Subset
<1>2. IsFiniteSet(Marking(c)) /\ IsFiniteSet(Posting(c))
  <2>1. Marking(c) \in SUBSET Handler /\ Posting(c) \in SUBSET Handler
    BY DEF Marking, Posting
  <2> QED
    BY <2>1, HandlerAssumption, FS_Subset
<1>3. Cardinality(Marking(c)) + Cardinality(Posting(c)) <= Cardinality(Handler)
  <2>1. Marking(c) \cap Posting(c) = {} /\ Marking(c) \cup Posting(c) \in SUBSET Handler
    BY DEF Marking, Posting
  <2>2. Cardinality(Marking(c) \cup Posting(c))
          = Cardinality(Marking(c)) + Cardinality(Posting(c)) - Cardinality({})
    BY <1>2, <2>1, FS_Union
  <2>3. Cardinality(Marking(c) \cup Posting(c)) <= Cardinality(Handler)
    BY <2>1, HandlerAssumption, FS_Subset
  <2> QED
    BY <1>2, <2>2, <2>3, FS_EmptySet, FS_CardinalityType
<1> QED
  BY <1>1, <1>2, <1>3, HandlerAssumption, FS_CardinalityType

\* A step that adds no posting to c, takes nobody who is about to mark it away, and
\* once it is paid brings nobody who may post to it.
Steady(c) ==
    /\ PostingsOf(c)' = PostingsOf(c)
    /\ faults' = faults
    /\ status'[c] = "paid" <=> status[c] = "paid"
    /\ status[c] # "paid" => Marking(c) \subseteq Marking(c)'
    /\ status[c] = "paid" => Posting(c)' \subseteq Posting(c)

LEMMA SteadyKeepsCovered ==
    ASSUME TypeOK, TypeOK', NEW c \in ChargeId, Covered(c), Steady(c)
    PROVE  Covered(c)'
<1>1. CASE status[c] = "paid"
  <2>1. IsFiniteSet(Posting(c)') /\ Cardinality(Posting(c)') <= Cardinality(Posting(c))
    BY <1>1, CountsAreNumbers, FS_Subset DEF Steady
  <2> QED
    BY <1>1, <2>1, CountsAreNumbers, FS_CardinalityType DEF Steady, Covered, TypeOK
<1>2. CASE status[c] # "paid"
  <2>1. Marking(c)' \in SUBSET Handler
    BY DEF Marking
  <2>2. IsFiniteSet(Marking(c)') /\ Cardinality(Marking(c)') \in Nat
    BY <2>1, HandlerAssumption, FS_Subset, FS_CardinalityType
  <2>3. Cardinality(Marking(c)) <= Cardinality(Marking(c)')
    BY <1>2, <2>2, FS_Subset DEF Steady
  <2> QED
    BY <1>2, <2>2, <2>3, CountsAreNumbers DEF Steady, Covered, TypeOK
<1> QED
  BY <1>1, <1>2

\* The arithmetic of one more fault.
LEMMA OneMoreFault ==
    ASSUME NEW n \in Nat, NEW k \in Nat
    PROVE  /\ n * k \in Nat /\ n * (1 + k) = n + n * k
           /\ n * (1 + (k + 1)) = n + n * (1 + k)
OBVIOUS

\* The size of a set that gains or loses one element.
LEMMA OneMoreElement ==
    ASSUME NEW S, IsFiniteSet(S), NEW x, x \notin S, NEW T, T = S \cup {x}
    PROVE  Cardinality(T) = Cardinality(S) + 1
BY FS_AddElement

LEMMA OneElementLess ==
    ASSUME NEW S, IsFiniteSet(S), NEW x, x \in S, NEW T, T = S \ {x}
    PROVE  Cardinality(T) = Cardinality(S) - 1
BY FS_RemoveElement

\* Posting to a charge uses one of the handlers that may.
LEMMA PostKeepsCovered ==
    ASSUME Shape, NEW h \in Handler, Post(h), NEW c, c = target[h], Covered(c), TypeOK'
    PROVE  Covered(c)'
<1> DEFINE row == [reference |-> c, amount_minor |-> terms[c].amount_minor,
                   event |-> Key(txn[h])]
<1>1. c \in ChargeId /\ row \in LedgerTxn /\ ledger' = Append(ledger, row)
  <2>1. /\ txn[h] \in Txn /\ c # None
        /\ [txn |-> txn[h], charge_id |-> c] \in sms_events
    BY DEF Post, Shape, LocalsFit, Settling
  <2>2. c \in ChargeId /\ terms[c] # None
    BY <2>1 DEF Shape, EventsFit, AsksFor
  <2>3. terms[c] \in Terms
    BY <2>2 DEF Shape, TypeOK
  <2>4. Key(txn[h]) \in Keys
    BY <2>1 DEF Keys
  <2> QED
    BY <2>2, <2>3, <2>4 DEF Post, LedgerTxn, Terms
<1>2. Cardinality(PostingsOf(c)') = Cardinality(PostingsOf(c)) + 1
  <2>1. /\ PostingsOf(c)' = PostingsOf(c) \cup {Len(ledger) + 1}
        /\ Len(ledger) + 1 \notin PostingsOf(c)
    BY <1>1, AppendPosting DEF Shape, PostingsOf
  <2>2. IsFiniteSet(PostingsOf(c))
    BY CountsAreNumbers DEF Shape
  <2> QED
    BY <2>1, <2>2, OneMoreElement
<1>3. /\ pc \in [Handler -> Stages] /\ pc[h] = "post" /\ pc' = [pc EXCEPT ![h] = "mark"]
      /\ UNCHANGED <<status, target, faults>>
  BY DEF Post, Proceed, Shape, TypeOK
<1>4. faults \in Nat /\ faults' = faults
  BY <1>3 DEF Shape, TypeOK
<1>5. CASE status[c] = "paid"
  <2>1. Posting(c)' = Posting(c) \ {h} /\ h \in Posting(c)
    BY <1>3 DEF Posting
  <2>3. IsFiniteSet(Posting(c))
    BY CountsAreNumbers DEF Shape
  <2>2. Cardinality(Posting(c)') = Cardinality(Posting(c)) - 1
    BY <2>1, <2>3, OneElementLess
  <2> QED
    BY <1>2, <1>3, <1>4, <1>5, <2>2, CountsAreNumbers DEF Shape, Covered
<1>6. CASE status[c] # "paid"
  <2>1. Marking(c)' = Marking(c) \cup {h} /\ h \notin Marking(c)
    BY <1>3 DEF Marking
  <2>3. IsFiniteSet(Marking(c))
    BY CountsAreNumbers DEF Shape
  <2>2. Cardinality(Marking(c)') = Cardinality(Marking(c)) + 1
    BY <2>1, <2>3, OneMoreElement
  <2> QED
    BY <1>2, <1>3, <1>4, <1>6, <2>2, CountsAreNumbers DEF Shape, Covered
<1> QED
  BY <1>5, <1>6

\* Once c is marked, all who posted to it or still may are handlers of this or an
\* earlier fault.
LEMMA MarkKeepsCovered ==
    ASSUME Shape, NEW h \in Handler, MarkPaid(h), NEW c \in ChargeId, c = target[h],
           status[c] # "paid", Covered(c)
    PROVE  Covered(c)'
<1>1. /\ pc \in [Handler -> Stages] /\ pc[h] = "mark" /\ pc' = [pc EXCEPT ![h] = "invoice"]
      /\ status' = [status EXCEPT ![c] = "paid"] /\ status \in [ChargeId -> {"absent", "pending", "paid"}]
      /\ UNCHANGED <<ledger, target, faults>> /\ faults \in Nat
  BY DEF MarkPaid, Proceed, Shape, TypeOK
<1>2. Posting(c)' = Posting(c) /\ PostingsOf(c)' = PostingsOf(c) /\ status'[c] = "paid"
  BY <1>1 DEF Posting, PostingsOf
<1> QED
  BY <1>1, <1>2, CountsAreNumbers, OneMoreFault DEF Shape, Covered

\* A fault forgets handlers, and counts for all of them.
LEMMA FaultKeepsCovered ==
    ASSUME TypeOK, NEW c \in ChargeId, Covered(c), faults' = faults + 1,
           UNCHANGED <<status, ledger>>, Posting(c)' \subseteq Posting(c)
    PROVE  Covered(c)'
<1>1. /\ IsFiniteSet(Posting(c)') /\ Cardinality(Posting(c)') \in Nat
      /\ Cardinality(Posting(c)') <= Cardinality(Posting(c))
  BY CountsAreNumbers, FS_Subset, FS_CardinalityType
<1>2. Cardinality(Marking(c)') \in Nat
  <2>1. Marking(c)' \in SUBSET Handler
    BY DEF Marking
  <2> QED
    BY <2>1, HandlerAssumption, FS_Subset, FS_CardinalityType
<1>3. PostingsOf(c)' = PostingsOf(c) /\ status'[c] = status[c] /\ faults \in Nat
  BY DEF PostingsOf, TypeOK
<1> DEFINE n == Cardinality(Handler)
<1>4. /\ n \in Nat /\ n * faults \in Nat
      /\ n * (1 + faults') = n + n * (1 + faults)
      /\ n * faults' = n + n * faults
      /\ n * (1 + faults) \in Nat
  BY <1>3, CountsAreNumbers, OneMoreFault
<1>5. CASE status[c] = "paid"
  BY <1>1, <1>3, <1>4, <1>5, CountsAreNumbers DEF Covered
<1>6. CASE status[c] # "paid"
  BY <1>2, <1>3, <1>4, <1>6, CountsAreNumbers DEF Covered
<1> QED
  BY <1>5, <1>6

\* Every other step is steady for the charge.
LEMMA SteadySteps ==
    ASSUME Shape, [Next]_vars, NEW c \in ChargeId,
           ~ \E h \in Handler : target[h] = c /\ Post(h),
           ~ \E h \in Handler : target[h] = c /\ status[c] # "paid" /\ MarkPaid(h),
           ~ \E h \in Handler : Abandon(h),
           ~ Crash
    PROVE  Steady(c)
<1>1. /\ pc \in [Handler -> Stages] /\ target \in [Handler -> ChargeId \cup {None}]
      /\ status \in [ChargeId -> {"absent", "pending", "paid"}]
  BY DEF Shape, TypeOK
<1>2. CASE UNCHANGED <<ledger, faults, pc, target>> /\ (status'[c] = "paid" <=> status[c] = "paid")
  BY <1>2 DEF Steady, PostingsOf, Marking, Posting
<1>3. ASSUME NEW d \in ChargeId, NEW r \in ChargeReq, create(d, r) \/ create_checkout(d, r)
      PROVE  Steady(c)
  BY <1>1, <1>2, <1>3 DEF create, create_checkout, InsertCharge, locals
<1>4. ASSUME NEW h \in Handler, NEW i \in InvoiceId, NEW d \in ChargeId, IssueCheckout(h, i, d)
      PROVE  Steady(c)
  BY <1>1, <1>4 DEF IssueCheckout, InsertCharge, Steady, PostingsOf, Marking, Posting
<1>5. ASSUME NEW h \in Handler, NEW s \in Sms, Receive(h, s)
      PROVE  Steady(c)
  BY <1>1, <1>5 DEF Receive, db, Steady, PostingsOf, Marking, Posting
<1>6. ASSUME NEW h \in Handler, Match(h)
      PROVE  Steady(c)
  <2>1. txn[h] \in Txn
    BY <1>6 DEF Match, Shape, LocalsFit
  <2>2. /\ pc[h] = "match" /\ pc' = [pc EXCEPT ![h] = "record"]
        /\ UNCHANGED <<status, ledger, faults>>
        /\ \A g \in Handler : g # h => target'[g] = target[g]
        /\ target'[h] = find_matching_charge(status, terms, txn[h])
    BY <1>1, <1>6 DEF Match, db
  <2>3. status[c] = "paid" => target'[h] # c
    BY <2>1, <2>2, MatchIsUnambiguous
  <2> QED
    BY <1>1, <2>2, <2>3 DEF Steady, PostingsOf, Marking, Posting
<1>7. ASSUME NEW h \in Handler, RejectDuplicate(h) \/ RecordUnmatched(h) \/ IssueLink(h) \/ Notify(h)
      PROVE  Steady(c)
  <2>1. /\ pc[h] \in {"record", "link", "notify"} /\ Leave(h)
        /\ UNCHANGED <<status, ledger, faults>>
    BY <1>7 DEF RejectDuplicate, RecordUnmatched, InsertEvent, IssueLink, Notify, db
  <2> QED
    BY <1>1, <2>1, NoneAssumption DEF Leave, Steady, PostingsOf, Marking, Posting
<1>8. ASSUME NEW h \in Handler, RecordMatched(h)
      PROVE  Steady(c)
  BY <1>1, <1>8 DEF RecordMatched, InsertEvent, Proceed, Steady, PostingsOf, Marking, Posting
<1>9. ASSUME NEW h \in Handler, Post(h)
      PROVE  Steady(c)
  <2>1. target[h] # c
    BY <1>9
  <2>2. PostingsOf(c)' = PostingsOf(c)
    <3> DEFINE row == [reference |-> target[h], amount_minor |-> terms[target[h]].amount_minor,
                       event |-> Key(txn[h])]
    <3>1. ledger \in Seq(LedgerTxn) /\ row.reference # c
      BY <2>1 DEF Shape, TypeOK
    <3>2. ledger' = Append(ledger, row)
      BY <1>9 DEF Post
    <3>3. row \in LedgerTxn
      <4>1. /\ txn[h] \in Txn /\ target[h] # None
            /\ [txn |-> txn[h], charge_id |-> target[h]] \in sms_events
        BY <1>9 DEF Post, Shape, LocalsFit, Settling
      <4>2. target[h] \in ChargeId /\ terms[target[h]] # None
        BY <4>1 DEF Shape, EventsFit, AsksFor
      <4>3. terms[target[h]] \in Terms
        BY <4>2 DEF Shape, TypeOK
      <4>4. Key(txn[h]) \in Keys
        BY <4>1 DEF Keys
      <4> QED
        BY <4>2, <4>3, <4>4 DEF LedgerTxn, Terms
    <3> HIDE DEF row
    <3> QED
      BY <3>1, <3>2, <3>3, AppendPosting DEF PostingsOf, Shape
  <2> QED
    BY <1>1, <1>9, <2>1, <2>2 DEF Post, Proceed, Steady, Marking, Posting
<1>10. ASSUME NEW h \in Handler, MarkPaid(h)
      PROVE  Steady(c)
  BY <1>1, <1>10 DEF MarkPaid, Proceed, Steady, PostingsOf, Marking, Posting
<1>11. ASSUME NEW h \in Handler, SettleInvoices(h)
      PROVE  Steady(c)
  BY <1>1, <1>11 DEF SettleInvoices, Proceed, Leave, Steady, PostingsOf, Marking, Posting
<1>12. CASE UNCHANGED vars
  BY <1>2, <1>12 DEF vars, db, locals
<1> QED
  BY <1>3, <1>4, <1>5, <1>6, <1>7, <1>8, <1>9, <1>10, <1>11, <1>12
     DEF Next, Serve, HandlerStep

LEMMA CoveredInit == Shape /\ Init => PostingsCovered
<1> SUFFICES ASSUME Shape, Init, NEW c \in ChargeId PROVE Covered(c)
  BY DEF PostingsCovered
<1>1. PostingsOf(c) = {} /\ status[c] # "paid" /\ faults = 0
  BY DEF Init, PostingsOf
<1>2. Cardinality(PostingsOf(c)) = 0
  BY <1>1, FS_EmptySet
<1> QED
  BY <1>1, <1>2, CountsAreNumbers DEF Covered, Shape

LEMMA CoveredStep == Shape /\ PostingsCovered /\ [Next]_vars => PostingsCovered'
<1> SUFFICES ASSUME Shape, PostingsCovered, [Next]_vars, NEW c \in ChargeId PROVE Covered(c)'
  BY DEF PostingsCovered
<1>1. Covered(c) /\ TypeOK /\ TypeOK'
  BY ShapeStep DEF PostingsCovered, Shape
<1>2. ASSUME NEW h \in Handler, target[h] = c, Post(h)
      PROVE  Covered(c)'
  BY <1>1, <1>2, PostKeepsCovered
<1>3. ASSUME NEW h \in Handler, target[h] = c, status[c] # "paid", MarkPaid(h)
      PROVE  Covered(c)'
  BY <1>1, <1>3, MarkKeepsCovered
<1>4. ASSUME NEW h \in Handler, Abandon(h)
      PROVE  Covered(c)'
  <2>1. /\ faults' = faults + 1 /\ UNCHANGED <<status, ledger>>
    BY <1>4 DEF Abandon, db
  <2>2. Posting(c)' \subseteq Posting(c)
    BY <1>1, <1>4, NoneAssumption DEF Abandon, Leave, TypeOK, Posting
  <2> QED
    BY <1>1, <2>1, <2>2, FaultKeepsCovered
<1>5. CASE Crash
  <2>1. /\ faults' = faults + 1 /\ UNCHANGED <<status, ledger>>
        /\ Posting(c)' \subseteq Posting(c)
    BY <1>5 DEF Crash, db, Posting
  <2> QED
    BY <1>1, <2>1, FaultKeepsCovered
<1>6. CASE Steady(c)
  BY <1>1, <1>6, SteadyKeepsCovered
<1> QED
  BY <1>2, <1>3, <1>4, <1>5, <1>6, SteadySteps

LEMMA SpecIsCovered == Spec => [](Shape /\ PostingsCovered)
<1>1. Spec => []Shape
  BY SpecIsConsistent, PTL
<1>2. Init => Shape
  BY ShapeInit
<1> QED
  BY <1>1, <1>2, CoveredInit, CoveredStep, PTL DEF Spec

LEMMA CoveredIsBounded == Shape /\ PostingsCovered => OverSettlementBounded
<1> SUFFICES ASSUME Shape, PostingsCovered, NEW c \in ChargeId
             PROVE  Cardinality(PostingsOf(c)) <= Cardinality(Handler) * (1 + faults)
  BY DEF OverSettlementBounded
<1>1. faults \in Nat /\ Covered(c)
  BY DEF Shape, TypeOK, PostingsCovered
<1> DEFINE n == Cardinality(Handler)
<1>2. n \in Nat /\ n * faults \in Nat /\ n * (1 + faults) = n + n * faults
  BY <1>1, CountsAreNumbers, OneMoreFault DEF Shape
<1> QED
  BY <1>1, <1>2, CountsAreNumbers DEF Shape, Covered

\* However requests interleave, a charge collects at most one posting for every task
\* that can hold a stale match, and as many again for each fault (sms.rs:54, charge.rs:114).
THEOREM OverSettlementIsBounded == Spec => []OverSettlementBounded
BY SpecIsCovered, CoveredIsBounded, PTL
-----------------------------------------------------------------------------
(* One request at a time.                                                   *)

\* What a charge minted for an invoice asks for: its total, of anyone.
MintedTerms ==
    \A c \in ChargeId :
        terms[c] # None /\ terms[c].invoice # None =>
            /\ terms[c].amount_minor = InvoiceAmount[terms[c].invoice]
            /\ terms[c].customer_msisdn = None

\* Charge c is to collect invoice i.
Collects(c, i) == terms[c] # None /\ terms[c].invoice = i

\* A charge under an invoice's link collects for it, unless a second pending charge
\* of the invoice makes both ambiguous for good.
LinkedOrAmbiguous ==
    \A c \in ChargeId, i \in InvoiceId :
        status[c] = "pending" /\ Collects(c, i) =>
            \/ invoices[i].charge_id = c
            \/ \E h \in Handler : pc[h] = "link" /\ target[h] = c /\ issuing[h] = i
            \/ \E d \in ChargeId \ {c} : status[d] = "pending" /\ Collects(d, i)

\* What a handler links is still pending; what it settles is linked, and is the only
\* charge that collects the invoice.
HandledIsLinked ==
    \A h \in Handler :
        /\ pc[h] = "link" => status[target[h]] = "pending"
        /\ pc[h] \in {"record", "post", "mark", "invoice"} =>
              \A i \in InvoiceId :
                  target[h] # None /\ Collects(target[h], i) =>
                      /\ invoices[i].charge_id = target[h]
                      /\ \A d \in ChargeId \ {target[h]} :
                            status[d] = "pending" => ~Collects(d, i)

\* A paid charge's invoice is paid, or about to be.
PaidOrAboutTo ==
    \A c \in ChargeId, i \in InvoiceId :
        status[c] = "paid" /\ Collects(c, i) =>
            \/ invoices[i].status = "paid"
            \/ \E h \in Handler : pc[h] = "invoice" /\ target[h] = c

OneAtATime == LinkedOrAmbiguous /\ HandledIsLinked /\ PaidOrAboutTo

LEMMA MintedInit == Init => MintedTerms
BY DEF Init, MintedTerms

LEMMA MintedStep == Shape /\ MintedTerms /\ [Next]_vars => MintedTerms'
<1> SUFFICES ASSUME Shape, MintedTerms, [Next]_vars PROVE MintedTerms'
  OBVIOUS
<1>1. terms \in [ChargeId -> Terms \cup {None}]
  BY DEF Shape, TypeOK
<1>2. CASE UNCHANGED terms
  BY <1>2 DEF MintedTerms
<1>3. ASSUME NEW d \in ChargeId, NEW order, NEW r, InsertCharge(d, order, r, None)
      PROVE  MintedTerms'
  BY <1>1, <1>3 DEF InsertCharge, MintedTerms
<1>4. ASSUME NEW d \in ChargeId, NEW i \in InvoiceId, InsertCharge(d, d, InvoiceReq(i), i)
      PROVE  MintedTerms'
  BY <1>1, <1>4 DEF InsertCharge, InvoiceReq, MintedTerms
<1> QED
  BY <1>2, <1>3, <1>4 DEF Next, Serve, HandlerStep, create, create_checkout, IssueCheckout, Receive,
        Match, RejectDuplicate, RecordUnmatched, RecordMatched, InsertEvent, Post, MarkPaid,
        SettleInvoices, Notify, IssueLink, Abandon, Crash, vars, db

\* A charge of anyone's is matched only when no other pending charge has its amount.
LEMMA MatchOfAnyone ==
    ASSUME NEW t \in Txn, NEW match, match # None,
           match = find_matching_charge(status, terms, t),
           terms[match].customer_msisdn = None
    PROVE  \A d \in ChargeId \ {match} :
              status[d] = "pending" => terms[d].amount_minor # t.amount_minor
<1> DEFINE C == Candidates(status, terms, t.amount_minor)
           H == SenderHits(terms, C, t.sender_msisdn)
<1>1. C \in SUBSET ChargeId /\ H \in SUBSET ChargeId /\ match \notin H
  BY DEF Candidates, SenderHits
<1>2. match = Sole(C) \/ match = Sole(H)
  BY DEF find_matching_charge
<1>3. match = Sole(C)
  BY <1>1, <1>2, SoleIsTheOnlyMember
<1>4. C = {match}
  BY <1>1, <1>3, SoleIsTheOnlyMember
<1> QED
  BY <1>4 DEF Candidates

\* The steps of a handler that leave charges and invoices alone.
LEMMA RestingKeeps ==
    ASSUME OneAtATime, NEW h, Handler = {h}, UNCHANGED <<status, terms, invoices>>,
           \/ pc[h] \notin {"link", "invoice"} /\ pc'[h] \in {"idle", "match"}
           \/ /\ pc[h] \in {"record", "post"} /\ pc'[h] \in {"post", "mark"}
              /\ UNCHANGED target[h]
           \/ UNCHANGED <<pc, target, issuing>>
    PROVE  OneAtATime'
<1>1. CASE pc[h] \notin {"link", "invoice"} /\ pc'[h] \in {"idle", "match"}
  BY <1>1 DEF OneAtATime, LinkedOrAmbiguous, HandledIsLinked, PaidOrAboutTo, Collects
<1>2. CASE /\ pc[h] \in {"record", "post"} /\ pc'[h] \in {"post", "mark"}
           /\ UNCHANGED target[h]
  BY <1>2 DEF OneAtATime, LinkedOrAmbiguous, HandledIsLinked, PaidOrAboutTo, Collects
<1>3. CASE UNCHANGED <<pc, target, issuing>>
  BY <1>3 DEF OneAtATime, LinkedOrAmbiguous, HandledIsLinked, PaidOrAboutTo, Collects
<1> QED
  BY <1>1, <1>2, <1>3

LEMMA CreatingKeeps ==
    ASSUME Shape, OneAtATime, NEW h, Handler = {h}, NEW d \in ChargeId, NEW order, NEW r,
           InsertCharge(d, order, r, None), UNCHANGED <<invoices, locals>>
    PROVE  OneAtATime'
<1>1. /\ status \in [ChargeId -> {"absent", "pending", "paid"}]
      /\ terms \in [ChargeId -> Terms \cup {None}] /\ status[d] = "absent"
      /\ status'[d] = "pending" /\ UNCHANGED <<pc, target, issuing>>
      /\ \A c \in ChargeId : c # d => status'[c] = status[c] /\ terms'[c] = terms[c]
      /\ terms'[d].invoice = None
  BY DEF Shape, TypeOK, InsertCharge, locals
<1>2. /\ \A i \in InvoiceId : ~Collects(d, i)'
      /\ \A c \in ChargeId, i \in InvoiceId : c # d => (Collects(c, i)' <=> Collects(c, i))
  BY <1>1, InvoiceAssumption DEF Collects
<1>3. target[h] \in ChargeId \cup {None}
  BY DEF Shape, TypeOK
<1>4. LinkedOrAmbiguous'
  BY <1>1, <1>2 DEF OneAtATime, LinkedOrAmbiguous
<1>5. HandledIsLinked'
  BY <1>1, <1>2, <1>3 DEF Shape, LocalsFit, MintedFor, AsksFor, OneAtATime, HandledIsLinked
<1>6. PaidOrAboutTo'
  BY <1>1, <1>2 DEF OneAtATime, PaidOrAboutTo
<1> QED
  BY <1>4, <1>5, <1>6 DEF OneAtATime

LEMMA IssuingKeeps ==
    ASSUME Shape, OneAtATime, NEW h, Handler = {h}, NEW d \in ChargeId, NEW j \in InvoiceId,
           IssueCheckout(h, j, d)
    PROVE  OneAtATime'
<1>1. /\ status \in [ChargeId -> {"absent", "pending", "paid"}]
      /\ terms \in [ChargeId -> Terms \cup {None}] /\ status[d] = "absent"
      /\ status'[d] = "pending" /\ UNCHANGED invoices
      /\ \A c \in ChargeId : c # d => status'[c] = status[c] /\ terms'[c] = terms[c]
      /\ terms'[d].invoice = j
      /\ pc[h] = "idle" /\ pc'[h] = "link" /\ target'[h] = d /\ issuing'[h] = j
  BY DEF Shape, TypeOK, IssueCheckout, InsertCharge
<1>2. /\ \A i \in InvoiceId : Collects(d, i)' => i = j
      /\ \A c \in ChargeId, i \in InvoiceId : c # d => (Collects(c, i)' <=> Collects(c, i))
  BY <1>1 DEF Collects
<1>3. LinkedOrAmbiguous'
  BY <1>1, <1>2 DEF OneAtATime, LinkedOrAmbiguous
<1>4. HandledIsLinked' /\ PaidOrAboutTo'
  BY <1>1, <1>2 DEF OneAtATime, HandledIsLinked, PaidOrAboutTo
<1> QED
  BY <1>3, <1>4 DEF OneAtATime

\* A matched charge that collects an invoice is the one under its link.
LEMMA MatchingKeeps ==
    ASSUME Shape, MintedTerms, OneAtATime, NEW h, Handler = {h}, Match(h)
    PROVE  OneAtATime'
<1>1. /\ pc[h] = "match" /\ pc'[h] = "record" /\ UNCHANGED <<status, terms, invoices>>
      /\ target'[h] = find_matching_charge(status, terms, txn[h]) /\ txn[h] \in Txn
  BY DEF Match, Shape, TypeOK, LocalsFit, db
<1>2. ASSUME NEW i \in InvoiceId, target'[h] # None, Collects(target'[h], i)
      PROVE  /\ invoices[i].charge_id = target'[h]
             /\ \A d \in ChargeId \ {target'[h]} : status[d] = "pending" => ~Collects(d, i)
  <2>1. /\ target'[h] \in ChargeId /\ status[target'[h]] = "pending"
        /\ terms[target'[h]].amount_minor = txn[h].amount_minor
    BY <1>1, <1>2, MatchIsUnambiguous
  <2>2. /\ terms[target'[h]].customer_msisdn = None
        /\ terms[target'[h]].amount_minor = InvoiceAmount[i]
    BY <1>2, <2>1 DEF MintedTerms, Collects
  <2>3. \A d \in ChargeId \ {target'[h]} :
            status[d] = "pending" => terms[d].amount_minor # txn[h].amount_minor
    BY <1>1, <1>2, <2>2, MatchOfAnyone
  <2>4. \A d \in ChargeId \ {target'[h]} : status[d] = "pending" => ~Collects(d, i)
    BY <2>1, <2>2, <2>3 DEF MintedTerms, Collects
  <2> QED
    BY <1>1, <1>2, <2>1, <2>4 DEF OneAtATime, LinkedOrAmbiguous
<1>3. HandledIsLinked'
  BY <1>1, <1>2 DEF HandledIsLinked, Collects
<1>4. LinkedOrAmbiguous' /\ PaidOrAboutTo'
  BY <1>1 DEF OneAtATime, LinkedOrAmbiguous, PaidOrAboutTo, Collects
<1> QED
  BY <1>3, <1>4 DEF OneAtATime

LEMMA MarkingKeeps ==
    ASSUME Shape, OneAtATime, NEW h, Handler = {h}, MarkPaid(h)
    PROVE  OneAtATime'
<1>1. /\ pc[h] = "mark" /\ pc'[h] = "invoice" /\ UNCHANGED <<terms, invoices, target>>
      /\ status' = [status EXCEPT ![target[h]] = "paid"]
      /\ status \in [ChargeId -> {"absent", "pending", "paid"}]
      /\ target[h] \in ChargeId
  <2>1. target[h] \in ChargeId
    BY DEF MarkPaid, Shape, TypeOK, LocalsFit, Settling
  <2> QED
    BY <2>1 DEF MarkPaid, Proceed, Shape, TypeOK
<1>2. \A i \in InvoiceId : Collects(target[h], i) =>
         /\ invoices[i].charge_id = target[h]
         /\ \A d \in ChargeId \ {target[h]} : status[d] = "pending" => ~Collects(d, i)
  BY <1>1, NoneAssumption DEF OneAtATime, HandledIsLinked
<1>3. HandledIsLinked'
  BY <1>1, <1>2 DEF HandledIsLinked, Collects
<1>4. PaidOrAboutTo'
  BY <1>1 DEF OneAtATime, PaidOrAboutTo, Collects
<1>5. LinkedOrAmbiguous'
  <2> SUFFICES ASSUME NEW c \in ChargeId, NEW i \in InvoiceId,
                      status'[c] = "pending", Collects(c, i)
               PROVE  \/ invoices[i].charge_id = c
                      \/ \E d \in ChargeId \ {c} : status'[d] = "pending" /\ Collects(d, i)
    BY <1>1 DEF LinkedOrAmbiguous, Collects
  <2>1. c # target[h] /\ status[c] = "pending"
    BY <1>1
  <2>2. \A d \in ChargeId : Collects(d, i) /\ status[d] = "pending" => d # target[h]
    BY <1>1, <1>2, <2>1
  <2> QED
    BY <1>1, <2>1, <2>2 DEF OneAtATime, LinkedOrAmbiguous
<1> QED
  BY <1>3, <1>4, <1>5 DEF OneAtATime

LEMMA SettlingKeeps ==
    ASSUME Shape, OneAtATime, NEW h, Handler = {h}, SettleInvoices(h)
    PROVE  OneAtATime'
<1>1. /\ pc[h] = "invoice" /\ pc'[h] \in {"notify", "idle"} /\ UNCHANGED <<status, terms>>
      /\ invoices' = settle_for_charge(target[h])
  BY DEF SettleInvoices, Proceed, Leave, Shape, TypeOK
<1>2. invoices \in [InvoiceId -> [status : {"unpaid", "paid"}, charge_id : ChargeId \cup {None}]]
  BY DEF Shape, TypeOK
<1>3. \A i \in InvoiceId :
         /\ invoices'[i].charge_id = invoices[i].charge_id
         /\ invoices[i].status = "paid" => invoices'[i].status = "paid"
         /\ invoices[i].charge_id = target[h] => invoices'[i].status = "paid"
  BY <1>1, <1>2 DEF settle_for_charge
<1>4. target[h] # None
  BY <1>1 DEF Shape, LocalsFit, Settling
<1>5. LinkedOrAmbiguous' /\ HandledIsLinked'
  BY <1>1, <1>3 DEF OneAtATime, LinkedOrAmbiguous, HandledIsLinked, Collects
<1>6. PaidOrAboutTo'
  <2> SUFFICES ASSUME NEW c \in ChargeId, NEW i \in InvoiceId, status[c] = "paid", Collects(c, i)
               PROVE  invoices'[i].status = "paid"
    BY <1>1 DEF PaidOrAboutTo, Collects
  <2>1. CASE invoices[i].status = "paid"
    BY <1>3, <2>1
  <2>2. CASE target[h] = c
    BY <1>1, <1>3, <1>4, <2>2 DEF OneAtATime, HandledIsLinked
  <2> QED
    BY <2>1, <2>2 DEF OneAtATime, PaidOrAboutTo
<1> QED
  BY <1>5, <1>6 DEF OneAtATime

LEMMA LinkingKeeps ==
    ASSUME Shape, OneAtATime, NEW h, Handler = {h}, IssueLink(h)
    PROVE  OneAtATime'
<1> DEFINE j == issuing[h]
           t == target[h]
<1>1. /\ pc[h] = "link" /\ pc'[h] = "idle" /\ UNCHANGED <<status, terms>>
      /\ j \in InvoiceId /\ t \in ChargeId /\ Collects(t, j) /\ status[t] = "pending"
  BY DEF IssueLink, Leave, Shape, TypeOK, LocalsFit, MintedFor, AsksFor, OneAtATime,
         HandledIsLinked, Collects
<1>2. /\ \A i \in InvoiceId : invoices'[i].status = invoices[i].status
      /\ invoices'[j].charge_id = t
      /\ \A i \in InvoiceId : i # j => invoices'[i].charge_id = invoices[i].charge_id
  <2>1. invoices' = [invoices EXCEPT ![j].charge_id = t]
    BY DEF IssueLink
  <2>2. invoices \in [InvoiceId -> [status : {"unpaid", "paid"}, charge_id : ChargeId \cup {None}]]
    BY DEF Shape, TypeOK
  <2> QED
    BY <1>1, <2>1, <2>2
<1> HIDE DEF j, t
<1>3. HandledIsLinked' /\ PaidOrAboutTo'
  BY <1>1, <1>2 DEF OneAtATime, HandledIsLinked, PaidOrAboutTo, Collects
<1>4. LinkedOrAmbiguous'
  <2> SUFFICES ASSUME NEW c \in ChargeId, NEW i \in InvoiceId, status[c] = "pending", Collects(c, i)
               PROVE  \/ invoices'[i].charge_id = c
                      \/ \E d \in ChargeId \ {c} : status[d] = "pending" /\ Collects(d, i)
    BY <1>1 DEF LinkedOrAmbiguous, Collects
  <2>1. CASE i = j
    BY <1>1, <1>2, <2>1
  <2>2. CASE i # j
    <3>1. ~(pc[h] = "link" /\ target[h] = c /\ issuing[h] = i)
      BY <2>2 DEF j
    <3> QED
      BY <1>2, <2>2, <3>1 DEF OneAtATime, LinkedOrAmbiguous
  <2> QED
    BY <2>1, <2>2
<1> QED
  BY <1>3, <1>4 DEF OneAtATime

LEMMA OneAtATimeStep ==
    ASSUME Shape, MintedTerms, Sequential => OneAtATime, [Next]_vars, Sequential'
    PROVE  OneAtATime'
<1>1. PICK h : Handler = {h}
  BY HandlerAssumption, FS_Singleton DEF Sequential
<1>2. /\ faults \in Nat /\ faults' = 0 /\ Cardinality(Handler) = 1
      /\ pc \in [Handler -> Stages]
  BY DEF Shape, TypeOK, Sequential
<1>3. faults' = faults + 1 => FALSE
  BY <1>2
<1>4. ~Crash /\ ~Abandon(h)
  BY <1>3 DEF Crash, Abandon
<1>5. OneAtATime
  <2>1. faults' = faults
    BY <1>1, <1>4 DEF Next, Serve, HandlerStep, create, create_checkout, IssueCheckout, Receive,
        Match, RejectDuplicate, RecordUnmatched, RecordMatched, InsertEvent, Post, MarkPaid,
        SettleInvoices, Notify, IssueLink, vars
  <2> QED
    BY <1>2, <2>1 DEF Sequential
<1>6. CASE \E c \in ChargeId, r \in ChargeReq : create(c, r) \/ create_checkout(c, r)
  BY <1>1, <1>5, <1>6, CreatingKeeps DEF create, create_checkout
<1>7. CASE \E i \in InvoiceId, c \in ChargeId : IssueCheckout(h, i, c)
  BY <1>1, <1>5, <1>7, IssuingKeeps
<1>8. CASE Match(h)
  BY <1>1, <1>5, <1>8, MatchingKeeps
<1>9. CASE MarkPaid(h)
  BY <1>1, <1>5, <1>9, MarkingKeeps
<1>10. CASE SettleInvoices(h)
  BY <1>1, <1>5, <1>10, SettlingKeeps
<1>11. CASE IssueLink(h)
  BY <1>1, <1>5, <1>11, LinkingKeeps
<1>12. CASE \/ \E s \in Sms : Receive(h, s)
            \/ RejectDuplicate(h) \/ RecordUnmatched(h) \/ Notify(h)
  <2>1. /\ pc[h] \notin {"link", "invoice"} /\ pc'[h] \in {"idle", "match"}
        /\ UNCHANGED <<status, terms, invoices>>
    BY <1>1, <1>2, <1>12 DEF Receive, RejectDuplicate, RecordUnmatched, InsertEvent, Notify,
                             Leave, db
  <2> QED
    BY <1>1, <1>5, <2>1, RestingKeeps
<1>13. CASE RecordMatched(h) \/ Post(h)
  <2>1. /\ pc[h] \in {"record", "post"} /\ pc'[h] \in {"post", "mark"}
        /\ UNCHANGED <<status, terms, invoices, target>>
    BY <1>1, <1>2, <1>13 DEF RecordMatched, InsertEvent, Post, Proceed
  <2> QED
    BY <1>1, <1>5, <2>1, RestingKeeps
<1>14. CASE UNCHANGED vars
  BY <1>1, <1>5, <1>14, RestingKeeps DEF vars, db, locals
<1> QED
  BY <1>1, <1>4, <1>6, <1>7, <1>8, <1>9, <1>10, <1>11, <1>12, <1>13, <1>14
     DEF Next, Serve, HandlerStep

LEMMA OneAtATimeInit == Init => OneAtATime
BY DEF Init, OneAtATime, LinkedOrAmbiguous, HandledIsLinked, PaidOrAboutTo

\* What the three parts of the argument say together.
LEMMA SequentialHolds ==
    ASSUME Shape, PostingsCovered, Sequential => OneAtATime
    PROVE  SequentialIsExact
<1> SUFFICES ASSUME Sequential PROVE SettledOnce /\ InvoiceFollowsItsCharge
  BY DEF SequentialIsExact
<1>1. SettledOnce
  <2> SUFFICES ASSUME NEW m \in DOMAIN ledger, NEW n \in DOMAIN ledger,
                      ledger[m].reference = ledger[n].reference
               PROVE  m = n
    BY DEF SettledOnce
  <2>1. PICK c \in ChargeId : c = ledger[m].reference
    BY RowTypes DEF Shape, LedgerTxn
  <2>2. Cardinality(PostingsOf(c)) <= 1
    <3>1. Cardinality(PostingsOf(c)) <= Cardinality(Handler) * (1 + faults)
      BY CoveredIsBounded DEF OverSettlementBounded
    <3> QED
      BY <3>1 DEF Sequential
  <2>3. Cardinality(PostingsOf(c)) \in Nat /\ IsFiniteSet(PostingsOf(c))
    BY CountsAreNumbers DEF Shape
  <2>4. m \in PostingsOf(c) /\ n \in PostingsOf(c)
    BY <2>1 DEF PostingsOf
  <2>5. Cardinality(PostingsOf(c)) = 1
    BY <2>2, <2>3, <2>4, FS_EmptySet
  <2> QED
    BY <2>3, <2>4, <2>5, FS_Singleton
<1>2. InvoiceFollowsItsCharge
  <2> SUFFICES ASSUME NEW c \in ChargeId, status[c] = "paid", terms[c].invoice # None,
                      \A h \in Handler : target[h] # c
               PROVE  invoices[terms[c].invoice].status = "paid"
    BY DEF InvoiceFollowsItsCharge
  <2>1. terms[c] # None /\ terms[c].invoice \in InvoiceId
    BY DEF Shape, RowsExist, TypeOK, Terms
  <2> QED
    BY <2>1 DEF OneAtATime, PaidOrAboutTo, Collects
<1> QED
  BY <1>1, <1>2

\* With one task and no fault a charge settles exactly once and its invoice follows it,
\* re-issued or not: what goes wrong needs a second request between two statements.
THEOREM SequentialSettlesExactly == Spec => []SequentialIsExact
<1>1. Init => MintedTerms /\ (Sequential => OneAtATime)
  BY MintedInit, OneAtATimeInit
<1>2. Shape /\ MintedTerms /\ (Sequential => OneAtATime) /\ [Next]_vars
        => MintedTerms' /\ (Sequential => OneAtATime)'
  BY MintedStep, OneAtATimeStep
<1>3. Spec => [](MintedTerms /\ (Sequential => OneAtATime))
  BY <1>1, <1>2, SpecIsCovered, PTL DEF Spec
<1>4. Shape /\ PostingsCovered /\ (Sequential => OneAtATime) => SequentialIsExact
  BY SequentialHolds
<1> QED
  BY <1>3, <1>4, SpecIsCovered, PTL
-----------------------------------------------------------------------------
(* The tables of Settlement implement PaymentLifecycle: every statement, in *)
(* whatever order requests interleave, repeat and fail, is a step of the    *)
(* abstract lifecycle or none.                                              *)

\* What the lifecycle sees of the ledger and of the queue.
CollectedOf(c) == {[transfer |-> ledger[n].event, amount |-> ledger[n].amount_minor] :
                    n \in PostingsOf(c)}
ToldOf(c) == {deliveries[n].event : n \in {m \in DOMAIN deliveries : deliveries[m].charge_id = c}}
LEMMA LifecycleStarts == Init => Lifecycle!LifecycleInit
BY DEF Init, Lifecycle!LifecycleInit, ShownState, PostingsOf

\* Everything but creating a charge, posting, marking and notifying is invisible.
LEMMA Invisible ==
    ASSUME UNCHANGED <<status, terms, ledger, deliveries>>
    PROVE  UNCHANGED Lifecycle!abstract
BY DEF Lifecycle!abstract, ShownState, PostingsOf

\* Each of the three ways to create a charge opens it.
LEMMA InsertOpens ==
    ASSUME Shape, NEW c \in ChargeId, NEW order \in OrderIds, NEW r,
           r.amount_minor \in Int, r.customer_msisdn \in Msisdn \cup {None},
           r.callback_url \in BOOLEAN, NEW i \in InvoiceId \cup {None},
           InsertCharge(c, order, r, i), UNCHANGED <<ledger, deliveries>>
    PROVE  Lifecycle!Open(c)
<1>1. /\ status[c] = "absent" /\ status' = [status EXCEPT ![c] = "pending"]
      /\ r.amount_minor \in Nat \ {0}
  BY DEF InsertCharge, ValidAmount
<1>2. TypeOK /\ RowsExist
  BY DEF Shape
<1>3. AsksFor(c, r.amount_minor)' /\ \A d \in ChargeId : d # c => terms'[d] = terms[d]
  BY <1>2, InsertAddsOneRow
<1>4. terms'[c] # None /\ terms'[c].amount_minor = r.amount_minor
  BY <1>3 DEF AsksFor
<1>5. \A d \in ChargeId : d # c => terms'[d] = terms[d]
  BY <1>3
<1>6. status \in [ChargeId -> {"absent", "pending", "paid"}]
  BY DEF Shape, TypeOK
<1>7. \A d \in ChargeId : ShownState(d)' = IF d = c THEN "open" ELSE ShownState(d)
  BY <1>1, <1>6 DEF ShownState
<1>8. ShownState(c) = "absent"
  BY <1>1 DEF ShownState
<1> DEFINE Price(d) == IF terms[d] = None THEN None ELSE terms[d].amount_minor
<1>9. [d \in ChargeId |-> ShownState(d)]'
        = [[d \in ChargeId |-> ShownState(d)] EXCEPT ![c] = "open"]
  BY <1>7
<1>10. /\ [d \in ChargeId |-> Price(d)]'[c] \in Nat \ {0}
       /\ [d \in ChargeId |-> Price(d)]'
            = [[d \in ChargeId |-> Price(d)] EXCEPT ![c] = [d \in ChargeId |-> Price(d)]'[c]]
  BY <1>1, <1>4, <1>5
<1>11. UNCHANGED <<[d \in ChargeId |-> CollectedOf(d)], [d \in ChargeId |-> ToldOf(d)]>>
  BY DEF CollectedOf, ToldOf, PostingsOf
<1> QED
  BY <1>8, <1>9, <1>10, <1>11 DEF Lifecycle!Open, CollectedOf, ToldOf

\* A posting collects its event, which no posting has before.
LEMMA PostCollects ==
    ASSUME Shape, Books, NEW h \in Handler, Post(h),
           NEW c, c = target[h], NEW k, k = Key(txn[h])
    PROVE  Lifecycle!Collect(c, k)
<1> DEFINE row == [reference |-> c, amount_minor |-> terms[c].amount_minor, event |-> k]
<1>1. /\ txn[h] \in Txn /\ c \in ChargeId /\ terms[c] # None /\ status[c] # "absent"
      /\ terms[c] \in Terms /\ Settling(h) /\ InOrder(h) /\ pc[h] = "post"
  <2>1. Settling(h) /\ pc[h] = "post"
    BY DEF Post, Settling
  <2>2. InOrder(h)
    BY <2>1 DEF Books, SettlingInOrder
  <2>3. txn[h] \in Txn /\ c # None /\ [txn |-> txn[h], charge_id |-> c] \in sms_events
    BY <2>1 DEF Post, Shape, LocalsFit
  <2>4. c \in ChargeId /\ terms[c] # None
    BY <2>3 DEF Shape, EventsFit, AsksFor
  <2>5. terms[c] \in Terms
    BY <2>4 DEF Shape, TypeOK
  <2>6. status[c] # "absent"
    BY <2>4 DEF Shape, RowsExist
  <2> QED
    BY <2>1, <2>2, <2>3, <2>4, <2>5, <2>6
<1>2. row \in LedgerTxn /\ ledger' = Append(ledger, row)
  BY <1>1 DEF Post, LedgerTxn, Terms, Keys
<1>3. UNCHANGED <<status, terms, deliveries>>
  BY DEF Post
<1>4. \A d \in ChargeId : \A got \in CollectedOf(d) : got.transfer # k
  BY <1>1 DEF CollectedOf, PostingsOf, InOrder
<1>5. \A d \in ChargeId : PostingsOf(d)' = IF d = c THEN PostingsOf(d) \cup {Len(ledger) + 1}
                                           ELSE PostingsOf(d)
  BY <1>2, AppendPosting DEF Shape, PostingsOf
<1>6. \A d \in ChargeId : d # c => CollectedOf(d)' = CollectedOf(d)
  <2>1. \A d \in ChargeId : \A n \in PostingsOf(d) : ledger'[n] = ledger[n]
    BY <1>2, AppendPosting DEF Shape, PostingsOf
  <2>2. \A d \in ChargeId : d # c => PostingsOf(d)' = PostingsOf(d)
    BY <1>5
  <2> QED
    BY <2>1, <2>2 DEF CollectedOf
<1>7. CollectedOf(c)' = CollectedOf(c) \cup {[transfer |-> k, amount |-> terms[c].amount_minor]}
  BY <1>1, <1>2, <1>5, AppendPosting DEF Shape, CollectedOf, PostingsOf
<1>8. [d \in ChargeId |-> CollectedOf(d)]'
        = [[d \in ChargeId |-> CollectedOf(d)] EXCEPT ![c] =
              @ \cup {[transfer |-> k, amount |-> terms[c].amount_minor]}]
  BY <1>1, <1>6, <1>7
<1>9. UNCHANGED <<[d \in ChargeId |-> ShownState(d)],
                  [d \in ChargeId |-> IF terms[d] = None THEN None ELSE terms[d].amount_minor],
                  [d \in ChargeId |-> ToldOf(d)]>>
  BY <1>3 DEF ShownState, ToldOf
<1>10. ShownState(c) # "absent"
  <2>1. status[c] \in {"pending", "paid"}
    BY <1>1 DEF Shape, TypeOK
  <2> QED
    BY <2>1 DEF ShownState
<1>11. [d \in ChargeId |-> IF terms[d] = None THEN None ELSE terms[d].amount_minor][c]
          = terms[c].amount_minor
  BY <1>1
<1>12. [d \in ChargeId |-> CollectedOf(d)]'
         = [[d \in ChargeId |-> CollectedOf(d)] EXCEPT ![c] = @ \cup
              {[transfer |-> k, amount |->
                 [d \in ChargeId |-> IF terms[d] = None THEN None ELSE terms[d].amount_minor][c]]}]
  BY <1>8, <1>11
<1> QED
  BY <1>1, <1>4, <1>9, <1>10, <1>12 DEF Lifecycle!Collect, CollectedOf, ToldOf

\* A charge is closed once it has collected something; marking it again is invisible.
LEMMA MarkCloses ==
    ASSUME Shape, Books, NEW h \in Handler, MarkPaid(h), NEW c, c = target[h]
    PROVE  Lifecycle!Close(c) \/ UNCHANGED Lifecycle!abstract
<1>1. /\ c \in ChargeId /\ status[c] \in {"pending", "paid"} /\ PostedFor(c, Key(txn[h]))
      /\ status \in [ChargeId -> {"absent", "pending", "paid"}]
  <2>1. Settling(h) /\ pc[h] = "mark"
    BY DEF MarkPaid, Settling
  <2>2. c \in ChargeId /\ terms[c] # None /\ status \in [ChargeId -> {"absent", "pending", "paid"}]
    BY <2>1 DEF Shape, TypeOK, LocalsFit, EventsFit, AsksFor
  <2>3. status[c] # "absent"
    BY <2>2 DEF Shape, RowsExist
  <2>4. PostedFor(c, Key(txn[h]))
    BY <2>1 DEF Books, SettlingInOrder, InOrder
  <2> QED
    BY <2>2, <2>3, <2>4
<1>2. status' = [status EXCEPT ![c] = "paid"] /\ UNCHANGED <<terms, ledger, deliveries>>
  BY DEF MarkPaid
<1>3. CASE status[c] = "paid"
  <2>1. UNCHANGED status
    BY <1>1, <1>2, <1>3
  <2> QED
    BY <1>2, <2>1, Invisible
<1>4. CASE status[c] = "pending"
  <2>1. [d \in ChargeId |-> ShownState(d)]'
          = [[d \in ChargeId |-> ShownState(d)] EXCEPT ![c] = "paid"]
    BY <1>1, <1>2 DEF ShownState
  <2>2. ShownState(c) = "open"
    BY <1>4 DEF ShownState
  <2>3. CollectedOf(c) # {}
    <3>1. PICK n \in PostingsOf(c) : TRUE
      BY <1>1 DEF PostedFor
    <3>2. [transfer |-> ledger[n].event, amount |-> ledger[n].amount_minor] \in CollectedOf(c)
      BY <3>1 DEF CollectedOf
    <3> QED
      BY <3>2
  <2>4. UNCHANGED <<[d \in ChargeId |-> IF terms[d] = None THEN None ELSE terms[d].amount_minor],
                    [d \in ChargeId |-> CollectedOf(d)], [d \in ChargeId |-> ToldOf(d)]>>
    BY <1>2 DEF CollectedOf, ToldOf, PostingsOf
  <2> QED
    BY <1>1, <2>1, <2>2, <2>3, <2>4 DEF Lifecycle!Close, CollectedOf, ToldOf
<1> QED
  BY <1>1, <1>3, <1>4

\* The merchant is told of a transfer collected for a paid charge, for the first time.
LEMMA NotifyTells ==
    ASSUME Shape, Books, NEW h \in Handler, Notify(h),
           NEW c, c = target[h], NEW k, k = Key(txn[h])
    PROVE  Lifecycle!Tell(c, k)
<1> DEFINE row == [charge_id |-> c, event |-> k]
<1>1. /\ c \in ChargeId /\ status[c] = "paid" /\ PostedFor(c, k)
      /\ \A n \in DOMAIN deliveries : deliveries[n].event # k
  BY DEF Notify, Shape, Books, TypeOK, LocalsFit, Settling, EventsFit, AsksFor,
         SettlingInOrder, InOrder
<1>2. deliveries \in Seq(Delivery) /\ deliveries' = Append(deliveries, row)
  BY DEF Notify, Shape, TypeOK
<1>3. UNCHANGED <<status, terms, ledger>>
  BY DEF Notify
<1>4. /\ DOMAIN deliveries' = DOMAIN deliveries \cup {Len(deliveries) + 1}
      /\ Len(deliveries) + 1 \notin DOMAIN deliveries
      /\ deliveries'[Len(deliveries) + 1] = row
      /\ \A n \in DOMAIN deliveries : deliveries'[n] = deliveries[n]
  BY <1>2
<1>5. \A d \in ChargeId : d # c => ToldOf(d)' = ToldOf(d)
  BY <1>4 DEF ToldOf
<1>6. ToldOf(c)' = ToldOf(c) \cup {k}
  BY <1>4 DEF ToldOf
<1>7. [d \in ChargeId |-> ToldOf(d)]' = [[d \in ChargeId |-> ToldOf(d)] EXCEPT ![c] = @ \cup {k}]
  BY <1>1, <1>5, <1>6
<1>8. k \notin ToldOf(c)
  BY <1>1 DEF ToldOf
<1>9. \E got \in CollectedOf(c) : got.transfer = k
  <2>1. PICK n \in PostingsOf(c) : ledger[n].event = k
    BY <1>1 DEF PostedFor
  <2>2. [transfer |-> ledger[n].event, amount |-> ledger[n].amount_minor] \in CollectedOf(c)
    BY <2>1 DEF CollectedOf
  <2> QED
    BY <2>1, <2>2
<1>10. UNCHANGED <<[d \in ChargeId |-> ShownState(d)],
                   [d \in ChargeId |-> IF terms[d] = None THEN None ELSE terms[d].amount_minor],
                   [d \in ChargeId |-> CollectedOf(d)]>>
  BY <1>3 DEF ShownState, CollectedOf, PostingsOf
<1>11. ShownState(c) = "paid"
  BY <1>1 DEF ShownState
<1> QED
  BY <1>1, <1>7, <1>8, <1>9, <1>10, <1>11 DEF Lifecycle!Tell, CollectedOf, ToldOf

LEMMA StepFollowsLifecycle ==
    Shape /\ Books /\ [Next]_vars => [Lifecycle!LifecycleNext]_(Lifecycle!abstract)
<1> SUFFICES ASSUME Shape, Books, [Next]_vars
             PROVE  Lifecycle!LifecycleNext \/ UNCHANGED Lifecycle!abstract
  OBVIOUS
<1>1. ASSUME NEW c \in ChargeId, NEW r \in ChargeReq, create(c, r) \/ create_checkout(c, r)
      PROVE  Lifecycle!LifecycleNext
  <2>1. PICK order \in OrderIds : InsertCharge(c, order, r, None)
    BY <1>1 DEF create, create_checkout, OrderIds
  <2>2. UNCHANGED <<ledger, deliveries>>
    BY <1>1 DEF create, create_checkout
  <2>3. Lifecycle!Open(c)
    BY <2>1, <2>2, InsertOpens, RequestAssumption
  <2> QED
    BY <2>3 DEF Lifecycle!LifecycleNext
<1>2. ASSUME NEW h \in Handler, NEW i \in InvoiceId, NEW c \in ChargeId, IssueCheckout(h, i, c)
      PROVE  Lifecycle!LifecycleNext
  <2>1. /\ InvoiceReq(i).amount_minor \in Int
        /\ InvoiceReq(i).customer_msisdn \in Msisdn \cup {None}
        /\ InvoiceReq(i).callback_url \in BOOLEAN
    BY InvoiceAssumption DEF InvoiceReq
  <2>2. c \in OrderIds /\ i \in InvoiceId \cup {None} /\ InsertCharge(c, c, InvoiceReq(i), i)
        /\ UNCHANGED <<ledger, deliveries>>
    BY <1>2 DEF IssueCheckout, OrderIds
  <2>3. Lifecycle!Open(c)
    BY <2>1, <2>2, InsertOpens
  <2> QED
    BY <2>3 DEF Lifecycle!LifecycleNext
<1>3. ASSUME NEW h \in Handler, Post(h) \/ MarkPaid(h) \/ Notify(h)
      PROVE  Lifecycle!LifecycleNext \/ UNCHANGED Lifecycle!abstract
  <2>1. target[h] \in ChargeId /\ Key(txn[h]) \in Keys
    BY <1>3 DEF Post, MarkPaid, Notify, Shape, TypeOK, LocalsFit, Settling, Keys
  <2>2. CASE Post(h)
    BY <2>1, <2>2, PostCollects DEF Lifecycle!LifecycleNext
  <2>3. CASE MarkPaid(h)
    BY <2>1, <2>3, MarkCloses DEF Lifecycle!LifecycleNext
  <2>4. CASE Notify(h)
    BY <2>1, <2>4, NotifyTells DEF Lifecycle!LifecycleNext
  <2> QED
    BY <1>3, <2>2, <2>3, <2>4
<1>4. ASSUME NEW h \in Handler, HandlerStep(h)
      PROVE  Lifecycle!LifecycleNext \/ UNCHANGED Lifecycle!abstract
  <2>1. CASE ~(Post(h) \/ MarkPaid(h) \/ Notify(h))
    BY <1>4, <2>1, Invisible DEF HandlerStep, Match, RejectDuplicate, RecordUnmatched,
       RecordMatched, InsertEvent, SettleInvoices, IssueLink, db
  <2> QED
    BY <1>3, <2>1
<1>5. ASSUME NEW h \in Handler, NEW s \in Sms, Receive(h, s)
      PROVE  UNCHANGED Lifecycle!abstract
  BY <1>5, Invisible DEF Receive, db
<1>6. CASE Crash \/ UNCHANGED vars \/ \E h \in Handler : Abandon(h)
  BY <1>6, Invisible DEF Crash, Abandon, db, vars
<1> QED
  BY <1>1, <1>2, <1>4, <1>5, <1>6 DEF Next, Serve

\* Through races, repetitions, faults and restarts the tables never do what the
\* abstract lifecycle of a payment does not allow: no transfer is collected twice or for
\* another price, no charge closes without one, no merchant is told of anything else
\* (sms.rs:36-90, charge.rs:111-156).
THEOREM SettlementFollowsLifecycle == Spec => FollowsLifecycle
<1>1. Spec => [](Shape /\ Books)
  BY SpecIsConsistent, PTL
<1>2. Spec => Lifecycle!LifecycleInit
  BY LifecycleStarts DEF Spec
<1> QED
  BY <1>1, <1>2, StepFollowsLifecycle, PTL DEF Spec, FollowsLifecycle, Lifecycle!LifecycleSpec
=============================================================================
