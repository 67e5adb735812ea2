---------------------------- MODULE SystemProofs ----------------------------
(***************************************************************************)
(* Theorems about what is built around Settlement: the report and the      *)
(* balance that are read from its tables, the scan that runs beside it and *)
(* the worker that tells merchants.                                        *)
(***************************************************************************)
EXTENDS PaySystem, Reconciliation, FraudScan, SettlementProofs, FoldTheorems
-----------------------------------------------------------------------------
(* The sums of the model, as sums of functions.                             *)

LEMMA SumOfEvents ==
    ASSUME NEW S, IsFiniteSet(S), \A e \in S : e.txn.amount_minor \in Int
    PROVE  MapThenSumSet(LAMBDA e : e.txn.amount_minor, S)
             = SumOver([e \in S |-> e.txn.amount_minor], S)
<1> DEFINE f == [e \in S |-> e.txn.amount_minor]
           First(s) == CHOOSE x \in s : TRUE
           Adds(g) == [s \in SUBSET S |->
                         IF s = {} THEN 0
                         ELSE First(s).txn.amount_minor + g[s \ {First(s)}]]
           total == CHOOSE g : g = Adds(g)
<1>1. MapThenSumSet(LAMBDA e : e.txn.amount_minor, S) = total[S]
  BY DEF MapThenSumSet, MapThenFoldSet
<1>2. \A s \in SUBSET S : s # {} => f[First(s)] = First(s).txn.amount_minor
  OBVIOUS
<1>3. \A x \in S : f[x] \in Int
  OBVIOUS
<1>4. \A g : g = Adds(g) <=> Folding(g, f, S)
  <2> HIDE DEF f
  <2> QED
    BY <1>2 DEF Folding
<1>5. Folding(total, f, S)
  <2>1. \E g : g = Adds(g)
    <3> HIDE DEF f, Adds
    <3> QED
      BY <1>3, <1>4, SumOverIsFold
  <2> HIDE DEF Adds
  <2> QED
    BY <1>4, <2>1
<1>6. total[S] = SumOver(f, S)
  <2> HIDE DEF f, total
  <2> QED
    BY <1>3, <1>5, FoldIsSumOver
<1> QED
  BY <1>1, <1>6

LEMMA SumOfPostings ==
    ASSUME NEW S, IsFiniteSet(S), \A n \in S : ledger[n].amount_minor \in Int
    PROVE  MapThenSumSet(LAMBDA n : Entry("merchant:receivable", ledger[n].amount_minor), S)
             = SumOver([n \in S |-> ledger[n].amount_minor], S)
<1> DEFINE f == [n \in S |-> ledger[n].amount_minor]
           First(s) == CHOOSE x \in s : TRUE
           Adds(g) == [s \in SUBSET S |->
                         IF s = {} THEN 0
                         ELSE ledger[First(s)].amount_minor + g[s \ {First(s)}]]
           total == CHOOSE g : g = Adds(g)
<1>1. MapThenSumSet(LAMBDA n : Entry("merchant:receivable", ledger[n].amount_minor), S) = total[S]
  BY DEF MapThenSumSet, MapThenFoldSet, Entry
<1>2. \A s \in SUBSET S : s # {} => f[First(s)] = ledger[First(s)].amount_minor
  OBVIOUS
<1>3. \A x \in S : f[x] \in Int
  OBVIOUS
<1>4. \A g : g = Adds(g) <=> Folding(g, f, S)
  <2> HIDE DEF f
  <2> QED
    BY <1>2 DEF Folding
<1>5. Folding(total, f, S)
  <2>1. \E g : g = Adds(g)
    <3> HIDE DEF f, Adds
    <3> QED
      BY <1>3, <1>4, SumOverIsFold
  <2> HIDE DEF Adds
  <2> QED
    BY <1>4, <2>1
<1>6. total[S] = SumOver(f, S)
  <2> HIDE DEF f, total
  <2> QED
    BY <1>3, <1>5, FoldIsSumOver
<1> QED
  BY <1>1, <1>6

LEMMA SumOfUnderway ==
    ASSUME NEW S, IsFiniteSet(S), \A h \in S : terms[target[h]].amount_minor \in Int
    PROVE  MapThenSumSet(LAMBDA h : terms[target[h]].amount_minor, S)
             = SumOver([h \in S |-> terms[target[h]].amount_minor], S)
<1> DEFINE f == [h \in S |-> terms[target[h]].amount_minor]
           First(s) == CHOOSE x \in s : TRUE
           Adds(g) == [s \in SUBSET S |->
                         IF s = {} THEN 0
                         ELSE terms[target[First(s)]].amount_minor + g[s \ {First(s)}]]
           total == CHOOSE g : g = Adds(g)
<1>1. MapThenSumSet(LAMBDA h : terms[target[h]].amount_minor, S) = total[S]
  BY DEF MapThenSumSet, MapThenFoldSet
<1>2. \A s \in SUBSET S : s # {} => f[First(s)] = terms[target[First(s)]].amount_minor
  OBVIOUS
<1>3. \A x \in S : f[x] \in Int
  OBVIOUS
<1>4. \A g : g = Adds(g) <=> Folding(g, f, S)
  <2> HIDE DEF f
  <2> QED
    BY <1>2 DEF Folding
<1>5. Folding(total, f, S)
  <2>1. \E g : g = Adds(g)
    <3> HIDE DEF f, Adds
    <3> QED
      BY <1>3, <1>4, SumOverIsFold
  <2> HIDE DEF Adds
  <2> QED
    BY <1>4, <2>1
<1>6. total[S] = SumOver(f, S)
  <2> HIDE DEF f, total
  <2> QED
    BY <1>3, <1>5, FoldIsSumOver
<1> QED
  BY <1>1, <1>6
-----------------------------------------------------------------------------
(* The report and the ledger.                                               *)

\* What was received for charges, what was posted, and what is about to be.
Posters == {h \in Handler : pc[h] = "post"}

Received == SumOver([e \in Matched |-> e.txn.amount_minor], Matched)
Posted == SumOver([n \in DOMAIN ledger |-> ledger[n].amount_minor], DOMAIN ledger)
Due == SumOver([h \in Posters |-> terms[target[h]].amount_minor], Posters)

LEMMA AmountsAreNumbers ==
    ASSUME Shape, IsFiniteSet(sms_events)
    PROVE  /\ IsFiniteSet(Matched) /\ \A e \in Matched : e.txn.amount_minor \in Nat
           /\ IsFiniteSet(DOMAIN ledger) /\ \A n \in DOMAIN ledger : ledger[n].amount_minor \in Nat
           /\ IsFiniteSet(Posters)
           /\ \A h \in Posters : /\ target[h] \in ChargeId /\ terms[target[h]] # None
                                 /\ terms[target[h]].amount_minor \in Nat
           /\ Received \in Nat /\ Posted \in Nat /\ Due \in Nat
<1>1. IsFiniteSet(Matched) /\ \A e \in Matched : e.txn.amount_minor \in Nat
  <2>1. IsFiniteSet(Matched)
    BY FS_Subset DEF Matched
  <2>2. \A e \in Matched : e.txn \in Txn
    BY DEF Matched, Shape, TypeOK
  <2> QED
    BY <2>1, <2>2, TxnAssumption
<1>2. IsFiniteSet(DOMAIN ledger) /\ \A n \in DOMAIN ledger : ledger[n].amount_minor \in Nat
  <2>1. /\ DOMAIN ledger = 1..Len(ledger) /\ Len(ledger) \in Nat
        /\ \A n \in DOMAIN ledger : ledger[n] \in LedgerTxn
    BY RowTypes DEF Shape
  <2>2. \A n \in Nat : IsFiniteSet(1..n)
    BY Intervals
  <2> QED
    BY <2>1, <2>2 DEF LedgerTxn
<1>3. IsFiniteSet(Posters)
  BY HandlerAssumption, FS_Subset DEF Posters
<1>4. ASSUME NEW h \in Posters
      PROVE  /\ target[h] \in ChargeId /\ terms[target[h]] # None
             /\ terms[target[h]].amount_minor \in Nat
  <2>1. /\ target[h] # None /\ [txn |-> txn[h], charge_id |-> target[h]] \in sms_events
        /\ txn[h] \in Txn
    BY DEF Posters, Shape, LocalsFit, Settling
  <2>2. AsksFor(target[h], txn[h].amount_minor)
    BY <2>1 DEF Shape, EventsFit
  <2> QED
    BY <2>1, <2>2, TxnAssumption DEF AsksFor
<1>5. Received \in Nat
  <2> DEFINE f == [e \in Matched |-> e.txn.amount_minor]
  <2>1. \A e \in Matched : f[e] \in Nat
    BY <1>1
  <2> HIDE DEF f
  <2>2. SumOver(f, Matched) \in Nat
    BY <1>1, <2>1, SumOverIsNat
  <2> QED
    BY <2>2 DEF Received, f
<1>6. Posted \in Nat
  <2> DEFINE f == [n \in DOMAIN ledger |-> ledger[n].amount_minor]
  <2>1. \A n \in DOMAIN ledger : f[n] \in Nat
    BY <1>2
  <2> HIDE DEF f
  <2>2. SumOver(f, DOMAIN ledger) \in Nat
    BY <1>2, <2>1, SumOverIsNat
  <2> QED
    BY <2>2 DEF Posted, f
<1>7. Due \in Nat
  <2> DEFINE f == [h \in Posters |-> terms[target[h]].amount_minor]
  <2>1. \A h \in Posters : f[h] \in Nat
    BY <1>4
  <2> HIDE DEF f
  <2>2. SumOver(f, Posters) \in Nat
    BY <1>3, <2>1, SumOverIsNat
  <2> QED
    BY <2>2 DEF Due, f
<1> QED
  BY <1>1, <1>2, <1>3, <1>4, <1>5, <1>6, <1>7

\* Who is about to post.
SamePosters ==
    /\ \A h \in Handler : pc'[h] = "post" <=> pc[h] = "post"
    /\ \A h \in Handler : pc[h] = "post" => target'[h] = target[h]

LEMMA DueStays ==
    ASSUME Shape, IsFiniteSet(sms_events), Persistent, SamePosters
    PROVE  Due' = Due
<1> DEFINE f == [h \in Posters |-> terms[target[h]].amount_minor]
           k == [h \in Posters |-> terms'[target'[h]].amount_minor]
<1>1. Posters' = Posters
  BY DEF Posters, SamePosters
<1>2. \A h \in Posters : f[h] \in Int /\ f[h] = k[h]
  BY AmountsAreNumbers DEF Posters, SamePosters, Persistent
<1>3. SumOver(f, Posters) = SumOver(k, Posters)
  <2> HIDE DEF f, k
  <2> QED
    BY <1>2, AmountsAreNumbers, SumOverSame
<1>4. Due' = SumOver(k, Posters)
  BY <1>1 DEF Due
<1> QED
  BY <1>3, <1>4 DEF Due

\* Somebody stops posting, or starts to.
LEMMA DueShrinks ==
    ASSUME Shape, IsFiniteSet(sms_events), NEW h \in Handler, pc[h] = "post",
           UNCHANGED terms, pc'[h] # "post",
           \A g \in Handler \ {h} : pc'[g] = pc[g] /\ target'[g] = target[g]
    PROVE  Due = terms[target[h]].amount_minor + Due' /\ Due' \in Int
<1> DEFINE f == [g \in Posters |-> terms[target[g]].amount_minor]
           k == [g \in Posters' |-> terms'[target'[g]].amount_minor]
<1>1. /\ Posters = Posters' \cup {h} /\ h \notin Posters' /\ h \in Posters
  BY DEF Posters
<1>2. /\ \A g \in Posters' : k[g] \in Int /\ f[g] = k[g]
      /\ f[h] \in Int /\ f[h] = terms[target[h]].amount_minor
  BY <1>1, AmountsAreNumbers DEF Posters
<1>3. IsFiniteSet(Posters')
  BY <1>1, AmountsAreNumbers, FS_Subset
<1>4. Grows(k, Posters', f, Posters, h)
  <2> HIDE DEF f, k
  <2> QED
    BY <1>1, <1>2, <1>3, SumOverOneMore
<1>5. Due' = SumOver(k, Posters')
  BY DEF Due
<1>6. SumOver(k, Posters') \in Int
  <2> HIDE DEF k
  <2> QED
    BY <1>2, <1>3, SumOverIsSum
<1> QED
  BY <1>2, <1>4, <1>5, <1>6 DEF Due, Grows

LEMMA DueGrows ==
    ASSUME Shape, IsFiniteSet(sms_events), NEW h \in Handler, pc[h] # "post",
           UNCHANGED <<terms, target>>, pc'[h] = "post", terms[target[h]].amount_minor \in Nat,
           \A g \in Handler \ {h} : pc'[g] = pc[g]
    PROVE  Due' = terms[target[h]].amount_minor + Due
<1> DEFINE f == [g \in Posters |-> terms[target[g]].amount_minor]
           k == [g \in Posters' |-> terms'[target'[g]].amount_minor]
<1>1. /\ Posters' = Posters \cup {h} /\ h \notin Posters
  BY DEF Posters
<1>2. /\ \A g \in Posters : f[g] \in Int /\ k[g] = f[g]
      /\ k[h] \in Int /\ k[h] = terms[target[h]].amount_minor
  BY <1>1, AmountsAreNumbers
<1>3. IsFiniteSet(Posters)
  BY AmountsAreNumbers
<1>4. Grows(f, Posters, k, Posters', h)
  <2> HIDE DEF f, k
  <2> QED
    BY <1>1, <1>2, <1>3, SumOverOneMore
<1>5. Due' = SumOver(k, Posters')
  BY DEF Due
<1> QED
  BY <1>2, <1>4, <1>5 DEF Due, Grows

\* A matched event is recorded.
LEMMA ReceivedGrows ==
    ASSUME Shape, IsFiniteSet(sms_events), NEW e, e \notin sms_events, e.charge_id # None,
           e.txn.amount_minor \in Nat, sms_events' = sms_events \cup {e}
    PROVE  Received' = e.txn.amount_minor + Received
<1> DEFINE f == [d \in Matched |-> d.txn.amount_minor]
           k == [d \in Matched' |-> d.txn.amount_minor]
<1>1. Matched' = Matched \cup {e} /\ e \notin Matched
  BY DEF Matched
<1>2. /\ \A d \in Matched : f[d] \in Int /\ k[d] = f[d]
      /\ k[e] \in Int /\ k[e] = e.txn.amount_minor
  BY <1>1, AmountsAreNumbers
<1>3. IsFiniteSet(Matched)
  BY AmountsAreNumbers
<1>4. Grows(f, Matched, k, Matched', e)
  <2> HIDE DEF f, k
  <2> QED
    BY <1>1, <1>2, <1>3, SumOverOneMore
<1>5. Received' = SumOver(k, Matched')
  BY DEF Received
<1> QED
  BY <1>2, <1>4, <1>5 DEF Received, Grows

\* A row is appended to the ledger.
LEMMA PostedGrows ==
    ASSUME Shape, IsFiniteSet(sms_events), NEW row \in LedgerTxn, ledger' = Append(ledger, row)
    PROVE  Posted' = row.amount_minor + Posted
<1> DEFINE f == [n \in DOMAIN ledger |-> ledger[n].amount_minor]
           k == [n \in DOMAIN ledger' |-> ledger'[n].amount_minor]
           last == Len(ledger) + 1
<1>1. /\ DOMAIN ledger' = DOMAIN ledger \cup {last} /\ last \notin DOMAIN ledger
      /\ ledger'[last] = row /\ \A n \in DOMAIN ledger : ledger'[n] = ledger[n]
  BY AppendPosting DEF Shape
<1>2. /\ \A n \in DOMAIN ledger : f[n] \in Int /\ k[n] = f[n]
      /\ k[last] \in Int /\ k[last] = row.amount_minor
  BY <1>1, AmountsAreNumbers DEF LedgerTxn
<1>3. IsFiniteSet(DOMAIN ledger)
  BY AmountsAreNumbers
<1>4. Grows(f, DOMAIN ledger, k, DOMAIN ledger', last)
  <2> HIDE DEF f, k, last
  <2> QED
    BY <1>1, <1>2, <1>3, SumOverOneMore
<1>5. Posted' = SumOver(k, DOMAIN ledger')
  BY DEF Posted
<1> QED
  BY <1>2, <1>4, <1>5 DEF Posted, Grows

\* What was received is posted or about to be, unless something failed in between.
BooksBalance ==
    /\ IsFiniteSet(sms_events)
    /\ Received >= Posted + Due
    /\ faults = 0 => Received = Posted + Due

LEMMA BalanceInit == Init => BooksBalance
<1> SUFFICES ASSUME Init PROVE BooksBalance
  OBVIOUS
<1>1. Matched = {} /\ DOMAIN ledger = {} /\ Posters = {} /\ sms_events = {}
  BY DEF Init, Matched, Posters
<1>2. Received = 0 /\ Posted = 0 /\ Due = 0
  BY <1>1, SumOverNothing DEF Received, Posted, Due
<1> QED
  BY <1>1, <1>2, FS_EmptySet DEF BooksBalance

\* Steps that neither record, post nor fail.
LEMMA BalanceStays ==
    ASSUME Shape, BooksBalance, Persistent, SamePosters, UNCHANGED <<sms_events, ledger, faults>>
    PROVE  BooksBalance'
<1>1. Due' = Due
  BY DueStays DEF BooksBalance
<1>2. Received' = Received /\ Posted' = Posted
  BY DEF Received, Matched, Posted
<1> QED
  BY <1>1, <1>2 DEF BooksBalance

LEMMA RecordBalances ==
    ASSUME Shape, BooksBalance, NEW h \in Handler, RecordMatched(h)
    PROVE  BooksBalance'
<1> DEFINE e == [txn |-> txn[h], charge_id |-> target[h]]
           amount == terms[target[h]].amount_minor
<1>1. /\ txn[h] \in Txn /\ target[h] # None /\ AsksFor(target[h], txn[h].amount_minor)
  BY DEF RecordMatched, InsertEvent, Shape, LocalsFit
<1>2. amount \in Nat /\ amount = txn[h].amount_minor
  BY <1>1, TxnAssumption DEF AsksFor
<1>3. e \notin sms_events /\ sms_events' = sms_events \cup {e}
  BY DEF RecordMatched, InsertEvent, IsRecorded
<1>4. /\ e.charge_id # None /\ e.txn.amount_minor = amount
  BY <1>1, <1>2
<1>5. IsFiniteSet(sms_events) /\ IsFiniteSet(sms_events')
  BY <1>3, FS_AddElement DEF BooksBalance
<1>6. Received' = amount + Received
  <2> HIDE DEF e
  <2> QED
    BY <1>2, <1>3, <1>4, <1>5, ReceivedGrows
<1>7. Due' = amount + Due
  <2>1. /\ pc[h] # "post" /\ pc'[h] = "post" /\ UNCHANGED <<terms, target>>
        /\ \A g \in Handler \ {h} : pc'[g] = pc[g]
    BY DEF RecordMatched, InsertEvent, Proceed, Shape, TypeOK
  <2> QED
    BY <1>2, <1>5, <2>1, DueGrows
<1>8. Posted' = Posted
  BY DEF RecordMatched, InsertEvent, Posted
<1>9. UNCHANGED faults
  BY DEF RecordMatched, InsertEvent
<1>10. Received \in Nat /\ Posted \in Nat /\ Due \in Nat
  BY <1>5, AmountsAreNumbers
<1>11. SUFFICES /\ amount + Received >= Posted + (amount + Due)
                /\ faults = 0 => amount + Received = Posted + (amount + Due)
  BY <1>5, <1>6, <1>7, <1>8, <1>9 DEF BooksBalance
<1> HIDE DEF amount
<1> QED
  BY <1>2, <1>10 DEF BooksBalance

\* The arithmetic of a posting: what becomes posted stops being due.
LEMMA Regrouped ==
    ASSUME NEW a \in Int, NEW p \in Int, NEW d \in Int
    PROVE  (a + p) + d = p + (a + d)
OBVIOUS

LEMMA PostBalances ==
    ASSUME Shape, BooksBalance, NEW h \in Handler, Post(h)
    PROVE  BooksBalance'
<1> DEFINE amount == terms[target[h]].amount_minor
           row == [reference |-> target[h], amount_minor |-> amount, event |-> Key(txn[h])]
<1>1. /\ pc[h] = "post" /\ ledger' = Append(ledger, row)
      /\ UNCHANGED <<status, terms, sms_events, faults, target>>
      /\ pc' = [pc EXCEPT ![h] = "mark"]
  BY DEF Post, Proceed
<1>2. IsFiniteSet(sms_events) /\ h \in Posters
  BY <1>1 DEF BooksBalance, Posters
<1>3. /\ amount \in Nat /\ target[h] \in ChargeId /\ terms[target[h]] \in Terms
      /\ txn[h] \in Txn
  BY <1>1, <1>2, AmountsAreNumbers DEF Shape, TypeOK, LocalsFit
<1>4. row \in LedgerTxn
  BY <1>3 DEF Terms, LedgerTxn, Keys
<1>5. Posted' = row.amount_minor + Posted /\ row.amount_minor = amount
  BY <1>1, <1>2, <1>4, PostedGrows
<1>6. Due = amount + Due' /\ Due' \in Int
  <2>1. pc'[h] # "post" /\ \A g \in Handler \ {h} : pc'[g] = pc[g] /\ target'[g] = target[g]
    BY <1>1 DEF Shape, TypeOK
  <2> QED
    BY <1>1, <1>2, <2>1, DueShrinks
<1>7. Received' = Received
  BY <1>1 DEF Received, Matched
<1>8. Received \in Nat /\ Posted \in Nat /\ Due \in Nat
  BY <1>2, AmountsAreNumbers
<1>9. SUFFICES /\ Received >= Posted' + Due'
               /\ faults = 0 => Received = Posted' + Due'
  BY <1>1, <1>2, <1>7 DEF BooksBalance
<1> HIDE DEF amount, row
<1>11. Posted' = amount + Posted /\ Posted' \in Int /\ Due' \in Int /\ amount \in Int
  BY <1>3, <1>5, <1>6, <1>8
<1>12. Posted' + Due' = Posted + Due
  <2>1. (amount + Posted) + Due' = Posted + (amount + Due')
    BY <1>6, <1>8, <1>11, Regrouped
  <2> QED
    BY <1>6, <1>11, <2>1
<1> QED
  BY <1>12 DEF BooksBalance

LEMMA FaultsBalance ==
    ASSUME Shape, BooksBalance, Next,
           Crash \/ \E h \in Handler : Abandon(h)
    PROVE  BooksBalance'
<1>1. /\ faults' = faults + 1 /\ faults \in Nat
      /\ UNCHANGED <<status, terms, sms_events, ledger>>
  BY DEF Crash, Abandon, db, Shape, TypeOK
<1>2. IsFiniteSet(sms_events) /\ Received >= Posted + Due
  BY DEF BooksBalance
<1>3. Received \in Nat /\ Posted \in Nat /\ Due \in Nat
  BY <1>2, AmountsAreNumbers
<1>4. Received' = Received /\ Posted' = Posted
  BY <1>1 DEF Received, Matched, Posted
<1>5. Due' \in Int /\ Due' <= Due
  <2>1. CASE Crash
    <3>1. Posters' = {}
      BY <2>1 DEF Crash, Posters
    <3>2. Due' = 0
      BY <3>1, SumOverNothing DEF Due
    <3> QED
      BY <1>3, <3>2
  <2>2. ASSUME NEW h \in Handler, Abandon(h), pc[h] = "post"
        PROVE  Due' \in Int /\ Due' <= Due
    <3>1. pc'[h] # "post" /\ \A g \in Handler \ {h} : pc'[g] = pc[g] /\ target'[g] = target[g]
      BY <2>2 DEF Abandon, Leave, Shape, TypeOK
    <3>2. Due = terms[target[h]].amount_minor + Due' /\ Due' \in Int
      BY <1>1, <1>2, <2>2, <3>1, DueShrinks
    <3>3. terms[target[h]].amount_minor \in Nat
      BY <1>2, <2>2, AmountsAreNumbers DEF Posters
    <3> QED
      BY <1>3, <3>2, <3>3
  <2>3. ASSUME NEW h \in Handler, Abandon(h), pc[h] # "post"
        PROVE  Due' \in Int /\ Due' <= Due
    <3>1. SamePosters
      BY <2>3 DEF Abandon, Leave, Shape, TypeOK, SamePosters
    <3>2. Persistent
      BY RowsPersist
    <3>3. Due' = Due
      BY <1>2, <3>1, <3>2, DueStays
    <3> QED
      BY <1>3, <3>3
  <2> QED
    BY <2>1, <2>2, <2>3
<1>6. Received >= Posted + Due'
  <2>1. \A r, p, d \in Nat, e \in Int : r >= p + d /\ e <= d => r >= p + e
    OBVIOUS
  <2> QED
    BY <1>2, <1>3, <1>5, <2>1
<1>7. faults' # 0
  BY <1>1
<1> QED
  BY <1>1, <1>2, <1>4, <1>6, <1>7 DEF BooksBalance

LEMMA BalanceStep == Shape /\ BooksBalance /\ [Next]_vars => BooksBalance'
<1> SUFFICES ASSUME Shape, BooksBalance, [Next]_vars PROVE BooksBalance'
  OBVIOUS
<1>1. Persistent
  BY RowsPersist
<1>2. ASSUME SamePosters, UNCHANGED <<sms_events, ledger, faults>> PROVE BooksBalance'
  BY <1>1, <1>2, BalanceStays
<1>3. CASE UNCHANGED vars
  BY <1>2, <1>3 DEF vars, db, locals, SamePosters
<1>4. ASSUME NEW c \in ChargeId, NEW r \in ChargeReq, create(c, r) \/ create_checkout(c, r)
      PROVE  BooksBalance'
  BY <1>2, <1>4 DEF create, create_checkout, locals, SamePosters
<1>5. ASSUME NEW h \in Handler, NEW i \in InvoiceId, NEW c \in ChargeId, IssueCheckout(h, i, c)
      PROVE  BooksBalance'
  <2>1. SamePosters
    BY <1>5 DEF IssueCheckout, SamePosters, Shape, TypeOK
  <2>2. UNCHANGED <<sms_events, ledger, faults>>
    BY <1>5 DEF IssueCheckout
  <2> QED
    BY <1>2, <2>1, <2>2
<1>6. ASSUME NEW h \in Handler, NEW s \in Sms, Receive(h, s)
      PROVE  BooksBalance'
  BY <1>2, <1>6 DEF Receive, db, SamePosters, Shape, TypeOK
<1>7. ASSUME NEW h \in Handler, RecordUnmatched(h)
      PROVE  BooksBalance'
  <2>1. /\ SamePosters /\ UNCHANGED <<terms, ledger, faults>>
        /\ sms_events' = sms_events \cup {[txn |-> txn[h], charge_id |-> target[h]]}
        /\ target[h] = None
    BY <1>7 DEF RecordUnmatched, InsertEvent, Leave, SamePosters, Shape, TypeOK
  <2>2. IsFiniteSet(sms_events) /\ IsFiniteSet(sms_events')
    BY <2>1, FS_AddElement DEF BooksBalance
  <2>3. Matched' = Matched
    BY <2>1 DEF Matched
  <2>4. Received' = Received /\ Posted' = Posted
    BY <2>1, <2>3 DEF Received, Posted
  <2>5. Due' = Due
    BY <1>1, <2>1, <2>2, DueStays
  <2> QED
    BY <2>1, <2>2, <2>4, <2>5 DEF BooksBalance
<1>8. ASSUME NEW h \in Handler,
             Match(h) \/ RejectDuplicate(h) \/ MarkPaid(h) \/ SettleInvoices(h) \/ Notify(h)
               \/ IssueLink(h)
      PROVE  BooksBalance'
  <2>1. SamePosters
    BY <1>8 DEF Match, RejectDuplicate, MarkPaid, SettleInvoices, Notify, IssueLink, Leave, Proceed,
          SamePosters, Shape, TypeOK
  <2>2. UNCHANGED <<sms_events, ledger, faults>>
    BY <1>8 DEF Match, RejectDuplicate, MarkPaid, SettleInvoices, Notify, IssueLink, db
  <2> QED
    BY <1>2, <2>1, <2>2
<1>9. CASE Next /\ (Crash \/ \E h \in Handler : Abandon(h))
  BY <1>9, FaultsBalance
<1> QED
  BY <1>3, <1>4, <1>5, <1>6, <1>7, <1>8, <1>9, RecordBalances, PostBalances
     DEF Next, Serve, HandlerStep

\* The report, the balance and what is under way, as sums of functions.
LEMMA ReportsAreSums ==
    ASSUME Shape, IsFiniteSet(sms_events)
    PROVE  /\ reconcile(None).total_settled_minor = Received
           /\ account_balance("merchant:receivable") = Posted
           /\ Underway = Due
<1>1. reconcile(None).total_settled_minor = MapThenSumSet(LAMBDA e : e.txn.amount_minor, Matched)
  <2>1. {e \in sms_events : e.charge_id # None /\ None \in {None, e.txn.gateway}} = Matched
    BY DEF Matched
  <2> QED
    BY <2>1 DEF reconcile
<1>2. MapThenSumSet(LAMBDA e : e.txn.amount_minor, Matched) = Received
  BY SumOfEvents, AmountsAreNumbers DEF Received
<1>3. account_balance("merchant:receivable") = Posted
  <2>1. IsFiniteSet(DOMAIN ledger) /\ \A n \in DOMAIN ledger : ledger[n].amount_minor \in Int
    BY AmountsAreNumbers
  <2>2. MapThenSumSet(LAMBDA n : Entry("merchant:receivable", ledger[n].amount_minor), DOMAIN ledger)
          = Posted
    BY <2>1, SumOfPostings DEF Posted
  <2> QED
    BY <2>2 DEF account_balance
<1>4. Underway = Due
  <2>1. IsFiniteSet(Posters) /\ \A h \in Posters : terms[target[h]].amount_minor \in Int
    BY AmountsAreNumbers
  <2>2. MapThenSumSet(LAMBDA h : terms[target[h]].amount_minor, Posters) = Due
    BY <2>1, SumOfUnderway DEF Due
  <2> QED
    BY <2>2 DEF Underway, Posters
<1> QED
  BY <1>1, <1>2, <1>3, <1>4

\* The report never shows less than the ledger and what is being posted, and without a
\* fault exactly that, for any number of charges, transfers and tasks (reconcile.rs:19,
\* ledger.rs, charge.rs:114).
THEOREM BooksAlwaysReconcile == Spec => []BooksReconcile
<1>1. Shape /\ BooksBalance => BooksReconcile
  <2> SUFFICES ASSUME Shape, BooksBalance PROVE BooksReconcile
    OBVIOUS
  <2>1. /\ Received \in Nat /\ Posted \in Nat /\ Due \in Nat
        /\ Received >= Posted + Due /\ (faults = 0 => Received = Posted + Due)
    BY AmountsAreNumbers DEF BooksBalance
  <2>2. /\ reconcile(None).total_settled_minor = Received
        /\ account_balance("merchant:receivable") = Posted /\ Underway = Due
    BY ReportsAreSums DEF BooksBalance
  <2>3. Received - Posted >= Due /\ (faults = 0 => Received - Posted = Due)
    BY <2>1
  <2> QED
    BY <2>2, <2>3 DEF BooksReconcile
<1>2. Spec => []Shape
  BY SpecIsConsistent, PTL
<1> QED
  BY <1>1, <1>2, BalanceInit, BalanceStep, PTL DEF Spec
-----------------------------------------------------------------------------
(* The scan.                                                                *)

\* Another subscriber paid than the one the charge names.
AnotherPaid(e) ==
    LET expected == Subscriber(terms[e.charge_id].customer_msisdn)
    IN  Subscriber(e.txn.sender_msisdn) \notin {None, expected} /\ expected # None

DuplicatesFound ==
    /\ \A e, f \in scan.since :
          e.txn.txn_id = f.txn.txn_id /\ e # f => e.txn.txn_id \in scan.duplicates
    /\ scan.duplicates \subseteq duplicate_txids

MismatchesFound ==
    /\ \A e \in scan.since : e.charge_id # None /\ AnotherPaid(e) => e \in scan.mismatches
    /\ scan.mismatches \subseteq sender_mismatches

\* The threshold in hand is the norm of events still there: of no more than Multiple of
\* them none exceeds it.
NormOf(S) ==
    /\ Cardinality(S) = scan.counted
    /\ scan.counted <= Multiple => \A e \in S : e.txn.amount_minor <= scan.threshold

ScanHolds ==
    /\ ScanTypeOK
    /\ scan.since \subseteq sms_events
    /\ DuplicatesFound
    /\ scan.stage \in {"average", "outliers", "done"} => MismatchesFound
    /\ scan.stage = "outliers" => \E S \in SUBSET Matched : NormOf(S)
    /\ scan.stage # "done" => scan.outliers = {}
    /\ OutliersNeedHistory

\* No event and no column of a charge is ever taken back.
Growing == sms_events \subseteq sms_events' /\ Persistent

LEMMA TablesGrow == ASSUME Shape, [Next]_vars PROVE Growing
<1>1. sms_events \subseteq sms_events'
  BY DEF Next, Serve, create, create_checkout, IssueCheckout, Receive, HandlerStep, Match,
     RejectDuplicate, RecordUnmatched, RecordMatched, InsertEvent, Post, MarkPaid,
     SettleInvoices, Notify, IssueLink, Abandon, Crash, vars, db
<1> QED
  BY <1>1, RowsPersist DEF Growing

\* The charges of matched events are there, with terms.
LEMMA MatchedCharges ==
    ASSUME Shape
    PROVE  /\ Matched \subseteq [txn : Txn, charge_id : ChargeId]
           /\ \A e \in Matched : terms[e.charge_id] # None
<1> SUFFICES ASSUME NEW e \in Matched
             PROVE  e \in [txn : Txn, charge_id : ChargeId] /\ terms[e.charge_id] # None
  OBVIOUS
<1>1. /\ e \in [txn : Txn, charge_id : ChargeId \cup {None}] /\ e.charge_id # None
      /\ AsksFor(e.charge_id, e.txn.amount_minor)
  BY DEF Matched, Shape, TypeOK, EventsFit
<1> QED
  BY <1>1 DEF AsksFor

\* What a SELECT would return now it would return later, too.
LEMMA StillFlagged ==
    ASSUME Shape, Growing
    PROVE  /\ Matched \subseteq Matched'
           /\ duplicate_txids \subseteq duplicate_txids'
           /\ sender_mismatches \subseteq sender_mismatches'
           /\ \A e \in Matched : AnotherPaid(e)' <=> AnotherPaid(e)
<1>1. Matched \subseteq Matched'
  BY DEF Matched, Growing
<1>2. duplicate_txids \subseteq duplicate_txids'
  BY DEF duplicate_txids, Growing
<1>3. \A e \in Matched : terms'[e.charge_id] = terms[e.charge_id]
  BY MatchedCharges DEF Growing, Persistent
<1>4. sender_mismatches \subseteq sender_mismatches'
  BY <1>1, <1>3 DEF sender_mismatches
<1>5. \A e \in Matched : AnotherPaid(e)' <=> AnotherPaid(e)
  BY <1>3 DEF AnotherPaid
<1> QED
  BY <1>1, <1>2, <1>4, <1>5

LEMMA ScanStays ==
    ASSUME Shape, ScanHolds, Growing, UNCHANGED scan
    PROVE  ScanHolds'
<1>1. /\ scan.since \subseteq sms_events /\ sms_events \subseteq sms_events'
      /\ Matched \subseteq Matched'
  BY StillFlagged DEF ScanHolds, Growing
<1>2. DuplicatesFound'
  BY StillFlagged DEF ScanHolds, DuplicatesFound
<1>3. ASSUME MismatchesFound PROVE MismatchesFound'
  <2>1. ASSUME NEW e \in scan.since, e.charge_id # None, AnotherPaid(e)'
        PROVE  e \in scan.mismatches
    <3>1. e \in Matched
      BY <1>1, <2>1 DEF Matched
    <3>2. AnotherPaid(e)
      BY <2>1, <3>1, StillFlagged
    <3> QED
      BY <1>3, <2>1, <3>2 DEF MismatchesFound
  <2>2. scan.mismatches \subseteq sender_mismatches'
    BY <1>3, StillFlagged DEF MismatchesFound
  <2> QED
    BY <2>1, <2>2 DEF MismatchesFound
<1>4. ASSUME NEW S \in SUBSET Matched, NormOf(S) PROVE S \in SUBSET Matched' /\ NormOf(S)'
  BY <1>1, <1>4 DEF NormOf
<1> QED
  BY <1>1, <1>2, <1>3, <1>4 DEF ScanHolds, ScanTypeOK, OutliersNeedHistory

\* A scan that has not begun, or is lost.
LEMMA NoScanHolds ==
    ASSUME scan = NoScan PROVE ScanHolds
<1>1. scan \in Scan
  BY DEF NoScan, Scan
<1>2. scan.stage = "idle" /\ scan.since = {} /\ scan.duplicates = {} /\ scan.outliers = {}
  BY DEF NoScan
<1> QED
  BY <1>1, <1>2 DEF ScanHolds, ScanTypeOK, DuplicatesFound, OutliersNeedHistory

\* The rounded mean of n amounts, m times over, is at least their sum if n is at most m.
LEMMA RoundedMean ==
    ASSUME NEW m \in Nat \ {0}, NEW n \in Nat \ {0}, NEW total \in Nat,
           NEW norm, norm = (2 * m * total + n) \div (2 * n)
    PROVE  norm \in Nat /\ (n <= m => total <= norm)
<1>1. PICK x \in Nat : x = 2 * m * total + n
  <2>1. \A a, b \in Nat : a * b \in Nat
    OBVIOUS
  <2>2. 2 * m \in Nat
    OBVIOUS
  <2>3. (2 * m) * total \in Nat
    BY <2>1, <2>2
  <2> QED
    BY <2>3
<1>2. PICK y \in Nat \ {0} : y = 2 * n
  OBVIOUS
<1>3. norm \in Nat /\ y * norm <= x /\ x < y * norm + y
  <2>1. \A a \in Nat, b \in Nat \ {0} : /\ a \div b \in Nat /\ b * (a \div b) <= a
                                        /\ a < b * (a \div b) + b
    OBVIOUS
  <2> QED
    BY <1>1, <1>2, <2>1
<1>4. ASSUME n <= m PROVE total <= norm
  <2>1. y * total <= x
    <3>1. PICK k \in Nat : m = n + k
      <4>1. m - n \in Nat /\ m = n + (m - n)
        BY <1>4
      <4> QED
        BY <4>1
    <3>2. 2 * m * total = (2 * n) * total + (2 * k) * total
      BY <3>1
    <3>3. (2 * k) * total \in Nat
      <4>1. \A a, b \in Nat : a * b \in Nat
        OBVIOUS
      <4> QED
        BY <4>1
    <3>4. (2 * n) * total \in Nat
      <4>1. \A a, b \in Nat : a * b \in Nat
        OBVIOUS
      <4> QED
        BY <4>1
    <3> QED
      BY <1>1, <1>2, <3>2, <3>3, <3>4
  <2>2. ASSUME norm < total PROVE FALSE
    <3>1. PICK j \in Nat : total = (norm + 1) + j
      <4>1. total - (norm + 1) \in Nat /\ total = (norm + 1) + (total - (norm + 1))
        BY <1>3, <2>2
      <4> QED
        BY <4>1
    <3>2. y * total = (y * norm + y) + y * j
      BY <1>3, <3>1
    <3>3. y * j \in Nat /\ y * norm \in Nat
      BY <1>3
    <3> QED
      BY <1>1, <1>2, <1>3, <2>1, <3>2, <3>3
  <2> QED
    BY <1>3, <2>2
<1> QED
  BY <1>3, <1>4
LEMMA DuplicatesHold ==
    ASSUME Shape, ScanHolds, ScanDuplicates, UNCHANGED vars
    PROVE  ScanHolds'
<1>1. /\ scan'.stage = "mismatches" /\ scan'.since = sms_events /\ scan'.outliers = {}
      /\ scan'.duplicates = duplicate_txids
      /\ scan' = [stage |-> "mismatches", since |-> sms_events, duplicates |-> duplicate_txids,
                  mismatches |-> {}, outliers |-> {}, threshold |-> 0, counted |-> 0,
                  present |-> 0]
  BY DEF ScanDuplicates, NoScan
<1>2. /\ sms_events' = sms_events /\ duplicate_txids' = duplicate_txids
  BY DEF vars, db, duplicate_txids
<1>3. sms_events \subseteq [txn : Txn, charge_id : ChargeId \cup {None}]
  BY DEF Shape, TypeOK
<1>4. duplicate_txids \subseteq {t.txn_id : t \in Txn}
  BY <1>3 DEF duplicate_txids
<1>5. scan' \in Scan
  BY <1>1, <1>3, <1>4 DEF Scan
<1>6. ASSUME NEW e \in sms_events, NEW f \in sms_events,
             e.txn.txn_id = f.txn.txn_id, e # f
      PROVE  e.txn.txn_id \in duplicate_txids
  <2>1. Key(e.txn) # Key(f.txn)
    BY <1>6 DEF Shape, EventsFit
  <2>2. f.txn.gateway # e.txn.gateway
    BY <1>6, <2>1 DEF Key
  <2> QED
    BY <1>6, <2>2 DEF duplicate_txids
<1>7. DuplicatesFound'
  BY <1>1, <1>2, <1>6 DEF DuplicatesFound
<1>8. sms_events \subseteq sms_events
  OBVIOUS
<1> QED
  BY <1>1, <1>2, <1>5, <1>7 DEF ScanHolds, ScanTypeOK, OutliersNeedHistory

\* Numbers of different subscribers are written differently.
LEMMA MismatchIsSeen ==
    ASSUME NEW e \in Matched, AnotherPaid(e)
    PROVE  e \in sender_mismatches
BY DEF AnotherPaid, Subscriber, sender_mismatches

LEMMA MismatchesHold ==
    ASSUME Shape, ScanHolds, ScanMismatches, UNCHANGED vars
    PROVE  ScanHolds'
<1>1. /\ scan \in Scan /\ scan.stage = "mismatches" /\ scan.outliers = {}
      /\ scan' = [scan EXCEPT !.stage = "average", !.mismatches = sender_mismatches]
  BY DEF ScanMismatches, ScanHolds, ScanTypeOK
<1>2. /\ scan'.stage = "average" /\ scan'.mismatches = sender_mismatches
      /\ scan'.since = scan.since /\ scan'.duplicates = scan.duplicates
      /\ scan'.outliers = scan.outliers
  BY <1>1 DEF Scan
<1>3. /\ sms_events' = sms_events /\ duplicate_txids' = duplicate_txids
      /\ Matched' = Matched /\ terms' = terms /\ sender_mismatches' = sender_mismatches
  BY DEF vars, db, duplicate_txids, Matched, sender_mismatches
<1>4. sender_mismatches \subseteq [txn : Txn, charge_id : ChargeId]
  BY MatchedCharges DEF sender_mismatches
<1>5. scan' \in Scan
  BY <1>1, <1>4 DEF Scan
<1>6. DuplicatesFound'
  BY <1>2, <1>3 DEF ScanHolds, DuplicatesFound
<1>7. MismatchesFound'
  <2>1. ASSUME NEW e \in scan.since, e.charge_id # None, AnotherPaid(e)'
        PROVE  e \in sender_mismatches
    <3>1. e \in Matched
      BY <2>1 DEF ScanHolds, Matched
    <3>2. AnotherPaid(e)
      BY <1>3, <2>1 DEF AnotherPaid
    <3> QED
      BY <3>1, <3>2, MismatchIsSeen
  <2> QED
    BY <1>2, <1>3, <2>1 DEF MismatchesFound
<1> QED
  BY <1>1, <1>2, <1>3, <1>5, <1>6, <1>7 DEF ScanHolds, ScanTypeOK, OutliersNeedHistory

\* Where the two last SELECTs leave what the first two found alone.
LEMMA ReportStays ==
    ASSUME Shape, ScanHolds, UNCHANGED vars, scan.stage \in {"average", "outliers"},
           scan'.since = scan.since, scan'.duplicates = scan.duplicates,
           scan'.mismatches = scan.mismatches
    PROVE  scan'.since \subseteq sms_events' /\ DuplicatesFound' /\ MismatchesFound'
<1>1. /\ sms_events' = sms_events /\ duplicate_txids' = duplicate_txids
      /\ terms' = terms /\ sender_mismatches' = sender_mismatches
  BY DEF vars, db, duplicate_txids, Matched, sender_mismatches
<1>2. DuplicatesFound'
  BY <1>1 DEF ScanHolds, DuplicatesFound
<1>3. MismatchesFound /\ scan.since \subseteq sms_events
  BY DEF ScanHolds
<1>4. \A e : AnotherPaid(e)' <=> AnotherPaid(e)
  BY <1>1 DEF AnotherPaid
<1>5. MismatchesFound'
  BY <1>1, <1>3, <1>4 DEF MismatchesFound
<1> QED
  BY <1>1, <1>2, <1>3, <1>5

\* Of the n matched events none exceeds the threshold, if n is at most Multiple.
LEMMA ThresholdIsNorm ==
    ASSUME Shape, IsFiniteSet(sms_events), Cardinality(Matched) >= MinSample
    PROVE  /\ Threshold \in Nat /\ Cardinality(Matched) \in Nat
           /\ Cardinality(Matched) <= Multiple =>
                \A e \in Matched : e.txn.amount_minor <= Threshold
<1>1. /\ IsFiniteSet(Matched) /\ \A e \in Matched : e.txn.amount_minor \in Nat
      /\ Received \in Nat
  BY AmountsAreNumbers
<1>2. PICK n \in Nat \ {0} : n = Cardinality(Matched)
  <2>1. Cardinality(Matched) \in Nat
    BY <1>1, FS_CardinalityType
  <2> QED
    BY <2>1, ScanAssumption
<1>3. MapThenSumSet(LAMBDA e : e.txn.amount_minor, Matched) = Received
  BY <1>1, SumOfEvents DEF Received
<1>4. Threshold = (2 * Multiple * Received + n) \div (2 * n)
  BY <1>2, <1>3 DEF Threshold
<1>5. Threshold \in Nat /\ (n <= Multiple => Received <= Threshold)
  <2>1. Multiple \in Nat \ {0} /\ n \in Nat \ {0} /\ Received \in Nat
    BY <1>1, <1>2, ScanAssumption
  <2> QED
    BY <1>4, <2>1, RoundedMean
<1>6. \A e \in Matched : e.txn.amount_minor <= Received
  <2> DEFINE f == [e \in Matched |-> e.txn.amount_minor]
  <2>1. \A e \in Matched : f[e] \in Nat /\ f[e] = e.txn.amount_minor
    BY <1>1
  <2>2. Received = SumOver(f, Matched)
    BY DEF Received
  <2> HIDE DEF f
  <2>3. \A e \in Matched : f[e] <= SumOver(f, Matched)
    BY <1>1, <2>1, SumOverIsNat
  <2> QED
    BY <2>1, <2>2, <2>3
<1>7. \A e \in Matched : n <= Multiple => e.txn.amount_minor <= Threshold
  BY <1>1, <1>5, <1>6
<1> QED
  BY <1>2, <1>5, <1>7

LEMMA AverageHolds ==
    ASSUME Shape, ScanHolds, IsFiniteSet(sms_events), ScanAverage, UNCHANGED vars
    PROVE  ScanHolds'
<1>1. /\ scan \in Scan /\ scan.stage = "average" /\ scan.outliers = {}
  BY DEF ScanAverage, ScanHolds, ScanTypeOK
<1>2. Matched' = Matched
  BY DEF vars, db, Matched
<1>3. CASE Cardinality(Matched) < MinSample
  <2>1. scan' = [scan EXCEPT !.stage = "done"]
    BY <1>3 DEF ScanAverage
  <2>2. /\ scan' \in Scan /\ scan'.stage = "done" /\ scan'.outliers = {}
        /\ scan'.since = scan.since /\ scan'.duplicates = scan.duplicates
        /\ scan'.mismatches = scan.mismatches
    BY <1>1, <2>1 DEF Scan
  <2>3. scan'.since \subseteq sms_events' /\ DuplicatesFound' /\ MismatchesFound'
    BY <1>1, <2>2, ReportStays
  <2> QED
    BY <2>2, <2>3 DEF ScanHolds, ScanTypeOK, OutliersNeedHistory
<1>4. CASE ~(Cardinality(Matched) < MinSample)
  <2>1. Cardinality(Matched) \in Nat
    BY AmountsAreNumbers, FS_CardinalityType
  <2>2. Cardinality(Matched) >= MinSample
    BY <1>4, <2>1, ScanAssumption
  <2>3. /\ Threshold \in Nat
        /\ Cardinality(Matched) <= Multiple =>
             \A e \in Matched : e.txn.amount_minor <= Threshold
    BY <2>2, ThresholdIsNorm
  <2>4. scan' = [scan EXCEPT !.stage = "outliers", !.threshold = Threshold,
                             !.counted = Cardinality(Matched)]
    BY <1>4 DEF ScanAverage
  <2>5. /\ scan' \in Scan /\ scan'.stage = "outliers" /\ scan'.outliers = {}
        /\ scan'.since = scan.since /\ scan'.duplicates = scan.duplicates
        /\ scan'.mismatches = scan.mismatches
        /\ scan'.threshold = Threshold /\ scan'.counted = Cardinality(Matched)
    BY <1>1, <2>1, <2>3, <2>4 DEF Scan
  <2>6. scan'.since \subseteq sms_events' /\ DuplicatesFound' /\ MismatchesFound'
    BY <1>1, <2>5, ReportStays
  <2>7. NormOf(Matched)' /\ Matched \in SUBSET Matched'
    BY <1>2, <2>3, <2>5 DEF NormOf
  <2>8. (\E S \in SUBSET Matched : NormOf(S))'
    BY <1>2, <2>7
  <2> QED
    BY <2>5, <2>6, <2>8 DEF ScanHolds, ScanTypeOK, OutliersNeedHistory
<1> QED
  BY <1>3, <1>4

LEMMA OutliersHold ==
    ASSUME Shape, ScanHolds, IsFiniteSet(sms_events), ScanOutliers, UNCHANGED vars
    PROVE  ScanHolds'
<1>1. /\ scan \in Scan /\ scan.stage = "outliers"
      /\ scan' = [scan EXCEPT !.stage = "done", !.outliers = amount_outliers(scan.threshold),
                              !.present = Cardinality(Matched)]
  BY DEF ScanOutliers, ScanHolds, ScanTypeOK
<1>2. PICK S \in SUBSET Matched : NormOf(S)
  BY <1>1 DEF ScanHolds
<1>3. IsFiniteSet(Matched) /\ \A e \in Matched : e.txn.amount_minor \in Nat
  BY AmountsAreNumbers
<1>4. Cardinality(Matched) \in Nat
  BY <1>3, FS_CardinalityType
<1>5. amount_outliers(scan.threshold) \subseteq [txn : Txn, charge_id : ChargeId]
  BY MatchedCharges DEF amount_outliers
<1>6. /\ scan' \in Scan /\ scan'.stage = "done" /\ scan'.counted = scan.counted
      /\ scan'.outliers = amount_outliers(scan.threshold)
      /\ scan'.present = Cardinality(Matched)
      /\ scan'.since = scan.since /\ scan'.duplicates = scan.duplicates
      /\ scan'.mismatches = scan.mismatches
  BY <1>1, <1>4, <1>5 DEF Scan
<1>7. scan'.since \subseteq sms_events' /\ DuplicatesFound' /\ MismatchesFound'
  BY <1>1, <1>6, ReportStays
<1>8. ASSUME NEW e \in amount_outliers(scan.threshold), scan.counted <= Multiple
      PROVE  Cardinality(Matched) > scan.counted
  <2>1. e \in Matched /\ e.txn.amount_minor > scan.threshold /\ scan.threshold \in Nat
    BY <1>1, <1>8 DEF amount_outliers, Scan
  <2>2. e \notin S
    <3>1. e \in S => e.txn.amount_minor <= scan.threshold
      BY <1>2, <1>8 DEF NormOf
    <3> QED
      BY <1>3, <2>1, <3>1
  <2>3. S # Matched /\ S \subseteq Matched
    BY <2>1, <2>2
  <2>4. Cardinality(S) < Cardinality(Matched)
    BY <1>3, <2>3, FS_Subset, FS_CardinalityType
  <2>5. Cardinality(S) = scan.counted
    BY <1>2 DEF NormOf
  <2> QED
    BY <1>2, <1>3, <1>4, <2>4, <2>5, FS_Subset, FS_CardinalityType
<1>9. OutliersNeedHistory'
  <2>1. scan.counted \in Nat /\ Multiple \in Nat
    BY <1>1, ScanAssumption DEF Scan
  <2> QED
    BY <1>6, <1>8, <2>1 DEF OutliersNeedHistory
<1> QED
  BY <1>6, <1>7, <1>9 DEF ScanHolds, ScanTypeOK

LEMMA NoScanFollows ==
    ASSUME scan' = NoScan PROVE ScanHolds'
<1>1. scan' \in Scan
  BY DEF NoScan, Scan
<1>2. /\ scan'.stage = "idle" /\ scan'.since = {} /\ scan'.duplicates = {}
      /\ scan'.outliers = {}
  BY DEF NoScan
<1> QED
  BY <1>1, <1>2 DEF ScanHolds, ScanTypeOK, DuplicatesFound, OutliersNeedHistory

LEMMA ScanGoesOn ==
    Shape /\ BooksBalance /\ ScanHolds /\ [ScanNext]_<<vars, scan>> => ScanHolds'
<1> SUFFICES ASSUME Shape, BooksBalance, ScanHolds, [ScanNext]_<<vars, scan>>
             PROVE  ScanHolds'
  OBVIOUS
<1>1. CASE Serve /\ UNCHANGED scan
  BY <1>1, TablesGrow, ScanStays DEF Next
<1>2. CASE Crash /\ scan' = NoScan
  BY <1>2, NoScanFollows
<1>3. CASE ScanStep /\ UNCHANGED vars
  <2>1. IsFiniteSet(sms_events) /\ (ScanFails => scan' = NoScan)
    BY DEF BooksBalance, ScanFails
  <2> QED
    BY <1>3, <2>1, DuplicatesHold, MismatchesHold, AverageHolds, OutliersHold, NoScanFollows
       DEF ScanStep
<1>4. CASE UNCHANGED <<vars, scan>>
  BY <1>4, TablesGrow, ScanStays
<1> QED
  BY <1>1, <1>2, <1>3, <1>4 DEF ScanNext

\* The scan only reads.
LEMMA ScanOnlyReads == [ScanNext]_<<vars, scan>> => [Next]_vars
BY DEF ScanNext, Next

LEMMA ScanStarts == ScanInit => Init /\ ScanHolds
BY NoScanHolds DEF ScanInit

LEMMA ScanIsConsistent == ScanSpec => [](Shape /\ BooksBalance /\ ScanHolds)
<1>1. Init => Shape /\ BooksBalance
  BY ShapeInit, BalanceInit
<1>2. Shape /\ BooksBalance /\ [Next]_vars => Shape' /\ BooksBalance'
  BY ShapeStep, BalanceStep
<1> QED
  BY <1>1, <1>2, ScanStarts, ScanOnlyReads, ScanGoesOn, PTL DEF ScanSpec

\* A scan holds only rows of its tables, whatever changes between its SELECTs (fraud.rs).
THEOREM ScanTypes == ScanSpec => []ScanTypeOK
<1>1. ScanHolds => ScanTypeOK
  BY DEF ScanHolds
<1> QED
  BY <1>1, ScanIsConsistent, PTL

\* However many transfers are matched and settled under its four SELECTs, a scan misses no
\* repeated txn_id and no payment by another subscriber that were there when it began, and
\* what it flags is still so when it answers (fraud.rs:40-95).
THEOREM ScansAreExact == ScanSpec => []ScanIsExact
<1>1. ScanHolds => ScanIsExact
  BY DEF ScanHolds, ScanIsExact, DuplicatesFound, MismatchesFound, AnotherPaid
<1> QED
  BY <1>1, ScanIsConsistent, PTL

\* For every multiple and every minimal sample: no scan at rest flags an amount unless more
\* than Multiple transfers were matched (fraud.rs:99-131).
THEOREM OutliersTakeHistory == ScanSpec => []OutliersNeedHistory
<1>1. ScanHolds => OutliersNeedHistory
  BY DEF ScanHolds
<1> QED
  BY <1>1, ScanIsConsistent, PTL
-----------------------------------------------------------------------------
(* The worker.                                                              *)

\* What was proved of the queue alone, of the queue that settlements fill.
Q == INSTANCE WebhookDeliveryProofs WITH Delivery <- Row, status <- row_status

LEMMA SameQueue ==
    /\ W!Init <=> Q!Init
    /\ \A d : W!enqueue(d) <=> Q!enqueue(d)
    /\ W!WorkerStep <=> Q!WorkerStep
    /\ W!DbError <=> Q!DbError
    /\ W!Crash <=> Q!Crash
    /\ W!Tick <=> Q!Tick
<1> USE DEF W!rows, Q!rows, W!local, Q!local, W!history, Q!history
<1>1. W!Init <=> Q!Init
  BY DEF W!Init, Q!Init
<1>2. \A d : W!enqueue(d) <=> Q!enqueue(d)
  BY DEF W!enqueue, Q!enqueue
<1>3. W!Poll <=> Q!Poll
  BY DEF W!Poll, Q!Poll, W!Batches, Q!Batches, W!IsDue, Q!IsDue
<1>4. W!Send <=> Q!Send
  BY DEF W!Send, Q!Send
<1>5. W!Record <=> Q!Record
  BY DEF W!Record, Q!Record, W!Outcome, Q!Outcome, W!Exhausted, Q!Exhausted,
     W!backoff_seconds, Q!backoff_seconds
<1>6. W!Wake <=> Q!Wake
  BY DEF W!Wake, Q!Wake
<1>7. W!WorkerStep <=> Q!WorkerStep
  BY <1>3, <1>4, <1>5, <1>6 DEF W!WorkerStep, Q!WorkerStep
<1>8. (W!DbError <=> Q!DbError) /\ (W!Crash <=> Q!Crash)
  BY DEF W!DbError, Q!DbError, W!Crash, Q!Crash, W!DropBatch, Q!DropBatch
<1>9. W!Tick <=> Q!Tick
  BY DEF W!Tick, Q!Tick
<1> QED
  BY <1>1, <1>2, <1>7, <1>8, <1>9

LEMMA QueueAssumption == Q!WebhookAssumption
BY PayAssumption, FaultAssumption DEF Q!WebhookAssumption

\* A fault among the requests is none of the queue's.
LEMMA QueueUnhurt ==
    ASSUME Q!QueueIsSound, UNCHANGED queue, faults' \in faults..MaxFaults
    PROVE  Q!QueueIsSound'
<1>1. /\ UNCHANGED <<row_status, attempts, wait, worker, batch, success, posts, received, lost>>
      /\ faults \in Nat /\ faults' \in Nat /\ faults <= faults' /\ faults' \in 0..MaxFaults
  BY FaultAssumption DEF queue, Q!QueueIsSound, Q!TypeOK
<1>2. Q!TypeOK'
  BY <1>1 DEF Q!QueueIsSound, Q!TypeOK, Q!Due
<1>3. Q!OnlyFaultsLose'
  <2>1. lost \in [Row -> Nat] /\ \A d \in Row : lost[d] <= faults
    BY DEF Q!QueueIsSound, Q!TypeOK, Q!OnlyFaultsLose
  <2>2. \A a, b, c \in Nat : a <= b /\ b <= c => a <= c
    OBVIOUS
  <2>3. \A d \in Row : lost[d] <= faults'
    BY <1>1, <2>1, <2>2
  <2> QED
    BY <1>1, <2>3 DEF Q!OnlyFaultsLose
<1>4. /\ Q!BatchIsCurrent' /\ Q!AttemptsLeft' /\ Q!SuccessIsTrue'
      /\ Q!PostsAccountedFor' /\ Q!ConclusionsAreTrue'
  BY <1>1 DEF Q!QueueIsSound, Q!BatchIsCurrent, Q!IsDue, Q!AttemptsLeft, Q!SuccessIsTrue,
     Q!PostsAccountedFor, Q!InFlight, Q!ConclusionsAreTrue
<1> QED
  BY <1>2, <1>3, <1>4 DEF Q!QueueIsSound

\* The requests run on while the worker works, and while it fails.
LEMMA RequestsUnhurt ==
    ASSUME Shape, Books, UNCHANGED <<db, locals>>, faults' \in 0..MaxFaults
    PROVE  Shape' /\ Books'
<1>1. UNCHANGED <<status, terms, sms_events, ledger, invoices, deliveries,
                  pc, txn, target, issuing>>
  BY DEF db, locals
<1>2. Shape'
  BY <1>1 DEF Shape, TypeOK, RowsExist, LocalsFit, EventsFit, LinksFit, Settling, AsksFor,
     MintedFor
<1>3. Quiet
  BY <1>1 DEF Quiet, Settling
<1> QED
  BY <1>2, <1>3, QuietKeepsBooks

\* How a step of the whole looks to its parts.
LEMMA PayStepIs ==
    ASSUME Shape, [PayNext]_<<vars, queue>>
    PROVE  \/ [Next]_vars /\ UNCHANGED <<deliveries, queue>>
           \/ /\ Next /\ Len(deliveries') = Len(deliveries) + 1 /\ Len(deliveries) < MaxRows
              /\ W!enqueue(Len(deliveries) + 1)
           \/ (W!WorkerStep \/ W!Tick) /\ UNCHANGED <<db, locals>>
           \/ W!DbError /\ UNCHANGED <<db, locals>>
           \/ W!Crash /\ Crash
           \/ W!Crash /\ UNCHANGED <<db, locals>>
<1>1. CASE UNCHANGED <<vars, queue>>
  BY <1>1 DEF vars, db
<1>2. CASE Serve /\ UNCHANGED <<deliveries, queue>>
  BY <1>2 DEF Next
<1>3. ASSUME NEW h \in Handler, Notify(h), Len(deliveries) < MaxRows,
             W!enqueue(Len(deliveries) + 1)
      PROVE  Next /\ Len(deliveries') = Len(deliveries) + 1
  <2>1. Next
    BY <1>3 DEF Next, Serve, HandlerStep
  <2>2. deliveries \in Seq(Delivery)
    BY DEF Shape, TypeOK
  <2>3. PICK row : deliveries' = Append(deliveries, row) /\ row \in Delivery
    <3>1. target[h] \in ChargeId /\ txn[h] \in Txn
      BY <1>3 DEF Notify, Shape, TypeOK, LocalsFit, Settling
    <3> QED
      BY <1>3, <3>1 DEF Notify, Delivery, Keys
  <2>4. Len(deliveries') = Len(deliveries) + 1
    BY <2>2, <2>3, AppendProperties
  <2> QED
    BY <2>1, <2>4
<1>4. ASSUME NEW h \in Handler, HandlerStep(h), UNCHANGED <<deliveries, queue>>
      PROVE  Next
  BY <1>4 DEF Next, Serve
<1> QED
  BY <1>1, <1>2, <1>3, <1>4 DEF PayNext, Handlers, Settle, Work, QueueFails, SecondPasses,
     StopAndStart

\* Faults are what loses outcomes, and each loses one.
LostOnce == SumOver(lost, Row) <= faults

PaySound ==
    /\ Shape /\ Books /\ Q!QueueIsSound /\ LostOnce /\ Len(deliveries) <= MaxRows
LEMMA LostStays ==
    ASSUME LostOnce, Q!TypeOK, UNCHANGED lost, faults' \in Nat, faults <= faults'
    PROVE  LostOnce'
<1>1. IsFiniteSet(Row) /\ \A d \in Row : lost[d] \in Nat
  BY PayAssumption, Intervals DEF Row, Q!TypeOK
<1>2. PICK sum \in Nat : sum = SumOver(lost, Row)
  BY <1>1, SumOverIsNat
<1>3. sum <= faults /\ faults \in Nat
  BY <1>2, FaultAssumption DEF LostOnce, Q!TypeOK
<1>4. sum <= faults'
  BY <1>3
<1>5. lost' = lost
  OBVIOUS
<1> QED
  BY <1>2, <1>4, <1>5 DEF LostOnce

LEMMA DropLosesOne ==
    ASSUME Q!QueueIsSound, LostOnce, NEW stage, Q!DropBatch(stage)
    PROVE  LostOnce' /\ faults' \in 0..MaxFaults
<1> USE DEF Q!QueueIsSound
<1>1. /\ faults \in Nat /\ faults' = faults + 1 /\ faults' \in 0..MaxFaults
      /\ lost \in [Row -> Nat]
      /\ lost' = IF worker = "record" THEN [lost EXCEPT ![Head(batch).id] = @ + 1] ELSE lost
  BY FaultAssumption DEF Q!DropBatch, Q!TypeOK
<1>2. CASE worker # "record"
  <2>1. UNCHANGED lost
    BY <1>1, <1>2
  <2>2. faults' \in Nat /\ faults <= faults'
    BY <1>1
  <2> QED
    BY <1>1, <2>1, <2>2, LostStays
<1>3. CASE worker = "record"
  <2>1. PICK d \in Row : d = Head(batch).id
    BY <1>3, QueueAssumption, Q!BatchSplits
  <2>2. lost' = [lost EXCEPT ![d] = @ + 1]
    BY <1>1, <1>3, <2>1
  <2>3. IsFiniteSet(Row) /\ IsFiniteSet(Row \ {d}) /\ Row = (Row \ {d}) \cup {d}
    BY PayAssumption, Intervals, FS_Subset DEF Row
  <2>4. PICK f \in [Row -> Nat], g \in [Row -> Nat] : f = lost /\ g = lost'
    BY <1>1, <2>2
  <2>5. g[d] = f[d] + 1 /\ \A n \in Row \ {d} : g[n] = f[n]
    BY <1>1, <2>2, <2>4
  <2>6. Grows(f, Row \ {d}, f, Row, d) /\ Grows(f, Row \ {d}, g, Row, d)
    <3>1. /\ \A n \in Row \ {d} : f[n] \in Int /\ f[n] = f[n] /\ g[n] = f[n]
          /\ f[d] \in Int /\ g[d] \in Int
      BY <2>4, <2>5
    <3> QED
      BY <2>3, <3>1, SumOverOneMore
  <2>7. PICK rest \in Nat : rest = SumOver(f, Row \ {d})
    <3>1. \A n \in Row \ {d} : f[n] \in Nat
      BY <2>4
    <3> QED
      BY <2>3, <3>1, SumOverIsNat
  <2>8. SumOver(f, Row) = f[d] + rest /\ SumOver(g, Row) = g[d] + rest
    BY <2>6, <2>7 DEF Grows
  <2>9. SumOver(f, Row) <= faults
    BY <2>4 DEF LostOnce
  <2>10. f[d] \in Nat
    BY <2>4
  <2>11. SumOver(g, Row) <= faults + 1
    BY <1>1, <2>5, <2>7, <2>8, <2>9, <2>10
  <2> QED
    BY <1>1, <2>4, <2>11 DEF LostOnce
<1> QED
  BY <1>2, <1>3

LEMMA PayStarts == PayInit => PaySound
<1> SUFFICES ASSUME PayInit PROVE PaySound
  OBVIOUS
<1>1. Shape /\ Books
  BY ShapeInit, BooksInit DEF PayInit
<1>2. Q!QueueIsSound
  BY SameQueue, QueueAssumption, Q!QueueStarts DEF PayInit
<1>3. Len(deliveries) <= MaxRows
  BY PayAssumption DEF PayInit, Init
<1>4. LostOnce
  <2>1. lost = [d \in Row |-> 0] /\ faults = 0
    BY DEF PayInit, W!Init
  <2>2. IsFiniteSet(Row) /\ \A d \in Row : lost[d] = 0
    BY <2>1, PayAssumption, Intervals DEF Row
  <2>3. SumOver(lost, Row) = 0
    BY <2>2, SumOverZeros
  <2> QED
    BY <2>1, <2>3 DEF LostOnce
<1> QED
  BY <1>1, <1>2, <1>3, <1>4 DEF PaySound

LEMMA PayGoesOn == PaySound /\ [PayNext]_<<vars, queue>> => PaySound'
<1> SUFFICES ASSUME PaySound, [PayNext]_<<vars, queue>> PROVE PaySound'
  OBVIOUS
<1> USE DEF PaySound
<1>1. faults \in 0..MaxFaults /\ Q!TypeOK
  BY DEF Shape, TypeOK, Q!QueueIsSound
<1>2. ASSUME [Next]_vars PROVE Shape' /\ Books' /\ faults' \in 0..MaxFaults /\ faults <= faults'
  <2>1. Shape' /\ Books'
    BY <1>2, ShapeStep, BooksStep
  <2>2. faults' \in 0..MaxFaults
    BY <2>1 DEF Shape, TypeOK
  <2>3. faults' = faults \/ faults' = faults + 1
    BY <1>2 DEF Next, Serve, create, create_checkout, IssueCheckout, Receive, HandlerStep, Match,
       RejectDuplicate, RecordUnmatched, RecordMatched, InsertEvent, Post, MarkPaid,
       SettleInvoices, Notify, IssueLink, Abandon, Crash, vars
  <2> QED
    BY <1>1, <2>1, <2>2, <2>3
<1>3. CASE [Next]_vars /\ UNCHANGED <<deliveries, queue>>
  <2>1. faults' \in faults..MaxFaults
    BY <1>1, <1>2, <1>3
  <2>2. Q!QueueIsSound'
    BY <1>3, <2>1, QueueUnhurt
  <2>3. LostOnce'
    <3>1. UNCHANGED lost /\ faults' \in Nat /\ faults <= faults'
      BY <1>1, <1>3, <2>1 DEF queue
    <3> QED
      BY <1>1, <3>1, LostStays
  <2> QED
    BY <1>2, <1>3, <2>2, <2>3
<1>4. CASE /\ Next /\ Len(deliveries') = Len(deliveries) + 1 /\ Len(deliveries) < MaxRows
           /\ W!enqueue(Len(deliveries) + 1)
  <2>1. Len(deliveries) \in Nat
    BY RowTypes DEF Shape
  <2>2. Len(deliveries) + 1 \in Row /\ Len(deliveries') <= MaxRows
    BY <1>4, <2>1, PayAssumption DEF Row
  <2>3. Q!enqueue(Len(deliveries) + 1)
    BY <1>4, SameQueue
  <2>4. Q!QueueIsSound'
    BY <2>2, <2>3, QueueAssumption, Q!EnqueueKeeps
  <2>5. UNCHANGED lost /\ faults' \in Nat /\ faults <= faults'
    BY <1>1, <2>3 DEF Q!enqueue, Q!history
  <2>6. LostOnce'
    BY <1>1, <2>5, LostStays
  <2> QED
    BY <1>2, <1>4, <2>2, <2>4, <2>6
<1>5. CASE (W!WorkerStep \/ W!Tick) /\ UNCHANGED <<db, locals>>
  <2>1. Q!WorkerStep \/ Q!Tick
    BY <1>5, SameQueue
  <2>2. Q!QueueIsSound'
    BY <2>1, QueueAssumption, Q!QueueStaysSound DEF Q!Next
  <2>3. UNCHANGED <<lost, faults>>
    BY <2>1 DEF Q!WorkerStep, Q!Poll, Q!Send, Q!Record, Q!Wake, Q!Tick, Q!history
  <2>4. faults' \in Nat /\ faults <= faults' /\ faults' \in 0..MaxFaults
    BY <1>1, <2>3
  <2>5. LostOnce'
    BY <1>1, <2>3, <2>4, LostStays
  <2>6. Shape' /\ Books'
    BY <1>5, <2>4, RequestsUnhurt
  <2>7. UNCHANGED deliveries
    BY <1>5 DEF db
  <2> QED
    BY <2>2, <2>5, <2>6, <2>7
<1>6. ASSUME W!DbError \/ W!Crash
      PROVE  Q!QueueIsSound' /\ LostOnce' /\ faults' \in 0..MaxFaults
  <2>1. Q!DbError \/ Q!Crash
    BY <1>6, SameQueue
  <2>2. Q!QueueIsSound'
    BY <2>1, QueueAssumption, Q!QueueStaysSound DEF Q!Next
  <2>3. Q!DropBatch("sleep") \/ Q!DropBatch("poll")
    BY <2>1 DEF Q!DbError, Q!Crash
  <2> QED
    BY <2>2, <2>3, DropLosesOne
<1>7. CASE (W!DbError \/ W!Crash) /\ UNCHANGED <<db, locals>>
  <2>1. Shape' /\ Books'
    BY <1>6, <1>7, RequestsUnhurt
  <2>2. UNCHANGED deliveries
    BY <1>7 DEF db
  <2> QED
    BY <1>6, <1>7, <2>1, <2>2
<1>8. CASE W!Crash /\ Crash
  <2>1. UNCHANGED deliveries
    BY <1>8 DEF Crash, db
  <2> QED
    BY <1>2, <1>6, <1>8, <2>1 DEF Next
<1> QED
  BY <1>3, <1>4, <1>5, <1>7, <1>8, PayStepIs

LEMMA PayStaysSound == PaySpec => []PaySound
BY PayStarts, PayGoesOn, PTL DEF PaySpec
LEMMA SumOfPosts ==
    ASSUME NEW S, IsFiniteSet(S), \A n \in S : posts[n] \in Int
    PROVE  MapThenSumSet(LAMBDA n : posts[n], S) = SumOver([n \in S |-> posts[n]], S)
<1> DEFINE f == [n \in S |-> posts[n]]
           First(s) == CHOOSE x \in s : TRUE
           Adds(g) == [s \in SUBSET S |->
                         IF s = {} THEN 0
                         ELSE posts[First(s)] + g[s \ {First(s)}]]
           total == CHOOSE g : g = Adds(g)
<1>1. MapThenSumSet(LAMBDA n : posts[n], S) = total[S]
  BY DEF MapThenSumSet, MapThenFoldSet
<1>2. \A s \in SUBSET S : s # {} => f[First(s)] = posts[First(s)]
  OBVIOUS
<1>3. \A x \in S : f[x] \in Int
  OBVIOUS
<1>4. \A g : g = Adds(g) <=> Folding(g, f, S)
  <2> HIDE DEF f
  <2> QED
    BY <1>2 DEF Folding
<1>5. Folding(total, f, S)
  <2>1. \E g : g = Adds(g)
    <3> HIDE DEF f, Adds
    <3> QED
      BY <1>3, <1>4, SumOverIsFold
  <2> HIDE DEF Adds
  <2> QED
    BY <1>4, <2>1
<1>6. total[S] = SumOver(f, S)
  <2> HIDE DEF f, total
  <2> QED
    BY <1>3, <1>5, FoldIsSumOver
<1> QED
  BY <1>1, <1>6

\* No POST is made for a row but its attempts and those that a fault hid.
LEMMA PostsOfARow ==
    ASSUME Q!QueueIsSound, NEW d \in Row
    PROVE  posts[d] \in Nat /\ lost[d] \in Nat /\ posts[d] <= MaxAttempts + lost[d]
<1> USE DEF Q!QueueIsSound
<1>1. posts[d] \in Nat /\ lost[d] \in Nat /\ attempts[d] \in 0..MaxAttempts
  BY DEF Q!TypeOK
<1>2. posts[d] = attempts[d] + lost[d] + Q!InFlight(d)
  BY DEF Q!PostsAccountedFor
<1>3. attempts[d] + Q!InFlight(d) <= MaxAttempts
  <2>1. CASE worker = "record" /\ Head(batch).id = d
    <3>1. 1 \in DOMAIN batch /\ Head(batch) = batch[1]
      BY <2>1, QueueAssumption, Q!BatchSplits
    <3>2. row_status[d] = "pending"
      BY <2>1, <3>1 DEF Q!BatchIsCurrent, Q!IsDue
    <3>3. attempts[d] < MaxAttempts
      BY <3>2 DEF Q!AttemptsLeft
    <3> QED
      BY <1>1, <2>1, <3>3, PayAssumption DEF Q!InFlight
  <2>2. CASE ~(worker = "record" /\ Head(batch).id = d)
    BY <1>1, <2>2, PayAssumption DEF Q!InFlight
  <2> QED
    BY <2>1, <2>2
<1>4. Q!InFlight(d) \in Nat
  BY DEF Q!InFlight
<1> QED
  BY <1>1, <1>2, <1>3, <1>4, PayAssumption

\* A charge is told about at most once for each of its postings.
LEMMA ToldOncePerPosting ==
    ASSUME Shape, Books, NEW c \in ChargeId,
           NEW about, about = {n \in DOMAIN deliveries : deliveries[n].charge_id = c}
    PROVE  /\ IsFiniteSet(about) /\ Cardinality(about) \in Nat
           /\ Cardinality(PostingsOf(c)) \in Nat
           /\ Cardinality(about) <= Cardinality(PostingsOf(c))
<1>1. IsFiniteSet(PostingsOf(c))
  BY RowTypes, Intervals, FS_Subset DEF Shape, PostingsOf
<1> DEFINE p == [n \in about |-> CHOOSE m \in PostingsOf(c) : ledger[m].event = deliveries[n].event]
<1>2. ASSUME NEW n \in about
      PROVE  p[n] \in PostingsOf(c) /\ ledger[p[n]].event = deliveries[n].event
  <2>1. \E m \in PostingsOf(c) : ledger[m].event = deliveries[n].event
    BY <1>2 DEF Books, NotifiedWasSettled, PostedFor
  <2> QED
    BY <2>1
<1>3. p \in [about -> PostingsOf(c)]
  BY <1>2
<1> HIDE DEF p
<1>4. ASSUME NEW m \in about, NEW n \in about, p[m] = p[n] PROVE m = n
  <2>1. deliveries[m].event = deliveries[n].event
    BY <1>2, <1>4
  <2> QED
    BY <2>1 DEF Books, NotifiedWasSettled
<1>5. p \in Injection(about, PostingsOf(c))
  BY <1>3, <1>4 DEF Injection, IsInjective
<1> QED
  BY <1>1, <1>5, FS_Injection, FS_CardinalityType

LEMMA CallsOfACharge ==
    ASSUME PaySound, NEW c \in ChargeId,
           NEW about, about = {n \in DOMAIN deliveries : deliveries[n].charge_id = c}
    PROVE  MapThenSumSet(LAMBDA n : posts[n], about)
             <= MaxAttempts * Cardinality(PostingsOf(c)) + faults
<1> USE DEF PaySound
<1>1. /\ IsFiniteSet(about) /\ Cardinality(about) \in Nat
      /\ Cardinality(PostingsOf(c)) \in Nat
      /\ Cardinality(about) <= Cardinality(PostingsOf(c))
  BY ToldOncePerPosting
<1>2. about \in SUBSET Row /\ IsFiniteSet(Row)
  <2>1. DOMAIN deliveries = 1..Len(deliveries) /\ Len(deliveries) \in Nat
    BY RowTypes DEF Shape
  <2> QED
    BY <2>1, PayAssumption, Intervals DEF Row
<1>3. \A n \in Row : posts[n] \in Nat /\ lost[n] \in Nat /\ posts[n] <= MaxAttempts + lost[n]
  BY PostsOfARow
<1> DEFINE f == [n \in about |-> posts[n]]
<1>4. MapThenSumSet(LAMBDA n : posts[n], about) = SumOver(f, about)
  <2>1. \A n \in about : posts[n] \in Int
    BY <1>2, <1>3
  <2> QED
    BY <1>1, <2>1, SumOfPosts
<1>5. \A n \in about : f[n] \in Nat /\ lost[n] \in Nat /\ f[n] <= MaxAttempts + lost[n]
  BY <1>2, <1>3
<1> HIDE DEF f
<1>6. SumOver(f, about) <= MaxAttempts * Cardinality(about) + SumOver(lost, about)
  BY <1>1, <1>5, PayAssumption, SumOverAtMost DEF AtMost
<1>7. SumOver(lost, about) <= SumOver(lost, Row)
  BY <1>2, <1>3, SumOverPart
<1>8. PICK k \in Nat, m \in Nat, n \in Nat :
         /\ k = MaxAttempts /\ m = Cardinality(about) /\ n = Cardinality(PostingsOf(c))
         /\ m <= n
  BY <1>1, PayAssumption
<1>9. PICK a \in Nat, b \in Nat, all \in Nat :
         /\ a = SumOver(f, about) /\ b = SumOver(lost, about) /\ all = SumOver(lost, Row)
  <2>1. SumOver(f, about) \in Nat
    <3>1. \A d \in about : f[d] \in Nat
      BY <1>5
    <3> QED
      BY <1>1, <3>1, SumOverIsNat
  <2>2. SumOver(lost, about) \in Nat
    <3>1. \A d \in about : lost[d] \in Nat
      BY <1>5
    <3> QED
      BY <1>1, <3>1, SumOverIsNat
  <2>3. SumOver(lost, Row) \in Nat
    <3>1. \A d \in Row : lost[d] \in Nat
      BY <1>3
    <3> QED
      BY <1>2, <3>1, SumOverIsNat
  <2> QED
    BY <2>1, <2>2, <2>3
<1>10. k * m <= k * n
  <2>1. PICK j \in Nat : n = m + j
    <3>1. n - m \in Nat /\ n = m + (n - m)
      BY <1>8
    <3> QED
      BY <3>1
  <2>2. k * n = k * m + k * j /\ k * m \in Nat /\ k * j \in Nat
    BY <2>1
  <2> QED
    BY <2>2
<1>11. PICK km \in Nat, kn \in Nat : km = k * m /\ kn = k * n
  OBVIOUS
<1>12. a <= km + b /\ b <= all /\ km <= kn
  BY <1>6, <1>7, <1>8, <1>9, <1>10, <1>11
<1>13. faults \in Int /\ all <= faults
  BY <1>9, FaultAssumption DEF LostOnce, Shape, TypeOK
<1>14. a <= kn + faults
  BY <1>12, <1>13
<1> QED
  BY <1>4, <1>8, <1>9, <1>11, <1>14

\* For any number of rows, retries and faults: a merchant is called at most max_attempts
\* times for each posting on a charge and once more for each fault, and only about a charge
\* that is paid by a posting of that very event (charge.rs:111-156, webhook.rs:106-172).
THEOREM EveryCallIsBacked == PaySpec => []CallsAreBacked
<1>1. PaySound => CallsAreBacked
  <2> SUFFICES ASSUME PaySound, NEW c \in ChargeId,
                      NEW about, about = {n \in DOMAIN deliveries : deliveries[n].charge_id = c}
               PROVE  /\ MapThenSumSet(LAMBDA n : posts[n], about)
                            <= MaxAttempts * Cardinality(PostingsOf(c)) + faults
                      /\ \A n \in about : posts[n] > 0 =>
                            status[c] = "paid" /\ PostedFor(c, deliveries[n].event)
    BY DEF CallsAreBacked
  <2>1. MapThenSumSet(LAMBDA n : posts[n], about)
          <= MaxAttempts * Cardinality(PostingsOf(c)) + faults
    BY CallsOfACharge
  <2>2. \A n \in about : status[c] = "paid" /\ PostedFor(c, deliveries[n].event)
    BY DEF PaySound, Books, NotifiedWasSettled
  <2> QED
    BY <2>1, <2>2
<1> QED
  BY <1>1, PayStaysSound, PTL
\* With the worker at its side, through restarts of both, settlement still does only what
\* the abstract lifecycle of a payment allows (charge.rs:111-156, webhook.rs:76-172).
THEOREM PaymentsFollowLifecycle == PaySpec => FollowsLifecycle
<1>1. PaySound /\ [PayNext]_<<vars, queue>> => [Lifecycle!LifecycleNext]_(Lifecycle!abstract)
  <2> SUFFICES ASSUME PaySound, [PayNext]_<<vars, queue>>
               PROVE  [Lifecycle!LifecycleNext]_(Lifecycle!abstract)
    OBVIOUS
  <2>1. [Next]_vars \/ UNCHANGED <<db, locals>>
    BY PayStepIs DEF PaySound, Next
  <2>2. CASE [Next]_vars
    BY <2>2, StepFollowsLifecycle DEF PaySound
  <2>3. CASE UNCHANGED <<db, locals>>
    BY <2>3, Invisible DEF db
  <2> QED
    BY <2>1, <2>2, <2>3
<1>2. PayInit => Lifecycle!LifecycleInit
  BY LifecycleStarts DEF PayInit
<1> QED
  BY <1>1, <1>2, PayStaysSound, PTL DEF PaySpec, FollowsLifecycle, Lifecycle!LifecycleSpec
=============================================================================
