----------------------------- MODULE FraudScan ------------------------------
(***************************************************************************)
(* The anomaly scan (fraud.rs), asked for by the admin or by a question    *)
(* that the reconciliation chat routes to it (http.rs, recon_chat), while  *)
(* messages are being matched and settled.  A scan is four SELECTs, each   *)
(* of which sees the tables of its own moment.                             *)
(***************************************************************************)
EXTENDS Settlement, FiniteSetsExt

CONSTANTS
    Multiple,   \* AMOUNT_ANOMALY_MULTIPLE (10 in the code)
    MinSample   \* MIN_SAMPLE_FOR_AMOUNT (5 in the code)

ASSUME ScanAssumption == Multiple \in Nat \ {0} /\ MinSample \in Nat \ {0}

VARIABLE scan   \* the locals of the scan in progress or, once done, its report

\* `since', `counted' and `present' are history: the events known when the scan began,
\* and how many were matched at the average and at the end.
Scan == [stage : {"idle", "mismatches", "average", "outliers", "done"},
         since : SUBSET [txn : Txn, charge_id : ChargeId \cup {None}],
         duplicates : SUBSET {t.txn_id : t \in Txn},
         mismatches : SUBSET [txn : Txn, charge_id : ChargeId],
         outliers : SUBSET [txn : Txn, charge_id : ChargeId],
         threshold : Nat, counted : Nat, present : Nat]

NoScan == [stage |-> "idle", since |-> {}, duplicates |-> {}, mismatches |-> {},
           outliers |-> {}, threshold |-> 0, counted |-> 0, present |-> 0]

ScanInit == Init /\ scan = NoScan
-----------------------------------------------------------------------------
Matched == {e \in sms_events : e.charge_id # None}

\* Mutant of duplicate_txids: the gateways are not told apart from repetitions.
duplicate_within == {e.txn.txn_id : e \in {d \in sms_events :
    \E f \in sms_events : f # d /\ Key(f.txn) = Key(d.txn)}}

\* GROUP BY txn_id HAVING COUNT(DISTINCT gateway) > 1
duplicate_txids == {e.txn.txn_id : e \in {d \in sms_events :
    \E f \in sms_events : f.txn.txn_id = d.txn.txn_id /\ f.txn.gateway # d.txn.gateway}}

\* The numbers are compared as they were written.
sender_mismatches ==
    {e \in Matched : /\ terms[e.charge_id].customer_msisdn # None
                     /\ e.txn.sender_msisdn # None
                     /\ e.txn.sender_msisdn # terms[e.charge_id].customer_msisdn}

\* (avg * Multiple).round()
Threshold ==
    LET count == Cardinality(Matched)
    IN  (2 * Multiple * MapThenSumSet(LAMBDA e : e.txn.amount_minor, Matched) + count)
            \div (2 * count)

\* Mutants of amount_outliers: the threshold itself is an outlier; so is an event that
\* settled nothing.
outliers_from(threshold) == {e \in Matched : e.txn.amount_minor >= threshold}
outliers_unmatched(threshold) == {e \in sms_events : e.txn.amount_minor > threshold}

amount_outliers(threshold) == {e \in Matched : e.txn.amount_minor > threshold}
-----------------------------------------------------------------------------
(* One action per SELECT.                                                   *)

ScanDuplicates ==
    /\ scan.stage \in {"idle", "done"}
    /\ scan' = [NoScan EXCEPT !.stage = "mismatches", !.since = sms_events,
                              !.duplicates = duplicate_txids]

ScanMismatches ==
    /\ scan.stage = "mismatches"
    /\ scan' = [scan EXCEPT !.stage = "average", !.mismatches = sender_mismatches]

\* Too short a history has no norm: the scan ends here.
ScanAverage ==
    /\ scan.stage = "average"
    /\ scan' = IF Cardinality(Matched) < MinSample
               THEN [scan EXCEPT !.stage = "done"]
               ELSE [scan EXCEPT !.stage = "outliers", !.threshold = Threshold,
                                 !.counted = Cardinality(Matched)]

ScanOutliers ==
    /\ scan.stage = "outliers"
    /\ scan' = [scan EXCEPT !.stage = "done", !.outliers = amount_outliers(scan.threshold),
                            !.present = Cardinality(Matched)]

\* A SELECT fails, or the admin hangs up.
ScanFails ==
    /\ scan.stage \notin {"idle", "done"}
    /\ scan' = NoScan

ScanStep == ScanDuplicates \/ ScanMismatches \/ ScanAverage \/ ScanOutliers \/ ScanFails

ScanNext ==
    \/ Serve /\ UNCHANGED scan
    \/ Crash /\ scan' = NoScan
    \/ ScanStep /\ UNCHANGED vars

ScanSpec == ScanInit /\ [][ScanNext]_<<vars, scan>>
-----------------------------------------------------------------------------
(* Properties.                                                              *)

ScanTypeOK == scan \in Scan

Subscriber(phone) == IF phone = None THEN None ELSE normalize_msisdn(phone)

\* A scan misses nothing that was on record when it began, however the tables grow
\* under its four SELECTs: no txn_id of two gateways, and no charge paid by another
\* subscriber than the one declared, in whatever format (fraud.rs:40-95).  What it
\* flags is still so when it answers.
ScanIsExact ==
    scan.stage = "done" =>
        /\ \A e, f \in scan.since :
              e.txn.txn_id = f.txn.txn_id /\ e # f => e.txn.txn_id \in scan.duplicates
        /\ scan.duplicates \subseteq duplicate_txids
        /\ \A e \in scan.since : e.charge_id # None =>
              LET expected == Subscriber(terms[e.charge_id].customer_msisdn)
              IN  Subscriber(e.txn.sender_msisdn) \notin {None, expected} /\ expected # None
                    => e \in scan.mismatches
        /\ scan.mismatches \subseteq sender_mismatches

\* An amount is out of the norm only against more than Multiple settled ones, or
\* because it arrived between the average and the last SELECT (fraud.rs:99-131): the
\* largest of n amounts is never more than n times their average.  With the code's
\* constants no scan of five to ten settlements, taken at rest, flags one.
OutliersNeedHistory ==
    scan.outliers # {} => scan.counted > Multiple \/ scan.present > scan.counted
=============================================================================
