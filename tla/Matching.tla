------------------------------ MODULE Matching ------------------------------
(***************************************************************************)
(* How an inbound transfer SMS is attributed to a charge                   *)
(* (src/src/sms.rs, find_matching_charge and normalize_msisdn).  The       *)
(* operators are pure: they take the charges' statuses and immutable rows  *)
(* as the SELECT returned them, so that the modules using them decide how  *)
(* old that answer is when they act on it.                                 *)
(***************************************************************************)
EXTENDS Integers, Sequences

CONSTANTS
    ChargeId,           \* charges.id
    Msisdn,             \* phone numbers as typed or received: tuples of characters
    SignificantDigits,  \* digits that identify a subscriber (10 in the code)
    None                \* SQL NULL / Rust None

ASSUME NoneAssumption == None \notin ChargeId /\ None \notin Msisdn

Digit == {"0", "1", "2", "3", "4", "5", "6", "7", "8", "9"}

\* Digits only, and of those the last SignificantDigits: the subscriber part.
normalize_msisdn(raw) ==
    LET digits == SelectSeq(raw, LAMBDA ch : ch \in Digit)
        n      == Len(digits)
    IN  IF n > SignificantDigits
        THEN SubSeq(digits, n - SignificantDigits + 1, n)
        ELSE digits

\* SELECT ... FROM charges WHERE amount_minor = ? AND status = 'pending'
Candidates(status, terms, amount) ==
    {c \in ChargeId : status[c] = "pending" /\ terms[c].amount_minor = amount}

\* The candidates whose declared number is the SMS sender's.
SenderHits(terms, candidates, sender) ==
    {c \in candidates :
        /\ terms[c].customer_msisdn # None
        /\ normalize_msisdn(terms[c].customer_msisdn) = normalize_msisdn(sender)}

\* Mutant of Sole: the tie-break the code once had, any candidate will do.
SoleOrAny(S) == IF S # {} THEN CHOOSE c \in S : TRUE ELSE None

\* The only member of a set; None for an empty set and for an ambiguous one.
Sole(S) == IF \E c \in S : S = {c} THEN CHOOSE c \in S : S = {c} ELSE None

\* The one pending charge a transfer belongs to, or None: the amount decides
\* when it is unambiguous, otherwise the sender must single one charge out.
find_matching_charge(status, terms, txn) ==
    LET candidates == Candidates(status, terms, txn.amount_minor)
    IN  IF Sole(candidates) # None \/ txn.sender_msisdn = None
        THEN Sole(candidates)
        ELSE Sole(SenderHits(terms, candidates, txn.sender_msisdn))
=============================================================================
