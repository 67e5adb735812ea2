------------------------------- MODULE Money --------------------------------
(***************************************************************************)
(* Amounts of money.  Requests, messages and model replies carry decimal   *)
(* numbers; everything stored is a whole number of minor units (poisha,    *)
(* two decimals).  The code converts with (value * 100.0).round() on f64.  *)
(*                                                                         *)
(* A decimal is a pair [n, k] that stands for n / 10^k.  Amounts below 2^53*)
(* minor units are meant, where the rounding absorbs the representation    *)
(* error.  A value exactly between two minor units rounds away from zero   *)
(* here; in the code it may fall below it in f64, and then rounds down.    *)
(***************************************************************************)
EXTENDS Integers, Sequences

LOCAL INSTANCE SequencesExt

Decimal == [n : Int, k : Nat]

\* (value * 100.0).round() as i64, for values that are not negative.
to_minor(d) == (200 * d.n + 10 ^ d.k) \div (2 * 10 ^ d.k)

\* The text of an amount: its digits, the thousands separator and the point.
Comma == 10
Point == 11

IsDigit(ch) == ch \in 0..9

\* The number that a sequence of digits denotes.
Numeral(digits) == FoldLeft(LAMBDA n, digit : 10 * n + digit, 0, digits)

Decimals(text) ==
    IF Contains(text, Point) THEN Len(text) - CHOOSE m \in DOMAIN text : text[m] = Point
                             ELSE 0

\* chars().filter(digit or point)
cleaned(raw) == SelectSeq(raw, LAMBDA ch : IsDigit(ch) \/ ch = Point)

\* Some text is left that str::parse::<f64> accepts: at least one digit.
IsAmount(raw) == \E m \in DOMAIN raw : IsDigit(raw[m])

amount_to_minor(raw) ==
    to_minor([n |-> Numeral(SelectSeq(cleaned(raw), IsDigit)), k |-> Decimals(cleaned(raw))])

\* What an amount with at most two decimals is worth, digit by digit: the weight of
\* a digit depends on where it stands from the point alone.
Worth(raw) ==
    LET point == Len(raw) + 1 - (IF Contains(raw, Point) THEN Decimals(raw) + 1 ELSE 0)
        Weight(m) == IF m < point
                     THEN 10 ^ (2 + Len(SelectSeq(SubSeq(raw, m + 1, point - 1), IsDigit)))
                     ELSE 10 ^ (2 - (m - point))
    IN  FoldLeftDomain(LAMBDA sum, m :
            sum + (IF IsDigit(raw[m]) THEN raw[m] * Weight(m) ELSE 0), 0, raw)
=============================================================================
