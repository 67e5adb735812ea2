--------------------------- MODULE MCPaymentLinks ---------------------------
(***************************************************************************)
(* Small instances of PaymentLinks.                                        *)
(***************************************************************************)
EXTENDS PaymentLinks, TLC

CONSTANTS l1, o1, o2, o3

Symmetry == Permutations(Opener)

LinkRequest(a, q) == [amount_minor |-> a, quantity |-> q]

\* Fixed and open amounts, limited and unlimited, and a limited link of no value.
LinkRequests == {LinkRequest(5, 2), LinkRequest(None, 2), LinkRequest(5, None),
                 LinkRequest(0, 1), LinkRequest(5, 0)}
OneUse == {LinkRequest(5, 1)}

Offers == {None, 0, 7}
NoOffer == {None}
=============================================================================
