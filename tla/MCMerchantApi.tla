---------------------------- MODULE MCMerchantApi ---------------------------
(***************************************************************************)
(* A small instance of MerchantApi: one API key, one phone, one shop whose *)
(* domain comes on the whitelist and goes, and one invoice number.         *)
(***************************************************************************)
EXTENDS MerchantApi, TLC

CONSTANTS t1, t2, k1, d1

Shop == <<"shop">>
Page(user, host, port, path) ==
    [scheme |-> <<"https", "://">>, user |-> user, host |-> host, port |-> port,
     path |-> path]

ShopPage == Page(<<>>, Shop, <<":", "8080">>, <<"/", "thanks">>)
NoHost == Page(<<>>, <<>>, <<>>, <<"/">>)
CustomersPage == Page(<<"customer", "@">>, Shop, <<>>, <<"/">>)
ElsewherePage == [Page(<<>>, <<"elsewhere">>, <<>>, <<"/">>) EXCEPT !.scheme = <<>>]

Checkout1(return, webhook, n, k) ==
    [op |-> "checkout", credential |-> k1, return_url |-> return, webhook_url |-> webhook,
     amount |-> [n |-> n, k |-> k]]

Item(quantity, unit) == [quantity |-> quantity, unit_minor |-> unit]

DraftOf(number, items) == [op |-> "create_invoice", number |-> number, items |-> items]

LogIn(right) == [op |-> "login", right |-> right]
CreateKey(scopes) == [op |-> "create_key", scopes |-> scopes]
Relisting(op) == [op |-> op, domain |-> Shop]
OfKey(op) == [op |-> op, credential |-> k1]

\* Keys and phones come and go under the requests that use them.
OfKeys ==
    (t1 :> {Checkout1(None, None, 5, 1), Checkout1(NoHost, None, 0, 0), OfKey("verify"),
            [op |-> "exchange", credential |-> d1], LogIn(FALSE)}
     @@ t2 :> {LogIn(TRUE), CreateKey({}), CreateKey({"create_payment"}), [op |-> "pair"],
               OfKey("revoke")})

\* The whitelist changes under the checkouts that ask it.
OfWhitelist ==
    (t1 :> {Checkout1(ShopPage, ElsewherePage, 5, 1), Checkout1(None, ShopPage, 4, 3),
            Checkout1(NoHost, None, 5, 1), Checkout1(CustomersPage, None, 5, 1),
            Relisting("delete_domain")}
     @@ t2 :> {LogIn(TRUE), CreateKey({}), Relisting("create_domain"),
               Relisting("delete_domain")})

\* Drafts race for one number; the last one's total does not fit the integer.
OfInvoices ==
    (t1 :> {DraftOf("INV-1", <<Item(2, 30), Item(1, 5)>>), LogIn(TRUE)}
     @@ t2 :> {DraftOf("INV-1", <<Item(1, 7), Item(3, 100)>>),
               DraftOf("INV-1", <<Item(1, 100), Item(1, 100)>>)})

Scenarios == {OfKeys, OfWhitelist, OfInvoices}

Environments == {[admin_password |-> TRUE, auth_secret |-> "old"],
                 [admin_password |-> TRUE, auth_secret |-> "new"],
                 [admin_password |-> FALSE, auth_secret |-> "old"]}
=============================================================================
