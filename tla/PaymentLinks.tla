---------------------------- MODULE PaymentLinks ----------------------------
(***************************************************************************)
(* Reusable payment links (src/src/payment_link.rs).  Opening a link reads *)
(* its row, consumes a use when the row it read still had one, and mints a *)
(* checkout: three awaits, so that openers interleave and act on the row   *)
(* they read rather than on the row there is.                              *)
(***************************************************************************)
EXTENDS Integers, FiniteSets

CONSTANTS
    Link,       \* payment_links rows
    LinkReq,    \* bodies of create requests: amount_minor and quantity, or None
    Opener,     \* request tasks opening a link
    Offer,      \* amounts a customer may enter, and None for a plain visit
    MaxOpens,   \* bound: a link is opened anew while fewer opens than this are on record
    None

ASSUME LinkAssumption ==
    /\ \A r \in LinkReq : r.amount_minor \in Int \cup {None} /\ r.quantity \in Int \cup {None}
    /\ Offer \subseteq Int \cup {None}
    /\ None \notin Int /\ None \notin Link
    /\ IsFiniteSet(Opener)
    /\ MaxOpens \in Nat

VARIABLES
    links,     \* the rows, None before one exists
    pc,        \* where an opener stands
    opening,   \* opener local: the link
    amount,    \* opener local: the amount resolved from the row or the customer
    granted,   \* history: the quantity a link was created with
    consumed,  \* history: uses consumed
    minted,    \* history: checkouts minted
    free       \* history: opens that found no use left and went on regardless

locals  == <<pc, opening, amount>>
history == <<granted, consumed, minted, free>>
vars    == <<links, locals, history>>

Row == [amount_minor : Int \cup {None}, quantity : Int \cup {None},
        status : {"active", "inactive"}]

ASSUME RowAssumption == None \notin Row

TypeOK ==
    /\ links \in [Link -> Row \cup {None}]
    /\ pc \in [Opener -> {"idle", "consume", "mint"}]
    /\ opening \in [Opener -> Link \cup {None}]
    /\ amount \in [Opener -> Int \cup {None}]
    /\ \A o \in Opener : pc[o] = "idle" <=> opening[o] = None /\ amount[o] = None
    /\ \A o \in Opener : opening[o] = None <=> amount[o] = None
    /\ granted \in [Link -> Int \cup {None}]
    /\ consumed \in [Link -> Nat]
    /\ minted \in [Link -> Nat]
    /\ free \in [Link -> Nat]

Init ==
    /\ links = [l \in Link |-> None]
    /\ pc = [o \in Opener |-> "idle"]
    /\ opening = [o \in Opener |-> None]
    /\ amount = [o \in Opener |-> None]
    /\ granted = [l \in Link |-> None]
    /\ consumed = [l \in Link |-> 0]
    /\ minted = [l \in Link |-> 0]
    /\ free = [l \in Link |-> 0]
-----------------------------------------------------------------------------
\* Nothing about the request is validated.
create(l, r) ==
    /\ links[l] = None
    /\ links' = [links EXCEPT ![l] = [amount_minor |-> r.amount_minor,
                                      quantity |-> r.quantity, status |-> "active"]]
    /\ granted' = [granted EXCEPT ![l] = r.quantity]
    /\ UNCHANGED <<locals, consumed, minted, free>>

\* No operation of the program does this; an operator may, in the database.
Deactivate(l) ==
    /\ links[l] # None
    /\ links[l].status = "active"
    /\ links' = [links EXCEPT ![l].status = "inactive"]
    /\ UNCHANGED <<locals, history>>

\* The link pins an amount or the customer gives one.
AmountKnown(l, offer) == links[l].amount_minor # None \/ offer # None

\* Mutant of UsesLeft: one use too many.
UsesLeftOrZero(l) == links[l].quantity # None /\ links[l].quantity >= 0

\* The row an opener loads decides everything that follows.
UsesLeft(l) == links[l].quantity # None /\ links[l].quantity > 0

Open(o, l, offer) ==
    /\ pc[o] = "idle"
    /\ links[l] # None
    /\ links[l].status = "active"
    /\ AmountKnown(l, offer)
    /\ opening' = [opening EXCEPT ![o] = l]
    /\ amount' = [amount EXCEPT ![o] = IF links[l].amount_minor # None
                                       THEN links[l].amount_minor ELSE offer]
    /\ pc' = [pc EXCEPT ![o] = IF UsesLeft(l) THEN "consume" ELSE "mint"]
    /\ free' = [free EXCEPT ![l] =
                  IF UsesLeft(l) \/ links[l].quantity = None THEN @ ELSE @ + 1]
    /\ minted[l] + free[l] < MaxOpens
    /\ UNCHANGED <<links, granted, consumed, minted>>

\* Mutant of Consume: the quantity is clamped at zero.
ConsumeClamped(o) ==
    /\ pc[o] = "consume"
    /\ links' = [links EXCEPT ![opening[o]].quantity = IF @ > 0 THEN @ - 1 ELSE 0]
    /\ consumed' = [consumed EXCEPT ![opening[o]] = @ + 1]
    /\ pc' = [pc EXCEPT ![o] = "mint"]
    /\ UNCHANGED <<opening, amount, granted, minted, free>>

\* UPDATE payment_links SET quantity = quantity - 1: relative to the row there is.
Consume(o) ==
    /\ pc[o] = "consume"
    /\ links' = [links EXCEPT ![opening[o]].quantity = @ - 1]
    /\ consumed' = [consumed EXCEPT ![opening[o]] = @ + 1]
    /\ pc' = [pc EXCEPT ![o] = "mint"]
    /\ UNCHANGED <<opening, amount, granted, minted, free>>

Leave(o) ==
    /\ pc' = [pc EXCEPT ![o] = "idle"]
    /\ opening' = [opening EXCEPT ![o] = None]
    /\ amount' = [amount EXCEPT ![o] = None]

\* checkout::create_checkout refuses an amount that is not positive, but only now.
Mint(o) ==
    /\ pc[o] = "mint"
    /\ minted' = [minted EXCEPT ![opening[o]] = IF amount[o] > 0 THEN @ + 1 ELSE @]
    /\ Leave(o)
    /\ UNCHANGED <<links, granted, consumed, free>>

\* The customer leaves, or a statement fails.
Abandon(o) ==
    /\ pc[o] # "idle"
    /\ Leave(o)
    /\ UNCHANGED <<links, history>>
-----------------------------------------------------------------------------
Next ==
    \/ \E l \in Link, r \in LinkReq : create(l, r)
    \/ \E l \in Link : Deactivate(l)
    \/ \E o \in Opener, l \in Link, offer \in Offer : Open(o, l, offer)
    \/ \E o \in Opener : Consume(o) \/ Mint(o) \/ Abandon(o)

Spec == Init /\ [][Next]_vars
-----------------------------------------------------------------------------
(* Properties.                                                              *)

Limited(l) == granted[l] # None

\* No use is consumed twice or forgotten when openers overlap (payment_link.rs:111).
UsesAccountedFor ==
    \A l \in Link : Limited(l) => links[l].quantity = granted[l] - consumed[l]

\* Openers that all read the last use may overdraw it, but only by the others: the
\* quantity stays above minus the number of openers (payment_link.rs:109-116).
OverdraftBounded ==
    \A l \in Link : Limited(l) /\ granted[l] > 0 =>
        links[l].quantity > -Cardinality(Opener)

\* A limited link is opened without consuming a use only when it has none left,
\* and then it never has one again (payment_link.rs:109).
FreeOnlyWhenExhausted ==
    \A l \in Link : Limited(l) /\ free[l] > 0 => links[l].quantity <= 0

\* "An optional `quantity` caps how many times it can be opened" (payment_link.rs:6).
CapRespected ==
    \A l \in Link : Limited(l) /\ granted[l] >= 0 => minted[l] <= granted[l]
=============================================================================
