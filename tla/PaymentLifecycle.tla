-------------------------- MODULE PaymentLifecycle --------------------------
(***************************************************************************)
(* What the money path promises, without requests, statements or faults:   *)
(* a charge is opened for a price, collects transfers of exactly that      *)
(* price, is paid once it has collected one, and its merchant is told only *)
(* of transfers collected for a paid charge.  A transfer is collected once *)
(* in its life.  Nothing is ever taken back.                               *)
(***************************************************************************)
EXTENDS Naturals

CONSTANTS Charge, Transfer, None

VARIABLES
    state,      \* "absent", "open" or "paid"
    price,      \* what a charge asks for, None until it is open
    collected,  \* the transfers each charge has collected, with what each brought
    told        \* the transfers the merchant was told of

abstract == <<state, price, collected, told>>

LifecycleInit ==
    /\ state = [c \in Charge |-> "absent"]
    /\ price = [c \in Charge |-> None]
    /\ collected = [c \in Charge |-> {}]
    /\ told = [c \in Charge |-> {}]

Open(c) ==
    /\ state[c] = "absent"
    /\ state' = [state EXCEPT ![c] = "open"]
    /\ price'[c] \in Nat \ {0}
    /\ price' = [price EXCEPT ![c] = price'[c]]
    /\ UNCHANGED <<collected, told>>

Collect(c, t) ==
    /\ state[c] # "absent"
    /\ \A d \in Charge : \A got \in collected[d] : got.transfer # t
    /\ collected' = [collected EXCEPT ![c] = @ \cup {[transfer |-> t, amount |-> price[c]]}]
    /\ UNCHANGED <<state, price, told>>

Close(c) ==
    /\ state[c] = "open"
    /\ collected[c] # {}
    /\ state' = [state EXCEPT ![c] = "paid"]
    /\ UNCHANGED <<price, collected, told>>

Tell(c, t) ==
    /\ state[c] = "paid"
    /\ \E got \in collected[c] : got.transfer = t
    /\ t \notin told[c]
    /\ told' = [told EXCEPT ![c] = @ \cup {t}]
    /\ UNCHANGED <<state, price, collected>>

LifecycleNext ==
    \E c \in Charge : \/ Open(c) \/ Close(c)
                      \/ \E t \in Transfer : Collect(c, t) \/ Tell(c, t)

LifecycleSpec == LifecycleInit /\ [][LifecycleNext]_abstract
=============================================================================
