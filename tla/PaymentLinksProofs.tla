------------------------- MODULE PaymentLinksProofs -------------------------
(***************************************************************************)
(* Theorems about PaymentLinks, for any links, requests and openers.       *)
(***************************************************************************)
EXTENDS PaymentLinks, FiniteSetTheorems, TLAPS

\* Openers that have decided to consume a use of l and have not done so yet.
Consuming(l) == {o \in Opener : pc[o] = "consume" /\ opening[o] = l}

\* Openers are at links that exist; those about to consume are at limited ones.
OpenersFit ==
    \A o \in Opener : pc[o] # "idle" =>
        /\ opening[o] \in Link /\ links[opening[o]] # None
        /\ pc[o] = "consume" => Limited(opening[o])

\* A row keeps the limit it was created with, and without a row nothing has happened.
RowsFit ==
    \A l \in Link :
        /\ links[l] = None => ~Limited(l) /\ consumed[l] = 0 /\ free[l] = 0
        /\ links[l] # None => (links[l].quantity = None <=> ~Limited(l))

\* Every use is either taken back in full or still covered by the openers under way.
OverdraftCovered ==
    \A l \in Link : Limited(l) /\ granted[l] > 0 =>
        links[l].quantity - Cardinality(Consuming(l)) > -Cardinality(Opener)

\* The inductive invariant.
LinksAreSound ==
    /\ TypeOK /\ OpenersFit /\ RowsFit
    /\ UsesAccountedFor /\ OverdraftCovered /\ FreeOnlyWhenExhausted
-----------------------------------------------------------------------------
LEMMA ConsumersAreOpeners ==
    \A l : /\ IsFiniteSet(Consuming(l)) /\ Cardinality(Consuming(l)) \in Nat
           /\ Cardinality(Consuming(l)) <= Cardinality(Opener) /\ Cardinality(Opener) \in Nat
<1> TAKE l
<1>1. Consuming(l) \subseteq Opener /\ IsFiniteSet(Opener)
  BY LinkAssumption DEF Consuming
<1> QED
  BY <1>1, FS_Subset, FS_CardinalityType

\* A limited link has a row, whose quantity is a number.
LEMMA LimitedRow ==
    ASSUME TypeOK, RowsFit, NEW l \in Link, Limited(l)
    PROVE  /\ links[l] \in Row /\ links[l].quantity \in Int /\ granted[l] \in Int
           /\ consumed[l] \in Nat
<1>1. links[l] # None
  BY DEF RowsFit
<1>2. links[l] \in Row /\ granted[l] \in Int \cup {None} /\ consumed[l] \in Nat
  BY <1>1 DEF TypeOK
<1>3. links[l].quantity # None /\ links[l].quantity \in Int \cup {None}
  BY <1>1, <1>2 DEF RowsFit, Row
<1> QED
  BY <1>2, <1>3 DEF Limited

LEMMA LinksStart == Init => LinksAreSound
<1> SUFFICES ASSUME Init PROVE LinksAreSound
  OBVIOUS
<1>1. TypeOK
  BY DEF Init, TypeOK
<1>2. OpenersFit /\ RowsFit /\ UsesAccountedFor /\ OverdraftCovered /\ FreeOnlyWhenExhausted
  BY DEF Init, OpenersFit, RowsFit, UsesAccountedFor, OverdraftCovered, FreeOnlyWhenExhausted,
     Limited
<1> QED
  BY <1>1, <1>2 DEF LinksAreSound

LEMMA CreateKeeps ==
    ASSUME LinksAreSound, NEW l \in Link, NEW r \in LinkReq, create(l, r)
    PROVE  LinksAreSound'
<1> USE DEF LinksAreSound
<1> DEFINE row == [amount_minor |-> r.amount_minor, quantity |-> r.quantity, status |-> "active"]
<1>1. /\ links[l] = None /\ links' = [links EXCEPT ![l] = row]
      /\ granted' = [granted EXCEPT ![l] = r.quantity]
      /\ UNCHANGED <<pc, opening, amount, consumed, minted, free>>
  BY DEF create, locals
<1>2. row \in Row /\ row # None /\ r.quantity \in Int \cup {None}
  <2>1. r.amount_minor \in Int \cup {None} /\ r.quantity \in Int \cup {None}
    BY LinkAssumption
  <2>2. row \in Row
    BY <2>1 DEF Row
  <2> QED
    BY <2>1, <2>2, RowAssumption
<1>3. /\ links'[l] = row /\ granted'[l] = r.quantity
      /\ \A k \in Link : k # l => links'[k] = links[k] /\ granted'[k] = granted[k]
  BY <1>1 DEF TypeOK
<1>4. ~Limited(l) /\ consumed[l] = 0 /\ free[l] = 0
  BY <1>1 DEF RowsFit
<1>5. \A o \in Opener : pc[o] # "idle" => opening[o] # l
  BY <1>1 DEF OpenersFit
<1>6. TypeOK'
  BY <1>1, <1>2 DEF TypeOK
<1>7. OpenersFit'
  BY <1>1, <1>3, <1>5 DEF OpenersFit, Limited
<1>8. RowsFit'
  BY <1>1, <1>2, <1>3 DEF RowsFit, Limited
<1>9. UsesAccountedFor'
  BY <1>1, <1>2, <1>3, <1>4 DEF UsesAccountedFor, Limited
<1>10. OverdraftCovered'
  <2>1. \A k \in Link : Consuming(k)' = Consuming(k)
    BY <1>1 DEF Consuming
  <2>2. Cardinality(Consuming(l)) = 0
    <3>1. Consuming(l) = {}
      BY <1>5 DEF Consuming
    <3> QED
      BY <3>1, FS_EmptySet
  <2> QED
    BY <1>2, <1>3, <2>1, <2>2, ConsumersAreOpeners DEF OverdraftCovered, Limited
<1>11. FreeOnlyWhenExhausted'
  BY <1>1, <1>3, <1>4 DEF FreeOnlyWhenExhausted, Limited
<1> QED
  BY <1>6, <1>7, <1>8, <1>9, <1>10, <1>11

LEMMA DeactivateKeeps ==
    ASSUME LinksAreSound, NEW l \in Link, Deactivate(l)
    PROVE  LinksAreSound'
<1> USE DEF LinksAreSound
<1>1. /\ links[l] # None /\ links' = [links EXCEPT ![l].status = "inactive"]
      /\ UNCHANGED <<pc, opening, amount, granted, consumed, minted, free>>
  BY DEF Deactivate, locals, history
<1>2. links[l] \in Row
  BY <1>1 DEF TypeOK
<1>3. /\ links'[l] = [links[l] EXCEPT !.status = "inactive"]
      /\ \A k \in Link : k # l => links'[k] = links[k]
  BY <1>1 DEF TypeOK
<1>4. links'[l] \in Row /\ links'[l].quantity = links[l].quantity
  BY <1>2, <1>3 DEF Row
<1>5. \A k \in Link : links[k] # None => links'[k] # None /\ links'[k].quantity = links[k].quantity
  BY <1>1, <1>3, <1>4, RowAssumption
<1>6. \A k \in Link : links'[k] = None => links[k] = None
  BY <1>5
<1>7. TypeOK'
  BY <1>1, <1>3, <1>4 DEF TypeOK
<1>8. OpenersFit' /\ RowsFit'
  BY <1>1, <1>5, <1>6 DEF OpenersFit, RowsFit, Limited
<1>9. \A k \in Link : Limited(k) => links'[k].quantity = links[k].quantity
  BY <1>5 DEF RowsFit
<1>10. UsesAccountedFor' /\ FreeOnlyWhenExhausted'
  BY <1>1, <1>9 DEF UsesAccountedFor, FreeOnlyWhenExhausted, Limited
<1>11. OverdraftCovered'
  <2>1. \A k \in Link : Consuming(k)' = Consuming(k)
    BY <1>1 DEF Consuming
  <2> QED
    BY <1>1, <1>9, <2>1 DEF OverdraftCovered, Limited
<1> QED
  BY <1>7, <1>8, <1>10, <1>11

LEMMA OpenKeeps ==
    ASSUME LinksAreSound, NEW o \in Opener, NEW l \in Link, NEW offer \in Offer,
           Open(o, l, offer)
    PROVE  LinksAreSound'
<1> USE DEF LinksAreSound
<1> DEFINE resolved == IF links[l].amount_minor # None THEN links[l].amount_minor ELSE offer
           stage == IF UsesLeft(l) THEN "consume" ELSE "mint"
<1>1. /\ pc[o] = "idle" /\ links[l] # None /\ AmountKnown(l, offer)
      /\ opening' = [opening EXCEPT ![o] = l] /\ amount' = [amount EXCEPT ![o] = resolved]
      /\ pc' = [pc EXCEPT ![o] = stage]
      /\ free' = [free EXCEPT ![l] =
                    IF UsesLeft(l) \/ links[l].quantity = None THEN @ ELSE @ + 1]
      /\ UNCHANGED <<links, granted, consumed, minted>>
  BY DEF Open
<1>2. resolved \in Int /\ links[l] \in Row
  <2>1. links[l] \in Row
    BY <1>1 DEF TypeOK
  <2>2. links[l].amount_minor \in Int \cup {None} /\ offer \in Int \cup {None}
    BY <2>1, LinkAssumption DEF Row
  <2> QED
    BY <1>1, <2>1, <2>2 DEF AmountKnown
<1>3. /\ pc'[o] = stage /\ opening'[o] = l /\ amount'[o] = resolved
      /\ \A p \in Opener : p # o => /\ pc'[p] = pc[p] /\ opening'[p] = opening[p]
                                    /\ amount'[p] = amount[p]
  BY <1>1 DEF TypeOK
<1>4. TypeOK'
  <2>1. free' \in [Link -> Nat]
    BY <1>1 DEF TypeOK
  <2>2. /\ pc' \in [Opener -> {"idle", "consume", "mint"}]
        /\ opening' \in [Opener -> Link \cup {None}] /\ amount' \in [Opener -> Int \cup {None}]
    BY <1>1, <1>2 DEF TypeOK
  <2>3. /\ \A p \in Opener : pc'[p] = "idle" <=> opening'[p] = None /\ amount'[p] = None
        /\ \A p \in Opener : opening'[p] = None <=> amount'[p] = None
    BY <1>2, <1>3, LinkAssumption DEF TypeOK
  <2> QED
    BY <1>1, <2>1, <2>2, <2>3 DEF TypeOK
<1>5. UsesLeft(l) => Limited(l)
  BY <1>1 DEF UsesLeft, RowsFit
<1>6. OpenersFit'
  BY <1>1, <1>3, <1>5 DEF OpenersFit, Limited
<1>7. \A k \in Link : free'[k] # free[k] => k = l /\ ~UsesLeft(l) /\ links[l].quantity # None
  BY <1>1 DEF TypeOK
<1>8. RowsFit'
  BY <1>1, <1>7 DEF RowsFit, Limited
<1>9. UsesAccountedFor'
  BY <1>1 DEF UsesAccountedFor, Limited
<1>10. FreeOnlyWhenExhausted'
  <2>1. ASSUME NEW k \in Link, Limited(k), free'[k] > 0 PROVE links[k].quantity <= 0
    <3>1. CASE free'[k] = free[k]
      BY <2>1, <3>1 DEF FreeOnlyWhenExhausted
    <3>2. CASE free'[k] # free[k]
      BY <1>7, <2>1, <3>2, LimitedRow DEF UsesLeft
    <3> QED
      BY <3>1, <3>2
  <2> QED
    BY <1>1, <2>1 DEF FreeOnlyWhenExhausted, Limited
<1>11. OverdraftCovered'
  <2>1. ASSUME NEW k \in Link, Limited(k), granted[k] > 0
        PROVE  links[k].quantity - Cardinality(Consuming(k)') > -Cardinality(Opener)
    <3>1. CASE k = l /\ UsesLeft(l)
      <4>1. Cardinality(Consuming(k)') \in Nat /\ Cardinality(Opener) \in Nat
            /\ Cardinality(Consuming(k)') <= Cardinality(Opener)
        <5>1. Consuming(k)' \subseteq Opener /\ IsFiniteSet(Opener)
          BY LinkAssumption DEF Consuming
        <5> QED
          BY <5>1, FS_Subset, FS_CardinalityType
      <4>2. links[k].quantity > 0 /\ links[k].quantity \in Int
        BY <2>1, <3>1, LimitedRow DEF UsesLeft
      <4> QED
        BY <4>1, <4>2
    <3>2. CASE ~(k = l /\ UsesLeft(l))
      <4>1. Consuming(k)' = Consuming(k)
        BY <1>1, <1>3, <3>2 DEF Consuming
      <4> QED
        BY <2>1, <4>1 DEF OverdraftCovered
    <3> QED
      BY <3>1, <3>2
  <2> QED
    BY <1>1, <2>1 DEF OverdraftCovered, Limited
<1> QED
  BY <1>4, <1>6, <1>8, <1>9, <1>10, <1>11

LEMMA ConsumeKeeps ==
    ASSUME LinksAreSound, NEW o \in Opener, Consume(o)
    PROVE  LinksAreSound'
<1> USE DEF LinksAreSound
<1>1. PICK l \in Link : l = opening[o] /\ Limited(l) /\ links[l] # None
  BY DEF Consume, OpenersFit
<1>2. /\ pc[o] = "consume" /\ links' = [links EXCEPT ![l].quantity = @ - 1]
      /\ consumed' = [consumed EXCEPT ![l] = @ + 1] /\ pc' = [pc EXCEPT ![o] = "mint"]
      /\ UNCHANGED <<opening, amount, granted, minted, free>>
  BY <1>1 DEF Consume
<1>3. links[l] \in Row /\ links[l].quantity \in Int /\ granted[l] \in Int /\ consumed[l] \in Nat
  BY <1>1, LimitedRow
<1>4. /\ links'[l] = [links[l] EXCEPT !.quantity = @ - 1]
      /\ \A k \in Link : k # l => links'[k] = links[k] /\ consumed'[k] = consumed[k]
      /\ consumed'[l] = consumed[l] + 1
  BY <1>2 DEF TypeOK
<1>5. links'[l] \in Row /\ links'[l].quantity = links[l].quantity - 1
  BY <1>3, <1>4 DEF Row
<1>6. links'[l] # None /\ links'[l].quantity # None
  BY <1>3, <1>5, RowAssumption, LinkAssumption
<1>7. TypeOK'
  <2>1. links' \in [Link -> Row \cup {None}] /\ consumed' \in [Link -> Nat]
    BY <1>2, <1>3, <1>4, <1>5 DEF TypeOK
  <2>2. pc' \in [Opener -> {"idle", "consume", "mint"}]
        /\ \A p \in Opener : pc'[p] = "idle" <=> pc[p] = "idle"
    BY <1>2 DEF TypeOK
  <2> QED
    BY <1>2, <2>1, <2>2 DEF TypeOK
<1>8. OpenersFit'
  BY <1>2, <1>4, <1>6 DEF OpenersFit, Limited, TypeOK
<1>9. RowsFit'
  BY <1>1, <1>2, <1>4, <1>6 DEF RowsFit, Limited
<1>10. UsesAccountedFor'
  BY <1>1, <1>2, <1>3, <1>4, <1>5 DEF UsesAccountedFor, Limited
<1>11. FreeOnlyWhenExhausted'
  BY <1>1, <1>2, <1>3, <1>4, <1>5 DEF FreeOnlyWhenExhausted, Limited
<1>12. OverdraftCovered'
  <2>1. Consuming(l)' = Consuming(l) \ {o} /\ o \in Consuming(l)
    BY <1>1, <1>2 DEF Consuming, TypeOK
  <2>2. Cardinality(Consuming(l)') = Cardinality(Consuming(l)) - 1
    BY <2>1, ConsumersAreOpeners, FS_RemoveElement
  <2>3. \A k \in Link : k # l => Consuming(k)' = Consuming(k)
    BY <1>1, <1>2 DEF Consuming, TypeOK
  <2> QED
    BY <1>1, <1>2, <1>3, <1>4, <1>5, <2>2, <2>3, ConsumersAreOpeners
    DEF OverdraftCovered, Limited
<1> QED
  BY <1>7, <1>8, <1>9, <1>10, <1>11, <1>12

\* Minting and giving up end an open without touching the row.
LEMMA LeaveKeeps ==
    ASSUME LinksAreSound, NEW o \in Opener, Leave(o), pc[o] # "idle",
           UNCHANGED <<links, granted, consumed, free>>, minted' \in [Link -> Nat]
    PROVE  LinksAreSound'
<1> USE DEF LinksAreSound
<1>1. /\ pc' = [pc EXCEPT ![o] = "idle"] /\ opening' = [opening EXCEPT ![o] = None]
      /\ amount' = [amount EXCEPT ![o] = None]
  BY DEF Leave
<1>2. /\ pc'[o] = "idle" /\ opening'[o] = None /\ amount'[o] = None
      /\ \A p \in Opener : p # o => /\ pc'[p] = pc[p] /\ opening'[p] = opening[p]
                                    /\ amount'[p] = amount[p]
  BY <1>1 DEF TypeOK
<1>3. TypeOK'
  <2>1. /\ pc' \in [Opener -> {"idle", "consume", "mint"}]
        /\ opening' \in [Opener -> Link \cup {None}] /\ amount' \in [Opener -> Int \cup {None}]
    BY <1>1 DEF TypeOK
  <2>2. /\ \A p \in Opener : pc'[p] = "idle" <=> opening'[p] = None /\ amount'[p] = None
        /\ \A p \in Opener : opening'[p] = None <=> amount'[p] = None
    BY <1>2 DEF TypeOK
  <2> QED
    BY <2>1, <2>2 DEF TypeOK
<1>4. OpenersFit' /\ RowsFit' /\ UsesAccountedFor' /\ FreeOnlyWhenExhausted'
  BY <1>2 DEF OpenersFit, RowsFit, UsesAccountedFor, FreeOnlyWhenExhausted, Limited
<1>5. OverdraftCovered'
  <2>1. ASSUME NEW k \in Link, Limited(k), granted[k] > 0
        PROVE  links[k].quantity - Cardinality(Consuming(k)') > -Cardinality(Opener)
    <3>1. Consuming(k)' \subseteq Consuming(k)
      BY <1>2 DEF Consuming
    <3>2. /\ Cardinality(Consuming(k)') <= Cardinality(Consuming(k))
          /\ Cardinality(Consuming(k)') \in Nat /\ Cardinality(Consuming(k)) \in Nat
          /\ Cardinality(Opener) \in Nat
      BY <3>1, ConsumersAreOpeners, FS_Subset, FS_CardinalityType
    <3>3. links[k].quantity \in Int
      BY <2>1, LimitedRow
    <3>4. links[k].quantity - Cardinality(Consuming(k)) > -Cardinality(Opener)
      BY <2>1 DEF OverdraftCovered
    <3> QED
      BY <3>2, <3>3, <3>4
  <2> QED
    BY <2>1 DEF OverdraftCovered, Limited
<1> QED
  BY <1>3, <1>4, <1>5

LEMMA LinksStaySound == LinksAreSound /\ [Next]_vars => LinksAreSound'
<1> SUFFICES ASSUME LinksAreSound, [Next]_vars PROVE LinksAreSound'
  OBVIOUS
<1>1. ASSUME NEW l \in Link, NEW r \in LinkReq, create(l, r) PROVE LinksAreSound'
  BY <1>1, CreateKeeps
<1>2. ASSUME NEW l \in Link, Deactivate(l) PROVE LinksAreSound'
  BY <1>2, DeactivateKeeps
<1>3. ASSUME NEW o \in Opener, NEW l \in Link, NEW offer \in Offer, Open(o, l, offer)
      PROVE  LinksAreSound'
  BY <1>3, OpenKeeps
<1>4. ASSUME NEW o \in Opener, Consume(o) PROVE LinksAreSound'
  BY <1>4, ConsumeKeeps
<1>5. ASSUME NEW o \in Opener, Mint(o) PROVE LinksAreSound'
  <2>1. minted' \in [Link -> Nat]
    BY <1>5 DEF Mint, LinksAreSound, TypeOK
  <2> QED
    BY <1>5, <2>1, LeaveKeeps DEF Mint
<1>6. ASSUME NEW o \in Opener, Abandon(o) PROVE LinksAreSound'
  <2>1. minted' \in [Link -> Nat] /\ UNCHANGED <<granted, consumed, free>>
    BY <1>6 DEF Abandon, history, LinksAreSound, TypeOK
  <2> QED
    BY <1>6, <2>1, LeaveKeeps DEF Abandon
<1>7. CASE UNCHANGED vars
  <2>1. UNCHANGED <<links, pc, opening, amount, granted, consumed, minted, free>>
    BY <1>7 DEF vars, locals, history
  <2>2. TypeOK'
    BY <2>1 DEF LinksAreSound, TypeOK
  <2>3. \A k : Consuming(k)' = Consuming(k)
    BY <2>1 DEF Consuming
  <2> QED
    BY <2>1, <2>2, <2>3 DEF LinksAreSound, OpenersFit, RowsFit, UsesAccountedFor,
       OverdraftCovered, FreeOnlyWhenExhausted, Limited
<1> QED
  BY <1>1, <1>2, <1>3, <1>4, <1>5, <1>6, <1>7 DEF Next

LEMMA SpecIsSound == Spec => []LinksAreSound
BY LinksStart, LinksStaySound, PTL DEF Spec
-----------------------------------------------------------------------------
\* Rows, openers and counters have the values they may have (payment_link.rs:91-125).
THEOREM LinksAreTyped == Spec => []TypeOK
BY SpecIsSound, PTL DEF LinksAreSound

\* No use is consumed twice or forgotten, whatever overlaps (payment_link.rs:111).
THEOREM EveryUseIsAccountedFor == Spec => []UsesAccountedFor
BY SpecIsSound, PTL DEF LinksAreSound

\* A link without a use left never has one again (payment_link.rs:109).
THEOREM FreeOpensAreExhausted == Spec => []FreeOnlyWhenExhausted
BY SpecIsSound, PTL DEF LinksAreSound

\* An overdraft is smaller than the number of openers (payment_link.rs:109-116).
THEOREM OverdraftIsBounded == Spec => []OverdraftBounded
<1>1. LinksAreSound => OverdraftBounded
  <2> SUFFICES ASSUME LinksAreSound, NEW l \in Link, Limited(l), granted[l] > 0
               PROVE  links[l].quantity > -Cardinality(Opener)
    BY DEF OverdraftBounded
  <2>1. links[l].quantity - Cardinality(Consuming(l)) > -Cardinality(Opener)
    BY DEF LinksAreSound, OverdraftCovered
  <2>2. links[l].quantity \in Int
    BY LimitedRow DEF LinksAreSound
  <2> QED
    BY <2>1, <2>2, ConsumersAreOpeners
<1> QED
  BY <1>1, SpecIsSound, PTL
=============================================================================
