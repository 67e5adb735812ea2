------------------------- MODULE MerchantApiProofs --------------------------
(***************************************************************************)
(* Theorems about MerchantApi, for any number of tasks, keys, phones,      *)
(* domains and invoices, any requests and any environments.                *)
(***************************************************************************)
EXTENDS MerchantApi, FoldTheorems, SequenceTheorems

\* Where a request stands fits what it asks for.
PlaceFits(q) ==
    /\ q.revoked => q.stage = "lookup"
    /\ q.stage \in {"lookup", "stamp"} => q.req.op \in Guarded
    /\ q.stage = "stamp" => q.req.credential \in Credential
    /\ q.stage \in {"count", "find", "insert"} =>
         q.req.op = "checkout" /\ IsPositive(q.req.amount)
    /\ q.stage \in {"count", "find"} => q.at \in 1..2 /\ Urls(q.req)[q.at] # None
    /\ q.stage = "admin" => q.req.op \notin Guarded
    /\ q.stage \in {"admin", "item"} /\ q.req.op = "create_invoice" =>
         Total(q.req.items) > 0
    /\ q.stage = "item" => q.req.op = "create_invoice" /\ q.at \in 1..Len(q.req.items)
    /\ q.stage = "reread" => q.req.op = "create_domain"

\* What it found of its rows is still so: a credential stays, and is never active again
\* once revoked; an invoice stays.
RowsFit(t) ==
    LET q == task[t]
    IN  /\ At(t, "item") => invoices[q.req.number] # None
        /\ At(t, "stamp") => credentials[q.req.credential].status # "absent"
        /\ q # None /\ q.revoked /\ q.req.credential \in Credential =>
             credentials[q.req.credential].status = "revoked"

Placed ==
    /\ ApiTypeOK
    /\ \A t \in Task : task[t] # None => PlaceFits(task[t])
    /\ \A t \in Task : RowsFit(t)
-----------------------------------------------------------------------------
(* What is drafted.                                                         *)

LEMMA NothingAddsUpToNothing ==
    ASSUME NEW items, items = <<>> PROVE Total(items) = 0
<1>1. DOMAIN items = {}
  OBVIOUS
<1>2. FoldLeft(LAMBDA sum, i : sum + i.quantity * i.unit_minor, 0, items)
        = MapThenFoldSet(LAMBDA i, sum : sum + i.quantity * i.unit_minor, 0,
                         LAMBDA n : items[n], LAMBDA S : Max(S), DOMAIN items)
  BY DEF FoldLeft
<1>3. FoldLeft(LAMBDA sum, i : sum + i.quantity * i.unit_minor, 0, items) = 0
  BY <1>1, <1>2 DEF MapThenFoldSet
<1>4. Total(items) = Wrap(0)
  BY <1>3, Zenon DEF Total, ItemSum
<1>5. Wrap(0) = 0
  <2>1. \A m \in Nat \ {0} : ((0 + m) % (2 * m)) - m = 0
    OBVIOUS
  <2> QED
    BY <2>1, PowerAssumption DEF Wrap
<1> QED
  BY <1>4, <1>5

\* FoldLeft takes the items from the last.
LEMMA LastFirst ==
    ASSUME NEW n \in Nat, NEW s, s \subseteq 1..n, s # {}
    PROVE  Max(s) \in s
<1>1. s \subseteq 0..n
  OBVIOUS
<1>2. \E x \in s : \A y \in s : y <= x
  BY <1>1, Greatest
<1> QED
  BY <1>2 DEF Max

LEMMA FoldOfItems ==
    ASSUME NEW items \in Seq(LineItem)
    PROVE  ItemSum(items) \in Int
<1> DEFINE I == DOMAIN items
           f == [i \in I |-> items[i].quantity * items[i].unit_minor]
           pick == [s \in SUBSET I |-> Max(s)]
           Adds(g) == [s \in SUBSET I |->
                         IF s = {} THEN 0
                         ELSE g[s \ {Max(s)}] + items[Max(s)].quantity * items[Max(s)].unit_minor]
           total == CHOOSE g : g = Adds(g)
<1>1. /\ Len(items) \in Nat /\ I = 1..Len(items) /\ IsFiniteSet(I)
  <2>1. Len(items) \in Nat /\ I = 1..Len(items)
    BY LenProperties
  <2>2. \A n \in Nat : IsFiniteSet(1..n)
    BY Intervals
  <2> QED
    BY <2>1, <2>2
<1>2. \A s \in SUBSET I : s # {} => Max(s) \in s
  BY <1>1, LastFirst
<1>3. \A i \in I : items[i].quantity * items[i].unit_minor \in Int
  <2>1. \A i \in I : items[i] \in LineItem
    BY <1>1, ElementOfSeq
  <2>2. \A i \in I : items[i].quantity \in Int /\ items[i].unit_minor \in Int
    BY <2>1 DEF LineItem
  <2>3. \A a, b \in Int : a * b \in Int
    OBVIOUS
  <2> QED
    BY <2>2, <2>3
<1>4. FoldLeft(LAMBDA sum, i : sum + i.quantity * i.unit_minor, 0, items)
        = MapThenFoldSet(LAMBDA i, sum : sum + i.quantity * i.unit_minor, 0,
                         LAMBDA n : items[n], LAMBDA S : Max(S), DOMAIN items)
  BY DEF FoldLeft
<1>5. FoldLeft(LAMBDA sum, i : sum + i.quantity * i.unit_minor, 0, items) = total[I]
  BY <1>4 DEF MapThenFoldSet
<1>6. \E g : g = Adds(g) /\ g[I] \in Int
  <2>1. \A i \in I : f[i] \in Int /\ f[i] = items[i].quantity * items[i].unit_minor
    BY <1>3
  <2>2. \A s \in SUBSET I : s # {} => pick[s] \in s /\ pick[s] = Max(s)
    BY <1>2
  <2> HIDE DEF f, pick
  <2>3. PICK g : Sums(g, f, I, pick)
    BY <1>1, <2>1, <2>2, SumsExist
  <2>4. ASSUME NEW s \in SUBSET I
        PROVE  g[s] = IF s = {} THEN 0
                      ELSE g[s \ {Max(s)}] + items[Max(s)].quantity * items[Max(s)].unit_minor
    <3>1. CASE s = {}
      BY <2>3, <3>1 DEF Sums
    <3>2. CASE s # {}
      <4>1. PICK m \in s : m = Max(s) /\ m = pick[s]
        BY <2>2, <3>2
      <4>2. /\ g[s] = f[m] + g[s \ {m}]
            /\ f[m] \in Int /\ g[s \ {m}] \in Int
            /\ f[m] = items[m].quantity * items[m].unit_minor
        BY <2>1, <2>3, <3>2, <4>1 DEF Sums
      <4>3. g[s] = g[s \ {m}] + f[m]
        BY <4>2
      <4> QED
        BY <3>2, <4>1, <4>2, <4>3
    <3> QED
      BY <3>1, <3>2
  <2>5. g \in [SUBSET I -> Int]
    BY <2>3 DEF Sums
  <2>6. g = Adds(g)
    BY <2>4, <2>5
  <2> QED
    BY <2>5, <2>6
<1>7. total = Adds(total)
  <2> HIDE DEF Adds
  <2> QED
    BY <1>6, Zenon
<1>8. \A s \in SUBSET I : total[s] \in Int
  <2> DEFINE bad == {s \in SUBSET I : total[s] \notin Int}
  <2> HIDE DEF total
  <2> SUFFICES ASSUME bad # {} PROVE FALSE
    OBVIOUS
  <2>1. PICK s \in bad : \A x \in s : s \ {x} \notin bad
    BY <1>1, Minimal
  <2>2. total[s] = IF s = {} THEN 0
                 ELSE total[s \ {Max(s)}] + items[Max(s)].quantity * items[Max(s)].unit_minor
    BY <1>7, <2>1
  <2>3. CASE s = {}
    BY <2>1, <2>2, <2>3
  <2>4. CASE s # {}
    <3>1. PICK m \in s : m = Max(s)
      BY <1>2, <2>4
    <3>2. total[s \ {m}] \in Int /\ items[m].quantity * items[m].unit_minor \in Int
      BY <1>3, <2>1, <3>1
    <3>3. total[s] = total[s \ {m}] + items[m].quantity * items[m].unit_minor
      BY <2>2, <2>4, <3>1
    <3> QED
      BY <2>1, <3>2, <3>3
  <2> QED
    BY <2>3, <2>4
<1>9. ItemSum(items) = total[I]
  BY <1>5, Zenon DEF ItemSum
<1> QED
  BY <1>8, <1>9

\* So a total is a number that the integer's width holds.
LEMMA TotalIsNumber ==
    ASSUME NEW r \in Request, r.op = "create_invoice"
    PROVE  /\ Total(r.items) \in Int
           /\ Total(r.items) > 0 => Total(r.items) \in 1..(2 ^ (Width - 1) - 1)
<1>1. PICK n \in Int : n = ItemSum(r.items)
  BY FoldOfItems, RequestAssumption
<1>2. Total(r.items) = Wrap(n)
  BY <1>1, Zenon DEF Total
<1>3. PICK half \in Nat \ {0} : half = 2 ^ (Width - 1) /\ 2 ^ Width = 2 * half
  BY PowerAssumption
<1>4. ((n + half) % (2 * half)) \in 0..(2 * half - 1)
  OBVIOUS
<1>5. Wrap(n) = ((n + half) % (2 * half)) - half
  BY <1>3 DEF Wrap
<1> QED
  BY <1>2, <1>3, <1>4, <1>5
\* Where the integer holds a sum, it is the total.
LEMMA SumsThatFit ==
    ASSUME NEW items \in Seq(LineItem), Fits(ItemSum(items))
    PROVE  Total(items) = ItemSum(items)
<1>1. PICK n \in Int : n = ItemSum(items)
  BY FoldOfItems
<1>2. PICK half \in Nat \ {0} : half = 2 ^ (Width - 1) /\ 2 ^ Width = 2 * half
  BY PowerAssumption
<1>3. n \in -half..(half - 1)
  BY <1>1, <1>2 DEF Fits
<1>4. ((n + half) % (2 * half)) - half = n
  <2>1. n + half \in 0..(2 * half - 1)
    BY <1>3
  <2>2. \A m \in Nat \ {0} : \A k \in 0..(m - 1) : k % m = k
    OBVIOUS
  <2> QED
    BY <1>3, <2>1, <2>2
<1>5. Total(items) = Wrap(n)
  BY <1>1, Zenon DEF Total
<1> QED
  BY <1>1, <1>2, <1>4, <1>5 DEF Wrap
-----------------------------------------------------------------------------
(* How a task moves.                                                        *)

\* Nobody but task t moves.
Alone(t) == \A u \in Task \ {t} : task'[u] = task[u]

LEMMA FreshRequest ==
    ASSUME NEW r, NEW stage
    PROVE  /\ Fresh(r, stage).req = r /\ Fresh(r, stage).stage = stage
           /\ Fresh(r, stage).at = 1
           /\ Fresh(r, stage).login = IF r.op \in Guarded THEN 0 ELSE logins[config.auth_secret]
           /\ Fresh(r, stage).lists = IF r.op \in Noting THEN {Listed} ELSE {}
BY Zenon DEF Fresh

LEMMA FreshRevoked ==
    ASSUME NEW r, NEW stage
    PROVE  Fresh(r, stage).revoked =>
             r.op \in Guarded /\ credentials[r.credential].status = "revoked"
BY Zenon DEF Fresh

LEMMA LoginIsTime == Placed => logins[config.auth_secret] \in 0..Lifetime /\ 0 \in 0..Lifetime
BY ApiAssumption DEF Placed, ApiTypeOK, Secrets

LEMMA Begins ==
    ASSUME Placed, NEW t \in Task, NEW r \in clients[t], NEW stage \in Stages, Begin(t, r, stage)
    PROVE  /\ r \in Request /\ Fresh(r, stage) \in Serving
           /\ task' \in [Task -> Serving \cup {None}]
           /\ task'[t] = Fresh(r, stage) /\ Alone(t) /\ answer' = None
           /\ task'[t].req = r /\ task'[t].stage = stage
           /\ task'[t].login = IF r.op \in Guarded THEN 0 ELSE logins[config.auth_secret]
           /\ task'[t].lists = IF r.op \in Noting THEN {Listed} ELSE {}
           /\ task'[t].revoked => r.op \in Guarded /\ credentials[r.credential].status = "revoked"
<1>1. r \in Request
  BY DEF Placed, ApiTypeOK, Request
<1>2. Fresh(r, stage) \in Serving
  BY <1>1, LoginIsTime DEF Fresh, Serving, Listed
<1>3. /\ task' \in [Task -> Serving \cup {None}]
      /\ task'[t] = Fresh(r, stage) /\ Alone(t) /\ answer' = None
  BY <1>1, <1>2 DEF Begin, Placed, ApiTypeOK, Alone, NoReply
<1>4. task'[t].revoked => r.op \in Guarded /\ credentials[r.credential].status = "revoked"
  <2>1. task'[t].revoked = Fresh(r, stage).revoked
    BY <1>3
  <2> QED
    BY <2>1, FreshRevoked, Zenon
<1>5. /\ task'[t].req = r /\ task'[t].stage = stage
      /\ task'[t].login = IF r.op \in Guarded THEN 0 ELSE logins[config.auth_secret]
      /\ task'[t].lists = IF r.op \in Noting THEN {Listed} ELSE {}
  <2>1. /\ task'[t].req = Fresh(r, stage).req /\ task'[t].stage = Fresh(r, stage).stage
        /\ task'[t].login = Fresh(r, stage).login /\ task'[t].lists = Fresh(r, stage).lists
    BY <1>3, Zenon
  <2>2. Fresh(r, stage).req = r /\ Fresh(r, stage).stage = stage
    BY Zenon DEF Fresh
  <2>3. Fresh(r, stage).login = IF r.op \in Guarded THEN 0 ELSE logins[config.auth_secret]
    BY Zenon DEF Fresh
  <2>4. Fresh(r, stage).lists = IF r.op \in Noting THEN {Listed} ELSE {}
    BY Zenon DEF Fresh
  <2> QED
    BY <2>1, <2>2, <2>3, <2>4
<1> QED
  BY <1>1, <1>2, <1>3, <1>4, <1>5, Zenon

LEMMA Moves ==
    ASSUME Placed, NEW t \in Task, task[t] # None, NEW stage \in Stages, NEW n \in Nat,
           Move(t, stage, n)
    PROVE  /\ task' \in [Task -> Serving \cup {None}]
           /\ task'[t].stage = stage /\ task'[t].at = n
           /\ task'[t].req = task[t].req /\ (task'[t].revoked => task[t].revoked)
           /\ task'[t].lists = task[t].lists /\ task'[t] # None
           /\ task'[t].login = task[t].login
           /\ Alone(t) /\ answer' = None
<1>1. task[t] \in Serving /\ task \in [Task -> Serving \cup {None}]
  BY DEF Placed, ApiTypeOK
<1>2. [task[t] EXCEPT !.stage = stage, !.at = n] \in Serving
  BY <1>1 DEF Serving
<1>3. task' = [task EXCEPT ![t] = [task[t] EXCEPT !.stage = stage, !.at = n]]
  BY <1>1 DEF Move
<1>4. PICK q \in Serving : q = [task[t] EXCEPT !.stage = stage, !.at = n]
  BY <1>2
<1>5. /\ q.stage = stage /\ q.at = n /\ q.req = task[t].req
      /\ q.lists = task[t].lists /\ q # None /\ q.login = task[t].login
  BY <1>1, <1>4, NothingIsNoRow DEF Serving
<1>7. q.revoked => task[t].revoked
  <2>1. q.revoked = task[t].revoked
    BY <1>1, <1>4 DEF Serving
  <2> QED
    BY <2>1, Zenon
<1>6. /\ task' \in [Task -> Serving \cup {None}] /\ task'[t] = q /\ Alone(t)
  BY <1>1, <1>3, <1>4 DEF Alone
<1> QED
  BY <1>4, <1>5, <1>6, <1>7 DEF Move, NoReply

LEMMA UnrevokedMoves ==
    ASSUME Placed, NEW t \in Task, task[t] # None, NEW stage \in Stages, NEW n \in Nat,
           Move(t, stage, n), ~task[t].revoked
    PROVE  /\ task' \in [Task -> Serving \cup {None}] /\ Alone(t) /\ answer' = None
           /\ task'[t].stage = stage /\ task'[t].at = n /\ task'[t].req = task[t].req
           /\ ~task'[t].revoked
<1>1. /\ task' \in [Task -> Serving \cup {None}] /\ Alone(t) /\ answer' = None
      /\ task'[t].stage = stage /\ task'[t].at = n /\ task'[t].req = task[t].req
      /\ task'[t].revoked => task[t].revoked
  BY Moves, ZenonT(30)
<1> QED
  BY <1>1, ZenonT(30)

Codes == {200, 201, 204, 401, 404, 422, 500}

LEMMA Finishes ==
    ASSUME Placed, NEW t \in Task, task[t] # None, NEW code \in Codes, Finish(t, code)
    PROVE  /\ task' \in [Task -> Serving \cup {None}]
           /\ task'[t] = None /\ Alone(t)
           /\ answer' = [by |-> t, req |-> task[t].req, code |-> code,
                         revoked |-> task[t].revoked, lists |-> task[t].lists]
           /\ answer' \in Answer
<1>1. task[t] \in Serving /\ task \in [Task -> Serving \cup {None}]
  BY DEF Placed, ApiTypeOK
<1> QED
  BY <1>1 DEF Finish, Reply, Alone, Answer, Serving, Codes

LEMMA Dismisses ==
    ASSUME Placed, NEW t \in Task, NEW r \in clients[t], NEW code \in Codes, Dismiss(t, r, code)
    PROVE  /\ UNCHANGED task /\ answer' \in Answer
           /\ answer' = [by |-> t, req |-> r, code |-> code, lists |-> Fresh(r, "admin").lists,
                         revoked |-> Fresh(r, "admin").revoked]
<1>1. r \in Request
  BY DEF Placed, ApiTypeOK, Request
<1>2. Fresh(r, "admin") \in Serving
  BY <1>1, LoginIsTime DEF Fresh, Serving, Listed, Stages
<1> QED
  BY <1>2 DEF Dismiss, Reply, Answer, Serving, Codes, Fresh

\* From one URL a checkout goes on to the next there is, or to the INSERT.
LEMMA Checks ==
    ASSUME NEW t \in Task, NEW n \in 1..3, Check(t, n)
    PROVE  LET urls == Urls(task[t].req)
           IN  \/ Move(t, "insert", 1) /\ \A m \in n..2 : urls[m] = None
               \/ \E m \in n..2 : /\ Move(t, "count", m) /\ urls[m] # None
                                  /\ \A k \in n..(m - 1) : urls[k] = None
<1> DEFINE urls == Urls(task[t].req)
           left == {m \in n..2 : urls[m] # None}
<1>1. CASE left = {}
  BY <1>1 DEF Check
<1>2. CASE left # {}
  <2> DEFINE first == CHOOSE m \in left : \A k \in left : m <= k
  <2>1. \E m \in left : \A k \in left : m <= k
    <3>1. left \subseteq 1..2
      OBVIOUS
    <3>2. CASE 1 \in left
      BY <3>1, <3>2
    <3>3. CASE 1 \notin left
      BY <1>2, <3>1, <3>3
    <3> QED
      BY <3>2, <3>3
  <2>2. first \in left /\ \A k \in left : first <= k
    BY <2>1
  <2>3. Move(t, "count", first)
    BY <1>2 DEF Check
  <2> HIDE DEF first
  <2>4. \A k \in n..(first - 1) : urls[k] = None
    BY <2>2
  <2> QED
    BY <2>2, <2>3, <2>4
<1> QED
  BY <1>1, <1>2
-----------------------------------------------------------------------------
(* Types and places.                                                        *)

LEMMA PlacedInit == Init => Placed
<1> SUFFICES ASSUME Init PROVE Placed
  OBVIOUS
<1>1. \A t \in Task : task[t] = None
  BY DEF Init
<1> QED
  BY <1>1, ApiAssumption DEF Init, Placed, ApiTypeOK, At, Scope, RowsFit

\* What is to be shown of the tasks that have moved.
LEMMA AllPlaced ==
    ASSUME Placed, task' \in [Task -> Serving \cup {None}],
           \A u \in Task : \/ task'[u] = task[u] \/ task'[u] = None
                           \/ PlaceFits(task'[u]) /\ RowsFit(u)',
           \A c \in Credential :
              /\ credentials[c].status # "absent" => credentials'[c].status # "absent"
              /\ credentials[c].status = "revoked" => credentials'[c].status = "revoked",
           \A n \in Numbers : invoices[n] # None => invoices'[n] # None,
           /\ clients' \in Clients /\ config' \in Config /\ session' \in Token \cup {None}
           /\ logins' \in [Secrets -> 0..Lifetime]
           /\ credentials' \in [Credential -> [status : {"absent", "active", "revoked"},
                                               scopes : SUBSET Scope, used : BOOLEAN]]
           /\ \A c \in Credential : credentials'[c].used => credentials'[c].status # "absent"
           /\ allowed_domains' \in [Domains -> Task \cup {None}]
           /\ invoices' \in [Numbers -> Invoice \cup {None}]
           /\ answer' \in Answer \cup {None} /\ faults' \in 0..MaxFaults
           /\ cut' \subseteq Numbers
    PROVE  Placed'
<1>1. ApiTypeOK'
  BY DEF ApiTypeOK
<1>2. ASSUME NEW u \in Task
      PROVE  RowsFit(u)' /\ (task'[u] # None => PlaceFits(task'[u]))
  <2>1. CASE task'[u] = None
    BY <2>1 DEF RowsFit, At
  <2>2. CASE PlaceFits(task'[u]) /\ RowsFit(u)'
    BY <2>2
  <2>3. CASE task'[u] = task[u]
    <3>1. /\ RowsFit(u) /\ (task[u] # None => PlaceFits(task[u]))
          /\ task[u] # None => task[u] \in Serving
      BY DEF Placed, ApiTypeOK
    <3>2. /\ At(u, "stamp") => task[u].req.credential \in Credential
          /\ At(u, "item") => task[u].req.number \in Numbers
      BY <3>1 DEF At, PlaceFits, Serving, Numbers
    <3>3. RowsFit(u)'
      BY <2>3, <3>1, <3>2 DEF At, RowsFit
    <3> QED
      BY <2>3, <3>1, <3>3
  <2> QED
    BY <2>1, <2>2, <2>3
<1> QED
  BY <1>1, <1>2 DEF Placed, PlaceFits

\* What is to be shown when task t has moved.
LEMMA OneIsPlaced ==
    ASSUME Placed, NEW t \in Task, Alone(t), task' \in [Task -> Serving \cup {None}],
           task'[t] = None \/ PlaceFits(task'[t]),
           \A c \in Credential :
              /\ credentials[c].status # "absent" => credentials'[c].status # "absent"
              /\ credentials[c].status = "revoked" => credentials'[c].status = "revoked",
           \A n \in Numbers : invoices[n] # None => invoices'[n] # None,
           RowsFit(t)',
           /\ clients' \in Clients /\ config' \in Config /\ session' \in Token \cup {None}
           /\ logins' \in [Secrets -> 0..Lifetime]
           /\ credentials' \in [Credential -> [status : {"absent", "active", "revoked"},
                                               scopes : SUBSET Scope, used : BOOLEAN]]
           /\ \A c \in Credential : credentials'[c].used => credentials'[c].status # "absent"
           /\ allowed_domains' \in [Domains -> Task \cup {None}]
           /\ invoices' \in [Numbers -> Invoice \cup {None}]
           /\ answer' \in Answer \cup {None} /\ faults' \in 0..MaxFaults
           /\ cut' \subseteq Numbers
    PROVE  Placed'
<1>1. \A u \in Task : \/ task'[u] = task[u] \/ task'[u] = None
                      \/ PlaceFits(task'[u]) /\ RowsFit(u)'
  BY DEF Alone
<1> QED
  BY <1>1, AllPlaced

\* Where only the request's own task and its answer change.
LEMMA QuietlyPlaced ==
    ASSUME Placed, NEW t \in Task, Alone(t), task' \in [Task -> Serving \cup {None}],
           task'[t] = None \/ PlaceFits(task'[t]),
           RowsFit(t)',
           UNCHANGED <<console, tables, faults, cut>>, answer' \in Answer \cup {None}
    PROVE  Placed'
<1>1. UNCHANGED <<clients, config, session, logins, credentials, allowed_domains, invoices, faults, cut>>
  BY DEF console, tables
<1>2. ApiTypeOK
  BY DEF Placed
<1> QED
  BY <1>1, <1>2, OneIsPlaced DEF ApiTypeOK

LEMMA ArrivePlaced ==
    ASSUME Placed, NEW t \in Task, task[t] = None, NEW r \in clients[t], Arrive(t, r)
    PROVE  Placed'
<1>1. UNCHANGED task => Alone(t) /\ task' \in [Task -> Serving \cup {None}]
  BY DEF Alone, Placed, ApiTypeOK
<1>2. CASE login(t, r)
  <2>1. /\ UNCHANGED <<clients, config, credentials, allowed_domains, invoices, faults, cut>>
        /\ session' \in {session, issue_token}
        /\ logins' \in {logins, [logins EXCEPT ![config.auth_secret] = Lifetime]}
    BY <1>2 DEF login, tables
  <2>2. \E code \in Codes : Dismiss(t, r, code)
    BY <1>2 DEF login, Codes
  <2>3. UNCHANGED task /\ answer' \in Answer
    BY <2>2, Dismisses
  <2>4. issue_token \in Token /\ config \in Config
    BY ApiAssumption DEF issue_token, Token, Secrets, Placed, ApiTypeOK
  <2>7. logins' \in [Secrets -> 0..Lifetime]
    BY <2>1, ApiAssumption DEF Placed, ApiTypeOK
  <2>5. RowsFit(t)' /\ task'[t] = None
    BY <2>3 DEF At, RowsFit
  <2>6. ApiTypeOK
    BY DEF Placed
  <2> QED
    BY <1>1, <2>1, <2>3, <2>4, <2>5, <2>6, <2>7, OneIsPlaced DEF ApiTypeOK
<1>3. CASE Call(t, r)
  <2>1. Begin(t, r, "lookup") /\ r.op \in Guarded /\ UNCHANGED <<console, tables, faults, cut>>
    BY <1>3 DEF Call
  <2>2. /\ task' \in [Task -> Serving \cup {None}]
        /\ Alone(t) /\ answer' = None
    BY <2>1, Begins DEF Stages
  <2>3. /\ task'[t].req = r /\ task'[t].stage = "lookup"
        /\ task'[t].revoked => credentials[r.credential].status = "revoked"
    BY <2>1, Begins DEF Stages
  <2>4. PlaceFits(task'[t]) /\ RowsFit(t)'
    BY <2>1, <2>3 DEF PlaceFits, RowsFit, At, tables
  <2> QED
    BY <2>1, <2>2, <2>4, QuietlyPlaced
<1>4. ASSUME r.op \notin Guarded, r.op = "create_invoice" => Total(r.items) > 0,
             Begin(t, r, "admin"), UNCHANGED <<console, tables, faults, cut>>
      PROVE  Placed'
  <2>1. /\ task' \in [Task -> Serving \cup {None}]
        /\ task'[t] = Fresh(r, "admin") /\ Alone(t) /\ answer' = None
    BY <1>4, Begins DEF Stages
  <2>2. PlaceFits(task'[t]) /\ RowsFit(t)'
    <3>1. task'[t].req = r /\ task'[t].stage = "admin" /\ ~task'[t].revoked
      BY <1>4, Begins DEF Stages
    <3> QED
      BY <1>4, <3>1 DEF PlaceFits, At, RowsFit
  <2> QED
    BY <1>4, <2>1, <2>2, QuietlyPlaced
<1>5. ASSUME \E code \in Codes : Dismiss(t, r, code), UNCHANGED <<console, tables, faults, cut>>
      PROVE  Placed'
  <2>1. UNCHANGED task /\ answer' \in Answer
    BY <1>5, Dismisses
  <2>2. RowsFit(t)' /\ task'[t] = None
    BY <2>1 DEF At, RowsFit
  <2> QED
    BY <1>1, <1>5, <2>1, <2>2, QuietlyPlaced
<1>6. CASE Administer(t, r)
  <2>1. r.op \notin Guarded /\ r.op # "create_invoice" /\ UNCHANGED <<console, tables, faults, cut>>
    BY <1>6 DEF Administer, Guarded
  <2>2. Begin(t, r, "admin") \/ \E code \in Codes : Dismiss(t, r, code)
    BY <1>6 DEF Administer, Codes
  <2> QED
    BY <1>4, <1>5, <2>1, <2>2
<1>7. CASE Draft(t, r)
  <2>1. r.op \notin Guarded /\ UNCHANGED <<console, tables, faults, cut>>
    BY <1>7 DEF Draft, Guarded
  <2>2. \/ Begin(t, r, "admin") /\ ~(Total(r.items) <= 0)
        \/ \E code \in Codes : Dismiss(t, r, code)
    BY <1>7 DEF Draft, Codes
  <2>3. r.op = "create_invoice" /\ r \in Request
    BY <1>7 DEF Draft, Placed, ApiTypeOK, Request
  <2>4. Total(r.items) \in Int
    BY <2>3, TotalIsNumber
  <2> QED
    BY <1>4, <1>5, <2>1, <2>2, <2>4
<1> QED
  BY <1>2, <1>3, <1>6, <1>7 DEF Arrive

\* A request at a place that is all right goes on to another.
LEMMA MovedFits ==
    ASSUME Placed, NEW t \in Task, task[t] # None, NEW stage \in Stages, NEW n \in Nat,
           Move(t, stage, n), ~task[t].revoked, UNCHANGED <<console, tables, faults, cut>>,
           stage \notin {"stamp", "item"},
           \A q : q.stage = stage /\ q.at = n /\ q.req = task[t].req /\ ~q.revoked => PlaceFits(q)
    PROVE  Placed'
<1>1. /\ task' \in [Task -> Serving \cup {None}] /\ Alone(t) /\ answer' = None
      /\ task'[t].stage = stage /\ task'[t].at = n /\ task'[t].req = task[t].req
      /\ ~task'[t].revoked
  BY UnrevokedMoves, ZenonT(30)
<1>2. PlaceFits(task'[t]) /\ RowsFit(t)'
  BY <1>1 DEF At, RowsFit
<1> QED
  BY <1>1, <1>2, QuietlyPlaced

LEMMA FinishedFits ==
    ASSUME Placed, NEW t \in Task, task[t] # None, NEW code \in Codes, Finish(t, code),
           UNCHANGED <<console, tables, faults, cut>>
    PROVE  Placed'
<1>1. /\ task' \in [Task -> Serving \cup {None}] /\ Alone(t) /\ answer' \in Answer
      /\ task'[t] = None /\ RowsFit(t)'
  BY Finishes DEF At, RowsFit
<1> QED
  BY <1>1, QuietlyPlaced

\* A checkout that has come to its URLs stays among them until the INSERT.
LEMMA CheckFits ==
    ASSUME Placed, NEW t \in Task, task[t] # None, NEW n \in 1..3, Check(t, n),
           ~task[t].revoked, task[t].req.op = "checkout", IsPositive(task[t].req.amount)
    PROVE  /\ task' \in [Task -> Serving \cup {None}] /\ Alone(t) /\ answer' = None
           /\ PlaceFits(task'[t]) /\ RowsFit(t)'
<1>1. CASE Move(t, "insert", 1)
  <2>1. /\ task' \in [Task -> Serving \cup {None}] /\ Alone(t) /\ answer' = None
        /\ task'[t].stage = "insert" /\ task'[t].req = task[t].req /\ ~task'[t].revoked
    BY <1>1, Moves DEF Stages
  <2> QED
    BY <2>1 DEF PlaceFits, At, RowsFit
<1>2. ASSUME NEW m \in n..2, Move(t, "count", m), Urls(task[t].req)[m] # None
      PROVE  /\ task' \in [Task -> Serving \cup {None}] /\ Alone(t) /\ answer' = None
             /\ PlaceFits(task'[t]) /\ RowsFit(t)'
  <2>0. m \in Nat /\ "count" \in Stages
    BY DEF Stages
  <2>1. /\ task' \in [Task -> Serving \cup {None}] /\ Alone(t) /\ answer' = None
        /\ task'[t].stage = "count" /\ task'[t].req = task[t].req /\ ~task'[t].revoked
        /\ task'[t].at = m
    <3>1. /\ task' \in [Task -> Serving \cup {None}] /\ Alone(t) /\ answer' = None
          /\ task'[t].stage = "count" /\ task'[t].req = task[t].req
          /\ task'[t].at = m
      BY <1>2, <2>0, Moves
    <3>2. task'[t].revoked => task[t].revoked
      BY <1>2, <2>0, Moves, Zenon
    <3> QED
      BY <3>1, <3>2
  <2> QED
    BY <1>2, <2>1 DEF PlaceFits, At, RowsFit
<1> QED
  BY <1>1, <1>2, Checks

LEMMA ReadingPlaced ==
    ASSUME Placed, NEW t \in Task,
           LookUp(t) \/ Count(t) \/ Find(t) \/ Insert(t) \/ Reread(t)
    PROVE  Placed'
<1> DEFINE q == task[t]
<1>1. q # None /\ PlaceFits(q) /\ q \in Serving /\ UNCHANGED <<console, tables, faults, cut>>
  BY DEF LookUp, Count, Find, Insert, Reread, At, Placed, ApiTypeOK
<1>2. ASSUME \E code \in Codes : Finish(t, code) PROVE Placed'
  BY <1>1, <1>2, FinishedFits
<1>3. ASSUME q.stage \in {"count", "find"}, Check(t, q.at + 1) PROVE Placed'
  <2>1. /\ q.at + 1 \in 1..3 /\ ~q.revoked /\ q.req.op = "checkout" /\ IsPositive(q.req.amount)
    BY <1>1, <1>3 DEF PlaceFits
  <2> QED
    BY <1>1, <1>3, <2>1, CheckFits, QuietlyPlaced
<1>4. CASE LookUp(t)
  <2>1. CASE Accepts(q.req) /\ Move(t, "stamp", 1)
    <3>1. /\ task' \in [Task -> Serving \cup {None}] /\ Alone(t) /\ answer' = None
          /\ task'[t].stage = "stamp" /\ task'[t].req = q.req
          /\ (task'[t].revoked => q.revoked)
      BY <1>1, <2>1, Moves DEF Stages
    <3>2. q.req.op \in Guarded
      BY <1>1, <1>4 DEF LookUp, At, PlaceFits
    <3>3. /\ q.req.credential \in Credential /\ credentials[q.req.credential].status = "active"
      BY <2>1 DEF Accepts, Table, Credential
    <3>4. ~q.revoked
      BY <1>1, <3>3 DEF RowsFit, Placed
    <3>5. PlaceFits(task'[t]) /\ RowsFit(t)'
      BY <1>1, <3>1, <3>2, <3>3, <3>4 DEF PlaceFits, RowsFit, At, tables
    <3> QED
      BY <1>1, <3>1, <3>5, QuietlyPlaced
  <2> QED
    BY <1>2, <1>4, <2>1 DEF LookUp, Codes
<1>5. CASE Count(t)
  <2>1. q.stage = "count" /\ q.at \in Nat
    BY <1>1, <1>5 DEF Count, At, Serving
  <2>2. CASE Move(t, "find", q.at)
    <3>1. ~q.revoked /\ q.req.op = "checkout" /\ IsPositive(q.req.amount)
          /\ q.at \in 1..2 /\ Urls(q.req)[q.at] # None
      BY <1>1, <2>1 DEF PlaceFits
    <3>2. ASSUME NEW p, p.stage = "find", p.at = q.at, p.req = q.req, ~p.revoked
          PROVE  PlaceFits(p)
      BY <3>1, <3>2 DEF PlaceFits
    <3>3. "find" \in Stages
      BY DEF Stages
    <3> QED
      BY <1>1, <2>1, <2>2, <3>1, <3>2, <3>3, MovedFits
  <2> QED
    BY <1>2, <1>3, <1>5, <2>1, <2>2 DEF Count, Codes
<1>6. CASE Find(t)
  BY <1>1, <1>2, <1>3, <1>6 DEF Find, At, Codes
<1>7. CASE Insert(t) \/ Reread(t)
  BY <1>2, <1>7 DEF Insert, Reread, Codes
<1> QED
  BY <1>4, <1>5, <1>6, <1>7

\* A statement on a row of api_keys or devices.
LEMMA CredentialsPlaced ==
    ASSUME Placed, NEW t \in Task,
           \/ Stamp(t) \/ revoke_api_key(t)
           \/ \E c \in ApiKey : create_api_key(t, c)
           \/ \E c \in Device : pair_device(t, c)
    PROVE  Placed'
<1> DEFINE q == task[t]
           Rows == [status : {"absent", "active", "revoked"}, scopes : SUBSET Scope, used : BOOLEAN]
<1>1. q # None /\ PlaceFits(q) /\ q \in Serving /\ RowsFit(t)
      /\ UNCHANGED <<clients, config, session, logins, allowed_domains, invoices, faults, cut>>
  BY DEF Stamp, revoke_api_key, create_api_key, pair_device, InsertCredential, Does, At, Placed,
         ApiTypeOK, console
<1>2. /\ credentials \in [Credential -> Rows]
      /\ \A c \in Credential : credentials[c].used => credentials[c].status # "absent"
  BY DEF Placed, ApiTypeOK
<1>3. ASSUME NEW c \in Credential, NEW row \in Rows,
             credentials' = [credentials EXCEPT ![c] = row],
             row.used => row.status # "absent",
             credentials[c].status # "absent" => row.status # "absent",
             credentials[c].status = "revoked" => row.status = "revoked",
             task' \in [Task -> Serving \cup {None}], Alone(t), answer' \in Answer \cup {None},
             task'[t] = None \/ PlaceFits(task'[t]), RowsFit(t)'
      PROVE  Placed'
  <2>1. credentials' \in [Credential -> Rows]
    BY <1>2, <1>3
  <2>2. \A d \in Credential : d # c => credentials'[d] = credentials[d]
    BY <1>2, <1>3
  <2>3. credentials'[c] = row
    BY <1>2, <1>3
  <2>4. \A d \in Credential : credentials'[d].used => credentials'[d].status # "absent"
    BY <1>2, <1>3, <2>2, <2>3
  <2>5. \A d \in Credential :
           /\ credentials[d].status # "absent" => credentials'[d].status # "absent"
           /\ credentials[d].status = "revoked" => credentials'[d].status = "revoked"
    BY <1>3, <2>2, <2>3
  <2>6. ApiTypeOK
    BY DEF Placed
  <2> QED
    BY <1>1, <1>3, <2>1, <2>4, <2>5, <2>6, OneIsPlaced DEF ApiTypeOK
<1>4. ASSUME NEW code \in Codes, Finish(t, code)
      PROVE  /\ task' \in [Task -> Serving \cup {None}] /\ Alone(t) /\ answer' \in Answer
             /\ task'[t] = None /\ RowsFit(t)'
  BY <1>1, <1>4, Finishes DEF At, RowsFit
<1>5. CASE Stamp(t)
  <2> DEFINE c == q.req.credential
  <2>1. PICK row : row = [credentials[c] EXCEPT !.used = TRUE]
    OBVIOUS
  <2>2. c \in Credential /\ credentials[c].status # "absent"
    BY <1>1, <1>5 DEF Stamp, At, PlaceFits, RowsFit
  <2>3. row \in Rows /\ row.status = credentials[c].status
    BY <1>2, <2>1, <2>2
  <2>4. credentials' = [credentials EXCEPT ![c] = row]
    BY <1>2, <1>5, <2>1, <2>2 DEF Stamp
  <2>5. CASE q.req.op = "checkout" /\ IsPositive(q.req.amount) /\ Check(t, 1)
    <3>1. ~q.revoked
      BY <1>1, <1>5 DEF Stamp, At, PlaceFits
    <3>2. /\ task' \in [Task -> Serving \cup {None}] /\ Alone(t) /\ answer' = None
          /\ PlaceFits(task'[t]) /\ RowsFit(t)'
      BY <1>1, <2>5, <3>1, CheckFits
    <3> QED
      BY <1>3, <2>2, <2>3, <2>4, <3>2
  <2>6. CASE \E code \in Codes : Finish(t, code)
    BY <1>3, <1>4, <2>2, <2>3, <2>4, <2>6
  <2> QED
    BY <1>5, <2>5, <2>6 DEF Stamp, Serve, Codes
<1>6. CASE revoke_api_key(t)
  <2> DEFINE c == q.req.credential
  <2>1. PICK row : row = [credentials[c] EXCEPT !.status = "revoked"]
    OBVIOUS
  <2>2. c \in Credential
    BY <1>1, <1>6, RequestAssumption DEF revoke_api_key, Does, Serving, Credential
  <2>3. row \in Rows /\ row.status = "revoked"
    BY <1>2, <2>1, <2>2
  <2>4. \E code \in Codes : Finish(t, code)
    BY <1>6 DEF revoke_api_key, Codes
  <2>5. CASE UNCHANGED credentials
    <3>1. [credentials EXCEPT ![c] = credentials[c]] = credentials /\ credentials[c] \in Rows
      BY <1>2, <2>2
    <3> QED
      BY <1>2, <1>3, <1>4, <2>2, <2>4, <2>5, <3>1
  <2>6. CASE credentials' = [credentials EXCEPT ![c].status = "revoked"]
    <3>1. credentials' = [credentials EXCEPT ![c] = row]
      BY <1>2, <2>1, <2>2, <2>6
    <3> QED
      BY <1>3, <1>4, <2>2, <2>3, <2>4, <3>1
  <2> QED
    BY <1>6, <2>5, <2>6 DEF revoke_api_key
<1>7. ASSUME NEW c \in Credential, NEW scopes \in SUBSET Scope, InsertCredential(c, scopes),
             \E code \in Codes : Finish(t, code)
      PROVE  Placed'
  <2>1. PICK row : row = [credentials[c] EXCEPT !.status = "active", !.scopes = scopes]
    OBVIOUS
  <2>2. row \in Rows /\ row.status = "active"
    BY <1>2, <2>1
  <2>3. credentials' = [credentials EXCEPT ![c] = row] /\ credentials[c].status = "absent"
    BY <1>2, <1>7, <2>1 DEF InsertCredential
  <2> QED
    BY <1>3, <1>4, <1>7, <2>2, <2>3
<1>8. ASSUME NEW c \in ApiKey, create_api_key(t, c) PROVE Placed'
  <2>1. q.req.scopes \subseteq Scope
    BY <1>1, <1>8, RequestAssumption DEF create_api_key, Does, Serving
  <2> QED
    BY <1>7, <1>8, <2>1 DEF create_api_key, Credential, Codes
<1>9. ASSUME NEW c \in Device, pair_device(t, c) PROVE Placed'
  BY <1>7, <1>9 DEF pair_device, Credential, Codes
<1> QED
  BY <1>5, <1>6, <1>8, <1>9

\* The list changes, and with it what every request has noted.
LEMMA Relists ==
    ASSUME Placed, NEW d \in Domains, NEW owner \in Task \cup {None},
           NEW tasks \in [Task -> Serving \cup {None}], Relist(d, owner, tasks)
    PROVE  /\ allowed_domains' \in [Domains -> Task \cup {None}]
           /\ allowed_domains' = [allowed_domains EXCEPT ![d] = owner]
           /\ Listed' = IF owner = None THEN Listed \ {d} ELSE Listed \cup {d}
           /\ task' \in [Task -> Serving \cup {None}]
           /\ \A u \in Task :
                 IF tasks[u] # None /\ tasks[u].req.op \in Noting
                 THEN /\ task'[u] # None
                      /\ task'[u].req = tasks[u].req /\ task'[u].stage = tasks[u].stage
                      /\ task'[u].at = tasks[u].at /\ task'[u].login = tasks[u].login
                      /\ (task'[u].revoked => tasks[u].revoked)
                      /\ task'[u].lists = tasks[u].lists \cup {Listed'}
                 ELSE task'[u] = tasks[u]
<1>1. /\ allowed_domains' = [allowed_domains EXCEPT ![d] = owner]
      /\ allowed_domains \in [Domains -> Task \cup {None}]
  BY DEF Relist, Placed, ApiTypeOK
<1>2. Listed' = IF owner = None THEN Listed \ {d} ELSE Listed \cup {d}
  BY <1>1 DEF Listed
<1>3. PICK list : list = Listed'
  OBVIOUS
<1>4. list \subseteq Domains
  BY <1>3 DEF Listed
<1>5. task' = [u \in Task |->
                 IF tasks[u] # None /\ tasks[u].req.op \in Noting
                 THEN [tasks[u] EXCEPT !.lists = @ \cup {list}]
                 ELSE tasks[u]]
  BY <1>2, <1>3 DEF Relist
<1>6. ASSUME NEW u \in Task, tasks[u] # None, tasks[u].req.op \in Noting
      PROVE  /\ task'[u] \in Serving
             /\ task'[u].req = tasks[u].req /\ task'[u].stage = tasks[u].stage
             /\ task'[u].at = tasks[u].at /\ task'[u].login = tasks[u].login
             /\ (task'[u].revoked => tasks[u].revoked)
             /\ task'[u].lists = tasks[u].lists \cup {list}
  <2>1. task'[u] = [tasks[u] EXCEPT !.lists = @ \cup {list}] /\ tasks[u] \in Serving
    BY <1>5, <1>6
  <2>2. /\ task'[u] \in Serving
        /\ task'[u].req = tasks[u].req /\ task'[u].stage = tasks[u].stage
        /\ task'[u].at = tasks[u].at /\ task'[u].login = tasks[u].login
        /\ task'[u].revoked = tasks[u].revoked
        /\ task'[u].lists = tasks[u].lists \cup {list}
    BY <1>4, <2>1 DEF Serving
  <2>3. task'[u].revoked => tasks[u].revoked
    BY <2>2, Zenon
  <2> QED
    BY <2>2, <2>3
<1>7. ASSUME NEW u \in Task, ~(tasks[u] # None /\ tasks[u].req.op \in Noting)
      PROVE  task'[u] = tasks[u]
  BY <1>5, <1>7
<1>8. task' \in [Task -> Serving \cup {None}]
  BY <1>5, <1>6, <1>7
<1> QED
  BY <1>1, <1>2, <1>3, <1>6, <1>7, <1>8, NothingIsNoRow

LEMMA RelistedTasks ==
    ASSUME Placed, NEW d \in Domains, NEW owner \in Task \cup {None},
           NEW tasks \in [Task -> Serving \cup {None}], Relist(d, owner, tasks)
    PROVE  /\ allowed_domains' \in [Domains -> Task \cup {None}]
           /\ task' \in [Task -> Serving \cup {None}]
           /\ \A u \in Task :
                 \/ task'[u] = tasks[u]
                 \/ /\ tasks[u] # None
                    /\ task'[u].req = tasks[u].req /\ task'[u].stage = tasks[u].stage
                    /\ task'[u].at = tasks[u].at
                    /\ (task'[u].revoked => tasks[u].revoked)
<1>1. /\ allowed_domains' \in [Domains -> Task \cup {None}]
      /\ task' \in [Task -> Serving \cup {None}]
  BY Relists
<1>2. ASSUME NEW u \in Task
      PROVE  \/ task'[u] = tasks[u]
             \/ /\ tasks[u] # None
                /\ task'[u].req = tasks[u].req /\ task'[u].stage = tasks[u].stage
                /\ task'[u].at = tasks[u].at
                /\ (task'[u].revoked => tasks[u].revoked)
  BY Relists, ZenonT(30)
<1> QED
  BY <1>1, <1>2

LEMMA DomainsPlaced ==
    ASSUME Placed, NEW t \in Task, create_domain(t) \/ delete_domain(t)
    PROVE  Placed'
<1> DEFINE q == task[t]
           d == q.req.domain
<1>1. /\ q # None /\ PlaceFits(q) /\ q \in Serving /\ q.stage = "admin" /\ ~q.revoked
      /\ q.req.op \in {"create_domain", "delete_domain"} /\ d \in Domains
      /\ task \in [Task -> Serving \cup {None}]
      /\ UNCHANGED <<clients, config, session, logins, credentials, invoices, faults, cut>>
  BY DEF create_domain, delete_domain, Does, At, Placed, ApiTypeOK, PlaceFits, Serving, Domains,
         console
<1>2. CASE UNCHANGED allowed_domains /\ \E code \in Codes : Finish(t, code)
  <2>1. UNCHANGED <<console, tables, faults, cut>>
    BY <1>1, <1>2 DEF console, tables
  <2> QED
    BY <1>1, <1>2, <2>1, FinishedFits
<1>3. ASSUME NEW owner \in Task \cup {None}, NEW tasks \in [Task -> Serving \cup {None}],
             Relist(d, owner, tasks), answer' \in Answer \cup {None},
             \A u \in Task \ {t} : tasks[u] = task[u],
             tasks[t] # None => /\ tasks[t].stage = "reread" /\ tasks[t].req = q.req
                               /\ ~tasks[t].revoked /\ q.req.op = "create_domain"
      PROVE  Placed'
  <2> DEFINE Same(u) == /\ task'[u].req = tasks[u].req /\ task'[u].stage = tasks[u].stage
                        /\ task'[u].at = tasks[u].at
                        /\ (task'[u].revoked => tasks[u].revoked)
  <2>1. /\ allowed_domains' \in [Domains -> Task \cup {None}]
        /\ task' \in [Task -> Serving \cup {None}]
        /\ \A u \in Task : task'[u] = tasks[u] \/ (tasks[u] # None /\ Same(u))
    BY <1>1, <1>3, RelistedTasks
  <2>2. ASSUME NEW u \in Task
        PROVE  \/ task'[u] = task[u] \/ task'[u] = None
               \/ PlaceFits(task'[u]) /\ RowsFit(u)'
    <3>1. CASE u = t
      <4>1. CASE tasks[t] # None
        <5>1. /\ task'[t].stage = "reread" /\ task'[t].req = q.req /\ ~task'[t].revoked
              /\ q.req.op = "create_domain"
          BY <1>3, <2>1, <4>1
        <5> QED
          BY <3>1, <5>1 DEF PlaceFits, RowsFit, At
      <4> QED
        BY <2>1, <3>1, <4>1
    <3>2. CASE u # t
      <4>1. tasks[u] = task[u] /\ RowsFit(u) /\ (task[u] # None => PlaceFits(task[u]))
        BY <1>3, <3>2 DEF Placed
      <4>2. CASE task[u] # None /\ Same(u)
        <5>1. PlaceFits(task'[u])
          BY <4>1, <4>2 DEF PlaceFits
        <5>2. task[u].stage = "stamp" => task[u].req.credential \in Credential
          BY <4>1, <4>2 DEF PlaceFits
        <5>3. RowsFit(u)'
          BY <1>1, <4>1, <4>2, <5>2 DEF RowsFit, At
        <5> QED
          BY <5>1, <5>3
      <4> QED
        BY <2>1, <4>1, <4>2
    <3> QED
      BY <3>1, <3>2
  <2>3. ApiTypeOK
    BY DEF Placed
  <2> QED
    BY <1>1, <1>3, <2>1, <2>2, <2>3, AllPlaced DEF ApiTypeOK
<1>4. CASE create_domain(t) /\ d \notin Listed
  <2>1. PICK tasks : tasks = [task EXCEPT ![t].stage = "reread"]
    OBVIOUS
  <2>2. /\ tasks \in [Task -> Serving \cup {None}] /\ \A u \in Task \ {t} : tasks[u] = task[u]
        /\ tasks[t].stage = "reread" /\ tasks[t].req = q.req /\ tasks[t].revoked = q.revoked
    BY <1>1, <2>1 DEF Serving, Stages
  <2>3. ~tasks[t].revoked
    BY <1>1, <2>2, Zenon
  <2>4. Relist(d, t, tasks) /\ answer' = None /\ q.req.op = "create_domain"
    BY <1>4, <2>1 DEF create_domain, NoReply, Does
  <2> QED
    BY <1>3, <2>2, <2>3, <2>4
<1>5. CASE delete_domain(t) /\ Relist(d, None, [task EXCEPT ![t] = None]) /\ Reply(t, q, 204)
  <2>1. PICK tasks : tasks = [task EXCEPT ![t] = None]
    OBVIOUS
  <2>2. /\ tasks \in [Task -> Serving \cup {None}] /\ \A u \in Task \ {t} : tasks[u] = task[u]
        /\ tasks[t] = None
    BY <1>1, <2>1
  <2>3. Relist(d, None, tasks) /\ answer' \in Answer
    BY <1>1, <1>5, <2>1 DEF Reply, Answer, Serving
  <2> QED
    BY <1>3, <2>2, <2>3
<1> QED
  BY <1>2, <1>4, <1>5 DEF create_domain, delete_domain, Codes

LEMMA DraftsPlaced ==
    ASSUME Placed, NEW t \in Task, InsertInvoice(t) \/ InsertItem(t)
    PROVE  Placed'
<1> DEFINE q == task[t]
           r == q.req
<1>1. /\ q # None /\ PlaceFits(q) /\ q \in Serving /\ ~q.revoked /\ ApiTypeOK
      /\ r \in Request /\ r.op = "create_invoice" /\ r.number \in Numbers
      /\ r.items \in Seq(LineItem) /\ Total(r.items) > 0
      /\ UNCHANGED <<clients, config, session, logins, credentials, allowed_domains, faults, cut>>
  BY RequestAssumption DEF InsertInvoice, InsertItem, Does, At, Placed, ApiTypeOK, PlaceFits,
     Serving, Numbers, console
<1>2. Len(r.items) \in Nat \ {0} /\ DOMAIN r.items = 1..Len(r.items)
  <2>1. r.items # <<>>
    BY <1>1, NothingAddsUpToNothing
  <2> QED
    BY <1>1, <2>1, EmptySeq
<1>3. invoices \in [Numbers -> Invoice \cup {None}]
  BY <1>1 DEF ApiTypeOK
<1>4. ASSUME invoices' \in [Numbers -> Invoice \cup {None}],
             task' \in [Task -> Serving \cup {None}], Alone(t), answer' \in Answer \cup {None},
             task'[t] = None \/ PlaceFits(task'[t]), RowsFit(t)',
             \A n \in Numbers : invoices[n] # None => invoices'[n] # None
      PROVE  Placed'
  BY <1>1, <1>4, OneIsPlaced DEF ApiTypeOK
<1>5. ASSUME NEW n \in 1..Len(r.items), Move(t, "item", n), invoices'[r.number] # None
      PROVE  /\ task' \in [Task -> Serving \cup {None}] /\ Alone(t) /\ answer' = None
             /\ PlaceFits(task'[t]) /\ RowsFit(t)'
  <2>1. n \in Nat /\ "item" \in Stages /\ task[t] # None /\ ~task[t].revoked
    BY <1>1, <1>2 DEF Stages
  <2>2. /\ task' \in [Task -> Serving \cup {None}] /\ Alone(t) /\ answer' = None
        /\ task'[t].stage = "item" /\ task'[t].at = n /\ task'[t].req = r
        /\ ~task'[t].revoked
    BY <1>5, <2>1, UnrevokedMoves
  <2> QED
    BY <1>1, <1>5, <2>2 DEF PlaceFits, RowsFit, At
<1>6. ASSUME NEW code \in Codes, Finish(t, code)
      PROVE  /\ task' \in [Task -> Serving \cup {None}] /\ Alone(t) /\ answer' \in Answer
             /\ task'[t] = None /\ RowsFit(t)'
  BY <1>1, <1>6, Finishes DEF At, RowsFit
<1>7. CASE InsertInvoice(t)
  <2>1. CASE Finish(t, 500) /\ UNCHANGED invoices
    BY <1>3, <1>4, <1>6, <2>1 DEF Codes
  <2>2. CASE /\ invoices' = [invoices EXCEPT ![r.number] =
                               [amount_minor |-> Total(r.items), items |-> <<>>, of |-> r]]
             /\ Move(t, "item", 1)
    <3>1. [amount_minor |-> Total(r.items), items |-> <<>>, of |-> r] \in Invoice
      BY <1>1, TotalIsNumber DEF Invoice
    <3>2. /\ invoices' \in [Numbers -> Invoice \cup {None}] /\ invoices'[r.number] # None
          /\ \A n \in Numbers : invoices[n] # None => invoices'[n] # None
      BY <1>1, <1>3, <2>2, <3>1, NothingIsNoRow
    <3>3. 1 \in 1..Len(r.items)
      BY <1>2
    <3> QED
      BY <1>4, <1>5, <2>2, <3>2, <3>3
  <2> QED
    BY <1>7, <2>1, <2>2 DEF InsertInvoice
<1>8. CASE InsertItem(t)
  <2> DEFINE n == q.at
  <2>1. n \in 1..Len(r.items)
    BY <1>1, <1>8 DEF InsertItem, At, PlaceFits
  <2>2. invoices' = [invoices EXCEPT ![r.number].items = Append(@, r.items[n])]
    BY <1>8 DEF InsertItem
  <2>3. invoices[r.number] \in Invoice
    BY <1>1, <1>3, <1>8 DEF InsertItem, Placed, RowsFit
  <2>4. /\ invoices' \in [Numbers -> Invoice \cup {None}] /\ invoices'[r.number] # None
        /\ \A m \in Numbers : invoices[m] # None => invoices'[m] # None
    <3>1. r.items[n] \in LineItem
      BY <1>1, <1>2, <2>1, ElementOfSeq
    <3>2. Append(invoices[r.number].items, r.items[n]) \in Seq(LineItem)
      BY <2>3, <3>1, AppendProperties DEF Invoice
    <3>3. [invoices[r.number] EXCEPT !.items = Append(@, r.items[n])] \in Invoice
      BY <2>3, <3>2 DEF Invoice
    <3> QED
      BY <1>1, <1>3, <2>2, <3>3, NothingIsNoRow
  <2>5. CASE n < Len(r.items) /\ Move(t, "item", n + 1)
    <3>1. n + 1 \in 1..Len(r.items)
      BY <1>2, <2>1, <2>5
    <3> QED
      BY <1>4, <1>5, <2>4, <2>5, <3>1
  <2>6. CASE Finish(t, 201)
    BY <1>4, <1>6, <2>4, <2>6 DEF Codes
  <2> QED
    BY <1>8, <2>5, <2>6 DEF InsertItem
<1> QED
  BY <1>7, <1>8

\* What a fault cuts short is somebody's draft.
LEMMA CutsDrafts ==
    ASSUME Placed, NEW tasks \in SUBSET Task, Cut(tasks)
    PROVE  /\ cut' \subseteq Numbers /\ cut \subseteq cut'
           /\ \A t \in tasks : At(t, "item") => task[t].req.number \in cut'
<1>1. \A t \in tasks : At(t, "item") => task[t].req.number \in Numbers
  BY DEF Placed, ApiTypeOK, At, PlaceFits, Serving, Numbers
<1> QED
  BY <1>1 DEF Cut, Placed, ApiTypeOK

LEMMA FaultsPlaced ==
    ASSUME Placed,
           \/ \E t \in Task : Abandon(t)
           \/ \E c \in Device : RevokeDevice(c)
           \/ \E c \in Config : Restart(c)
           \/ Tick
           \/ UNCHANGED vars
    PROVE  Placed'
<1>1. ApiTypeOK /\ faults \in Nat /\ MaxFaults \in Nat
  BY ApiAssumption DEF Placed, ApiTypeOK
<1>2. ASSUME NEW t \in Task, Abandon(t) PROVE Placed'
  <2>1. /\ task' \in [Task -> Serving \cup {None}]
        /\ \A u \in Task : task'[u] = task[u] \/ task'[u] = None
        /\ answer' = None /\ faults' \in 0..MaxFaults /\ cut' \subseteq Numbers
        /\ UNCHANGED <<clients, config, session, logins, credentials, allowed_domains, invoices>>
    BY <1>1, <1>2, CutsDrafts DEF Abandon, ApiTypeOK, NoReply, console, tables
  <2> QED
    BY <1>1, <2>1, AllPlaced DEF ApiTypeOK
<1>3. ASSUME NEW c \in Device, RevokeDevice(c) PROVE Placed'
  <2> DEFINE Rows == [status : {"absent", "active", "revoked"}, scopes : SUBSET Scope, used : BOOLEAN]
  <2>1. c \in Credential /\ credentials \in [Credential -> Rows]
    BY <1>1 DEF Credential, ApiTypeOK
  <2>2. PICK row : row = [credentials[c] EXCEPT !.status = "revoked"]
    OBVIOUS
  <2>3. row \in Rows /\ row.status = "revoked"
    BY <2>1, <2>2
  <2>4. credentials' = [credentials EXCEPT ![c] = row]
    BY <1>3, <2>1, <2>2 DEF RevokeDevice
  <2>5. /\ credentials' \in [Credential -> Rows] /\ credentials'[c] = row
        /\ \A d \in Credential \ {c} : credentials'[d] = credentials[d]
    BY <2>1, <2>3, <2>4
  <2>6. /\ \A d \in Credential : credentials'[d].used => credentials'[d].status # "absent"
        /\ \A d \in Credential :
              /\ credentials[d].status # "absent" => credentials'[d].status # "absent"
              /\ credentials[d].status = "revoked" => credentials'[d].status = "revoked"
    BY <1>1, <2>3, <2>5 DEF ApiTypeOK
  <2>7. /\ UNCHANGED <<clients, config, session, logins, allowed_domains, invoices, task, faults, cut>>
        /\ answer' = None
    BY <1>3 DEF RevokeDevice, NoReply, console
  <2> QED
    BY <1>1, <2>5, <2>6, <2>7, AllPlaced DEF ApiTypeOK
<1>4. ASSUME NEW c \in Config, Restart(c) PROVE Placed'
  <2>1. /\ task' \in [Task -> Serving \cup {None}] /\ config' = c
        /\ \A u \in Task : task'[u] = None
        /\ answer' = None /\ faults' \in 0..MaxFaults /\ cut' \subseteq Numbers
        /\ UNCHANGED <<clients, session, logins, credentials, allowed_domains, invoices>>
    BY <1>1, <1>4, CutsDrafts DEF Restart, ApiTypeOK, NoReply, tables
  <2> QED
    BY <1>1, <2>1, AllPlaced DEF ApiTypeOK
<1>5. CASE Tick
  <2>1. session' \in Token
    BY <1>1, <1>5, ApiAssumption DEF Tick, ApiTypeOK, Token
  <2>2. /\ UNCHANGED <<clients, config, credentials, allowed_domains, invoices, task, faults, cut>>
        /\ answer' = None /\ logins' \in [Secrets -> 0..Lifetime]
    BY <1>1, <1>5, ApiAssumption DEF Tick, NoReply, tables, ApiTypeOK
  <2> QED
    BY <1>1, <2>1, <2>2, AllPlaced DEF ApiTypeOK
<1>6. CASE UNCHANGED vars
  <2>1. UNCHANGED <<clients, config, session, logins, credentials, allowed_domains, invoices, task,
                    answer, faults, cut>>
    BY <1>6 DEF vars, console, tables
  <2> QED
    BY <1>1, <2>1, AllPlaced DEF ApiTypeOK
<1> QED
  BY <1>2, <1>3, <1>4, <1>5, <1>6

LEMMA PlacedStep == Placed /\ [Next]_vars => Placed'
<1> SUFFICES ASSUME Placed, [Next]_vars PROVE Placed'
  OBVIOUS
<1>1. ASSUME NEW t \in Task, Step(t) PROVE Placed'
  BY <1>1, ReadingPlaced, CredentialsPlaced, DomainsPlaced, DraftsPlaced DEF Step
<1>2. ASSUME NEW t \in Task, task[t] = None, NEW r \in clients[t], Arrive(t, r) PROVE Placed'
  BY <1>2, ArrivePlaced
<1> QED
  BY <1>1, <1>2, FaultsPlaced DEF Next
-----------------------------------------------------------------------------
(* Tasks apart.                                                             *)

\* A task stands where it stood; it has noted the list in force, if it notes them.
Stays(v) ==
    IF task[v] = None THEN task'[v] = None
    ELSE /\ task'[v] # None
         /\ task'[v].req = task[v].req /\ task'[v].stage = task[v].stage
         /\ task'[v].at = task[v].at /\ task'[v].login = task[v].login
         /\ task[v].req.op \in Noting =>
              \/ UNCHANGED Listed /\ task'[v].lists = task[v].lists
              \/ task'[v].lists = task[v].lists \cup {Listed'}

LEMMA OthersStay ==
    ASSUME NEW u \in Task, Alone(u), UNCHANGED allowed_domains
    PROVE  \A v \in Task \ {u} : Stays(v)
BY DEF Alone, Stays, Listed

\* A step of one task leaves every other where it was.
LEMMA StepsApart ==
    ASSUME Placed, NEW u \in Task,
           Step(u) \/ Abandon(u) \/ \E r \in clients[u] : Arrive(u, r)
    PROVE  \A v \in Task \ {u} : Stays(v)
<1>1. ASSUME task[u] # None, UNCHANGED allowed_domains,
             \/ \E code \in Codes : Finish(u, code)
             \/ \E n \in 1..3 : Check(u, n)
             \/ \E stage \in Stages : \E n \in Nat : Move(u, stage, n)
      PROVE  \A v \in Task \ {u} : Stays(v)
  <2>1. CASE \E code \in Codes : Finish(u, code)
    <3>1. Alone(u)
      BY <1>1, <2>1, Finishes
    <3> QED
      BY <1>1, <3>1, OthersStay
  <2>2. ASSUME NEW stage \in Stages, NEW n \in Nat, Move(u, stage, n)
        PROVE  \A v \in Task \ {u} : Stays(v)
    <3>1. Alone(u)
      BY <1>1, <2>2, Moves
    <3> QED
      BY <1>1, <3>1, OthersStay
  <2>3. ASSUME NEW n \in 1..3, Check(u, n)
        PROVE  \E stage \in Stages : \E m \in Nat : Move(u, stage, m)
    BY <2>3, Checks DEF Stages
  <2> QED
    BY <1>1, <2>1, <2>2, <2>3
<1>2. CASE Abandon(u)
  <2>1. Alone(u) /\ UNCHANGED allowed_domains
    BY <1>2 DEF Abandon, tables, Alone, Placed, ApiTypeOK
  <2> QED
    BY <2>1, OthersStay
<1>3. ASSUME NEW r \in clients[u], Arrive(u, r)
      PROVE  \A v \in Task \ {u} : Stays(v)
  <2>1. UNCHANGED allowed_domains
    BY <1>3 DEF Arrive, login, Call, Administer, Draft, tables
  <2>2. CASE \E stage \in Stages : Begin(u, r, stage)
    BY <2>1, <2>2, Begins, OthersStay
  <2>3. CASE UNCHANGED task
    BY <2>1, <2>3, OthersStay DEF Alone
  <2> QED
    BY <1>3, <2>2, <2>3 DEF Arrive, login, Call, Administer, Draft, Dismiss, Stages
<1>4. Step(u) => task[u] # None
  BY DEF Step, LookUp, Stamp, Count, Find, Insert, create_api_key, pair_device,
     revoke_api_key, create_domain, Reread, delete_domain, InsertInvoice, InsertItem, Does, At
<1>5. CASE Step(u)
  <2>1. /\ task[u] \in Serving /\ task[u].at \in Nat /\ task \in [Task -> Serving \cup {None}]
        /\ task[u].stage \in {"count", "find"} => task[u].at + 1 \in 1..3
    BY <1>4, <1>5 DEF Placed, ApiTypeOK, Serving, PlaceFits
  <2>2. CASE LookUp(u) \/ Stamp(u) \/ Insert(u) \/ Reread(u)
    <3>1. UNCHANGED allowed_domains
      BY <2>2 DEF LookUp, Stamp, Insert, Reread, tables
    <3>2. \/ \E code \in Codes : Finish(u, code)
          \/ \E n \in 1..3 : Check(u, n)
          \/ \E stage \in Stages : \E n \in Nat : Move(u, stage, n)
      BY <2>2 DEF LookUp, Stamp, Serve, Insert, Reread, Codes, Stages
    <3>3. task[u] # None
      BY <1>4, <1>5
    <3> QED
      BY <1>1, <3>1, <3>2, <3>3
  <2>3. CASE Count(u) \/ Find(u)
    BY <1>1, <1>4, <1>5, <2>1, <2>3 DEF Count, Find, At, Codes, Stages, tables
  <2>4. CASE \/ \E c \in ApiKey : create_api_key(u, c)
             \/ \E c \in Device : pair_device(u, c)
             \/ revoke_api_key(u)
    <3>1. UNCHANGED allowed_domains
      BY <2>4 DEF create_api_key, pair_device, revoke_api_key, InsertCredential
    <3>2. \E code \in Codes : Finish(u, code)
      BY <2>4 DEF create_api_key, pair_device, revoke_api_key, Codes
    <3>3. task[u] # None
      BY <1>4, <1>5
    <3> QED
      BY <1>1, <3>1, <3>2, <3>3
  <2>5. CASE InsertInvoice(u) \/ InsertItem(u)
    BY <1>1, <1>4, <1>5, <2>1, <2>5 DEF InsertInvoice, InsertItem, Codes, Stages
  <2>6. CASE create_domain(u) \/ delete_domain(u)
    <3> DEFINE d == task[u].req.domain
    <3>1. d \in Domains
      BY <1>4, <2>1, <2>6 DEF create_domain, delete_domain, Does, Serving, Domains
    <3>2. CASE UNCHANGED allowed_domains /\ \E code \in Codes : Finish(u, code)
      <4>1. task[u] # None /\ UNCHANGED allowed_domains
        BY <1>4, <1>5, <3>2
      <4> HIDE DEF d
      <4> QED
        BY <1>1, <3>2, <4>1
    <3>3. ASSUME NEW owner \in Task \cup {None}, NEW tasks \in [Task -> Serving \cup {None}],
                 Relist(d, owner, tasks), NEW v \in Task \ {u}, tasks[v] = task[v]
          PROVE  Stays(v)
      <4>1. \/ task'[v] = task[v] /\ (task[v] = None \/ task[v].req.op \notin Noting)
            \/ /\ task[v] # None /\ task'[v] # None
               /\ task'[v].req = task[v].req /\ task'[v].stage = task[v].stage
               /\ task'[v].at = task[v].at /\ task'[v].login = task[v].login
               /\ task'[v].lists = task[v].lists \cup {Listed'}
        BY <3>1, <3>3, Relists, SMTT(30)
      <4> QED
        BY <4>1 DEF Stays
    <3>4. CASE Relist(d, u, [task EXCEPT ![u].stage = "reread"])
      <4>1. [task EXCEPT ![u].stage = "reread"] \in [Task -> Serving \cup {None}]
        BY <2>1 DEF Serving, Stages
      <4> QED
        BY <2>1, <3>3, <3>4, <4>1
    <3>5. CASE Relist(d, None, [task EXCEPT ![u] = None])
      <4>1. [task EXCEPT ![u] = None] \in [Task -> Serving \cup {None}]
        BY <2>1
      <4> QED
        BY <2>1, <3>3, <3>5, <4>1
    <3> QED
      BY <2>6, <3>2, <3>4, <3>5 DEF create_domain, delete_domain, Codes
  <2> QED
    BY <1>5, <2>2, <2>3, <2>4, <2>5, <2>6 DEF Step
<1> QED
  BY <1>2, <1>3, <1>5
\* No step makes a domain's row another task's.
LEMMA OwnersApart ==
    ASSUME Placed, NEW u \in Task,
           Step(u) \/ Abandon(u) \/ \E r \in clients[u] : Arrive(u, r),
           NEW v \in Task \ {u}, NEW d \in Domains, allowed_domains'[d] = v
    PROVE  allowed_domains[d] = v
<1>1. allowed_domains \in [Domains -> Task \cup {None}] /\ v # None
  BY ApiAssumption DEF Placed, ApiTypeOK
<1>2. ASSUME NEW e, NEW owner \in {u, None}, NEW tasks, Relist(e, owner, tasks)
      PROVE  allowed_domains[d] = v
  BY <1>1, <1>2 DEF Relist
<1>3. ASSUME ~UNCHANGED allowed_domains PROVE create_domain(u) \/ delete_domain(u)
  BY <1>3 DEF Step, LookUp, Stamp, Count, Find, Insert, create_api_key, pair_device, revoke_api_key,
     Reread, InsertInvoice, InsertItem, InsertCredential, Abandon, Arrive, login, Call, Administer,
     Draft, tables
<1>4. CASE create_domain(u) \/ delete_domain(u)
  BY <1>2, <1>4 DEF create_domain, delete_domain
<1> QED
  BY <1>3, <1>4

\* What only the operator may do is under way.
Operating(t) == task[t] # None /\ task[t].stage \in {"admin", "item", "reread"}

\* A step of its own leaves a task its request, and makes none the operator's.
LEMMA StepsOn ==
    ASSUME Placed, NEW u \in Task, Step(u), task'[u] # None
    PROVE  /\ task[u] # None /\ task'[u].req = task[u].req /\ task'[u].login = task[u].login
           /\ Operating(u)' => Operating(u)
<1> DEFINE Goal == /\ task'[u].req = task[u].req /\ task'[u].login = task[u].login
                   /\ Operating(u)' => Operating(u)
<1>1. task[u] # None
  BY DEF Step, LookUp, Stamp, Count, Find, Insert, create_api_key, pair_device,
     revoke_api_key, create_domain, Reread, delete_domain, InsertInvoice, InsertItem, Does, At
<1> SUFFICES Goal
  BY <1>1
<1>2. /\ task[u] \in Serving /\ task[u].at \in Nat /\ task \in [Task -> Serving \cup {None}]
      /\ task[u].stage \in {"count", "find"} => task[u].at + 1 \in 1..3
  BY <1>1 DEF Placed, ApiTypeOK, Serving, PlaceFits
<1>3. \A code \in Codes : ~Finish(u, code)
  BY <1>1, Finishes
<1>4. ASSUME NEW stage \in Stages, NEW n \in Nat, Move(u, stage, n),
             Operating(u) \/ stage \notin {"admin", "item", "reread"}
      PROVE  Goal
  <2>1. /\ task'[u].stage = stage /\ task'[u].req = task[u].req
        /\ task'[u].login = task[u].login
    BY <1>1, <1>4, Moves
  <2> QED
    BY <1>4, <2>1 DEF Operating
<1>5. ASSUME NEW n \in 1..3, Check(u, n) PROVE Goal
  <2>1. \E stage \in {"insert", "count"} : \E m \in Nat : Move(u, stage, m)
    BY <1>5, Checks
  <2> QED
    BY <1>4, <2>1 DEF Stages
<1>6. CASE LookUp(u) \/ Stamp(u)
  <2>1. Move(u, "stamp", 1) \/ Check(u, 1)
    BY <1>3, <1>6 DEF LookUp, Stamp, Serve, Codes
  <2> QED
    BY <1>4, <1>5, <2>1 DEF Stages
<1>7. CASE Count(u) \/ Find(u)
  <2>1. Move(u, "find", task[u].at) \/ Check(u, task[u].at + 1)
    BY <1>3, <1>7 DEF Count, Find, Codes
  <2>2. task[u].at + 1 \in 1..3
    BY <1>2, <1>7 DEF Count, Find, At
  <2> QED
    BY <1>2, <1>4, <1>5, <2>1, <2>2 DEF Stages
<1>8. CASE InsertInvoice(u) \/ InsertItem(u)
  <2>1. Operating(u)
    BY <1>1, <1>8 DEF InsertInvoice, InsertItem, Does, At, Operating
  <2>2. \E n \in Nat : Move(u, "item", n)
    <3>1. CASE InsertInvoice(u)
      BY <1>3, <3>1 DEF InsertInvoice, Codes
    <3>2. CASE InsertItem(u)
      BY <1>2, <1>3, <3>2 DEF InsertItem, Codes
    <3> QED
      BY <1>8, <3>1, <3>2
  <2> QED
    BY <1>4, <2>1, <2>2 DEF Stages
<1>9. CASE create_domain(u) \/ delete_domain(u)
  <2>1. PICK d, reread, gone : /\ d = task[u].req.domain
                               /\ reread = [task EXCEPT ![u].stage = "reread"]
                               /\ gone = [task EXCEPT ![u] = None]
    OBVIOUS
  <2>2. d \in Domains /\ Operating(u)
    BY <1>1, <1>2, <1>9, <2>1 DEF create_domain, delete_domain, Does, At, Serving, Domains, Operating
  <2>3. /\ reread \in [Task -> Serving \cup {None}] /\ gone \in [Task -> Serving \cup {None}]
        /\ reread[u].req = task[u].req /\ reread[u].login = task[u].login /\ gone[u] = None
    BY <1>1, <1>2, <2>1 DEF Serving, Stages
  <2>4. Relist(d, u, reread) \/ Relist(d, None, gone)
    BY <1>3, <1>9, <2>1 DEF create_domain, delete_domain, Codes
  <2>5. task'[u].req = task[u].req /\ task'[u].login = task[u].login
    BY <2>2, <2>3, <2>4, Relists
  <2> QED
    BY <2>2, <2>5
<1> QED
  BY <1>1, <1>3, <1>6, <1>7, <1>8, <1>9
     DEF Step, Insert, Reread, create_api_key, pair_device, revoke_api_key, Codes
-----------------------------------------------------------------------------
(* Answers.                                                                 *)

\* Which statement answers a request, and how; every other step answers nothing.
Answering(t, code) ==
    /\ task[t] # None /\ Reply(t, task[t], code)
    /\ \/ LookUp(t) /\ code = 401 /\ ~Accepts(task[t].req)
       \/ Stamp(t) /\ code = 422 /\ ~IsPositive(task[t].req.amount)
       \/ Stamp(t) /\ code = 200 /\ task[t].req.op # "checkout"
       \/ Count(t) /\ code = 422 /\ Listed # {} /\ host_of(Url(t)) = None
       \/ Find(t) /\ code = 422 /\ host_of(Url(t)) \notin Listed
       \/ Insert(t) /\ code = 200
       \/ Insert(t) /\ code = 500 /\ ~(to_minor(task[t].req.amount) > 0)
       \/ InsertInvoice(t) /\ code = 500 /\ UNCHANGED invoices /\ IsTaken(task[t].req.number)
       \/ InsertItem(t) /\ code = 201 /\ ~(task[t].at < Len(task[t].req.items))
       \/ code \in {200, 201, 204, 404} /\ task[t].stage = "admin" /\ task[t].req.op # "create_invoice"
       \/ code = 201 /\ task[t].req.op = "create_domain"
       \/ /\ code = 500 /\ task[t].req.op = "create_domain" /\ UNCHANGED allowed_domains
          /\ \/ create_domain(t) /\ task[t].req.domain \in Listed
             \/ Reread(t) /\ allowed_domains[task[t].req.domain] # t

LEMMA EveryAnswer ==
    ASSUME Placed, [Next]_vars, answer' # None
    PROVE  \/ UNCHANGED vars
           \/ \E t \in Task : \E code \in Codes : Answering(t, code)
           \/ \E t \in Task : \E r \in clients[t] : \E code \in {200, 401, 404, 422} :
                r.op \notin Guarded /\ Dismiss(t, r, code)
<1>1. ASSUME NEW t \in Task, NEW r \in clients[t], Arrive(t, r)
      PROVE  \E code \in {200, 401, 404, 422} : r.op \notin Guarded /\ Dismiss(t, r, code)
  BY <1>1 DEF Arrive, login, Call, Administer, Draft, Begin, NoReply, Guarded
<1>2. ASSUME NEW t \in Task, Step(t)
      PROVE  \E code \in Codes : Answering(t, code)
  <2>1. task[t] # None
    BY <1>2 DEF Step, LookUp, Stamp, Count, Find, Insert, create_api_key, pair_device,
         revoke_api_key, create_domain, Reread, delete_domain, InsertInvoice, InsertItem, Does, At
  <2>2. CASE LookUp(t)
    BY <2>1, <2>2 DEF LookUp, Move, NoReply, Finish, Answering, Codes
  <2>3. ASSUME NEW n, Check(t, n) PROVE FALSE
    BY <2>3 DEF Check, Move, NoReply
  <2>4. CASE Stamp(t)
    BY <2>1, <2>3, <2>4 DEF Stamp, Serve, Finish, Answering, Codes
  <2>5. CASE Count(t)
    BY <2>1, <2>3, <2>5 DEF Count, Move, NoReply, Finish, Answering, Codes
  <2>6. CASE Find(t)
    BY <2>1, <2>3, <2>6 DEF Find, Finish, Answering, Codes
  <2>7. CASE Insert(t)
    BY <2>1, <2>7 DEF Insert, Finish, Answering, Codes
  <2>8. CASE (\E c \in ApiKey : create_api_key(t, c)) \/ (\E c \in Device : pair_device(t, c))
    BY <2>1, <2>8 DEF create_api_key, pair_device, Does, At, Finish, Answering, Codes
  <2>9. CASE revoke_api_key(t)
    BY <2>1, <2>9 DEF revoke_api_key, Does, At, Finish, Answering, Codes
  <2>10. CASE create_domain(t)
    BY <2>1, <2>10 DEF create_domain, Does, At, Finish, NoReply, Answering, Codes
  <2>11. CASE Reread(t)
    <3>1. task[t].req.op = "create_domain"
      BY <2>11 DEF Reread, At, Placed, PlaceFits
    <3> QED
      BY <2>1, <2>11, <3>1 DEF Reread, tables, Finish, Answering, Codes
  <2>12. CASE delete_domain(t)
    BY <2>1, <2>12 DEF delete_domain, Does, At, Finish, Answering, Codes
  <2>13. CASE InsertInvoice(t)
    BY <2>1, <2>13 DEF InsertInvoice, Move, NoReply, Finish, Answering, Codes
  <2>14. CASE InsertItem(t)
    BY <2>1, <2>14 DEF InsertItem, Move, NoReply, Finish, Answering, Codes
  <2> QED
    BY <1>2, <2>2, <2>4, <2>5, <2>6, <2>7, <2>8, <2>9, <2>10, <2>11, <2>12, <2>13, <2>14 DEF Step
<1> QED
  <2>1. ASSUME NEW t \in Task, Abandon(t) PROVE FALSE
    BY <2>1 DEF Abandon, NoReply
  <2>2. ASSUME NEW c \in Device, RevokeDevice(c) PROVE FALSE
    BY <2>2 DEF RevokeDevice, NoReply
  <2>3. ASSUME NEW c \in Config, Restart(c) PROVE FALSE
    BY <2>3 DEF Restart, NoReply
  <2>4. ASSUME Tick PROVE FALSE
    BY <2>4 DEF Tick, NoReply
  <2>5. ASSUME NEW t \in Task, NEW r \in clients[t], Arrive(t, r)
        PROVE  \E u \in Task : \E q \in clients[u] : \E code \in {200, 401, 404, 422} :
                  q.op \notin Guarded /\ Dismiss(u, q, code)
    <3>1. \E code \in {200, 401, 404, 422} : r.op \notin Guarded /\ Dismiss(t, r, code)
      BY <1>1, <2>5
    <3>2. \E q \in clients[t] : \E code \in {200, 401, 404, 422} :
             q.op \notin Guarded /\ Dismiss(t, q, code)
      <4>1. WITNESS r \in clients[t]
      <4> QED
        BY <3>1
    <3> QED
      <4>1. WITNESS t \in Task
      <4> QED
        BY <3>2
  <2>6. ASSUME NEW t \in Task, Step(t)
        PROVE  \E u \in Task : \E code \in Codes : Answering(u, code)
    <3>1. PICK code \in Codes : Answering(t, code)
      BY <1>2, <2>6
    <3> QED
      BY <3>1, ZenonT(30)
  <2>7. Next \/ UNCHANGED vars
    OBVIOUS
  <2>8. CASE Next
    <3>1. \/ \E t \in Task : \E r \in clients[t] : Arrive(t, r)
          \/ \E t \in Task : Step(t)
      BY <2>1, <2>2, <2>3, <2>4, <2>8, ZenonT(30) DEF Next
    <3> QED
      BY <2>5, <2>6, <3>1, ZenonT(30)
  <2> QED
    BY <2>7, <2>8

LEMMA SpecIsPlaced == Spec => []Placed
BY PlacedInit, PlacedStep, PTL DEF Spec

\* For any tasks, keys and phones: everything a request touches stays of the types the
\* tables and the answers have, and no row of a credential goes (merchant.rs:85-115).
THEOREM ApiTypes == Spec => []ApiTypeOK
BY SpecIsPlaced, PTL DEF Placed

LEMMA RevokedStep == Placed /\ RevokedIsRefused /\ [Next]_vars => RevokedIsRefused'
<1> SUFFICES ASSUME Placed, RevokedIsRefused, [Next]_vars, answer' # None
             PROVE  answer'.revoked => answer'.code = 401
  BY DEF RevokedIsRefused
<1>1. CASE UNCHANGED vars
  BY <1>1 DEF vars, RevokedIsRefused
<1>2. ASSUME NEW t \in Task, NEW code \in Codes, Answering(t, code), answer'.revoked
      PROVE  answer'.code = 401
  <2>1. /\ task[t] # None /\ answer'.code = code
        /\ answer'.revoked = task[t].revoked
    BY <1>2 DEF Answering, Reply
  <2>2. task[t].revoked
    BY <1>2, <2>1, Zenon
  <2>3. task[t].stage = "lookup"
    BY <2>1, <2>2 DEF Placed, PlaceFits
  <2> QED
    BY <1>2, <2>1, <2>3 DEF Answering, Stamp, Count, Find, Insert, InsertInvoice, InsertItem,
          Does, At, Placed, PlaceFits, Guarded
<1>3. ASSUME NEW t \in Task, NEW r \in clients[t], NEW code, r.op \notin Guarded,
             Dismiss(t, r, code), answer'.revoked
      PROVE  FALSE
  <2>1. answer'.revoked = Fresh(r, "admin").revoked
    BY <1>3 DEF Dismiss, Reply
  <2>2. Fresh(r, "admin").revoked => r.op \in Guarded
    BY FreshRevoked, Zenon
  <2> QED
    BY <1>3, <2>1, <2>2, Zenon
<1> QED
  BY <1>1, <1>2, <1>3, EveryAnswer

\* However its statements interleave with the revocation, a request that came in after
\* its key or token was revoked is refused (merchant.rs:85-115, device.rs).
THEOREM RevokedAreRefused == Spec => []RevokedIsRefused
<1>1. Init => RevokedIsRefused
  BY DEF Init, RevokedIsRefused
<1> QED
  BY <1>1, SpecIsPlaced, RevokedStep, PTL DEF Spec

\* What a domain's request knows of the lists: the one in force; that its row, if there is
\* one already, was on all of them; and that its row, once written, was on one.
AddsDomain(t) ==
    LET q == task[t]
        d == q.req.domain
    IN  q # None /\ q.req.op = "create_domain" =>
          /\ Listed \in q.lists
          /\ q.stage = "admin" /\ allowed_domains[d] = t => \A list \in q.lists : d \in list
          /\ q.stage = "reread" => \E list \in q.lists : d \in list

DomainsHold == \A t \in Task : AddsDomain(t)

LEMMA DomainsStep == Placed /\ DomainsHold /\ [Next]_vars => DomainsHold'
<1> SUFFICES ASSUME Placed, DomainsHold, [Next]_vars, NEW t \in Task,
                    task'[t] # None, task'[t].req.op = "create_domain"
             PROVE  AddsDomain(t)'
  BY DEF DomainsHold, AddsDomain
<1> DEFINE d == task'[t].req.domain
<1>1. Placed'
  BY PlacedStep
<1>2. /\ d \in Domains /\ PlaceFits(task'[t])
      /\ allowed_domains \in [Domains -> Task \cup {None}]
      /\ allowed_domains' \in [Domains -> Task \cup {None}] /\ t # None
      /\ allowed_domains'[d] = t => d \in Listed'
  BY <1>1, ApiAssumption DEF Placed, ApiTypeOK, Serving, Domains, Listed
<1>3. ASSUME Stays(t), allowed_domains'[d] = t => allowed_domains[d] = t
      PROVE  AddsDomain(t)'
  <2>1. /\ task[t] # None /\ task'[t].req = task[t].req /\ task'[t].stage = task[t].stage
        /\ \/ Listed' = Listed /\ task'[t].lists = task[t].lists
           \/ task'[t].lists = task[t].lists \cup {Listed'}
    BY <1>3 DEF Stays, Noting
  <2>2. /\ Listed \in task[t].lists
        /\ task[t].stage = "admin" /\ allowed_domains[d] = t => \A list \in task[t].lists : d \in list
        /\ task[t].stage = "reread" => \E list \in task[t].lists : d \in list
    BY <2>1 DEF DomainsHold, AddsDomain
  <2>3. Listed' \in task'[t].lists
    BY <2>1, <2>2
  <2>4. ASSUME task'[t].stage = "admin", allowed_domains'[d] = t
        PROVE  \A list \in task'[t].lists : d \in list
    BY <1>2, <1>3, <2>1, <2>2, <2>4
  <2>5. ASSUME task'[t].stage = "reread"
        PROVE  \E list \in task'[t].lists : d \in list
    BY <2>1, <2>2, <2>5
  <2> QED
    BY <2>3, <2>4, <2>5 DEF AddsDomain
<1>4. ASSUME NEW u \in Task, u # t,
             Step(u) \/ Abandon(u) \/ \E r \in clients[u] : Arrive(u, r)
      PROVE  AddsDomain(t)'
  <2>1. Stays(t)
    BY <1>4, StepsApart
  <2>2. allowed_domains'[d] = t => allowed_domains[d] = t
    BY <1>2, <1>4, OwnersApart
  <2> QED
    BY <1>3, <2>1, <2>2
<1>5. ASSUME task[t] = None, NEW r \in clients[t], Arrive(t, r)
      PROVE  AddsDomain(t)'
  <2>1. PICK stage \in {"lookup", "admin"} : Begin(t, r, stage)
    BY <1>5 DEF Arrive, login, Call, Administer, Draft, Dismiss
  <2>2. task'[t].req = r /\ task'[t].lists = IF r.op \in Noting THEN {Listed} ELSE {}
    <3>1. stage \in Stages
      BY DEF Stages
    <3> QED
      BY <1>5, <2>1, <3>1, Begins
  <2>3. task'[t].lists = {Listed}
    BY <2>2 DEF Noting
  <2>4. UNCHANGED allowed_domains /\ Listed' = Listed
    BY <1>5 DEF Arrive, login, Call, Administer, Draft, tables, Listed
  <2>5. task'[t].stage # "reread"
    BY <1>5, <2>1, Begins DEF Stages
  <2> QED
    BY <1>2, <2>3, <2>4, <2>5 DEF AddsDomain
<1>6. ASSUME Step(t)
      PROVE  AddsDomain(t)'
  <2>1. task[t] # None /\ task'[t].req = task[t].req /\ PlaceFits(task[t]) /\ task[t] \in Serving
        /\ task \in [Task -> Serving \cup {None}]
    BY <1>6, StepsOn DEF Placed, ApiTypeOK
  <2>2. \A code \in Codes : ~Finish(t, code)
    BY <2>1, Finishes
  <2>3. create_domain(t)
    <3>1. /\ task[t].req.op = "create_domain"
          /\ task[t].stage \notin {"lookup", "stamp", "count", "find", "insert", "item"}
      BY <2>1 DEF PlaceFits, Guarded
    <3>2. /\ ~LookUp(t) /\ ~Stamp(t) /\ ~Count(t) /\ ~Find(t) /\ ~Insert(t)
          /\ ~InsertItem(t)
      BY <3>1 DEF LookUp, Stamp, Count, Find, Insert, InsertItem, At
    <3>3. /\ \A c \in ApiKey : ~create_api_key(t, c)
          /\ \A c \in Device : ~pair_device(t, c)
          /\ ~revoke_api_key(t) /\ ~delete_domain(t) /\ ~InsertInvoice(t)
      BY <3>1 DEF create_api_key, pair_device, revoke_api_key, delete_domain, InsertInvoice, Does
    <3>4. ~Reread(t)
      BY <2>2 DEF Reread, Codes
    <3> QED
      BY <1>6, <3>2, <3>3, <3>4 DEF Step
  <2>4. PICK reread : reread = [task EXCEPT ![t].stage = "reread"]
    OBVIOUS
  <2>5. Relist(d, t, reread)
    BY <2>1, <2>2, <2>3, <2>4 DEF create_domain, Codes
  <2>6. /\ reread \in [Task -> Serving \cup {None}] /\ reread[t] # None
        /\ reread[t].req = task[t].req /\ reread[t].stage = "reread"
        /\ reread[t].req.op \in Noting
    BY <2>1, <2>4, NothingIsNoRow DEF Serving, Stages, Noting
  <2> HIDE DEF d
  <2>7. /\ task'[t].stage = "reread" /\ Listed' = Listed \cup {d}
        /\ task'[t].lists = reread[t].lists \cup {Listed'}
    BY <1>2, <2>5, <2>6, Relists
  <2> QED
    BY <2>7 DEF AddsDomain, d
<1>7. CASE UNCHANGED <<task, allowed_domains>>
  <2>1. AddsDomain(t)
    BY DEF DomainsHold
  <2> QED
    BY <1>7, <2>1 DEF AddsDomain, Listed
<1>8. ~Abandon(t) /\ \A c \in Config : ~Restart(c)
  BY DEF Abandon, Restart, Placed, ApiTypeOK
<1> QED
  BY <1>4, <1>5, <1>6, <1>7, <1>8 DEF Next, RevokeDevice, Tick, vars, tables

LEMMA ErrorsStep == Placed /\ DomainsHold /\ ErrorsAreExplained /\ [Next]_vars => ErrorsAreExplained'
<1> DEFINE Why == \/ /\ answer'.req.op = "checkout"
                     /\ IsPositive(answer'.req.amount) /\ to_minor(answer'.req.amount) = 0
                  \/ answer'.req.op = "create_invoice" /\ invoices'[answer'.req.number] # None
                  \/ /\ answer'.req.op = "create_domain"
                     /\ \E list \in answer'.lists : answer'.req.domain \in list
                     /\ \/ allowed_domains'[answer'.req.domain] # answer'.by
                        \/ \A list \in answer'.lists : answer'.req.domain \in list
<1> SUFFICES ASSUME Placed, DomainsHold, ErrorsAreExplained, [Next]_vars,
                    answer' # None, answer'.code = 500
             PROVE  Why
  BY DEF ErrorsAreExplained, IsPositive, to_minor
<1>1. CASE UNCHANGED vars
  BY <1>1 DEF vars, tables, ErrorsAreExplained, IsPositive, to_minor
<1>2. ASSUME NEW t \in Task, Answering(t, 500)
      PROVE  Why
  <2> DEFINE q == task[t]
  <2>1. /\ q # None /\ answer'.req = q.req /\ answer'.lists = q.lists /\ answer'.by = t
        /\ PlaceFits(q) /\ q \in Serving
    BY <1>2 DEF Answering, Reply, Placed, ApiTypeOK
  <2>2. CASE Insert(t) /\ ~(to_minor(q.req.amount) > 0)
    <3>1. q.req.op = "checkout" /\ q.req \in Request /\ IsPositive(q.req.amount)
      BY <2>1, <2>2 DEF Insert, At, PlaceFits, Serving
    <3>2. /\ q.req.amount.n \in Nat /\ 10 ^ q.req.amount.k \in Nat \ {0}
      BY <3>1, RequestAssumption, PowerAssumption DEF Decimal, IsPositive
    <3>3. \A n \in Nat, m \in Nat \ {0} : ~((200 * n + m) \div (2 * m) > 0) => (200 * n + m) \div (2 * m) = 0
      OBVIOUS
    <3>4. to_minor(q.req.amount) = 0
      <4>1. PICK n \in Nat, m \in Nat \ {0} :
               n = q.req.amount.n /\ m = 10 ^ q.req.amount.k
        BY <3>2
      <4>2. to_minor(q.req.amount) = (200 * n + m) \div (2 * m)
        BY <4>1 DEF to_minor
      <4> QED
        BY <2>2, <3>3, <4>2
    <3> QED
      BY <2>1, <3>1, <3>4
  <2>3. CASE InsertInvoice(t) /\ UNCHANGED invoices /\ IsTaken(q.req.number)
    BY <2>1, <2>3 DEF InsertInvoice, Does, IsTaken
  <2>4. CASE /\ q.req.op = "create_domain" /\ UNCHANGED allowed_domains
             /\ create_domain(t) /\ q.req.domain \in Listed
    <3>1. /\ Listed \in q.lists
          /\ allowed_domains[q.req.domain] = t => \A list \in q.lists : q.req.domain \in list
      BY <2>1, <2>4 DEF DomainsHold, AddsDomain, create_domain, Does, At
    <3> QED
      BY <2>1, <2>4, <3>1
  <2>5. CASE /\ q.req.op = "create_domain" /\ UNCHANGED allowed_domains
             /\ Reread(t) /\ allowed_domains[q.req.domain] # t
    <3>1. \E list \in q.lists : q.req.domain \in list
      BY <2>1, <2>5 DEF DomainsHold, AddsDomain, Reread, At
    <3> QED
      BY <2>1, <2>5, <3>1
  <2> QED
    BY <1>2, <2>1, <2>2, <2>3, <2>4, <2>5 DEF Answering
<1>3. ASSUME NEW t, NEW r, NEW code \in {200, 401, 404, 422}, Dismiss(t, r, code)
      PROVE  FALSE
  BY <1>3 DEF Dismiss, Reply
<1>4. \A t, code : Answering(t, code) => code = 500
  BY DEF Answering, Reply
<1> QED
  BY <1>1, <1>2, <1>3, <1>4, EveryAnswer

\* No client is told of an internal error but for an amount that rounds to nothing, a
\* number taken, or a domain that was on the list while the request was served and is not
\* there now by this request's own INSERT: it was on every list in force, or is another's
\* row, or is off the list again (checkout.rs:92, invoice.rs:81, domain.rs:27-36).
THEOREM ErrorsHaveAReason == Spec => []ErrorsAreExplained
<1>1. Init => ErrorsAreExplained /\ DomainsHold
  BY DEF Init, ErrorsAreExplained, DomainsHold, AddsDomain
<1> QED
  BY <1>1, SpecIsPlaced, DomainsStep, ErrorsStep, PTL DEF Spec
-----------------------------------------------------------------------------
(* The console.                                                             *)

\* The session is the last login under its secret, and where a password is set the
\* operator's requests came in while a login was alive.
Admitted ==
    /\ session # None => logins[session.secret] = session.left
    /\ config.admin_password => \A t \in Task : Operating(t) => task[t].login > 0

\* Only a restart takes another environment; logins and the token pass together.
LEMMA AdmittedStep == Placed /\ Admitted /\ [Next]_vars => Admitted'
<1> SUFFICES ASSUME Placed, Admitted, [Next]_vars PROVE Admitted'
  OBVIOUS
<1>1. /\ config.auth_secret \in Secrets /\ Lifetime \in Nat \ {0}
      /\ logins \in [Secrets -> 0..Lifetime] /\ session \in Token \cup {None}
  BY ApiAssumption DEF Placed, ApiTypeOK, Secrets
<1>2. CASE \E c \in Config : Restart(c)
  BY <1>2 DEF Restart, Admitted, Operating
<1>3. CASE UNCHANGED <<config, session, logins, task>>
  BY <1>3 DEF Admitted, Operating
<1>4. ASSUME NEW t, NEW r, login(t, r)
      PROVE  Admitted'
  <2>1. UNCHANGED <<config, task>>
    BY <1>4 DEF login, Dismiss
  <2>2. CASE UNCHANGED <<session, logins>>
    BY <1>3, <2>1, <2>2
  <2>3. CASE session' = issue_token /\ logins' = [logins EXCEPT ![config.auth_secret] = Lifetime]
    BY <1>1, <2>1, <2>3 DEF Admitted, Operating, issue_token
  <2> QED
    BY <1>4, <2>2, <2>3 DEF login
<1>5. CASE Tick
  <2>1. PICK token \in Token : token = session /\ token.left > 0
    BY <1>1, <1>5 DEF Tick
  <2>2. /\ token.secret \in Secrets /\ token.left \in Nat /\ logins[token.secret] = token.left
    <3>1. token.secret \in Secrets /\ token.left \in 0..Lifetime /\ session # None
      BY <1>5, <2>1 DEF Token, Tick
    <3> QED
      BY <1>1, <2>1, <3>1 DEF Admitted
  <2>3. PICK later : later = [token EXCEPT !.left = @ - 1]
    OBVIOUS
  <2>4. later.secret = token.secret /\ later.left = token.left - 1
    BY <2>1, <2>3 DEF Token
  <2>5. session' = later /\ logins'[token.secret] = token.left - 1 /\ UNCHANGED <<config, task>>
    BY <1>5, <2>1, <2>2, <2>3 DEF Tick
  <2> QED
    BY <2>4, <2>5 DEF Admitted, Operating
<1>6. ASSUME NEW u \in Task,
             Step(u) \/ Abandon(u) \/ (task[u] = None /\ \E r \in clients[u] : Arrive(u, r) /\ ~login(u, r))
      PROVE  Admitted'
  <2>1. UNCHANGED <<config, session, logins>>
    BY <1>6 DEF Step, Abandon, Arrive, LookUp, Stamp, Count, Find, Insert, create_api_key, pair_device,
       revoke_api_key, create_domain, Reread, delete_domain, InsertInvoice, InsertItem,
       InsertCredential, Call, Administer, Draft, console
  <2>2. ASSUME config.admin_password, NEW t \in Task, Operating(t)'
        PROVE  task'[t].login > 0
    <3>1. CASE t # u
      <4>1. Stays(t)
        BY <1>6, <3>1, StepsApart
      <4>2. Operating(t) /\ task'[t].login = task[t].login
        BY <2>2, <4>1 DEF Operating, Stays
      <4> QED
        BY <2>2, <4>2 DEF Admitted
    <3>2. CASE t = u /\ Step(u)
      <4>1. Operating(t) /\ task'[t].login = task[t].login
        BY <2>2, <3>2, StepsOn DEF Operating
      <4> QED
        BY <2>2, <4>1 DEF Admitted
    <3>3. CASE t = u /\ Abandon(u)
      BY <2>2, <3>3 DEF Abandon, Operating, Placed, ApiTypeOK
    <3>4. ASSUME t = u, task[u] = None, NEW r \in clients[u], Arrive(u, r), ~login(u, r)
          PROVE  task'[t].login > 0
      <4>1. ~UNCHANGED task
        BY <2>2, <3>4 DEF Operating
      <4>2. CASE Call(u, r)
        <5>1. task'[u].stage = "lookup"
          BY <4>2, Begins DEF Call, Stages
        <5> QED
          BY <2>2, <3>4, <5>1 DEF Operating
      <4>3. CASE Administer(u, r) \/ Draft(u, r)
        <5>1. require_auth /\ Begin(u, r, "admin") /\ r.op \notin Guarded
          BY <4>1, <4>3 DEF Administer, Draft, Dismiss, Guarded
        <5>2. task'[u].login = logins[config.auth_secret]
          BY <5>1, Begins DEF Stages
        <5>3. logins[config.auth_secret] > 0
          BY <2>2, <5>1 DEF require_auth, verify_token, Admitted
        <5> QED
          BY <3>4, <5>2, <5>3
      <4> QED
        BY <3>4, <4>2, <4>3 DEF Arrive
    <3> QED
      BY <1>6, <3>1, <3>2, <3>3, <3>4
  <2> QED
    BY <2>1, <2>2 DEF Admitted
<1> QED
  BY <1>2, <1>3, <1>4, <1>5, <1>6 DEF Next, RevokeDevice, vars, console

\* Whoever changes more than a stamp is the operator, and goes on.
LEMMA ChangesGoOn ==
    ASSUME Placed, NEW t \in Task, Step(t), ~Stamp(t), ~UNCHANGED tables
    PROVE  Operating(t) /\ task[t].req.op \notin Guarded /\ GoesOn(t)
<1>1. Operating(t)
  BY DEF Step, LookUp, Count, Find, Insert, create_api_key, pair_device, Operating,
     revoke_api_key, create_domain, Reread, delete_domain, InsertInvoice, InsertItem, Does, At
<1>2. /\ task[t] # None /\ task[t] \in Serving /\ PlaceFits(task[t]) /\ task[t].at \in Nat
      /\ task \in [Task -> Serving \cup {None}]
  BY <1>1 DEF Operating, Placed, ApiTypeOK, Serving
<1>3. task[t].req.op \notin Guarded
  BY <1>1, <1>2 DEF Operating, PlaceFits, Guarded
<1> SUFFICES GoesOn(t)
  BY <1>1, <1>3
<1>4. ASSUME NEW code \in Codes, Finish(t, code) PROVE GoesOn(t)
  BY <1>2, <1>4, Finishes DEF GoesOn
<1>5. CASE InsertInvoice(t)
  <2>1. ASSUME Move(t, "item", 1) PROVE GoesOn(t)
    <3>1. task'[t].stage = "item" /\ task[t].stage = "admin"
      BY <1>2, <1>5, <2>1, Moves DEF Stages, InsertInvoice, Does, At
    <3> QED
      BY <3>1 DEF GoesOn
  <2> QED
    BY <1>4, <1>5, <2>1 DEF InsertInvoice, Codes
<1>6. CASE InsertItem(t)
  <2>1. ASSUME Move(t, "item", task[t].at + 1) PROVE GoesOn(t)
    <3>1. task'[t].at = task[t].at + 1
      BY <1>2, <2>1, Moves DEF Stages
    <3>2. task'[t].at # task[t].at
      BY <1>2, <3>1
    <3> QED
      BY <3>2 DEF GoesOn
  <2> QED
    BY <1>4, <1>6, <2>1 DEF InsertItem, Codes
<1>7. CASE create_domain(t) \/ delete_domain(t)
  <2>1. PICK d, reread, gone : /\ d = task[t].req.domain
                               /\ reread = [task EXCEPT ![t].stage = "reread"]
                               /\ gone = [task EXCEPT ![t] = None]
    OBVIOUS
  <2>2. d \in Domains /\ task[t].stage = "admin"
    BY <1>2, <1>7, <2>1 DEF create_domain, delete_domain, Does, At, Serving, Domains
  <2>3. /\ reread \in [Task -> Serving \cup {None}] /\ gone \in [Task -> Serving \cup {None}]
        /\ reread[t] # None /\ reread[t].stage = "reread" /\ gone[t] = None
    BY <1>2, <2>1, NothingIsNoRow DEF Serving, Stages
  <2>4. CASE Relist(d, t, reread)
    <3>1. task'[t].stage = "reread"
      BY <2>2, <2>3, <2>4, Relists
    <3> QED
      BY <2>2, <3>1 DEF GoesOn
  <2>5. CASE Relist(d, None, gone)
    <3>1. task'[t] = None
      BY <2>2, <2>3, <2>5, Relists
    <3> QED
      BY <3>1 DEF GoesOn
  <2> QED
    BY <1>4, <1>7, <2>1, <2>4, <2>5 DEF create_domain, delete_domain, Codes
<1>8. CASE \/ \E c \in ApiKey : create_api_key(t, c)
           \/ \E c \in Device : pair_device(t, c)
           \/ revoke_api_key(t)
  BY <1>4, <1>8 DEF create_api_key, pair_device, revoke_api_key, Codes
<1>9. LookUp(t) \/ Count(t) \/ Find(t) \/ Insert(t) \/ Reread(t) => UNCHANGED tables
  BY DEF LookUp, Count, Find, Insert, Reread
<1> QED
  BY <1>5, <1>6, <1>7, <1>8, <1>9 DEF Step

LEMMA OnlyOperatorsChange ==
    ASSUME Placed, [Next]_vars
    PROVE  \/ UNCHANGED Secured
           \/ \E t \in Task : Operating(t) /\ task[t].req.op \notin Guarded /\ GoesOn(t)
<1> DEFINE Rows == [status : {"absent", "active", "revoked"}, scopes : SUBSET Scope, used : BOOLEAN]
<1>1. credentials \in [Credential -> Rows] /\ \A c \in ApiKey : c \in Credential /\ c \notin Device
  BY ApiAssumption DEF Placed, ApiTypeOK, Credential
<1>2. CASE UNCHANGED tables
  BY <1>2 DEF tables, Secured
<1>3. ASSUME UNCHANGED <<allowed_domains, invoices>>,
             \A c \in ApiKey : UNCHANGED <<credentials[c].status, credentials[c].scopes>>,
             \A c \in Device : credentials[c].status = "absent" <=> credentials'[c].status = "absent"
      PROVE  UNCHANGED Secured
  BY <1>3 DEF Secured
<1>4. ASSUME NEW t \in Task, Stamp(t)
      PROVE  UNCHANGED Secured
  <2>1. task[t].req.credential \in Credential
    BY <1>4 DEF Stamp, At, Placed, PlaceFits
  <2>2. PICK row : row = [credentials[task[t].req.credential] EXCEPT !.used = TRUE]
    OBVIOUS
  <2>3. credentials' = [credentials EXCEPT ![task[t].req.credential] = row]
    BY <1>1, <1>4, <2>1, <2>2 DEF Stamp
  <2>4. /\ row.status = credentials[task[t].req.credential].status
        /\ row.scopes = credentials[task[t].req.credential].scopes
    BY <1>1, <2>1, <2>2
  <2>5. \A c \in Credential : UNCHANGED <<credentials[c].status, credentials[c].scopes>>
    BY <1>1, <2>1, <2>3, <2>4
  <2> QED
    BY <1>3, <1>4, <2>5 DEF Stamp, Credential
<1>5. ASSUME NEW d \in Device, RevokeDevice(d)
      PROVE  UNCHANGED Secured
  <2>1. /\ d \in Credential /\ credentials[d].status = "active"
        /\ credentials' = [credentials EXCEPT ![d].status = "revoked"]
        /\ UNCHANGED <<allowed_domains, invoices>>
    BY <1>5 DEF RevokeDevice, Credential
  <2>2. credentials'[d].status = "revoked" /\ \A c \in Credential \ {d} : credentials'[c] = credentials[c]
    BY <1>1, <2>1
  <2> QED
    BY <1>1, <1>3, <2>1, <2>2 DEF Credential
<1>6. ASSUME NEW t \in Task, NEW r \in clients[t], Arrive(t, r)
      PROVE  UNCHANGED tables
  BY <1>6 DEF Arrive, login, Call, Administer, Draft
<1> QED
  BY <1>2, <1>4, <1>5, <1>6, ChangesGoOn DEF Next, Abandon, Restart, Tick, vars

\* Where a password is set, neither the whitelist nor an invoice, a key or the pairing of a
\* phone changes but by a request that came in within the lifetime of a login under the
\* secret in force, across restarts and rotations of the secret (auth.rs:14, auth.rs:52).
THEOREM NothingChangesUnguarded == Spec => ChangesNeedALogin
<1>1. Init => Admitted
  BY DEF Init, Admitted, Operating
<1>2. Placed /\ Admitted /\ [Next]_vars =>
        [config.admin_password =>
           \/ UNCHANGED Secured
           \/ \E t \in Task : /\ task[t] # None /\ task[t].req.op \notin Guarded
                               /\ task[t].login > 0 /\ GoesOn(t)]_vars
  <2> SUFFICES ASSUME Placed, Admitted, [Next]_vars, config.admin_password
               PROVE  \/ UNCHANGED Secured
                      \/ \E t \in Task : /\ task[t] # None /\ task[t].req.op \notin Guarded
                                          /\ task[t].login > 0 /\ GoesOn(t)
    BY Zenon
  <2>1. \A t \in Task : Operating(t) => task[t] # None /\ task[t].login > 0
    BY DEF Admitted, Operating
  <2> QED
    BY <2>1, OnlyOperatorsChange
<1> QED
  BY <1>1, <1>2, SpecIsPlaced, AdmittedStep, PTL DEF Spec, ChangesNeedALogin
-----------------------------------------------------------------------------
(* Drafts.                                                                  *)

\* The rows that are there of the items are the first ones, in their order, and all of
\* them unless somebody is writing or a fault cut the drafting short.
RowAddsUp(number) ==
    LET row == invoices[number]
    IN  /\ row.of.op = "create_invoice" /\ row.amount_minor = Total(row.of.items)
        /\ Len(row.items) <= Len(row.of.items)
        /\ \A i \in 1..Len(row.items) : row.items[i] = row.of.items[i]
        /\ \/ Len(row.items) = Len(row.of.items)
           \/ \E t \in Task : Drafting(t, number)
           \/ number \in cut

\* Whoever writes an invoice drafted it, is alone in that, and knows how far it is.
DraftsHold ==
    /\ \A number \in Numbers : invoices[number] # None => RowAddsUp(number)
    /\ \A t \in Task : At(t, "item") =>
          /\ invoices[task[t].req.number].of = task[t].req
          /\ Len(invoices[task[t].req.number].items) = task[t].at - 1
    /\ \A t, u \in Task :
          At(t, "item") /\ At(u, "item") /\ task[t].req.number = task[u].req.number => t = u

LEMMA DraftsStay ==
    ASSUME Placed, DraftsHold, UNCHANGED invoices, cut \subseteq cut',
           \A t \in Task : At(t, "item")' => At(t, "item") /\ UNCHANGED <<task[t].req, task[t].at>>,
           \A t \in Task : At(t, "item") => At(t, "item")' \/ task[t].req.number \in cut'
    PROVE  DraftsHold'
<1>1. ASSUME NEW number \in Numbers, invoices[number] # None
      PROVE  RowAddsUp(number)'
  <2>1. RowAddsUp(number)
    BY <1>1 DEF DraftsHold
  <2>2. (\E t \in Task : Drafting(t, number)) => (\E t \in Task : Drafting(t, number))' \/ number \in cut'
    BY DEF Drafting
  <2> QED
    BY <2>1, <2>2 DEF RowAddsUp
<1>2. ASSUME NEW t \in Task, At(t, "item")'
      PROVE  /\ invoices'[task'[t].req.number].of = task'[t].req
             /\ Len(invoices'[task'[t].req.number].items) = task'[t].at - 1
  BY <1>2 DEF DraftsHold
<1>3. ASSUME NEW t \in Task, NEW u \in Task, At(t, "item")', At(u, "item")',
             task'[t].req.number = task'[u].req.number
      PROVE  t = u
  BY <1>3 DEF DraftsHold
<1> QED
  BY <1>1, <1>2, <1>3 DEF DraftsHold

\* Only a drafted invoice is written.
LEMMA NobodyElseDrafts ==
    ASSUME Placed, NEW u \in Task, Step(u), ~InsertInvoice(u), ~InsertItem(u)
    PROVE  ~At(u, "item") /\ ~At(u, "item")' /\ UNCHANGED <<invoices, cut>>
<1>1. /\ task[u] # None /\ UNCHANGED <<invoices, cut>>
      /\ ~At(u, "item")
  BY DEF Step, LookUp, Stamp, Count, Find, Insert, create_api_key, pair_device, tables,
     revoke_api_key, create_domain, Reread, delete_domain, InsertCredential, Does, At
<1>2. ASSUME \E code \in Codes : Finish(u, code) PROVE ~At(u, "item")'
  BY <1>1, <1>2, Finishes DEF At
<1>3. ASSUME NEW stage \in Stages \ {"item"}, NEW n \in Nat, Move(u, stage, n)
      PROVE  ~At(u, "item")'
  <2>1. task'[u].stage = stage
    BY <1>1, <1>3, Moves
  <2> QED
    BY <1>3, <2>1 DEF At
<1>4. ASSUME NEW n \in 1..3, Check(u, n) PROVE ~At(u, "item")'
  <2>1. \E stage \in Stages \ {"item"} : \E m \in Nat : Move(u, stage, m)
    BY <1>4, Checks DEF Stages
  <2> QED
    BY <1>3, <2>1
<1>5. /\ task[u] \in Serving /\ task[u].at \in Nat /\ task \in [Task -> Serving \cup {None}]
      /\ task[u].stage \in {"count", "find"} => task[u].at + 1 \in 1..3
  BY <1>1 DEF Placed, ApiTypeOK, Serving, PlaceFits
<1>6. CASE LookUp(u) \/ Stamp(u) \/ Insert(u) \/ Reread(u)
  <2>1. \/ \E code \in Codes : Finish(u, code)
        \/ \E n \in 1..3 : Check(u, n)
        \/ \E stage \in Stages \ {"item"} : \E n \in Nat : Move(u, stage, n)
    BY <1>6 DEF LookUp, Stamp, Serve, Insert, Reread, Codes, Stages
  <2> QED
    BY <1>1, <1>2, <1>3, <1>4, <2>1
<1>7. CASE Count(u) \/ Find(u)
  <2>1. \/ \E code \in Codes : Finish(u, code)
        \/ \E n \in 1..3 : Check(u, n)
        \/ \E stage \in Stages \ {"item"} : \E n \in Nat : Move(u, stage, n)
    BY <1>5, <1>7 DEF Count, Find, At, Codes, Stages
  <2> QED
    BY <1>1, <1>2, <1>3, <1>4, <2>1
<1>8. CASE \/ \E c \in ApiKey : create_api_key(u, c)
           \/ \E c \in Device : pair_device(u, c)
           \/ revoke_api_key(u)
  <2>1. \E code \in Codes : Finish(u, code)
    BY <1>8 DEF create_api_key, pair_device, revoke_api_key, Codes
  <2> QED
    BY <1>1, <1>2, <2>1
<1>9. CASE create_domain(u) \/ delete_domain(u)
  <2>1. PICK d : d = task[u].req.domain
    OBVIOUS
  <2>2. d \in Domains /\ task[u].req.op # "checkout"
    BY <1>1, <1>5, <1>9, <2>1 DEF create_domain, delete_domain, Does, Serving, Domains
  <2>3. CASE \E code \in Codes : Finish(u, code)
    BY <1>1, <1>2, <2>3
  <2>4. ASSUME NEW owner \in Task \cup {None}, NEW tasks \in [Task -> Serving \cup {None}],
               Relist(d, owner, tasks),
               tasks[u] # None => tasks[u].stage = "reread"
        PROVE  ~At(u, "item")'
    <3>1. \/ task'[u] = tasks[u]
          \/ tasks[u] # None /\ task'[u].stage = tasks[u].stage
      BY <2>2, <2>4, Relists
    <3> QED
      BY <2>4, <3>1 DEF At
  <2>5. CASE Relist(d, u, [task EXCEPT ![u].stage = "reread"])
    <3>1. /\ [task EXCEPT ![u].stage = "reread"] \in [Task -> Serving \cup {None}]
          /\ [task EXCEPT ![u].stage = "reread"][u].stage = "reread"
      BY <1>5 DEF Serving, Stages
    <3> QED
      BY <1>1, <2>4, <2>5, <3>1
  <2>6. CASE Relist(d, None, [task EXCEPT ![u] = None])
    <3>1. /\ [task EXCEPT ![u] = None] \in [Task -> Serving \cup {None}]
          /\ [task EXCEPT ![u] = None][u] = None
      BY <1>5
    <3> QED
      BY <1>1, <2>4, <2>6, <3>1
  <2>7. \/ \E code \in Codes : Finish(u, code)
        \/ Relist(d, u, [task EXCEPT ![u].stage = "reread"])
        \/ Relist(d, None, [task EXCEPT ![u] = None])
    BY <1>9, <2>1 DEF create_domain, delete_domain, Codes
  <2> QED
    BY <1>1, <2>3, <2>5, <2>6, <2>7
<1> QED
  BY <1>1, <1>6, <1>7, <1>8, <1>9 DEF Step

\* The invoice's own row: nobody can be writing an invoice of this number already.
LEMMA InsertInvoiceHolds ==
    ASSUME Placed, DraftsHold, NEW t \in Task, InsertInvoice(t)
    PROVE  DraftsHold'
<1> DEFINE r == task[t].req
<1>1. /\ task[t] # None /\ task[t] \in Serving /\ r \in Request /\ r.op = "create_invoice"
      /\ r.number \in Numbers /\ r.items \in Seq(LineItem) /\ ~At(t, "item")
      /\ UNCHANGED cut /\ invoices \in [Numbers -> Invoice \cup {None}]
  BY RequestAssumption DEF InsertInvoice, Does, At, Placed, ApiTypeOK, Serving, Numbers
<1>2. CASE Finish(t, 500) /\ UNCHANGED invoices
  <2>1. task'[t] = None /\ Alone(t)
    BY <1>1, <1>2, Finishes DEF Codes
  <2>2. \A u \in Task : /\ At(u, "item")' => At(u, "item") /\ UNCHANGED <<task[u].req, task[u].at>>
                        /\ At(u, "item") => At(u, "item")'
    BY <1>1, <2>1 DEF Alone, At
  <2> QED
    BY <1>1, <1>2, <2>2, DraftsStay
<1>3. CASE /\ invoices' = [invoices EXCEPT ![r.number] =
                             [amount_minor |-> Total(r.items), items |-> <<>>, of |-> r]]
           /\ Move(t, "item", 1) /\ ~IsTaken(r.number)
  <2>1. /\ task'[t] # None /\ task'[t].stage = "item" /\ task'[t].at = 1 /\ task'[t].req = r
        /\ Alone(t)
    BY <1>1, <1>3, Moves DEF Stages
  <2>2. /\ invoices'[r.number] = [amount_minor |-> Total(r.items), items |-> <<>>, of |-> r]
        /\ \A n \in Numbers \ {r.number} : invoices'[n] = invoices[n]
    BY <1>1, <1>3
  <2>3. \A u \in Task \ {t} : /\ UNCHANGED task[u] /\ (At(u, "item")' <=> At(u, "item"))
                              /\ At(u, "item") => /\ task[u].req.number # r.number
                                                 /\ task[u].req.number \in Numbers
    <3>1. ASSUME NEW u \in Task, At(u, "item")
          PROVE  /\ task[u].req.number # r.number /\ task[u].req.number \in Numbers
      BY <1>3, <3>1 DEF Placed, RowsFit, At, IsTaken, PlaceFits, ApiTypeOK, Serving, Numbers
    <3> QED
      BY <2>1, <3>1 DEF Alone, At
  <2>4. Len(r.items) \in Nat /\ Len(<<>>) = 0
    BY <1>1, EmptySeq, LenProperties
  <2>5. ASSUME NEW number \in Numbers, number = r.number
        PROVE  RowAddsUp(number)'
    <3>1. Drafting(t, number)'
      BY <2>1, <2>5 DEF Drafting, At
    <3>2. PICK row : row = [amount_minor |-> Total(r.items), items |-> <<>>, of |-> r]
      OBVIOUS
    <3>3. /\ invoices'[number] = row /\ row.of.op = "create_invoice"
          /\ row.amount_minor = Total(row.of.items)
          /\ Len(row.items) = 0 /\ Len(row.of.items) \in Nat
      BY <1>1, <2>2, <2>4, <2>5, <3>2
    <3> QED
      BY <3>1, <3>3 DEF RowAddsUp
  <2>6. ASSUME NEW number \in Numbers, number # r.number, invoices'[number] # None
        PROVE  RowAddsUp(number)'
    <3>1. RowAddsUp(number) /\ UNCHANGED invoices[number]
      BY <2>2, <2>6 DEF DraftsHold
    <3>2. \A u \in Task : Drafting(u, number) => Drafting(u, number)'
      BY <1>1, <2>3 DEF Drafting
    <3> QED
      BY <1>1, <3>1, <3>2 DEF RowAddsUp
  <2>7. ASSUME NEW u \in Task, At(u, "item")'
        PROVE  /\ invoices'[task'[u].req.number].of = task'[u].req
               /\ Len(invoices'[task'[u].req.number].items) = task'[u].at - 1
    <3>1. CASE u = t
      BY <2>1, <2>2, <2>4, <3>1
    <3>2. CASE u # t
      BY <2>2, <2>3, <2>7, <3>2 DEF DraftsHold
    <3> QED
      BY <3>1, <3>2
  <2>8. ASSUME NEW u \in Task, NEW v \in Task, At(u, "item")', At(v, "item")',
               task'[u].req.number = task'[v].req.number
        PROVE  u = v
    BY <2>1, <2>3, <2>8 DEF DraftsHold
  <2>9. \A number \in Numbers : invoices'[number] # None => RowAddsUp(number)'
    BY <2>5, <2>6
  <2> QED
    BY <2>7, <2>8, <2>9 DEF DraftsHold
<1> QED
  BY <1>2, <1>3 DEF InsertInvoice

\* An item's row: the next one, of the one invoice its task writes.
LEMMA InsertItemHolds ==
    ASSUME Placed, DraftsHold, NEW t \in Task, InsertItem(t)
    PROVE  /\ DraftsHold'
           /\ task'[t] = None => invoices'[task[t].req.number].items = task[t].req.items
           /\ invoices'[task[t].req.number].of = task[t].req
<1> DEFINE r == task[t].req
           n == task[t].at
           row == invoices[r.number]
<1>1. /\ task[t] # None /\ At(t, "item") /\ task[t] \in Serving /\ r \in Request
      /\ r.op = "create_invoice" /\ n \in 1..Len(r.items)
      /\ r.number \in Numbers /\ r.items \in Seq(LineItem) /\ Len(r.items) \in Nat
      /\ UNCHANGED cut /\ invoices \in [Numbers -> Invoice \cup {None}]
      /\ row \in Invoice
  <2>1. /\ task[t] # None /\ At(t, "item") /\ task[t] \in Serving /\ r \in Request
        /\ r.op = "create_invoice" /\ n \in 1..Len(r.items)
        /\ r.number \in Numbers /\ r.items \in Seq(LineItem)
        /\ UNCHANGED cut /\ invoices \in [Numbers -> Invoice \cup {None}]
        /\ row \in Invoice
    <3>1. At(t, "item") /\ task[t] # None /\ PlaceFits(task[t]) /\ UNCHANGED cut
      BY DEF InsertItem, At, Placed
    <3>2. /\ task[t] \in Serving
          /\ invoices \in [Numbers -> Invoice \cup {None}]
      BY <3>1 DEF Placed, ApiTypeOK
    <3>3. r \in Request /\ r.op = "create_invoice" /\ n \in 1..Len(r.items)
      BY <3>1, <3>2 DEF PlaceFits, At, Serving
    <3>4. r.number \in Numbers /\ r.items \in Seq(LineItem)
      BY <3>3, RequestAssumption DEF Numbers
    <3>5. row \in Invoice
      <4>1. row # None
        BY <3>1 DEF Placed, RowsFit
      <4> QED
        BY <3>2, <3>4, <4>1
    <3> QED
      BY <3>1, <3>2, <3>3, <3>4, <3>5
  <2> QED
    BY <2>1, LenProperties
<1>2. /\ row.of = r /\ Len(row.items) = n - 1 /\ row.items \in Seq(LineItem)
      /\ row.amount_minor = Total(r.items)
      /\ \A i \in 1..(n - 1) : row.items[i] = r.items[i]
  <2>1. row # None
    BY <1>1, NothingIsNoRow
  <2>2. RowAddsUp(r.number) /\ row.of = r /\ Len(row.items) = n - 1
    BY <1>1, <2>1 DEF DraftsHold
  <2>3. row.items \in Seq(LineItem)
    BY <1>1 DEF Invoice
  <2>4. /\ row.amount_minor = Total(row.of.items)
        /\ \A i \in 1..Len(row.items) : row.items[i] = row.of.items[i]
    BY <2>1, <2>2 DEF RowAddsUp
  <2> QED
    BY <2>2, <2>3, <2>4
<1>3. PICK longer : longer = Append(row.items, r.items[n])
  OBVIOUS
<1>4. /\ longer \in Seq(LineItem) /\ Len(longer) = n
      /\ \A i \in 1..n : longer[i] = r.items[i]
  <2>1. r.items[n] \in LineItem
    BY <1>1, ElementOfSeq
  <2>2. PICK written \in Seq(LineItem), item \in LineItem, k \in Nat :
           written = row.items /\ item = r.items[n] /\ k = n - 1
    BY <1>1, <1>2, <2>1
  <2>3. Len(written) = k /\ n = k + 1 /\ \A i \in 1..k : written[i] = r.items[i]
    BY <1>1, <1>2, <2>2, SMTT(30)
  <2>4. longer = Append(written, item)
    BY <1>3, <2>2
  <2> HIDE DEF row, n
  <2>5. /\ longer \in Seq(LineItem) /\ Len(longer) = k + 1
        /\ \A i \in 1..k : longer[i] = written[i]
        /\ longer[k + 1] = item
    BY <2>3, <2>4, AppendProperties
  <2>6. \A i \in 1..(k + 1) : longer[i] = r.items[i]
    BY <2>2, <2>3, <2>5
  <2> QED
    BY <2>3, <2>5, <2>6
<1>5. /\ invoices'[r.number].items = longer /\ invoices'[r.number].of = r
      /\ invoices'[r.number].amount_minor = Total(r.items) /\ invoices'[r.number] # None
      /\ \A m \in Numbers \ {r.number} : invoices'[m] = invoices[m]
  <2>1. PICK grown : grown = [row EXCEPT !.items = longer]
    OBVIOUS
  <2>2. grown.items = longer /\ grown.of = r /\ grown.amount_minor = Total(r.items) /\ grown \in Invoice
    BY <1>1, <1>2, <1>4, <2>1 DEF Invoice
  <2>3. invoices' = [invoices EXCEPT ![r.number] = grown]
    BY <1>1, <1>3, <2>1 DEF InsertItem
  <2> QED
    BY <1>1, <2>2, <2>3, NothingIsNoRow
<1>6. /\ Alone(t)
      /\ \/ /\ n < Len(r.items) /\ At(t, "item")' /\ task'[t].req = r /\ task'[t].at = n + 1
         \/ n = Len(r.items) /\ task'[t] = None
  <2>1. CASE n < Len(r.items) /\ Move(t, "item", n + 1)
    BY <1>1, <2>1, Moves DEF At, Stages
  <2>2. CASE ~(n < Len(r.items)) /\ Finish(t, 201)
    BY <1>1, <2>2, Finishes DEF Codes
  <2> QED
    BY <2>1, <2>2 DEF InsertItem
<1>7. \A u \in Task \ {t} : /\ UNCHANGED task[u] /\ (At(u, "item")' <=> At(u, "item"))
                            /\ At(u, "item") => /\ task[u].req.number # r.number
                                               /\ task[u].req.number \in Numbers
  <2>1. ASSUME NEW u \in Task \ {t}, At(u, "item")
        PROVE  /\ task[u].req.number # r.number /\ task[u].req.number \in Numbers
    BY <1>1, <2>1 DEF DraftsHold, Placed, At, PlaceFits, ApiTypeOK, Serving, Numbers
  <2> QED
    BY <1>6, <2>1 DEF Alone, At
<1>8. ASSUME NEW number \in Numbers, number = r.number
      PROVE  RowAddsUp(number)'
  <2>1. Len(longer) = Len(r.items) \/ Drafting(t, number)'
    BY <1>4, <1>6, <1>8 DEF Drafting
  <2>2. PICK grown : grown = invoices'[number]
    OBVIOUS
  <2>3. /\ grown.of.op = "create_invoice" /\ grown.amount_minor = Total(grown.of.items)
        /\ grown.items = longer /\ grown.of.items = r.items
    BY <1>1, <1>5, <1>8, <2>2
  <2>4. n <= Len(r.items) /\ Len(longer) = n
    BY <1>1, <1>4
  <2>5. \A i \in 1..Len(longer) : longer[i] = r.items[i]
    BY <1>4
  <2> QED
    BY <2>1, <2>2, <2>3, <2>4, <2>5 DEF RowAddsUp
<1>9. ASSUME NEW number \in Numbers, number # r.number, invoices'[number] # None
      PROVE  RowAddsUp(number)'
  <2>1. RowAddsUp(number) /\ UNCHANGED invoices[number]
    BY <1>5, <1>9 DEF DraftsHold
  <2>2. \A u \in Task : Drafting(u, number) => Drafting(u, number)'
    BY <1>7, <1>9 DEF Drafting
  <2> QED
    BY <1>1, <2>1, <2>2 DEF RowAddsUp
<1>10. ASSUME NEW u \in Task, At(u, "item")'
       PROVE  /\ invoices'[task'[u].req.number].of = task'[u].req
              /\ Len(invoices'[task'[u].req.number].items) = task'[u].at - 1
  <2>1. CASE u = t
    <3>1. task'[t].req = r /\ task'[t].at = n + 1
      BY <1>6, <1>10, <2>1 DEF At
    <3>2. Len(longer) = (n + 1) - 1
      BY <1>1, <1>4
    <3> QED
      BY <1>5, <2>1, <3>1, <3>2
  <2>2. CASE u # t
    BY <1>5, <1>7, <1>10, <2>2 DEF DraftsHold
  <2> QED
    BY <2>1, <2>2
<1>11. ASSUME NEW u \in Task, NEW v \in Task, At(u, "item")', At(v, "item")',
              task'[u].req.number = task'[v].req.number
       PROVE  u = v
  BY <1>6, <1>7, <1>11 DEF DraftsHold, At
<1>12. DraftsHold'
  <2>1. \A number \in Numbers : invoices'[number] # None => RowAddsUp(number)'
    BY <1>8, <1>9
  <2> QED
    BY <2>1, <1>10, <1>11 DEF DraftsHold
<1>13. task'[t] = None => longer = r.items
  <2>1. task'[t] = None => Len(longer) = Len(r.items)
    BY <1>4, <1>6 DEF At
  <2> QED
    BY <1>1, <1>4, <2>1, SeqEqual
<1> QED
  BY <1>5, <1>12, <1>13

LEMMA DraftsStep == Placed /\ DraftsHold /\ [Next]_vars => DraftsHold'
<1> SUFFICES ASSUME Placed, DraftsHold, [Next]_vars PROVE DraftsHold'
  OBVIOUS
<1>2. ASSUME NEW u \in Task, Step(u), ~InsertInvoice(u), ~InsertItem(u)
      PROVE  DraftsHold'
  <2>1. /\ ~At(u, "item") /\ ~At(u, "item")' /\ UNCHANGED <<invoices, cut>>
        /\ \A v \in Task \ {u} : Stays(v)
    BY <1>2, NobodyElseDrafts, StepsApart
  <2>2. \A t \in Task : /\ At(t, "item")' => At(t, "item") /\ UNCHANGED <<task[t].req, task[t].at>>
                        /\ At(t, "item") => At(t, "item")'
    BY <2>1 DEF At, Stays
  <2> QED
    BY <2>1, <2>2, DraftsStay
<1>3. ASSUME NEW u \in Task, task[u] = None, NEW r \in clients[u], Arrive(u, r)
      PROVE  DraftsHold'
  <2>1. UNCHANGED <<invoices, cut>> /\ \A v \in Task \ {u} : Stays(v)
    BY <1>3, StepsApart DEF Arrive, login, Call, Administer, Draft, tables
  <2>2. ~At(u, "item")'
    <3>1. CASE \E stage \in {"lookup", "admin"} : Begin(u, r, stage)
      <4>1. PICK stage \in {"lookup", "admin"} : Begin(u, r, stage)
        BY <3>1
      <4>2. task'[u].stage = stage
        BY <4>1, Begins DEF Stages
      <4> QED
        BY <4>2 DEF At
    <3>2. CASE UNCHANGED task
      BY <1>3, <3>2 DEF At
    <3> QED
      BY <1>3, <3>1, <3>2 DEF Arrive, login, Call, Administer, Draft, Dismiss
  <2>3. \A t \in Task : /\ At(t, "item")' => At(t, "item") /\ UNCHANGED <<task[t].req, task[t].at>>
                        /\ At(t, "item") => At(t, "item")'
    BY <1>3, <2>1, <2>2 DEF At, Stays
  <2> QED
    BY <2>1, <2>3, DraftsStay
<1>4. ASSUME NEW u \in Task, Abandon(u)
      PROVE  DraftsHold'
  <2>1. /\ UNCHANGED invoices /\ cut \subseteq cut' /\ task'[u] = None
        /\ \A t \in Task \ {u} : task'[t] = task[t]
        /\ At(u, "item") => task[u].req.number \in cut'
    BY <1>4, CutsDrafts DEF Abandon, tables, Placed, ApiTypeOK
  <2> QED
    BY <2>1, DraftsStay DEF At
<1>5. ASSUME NEW c \in Config, Restart(c)
      PROVE  DraftsHold'
  <2>1. /\ UNCHANGED invoices /\ cut \subseteq cut'
        /\ \A t \in Task : task'[t] = None /\ (At(t, "item") => task[t].req.number \in cut')
    BY <1>5, CutsDrafts DEF Restart, tables
  <2> QED
    BY <2>1, DraftsStay DEF At
<1>6. CASE UNCHANGED <<invoices, cut, task>>
  BY <1>6, DraftsStay DEF At
<1> QED
  BY <1>2, <1>3, <1>4, <1>5, <1>6, InsertInvoiceHolds, InsertItemHolds
     DEF Next, Step, RevokeDevice, Tick, vars, tables

AnsweredInFull ==
    answer # None /\ answer.req.op = "create_invoice" /\ answer.code = 201 =>
        /\ invoices[answer.req.number].of = answer.req
        /\ invoices[answer.req.number].items = answer.req.items

\* A draft is answered where its last item is in.
LEMMA DraftsAreAnswered ==
    ASSUME Placed, DraftsHold, [Next]_vars, ~UNCHANGED vars,
           answer' # None, answer'.req.op = "create_invoice", answer'.code = 201
    PROVE  /\ invoices'[answer'.req.number].of = answer'.req
           /\ invoices'[answer'.req.number].items = answer'.req.items
<1>1. PICK t \in Task : Answering(t, 201)
  <2>1. \A t, code : Answering(t, code) => code = answer'.code
    BY DEF Answering, Reply
  <2>2. \A t, r, code : Dismiss(t, r, code) => code = answer'.code
    BY DEF Dismiss, Reply
  <2> QED
    BY <2>1, <2>2, EveryAnswer
<1>2. answer'.req = task[t].req /\ task[t] # None
  BY <1>1 DEF Answering, Reply
<1>3. InsertItem(t) /\ ~(task[t].at < Len(task[t].req.items))
  BY <1>1, <1>2 DEF Answering
<1>4. task'[t] = None
  BY <1>2, <1>3, Finishes DEF InsertItem, Codes
<1> QED
  BY <1>2, <1>3, <1>4, InsertItemHolds

\* A prefix, element by element.
LEMMA FirstOnes ==
    ASSUME NEW S, NEW some \in Seq(S), NEW all \in Seq(S), Len(some) <= Len(all),
           \A i \in 1..Len(some) : some[i] = all[i]
    PROVE  SubSeq(some, 1, Len(some)) = SubSeq(all, 1, Len(some))
<1>1. Len(some) \in Nat /\ Len(all) \in Nat
  BY LenProperties
<1>2. PICK first : first = SubSeq(all, 1, Len(some))
  OBVIOUS
<1>3. \A i \in 1..Len(some) : all[i] \in S
  BY <1>1, ElementOfSeq
<1>4. /\ first \in Seq(S) /\ Len(first) = Len(some)
      /\ \A i \in 1..Len(some) : first[i] = all[i]
  BY <1>1, <1>2, <1>3, SubSeqProperties
<1>5. first = some
  BY <1>1, <1>4, SeqEqual
<1>6. SubSeq(some, 1, Len(some)) = some
  BY SubSeqFull
<1> QED
  BY <1>2, <1>5, <1>6

LEMMA RowsAddUp ==
    ASSUME Placed, DraftsHold, NEW number \in Numbers, invoices[number] # None
    PROVE  LET row == invoices[number]
           IN  /\ Fits(ItemSum(row.of.items)) => row.amount_minor = ItemSum(row.of.items)
               /\ IsPrefix(row.items, row.of.items)
               /\ \/ row.items = row.of.items
                  \/ \E t \in Task : Drafting(t, number)
                  \/ number \in cut
<1>1. PICK row : row = invoices[number]
  OBVIOUS
<1>2. RowAddsUp(number) /\ row \in Invoice /\ row.of \in Request
  BY <1>1 DEF DraftsHold, Placed, ApiTypeOK, Invoice
<1>3. PICK some \in Seq(LineItem), all \in Seq(LineItem) :
         /\ some = row.items /\ all = row.of.items
         /\ Len(some) \in Nat /\ Len(all) \in Nat
  BY <1>1, <1>2, RequestAssumption, LenProperties DEF Invoice, RowAddsUp
<1>4. /\ row.amount_minor = Total(all)
      /\ Len(some) <= Len(all) /\ \A i \in 1..Len(some) : some[i] = all[i]
      /\ \/ Len(some) = Len(all)
         \/ \E t \in Task : Drafting(t, number)
         \/ number \in cut
  BY <1>1, <1>2, <1>3 DEF RowAddsUp
<1>5. SubSeq(some, 1, Len(some)) = SubSeq(all, 1, Len(some))
  BY <1>3, <1>4, FirstOnes
<1>6. IsPrefix(some, all)
  BY <1>4, <1>5 DEF IsPrefix
<1>7. Len(some) = Len(all) => some = all
  BY <1>3, <1>4, SeqEqual
<1>8. Fits(ItemSum(all)) => Total(all) = ItemSum(all)
  BY <1>3, SumsThatFit
<1> QED
  BY <1>1, <1>3, <1>4, <1>6, <1>7, <1>8

\* An invoice asks for the sum of the items it was drafted with, if the integer holds it,
\* and the rows of its items are the first of those, all of them once it was answered or if
\* no fault cut its own drafting short, whichever drafts race for a number
\* (invoice.rs:68-106).
THEOREM DraftsAlwaysAddUp == Spec => []DraftsAddUp
<1>1. Init => DraftsHold
  BY DEF Init, DraftsHold, At
<1>2. Init => AnsweredInFull
  BY DEF Init, AnsweredInFull
<1>3. Placed /\ DraftsHold /\ AnsweredInFull /\ [Next]_vars => AnsweredInFull'
  <2>1. ASSUME UNCHANGED vars, AnsweredInFull PROVE AnsweredInFull'
    BY <2>1 DEF vars, tables, AnsweredInFull
  <2>2. ASSUME Placed, DraftsHold, [Next]_vars, ~UNCHANGED vars PROVE AnsweredInFull'
    BY <2>2, DraftsAreAnswered DEF AnsweredInFull
  <2> QED
    BY <2>1, <2>2
<1>4. Placed /\ DraftsHold /\ AnsweredInFull => DraftsAddUp
  BY RowsAddUp DEF AnsweredInFull, DraftsAddUp
<1> QED
  BY <1>1, <1>2, <1>3, <1>4, SpecIsPlaced, DraftsStep, PTL DEF Spec
-----------------------------------------------------------------------------
(* Hosts.                                                                   *)

\* SelectInSeq finds the first mark there is.
LEMMA FirstPlace ==
    ASSUME NEW url \in Seq(STRING), NEW mark
    PROVE  /\ Place(url, mark) \in 0..Len(url)
           /\ IF Place(url, mark) = 0 THEN \A i \in 1..Len(url) : url[i] # mark
              ELSE /\ url[Place(url, mark)] = mark
                   /\ \A i \in 1..(Place(url, mark) - 1) : url[i] # mark
<1> DEFINE places == {i \in 1..Len(url) : url[i] = mark}
<1>1. Len(url) \in Nat
  BY LenProperties
<1>2. CASE places = {}
  <2>1. Place(url, mark) = 0
    BY <1>2 DEF Place, SelectInSeq
  <2> QED
    BY <1>1, <1>2, <2>1
<1>3. CASE places # {}
  <2>1. Place(url, mark) = CHOOSE x \in places : \A y \in places : x <= y
    BY <1>3 DEF Place, SelectInSeq, Min
  <2>2. \E x \in places : \A y \in places : x <= y
    <3>1. places \subseteq Nat
      BY <1>1
    <3> QED
      BY <1>3, <3>1, Least
  <2>3. Place(url, mark) \in places /\ \A y \in places : Place(url, mark) <= y
    BY <2>1, <2>2
  <2> QED
    BY <1>1, <2>3
<1> QED
  BY <1>2, <1>3

\* What stands before the first mark: all there is, or what the mark follows.
LEMMA BeforeTheMark ==
    ASSUME NEW url \in Seq(STRING), NEW mark
    PROVE  LET before == UpTo(url, mark)
           IN  /\ before \in Seq(STRING) /\ Len(before) \in Nat /\ Len(url) \in Nat
               /\ Len(before) <= Len(url)
               /\ \A i \in 1..Len(before) : before[i] = url[i] /\ url[i] # mark
               /\ before = url \/ (Len(before) < Len(url) /\ url[Len(before) + 1] = mark)
<1>1. Len(url) \in Nat
  BY LenProperties
<1>2. CASE Place(url, mark) = 0
  BY <1>1, <1>2, FirstPlace DEF UpTo
<1>3. CASE Place(url, mark) # 0
  <2>1. PICK k \in Nat : k + 1 = Place(url, mark) /\ k < Len(url) /\ url[k + 1] = mark
                        /\ \A i \in 1..k : url[i] # mark
    <3>1. /\ Place(url, mark) \in 1..Len(url) /\ url[Place(url, mark)] = mark
          /\ \A i \in 1..(Place(url, mark) - 1) : url[i] # mark
      BY <1>1, <1>3, FirstPlace
    <3> QED
      BY <1>1, <3>1
  <2>2. UpTo(url, mark) = SubSeq(url, 1, k)
    BY <1>3, <2>1 DEF UpTo
  <2>3. PICK before : before = SubSeq(url, 1, k)
    OBVIOUS
  <2>4. \A i \in 1..k : url[i] \in STRING
    BY <1>1, <2>1, ElementOfSeq
  <2>5. /\ before \in Seq(STRING) /\ Len(before) = k
        /\ \A i \in 1..k : before[i] = url[i]
    BY <2>3, <2>4, SubSeqProperties
  <2> QED
    BY <1>1, <2>1, <2>2, <2>3, <2>5
<1> QED
  BY <1>2, <1>3

LEMMA PastTheMark ==
    ASSUME NEW url \in Seq(STRING), NEW mark
    PROVE  Past(url, mark) \in Seq(STRING)
<1>1. Len(url) \in Nat /\ Place(url, mark) \in Nat
  BY FirstPlace, LenProperties
<1>2. \A i \in (Place(url, mark) + 1)..Len(url) : url[i] \in STRING
  BY <1>1, ElementOfSeq
<1> QED
  BY <1>1, <1>2, SubSeqProperties DEF Past

\* Of a sequence whose first part is free of a mark, what comes before the mark that
\* the second part begins with is the first part.
LEMMA UpToIsFirst ==
    ASSUME NEW a \in Seq(STRING), NEW b \in Seq(STRING), NEW mark,
           mark \notin ToSet(a), b # <<>> => b[1] = mark
    PROVE  UpTo(a \o b, mark) = a
<1>1. PICK whole \in Seq(STRING) : whole = a \o b
  BY ConcatProperties
<1>2. PICK before \in Seq(STRING) : before = UpTo(whole, mark)
  BY BeforeTheMark
<1>3. /\ Len(a) \in Nat /\ Len(b) \in Nat /\ Len(whole) = Len(a) + Len(b)
      /\ \A i \in 1..Len(a) : whole[i] = a[i]
      /\ Len(b) > 0 => whole[Len(a) + 1] = b[1]
  <2>1. Len(a) \in Nat /\ Len(b) \in Nat
    BY LenProperties
  <2>2. /\ Len(whole) = Len(a) + Len(b)
        /\ \A i \in 1..(Len(a) + Len(b)) : whole[i] = IF i <= Len(a) THEN a[i] ELSE b[i - Len(a)]
    BY <1>1, ConcatProperties
  <2>3. Len(b) > 0 => Len(a) + 1 \in 1..(Len(a) + Len(b)) /\ (Len(a) + 1) - Len(a) = 1
    BY <2>1
  <2> QED
    BY <2>1, <2>2, <2>3
<1>4. \A i \in 1..Len(a) : a[i] # mark
  BY LenProperties DEF ToSet
<1>5. /\ Len(before) \in Nat /\ Len(before) <= Len(whole)
      /\ \A i \in 1..Len(before) : before[i] = whole[i] /\ whole[i] # mark
      /\ before = whole \/ (Len(before) < Len(whole) /\ whole[Len(before) + 1] = mark)
  BY <1>2, BeforeTheMark
<1>6. Len(b) > 0 => b[1] = mark
  BY EmptySeq
<1>7. ~(Len(before) > Len(a))
  <2>1. SUFFICES ASSUME Len(before) > Len(a) PROVE FALSE
    OBVIOUS
  <2>2. Len(b) > 0 /\ Len(a) + 1 \in 1..Len(before)
    BY <1>3, <1>5, <2>1
  <2> QED
    BY <1>3, <1>5, <1>6, <2>2
<1>8. ~(Len(before) < Len(a))
  <2>1. SUFFICES ASSUME Len(before) < Len(a) PROVE FALSE
    OBVIOUS
  <2>2. Len(before) + 1 \in 1..Len(a) /\ Len(before) # Len(whole)
    BY <1>3, <1>5, <2>1
  <2> QED
    BY <1>3, <1>4, <1>5, <2>2
<1>9. Len(before) = Len(a)
  BY <1>3, <1>5, <1>7, <1>8
<1>10. before = a
  BY <1>3, <1>5, <1>9, SeqEqual
<1> QED
  BY <1>1, <1>2, <1>10

\* Past a mark there is not, everything; past the one that ends a scheme, what follows it.
LEMMA PastNothing ==
    ASSUME NEW a \in Seq(STRING), NEW mark, mark \notin ToSet(a)
    PROVE  Past(a, mark) = a
<1>1. \A i \in 1..Len(a) : a[i] # mark
  BY LenProperties DEF ToSet
<1>2. Place(a, mark) = 0
  BY <1>1, FirstPlace, LenProperties
<1>3. Past(a, mark) = SubSeq(a, 1, Len(a))
  BY <1>2 DEF Past
<1> QED
  BY <1>3, SubSeqFull

LEMMA PastTheScheme ==
    ASSUME NEW s \in Seq(STRING), NEW b \in Seq(STRING), NEW mark,
           Len(s) = 2, s[1] # mark, s[2] = mark
    PROVE  Past(s \o b, mark) = b
<1>1. PICK whole \in Seq(STRING) : whole = s \o b
  BY ConcatProperties
<1>2. PICK n \in Nat : n = Len(b)
  BY LenProperties
<1>3. Len(whole) = 2 + n /\ \A i \in 1..(2 + n) : whole[i] = IF i <= 2 THEN s[i] ELSE b[i - 2]
  <2>1. /\ Len(whole) = Len(s) + Len(b)
        /\ \A i \in 1..(Len(s) + Len(b)) : whole[i] = IF i <= Len(s) THEN s[i] ELSE b[i - Len(s)]
    BY <1>1, ConcatProperties
  <2> QED
    BY <1>2, <2>1
<1>4. whole[1] # mark /\ whole[2] = mark
  BY <1>2, <1>3
<1>5. PICK k : k = Place(whole, mark)
  OBVIOUS
<1>6. /\ k \in 0..(2 + n)
      /\ IF k = 0 THEN \A i \in 1..(2 + n) : whole[i] # mark
         ELSE whole[k] = mark /\ \A i \in 1..(k - 1) : whole[i] # mark
  <2>1. /\ Place(whole, mark) \in 0..Len(whole)
        /\ IF Place(whole, mark) = 0 THEN \A i \in 1..Len(whole) : whole[i] # mark
           ELSE /\ whole[Place(whole, mark)] = mark
                /\ \A i \in 1..(Place(whole, mark) - 1) : whole[i] # mark
    BY FirstPlace
  <2> QED
    BY <1>3, <1>5, <2>1
<1>7. k = 2
  BY <1>2, <1>4, <1>6
<1>8. PICK rest : rest = SubSeq(whole, 3, 2 + n)
  OBVIOUS
<1>9. \A i \in 3..(2 + n) : whole[i] \in STRING
  BY <1>3, ElementOfSeq
<1>10. /\ rest \in Seq(STRING) /\ Len(rest) = n
       /\ \A i \in 1..n : rest[i] = whole[2 + i]
  <2>1. /\ SubSeq(whole, 3, 2 + n) \in Seq(STRING)
        /\ Len(SubSeq(whole, 3, 2 + n)) = IF 3 <= 2 + n THEN (2 + n) - 3 + 1 ELSE 0
        /\ \A i \in 1..((2 + n) - 3 + 1) : SubSeq(whole, 3, 2 + n)[i] = whole[3 + i - 1]
    BY <1>2, <1>9, SubSeqProperties
  <2>2. \A i \in 1..n : 3 + i - 1 = 2 + i
    OBVIOUS
  <2> QED
    BY <1>2, <1>8, <2>1, <2>2
<1>11. \A i \in 1..n : whole[2 + i] = b[i]
  BY <1>3
<1>12. rest = b
  BY <1>2, <1>10, <1>11, SeqEqual
<1>13. Past(whole, mark) = rest
  BY <1>3, <1>5, <1>7, <1>8 DEF Past
<1> QED
  BY <1>1, <1>12, <1>13

LEMMA FreeOfBoth ==
    ASSUME NEW a \in Seq(STRING), NEW b \in Seq(STRING), NEW mark,
           mark \notin ToSet(a), mark \notin ToSet(b)
    PROVE  a \o b \in Seq(STRING) /\ mark \notin ToSet(a \o b)
<1>1. PICK whole \in Seq(STRING) : whole = a \o b
  BY ConcatProperties
<1>2. /\ Len(a) \in Nat /\ Len(b) \in Nat
      /\ DOMAIN a = 1..Len(a) /\ DOMAIN b = 1..Len(b) /\ DOMAIN whole = 1..Len(whole)
  BY LenProperties
<1>3. /\ Len(whole) = Len(a) + Len(b)
      /\ \A i \in 1..(Len(a) + Len(b)) : whole[i] = IF i <= Len(a) THEN a[i] ELSE b[i - Len(a)]
  BY <1>1, ConcatProperties
<1>4. \A i \in 1..Len(a) : a[i] # mark
  BY <1>2 DEF ToSet
<1>5. \A i \in 1..Len(b) : b[i] # mark
  BY <1>2 DEF ToSet
<1>6. ASSUME NEW i \in 1..(Len(a) + Len(b)) PROVE whole[i] # mark
  <2>1. CASE i <= Len(a)
    BY <1>2, <1>3, <1>4, <2>1
  <2>2. CASE ~(i <= Len(a))
    <3>1. i - Len(a) \in 1..Len(b)
      BY <1>2, <2>2
    <3> QED
      BY <1>3, <1>5, <2>2, <3>1
  <2> QED
    BY <2>1, <2>2
<1>7. mark \notin ToSet(whole)
  BY <1>2, <1>3, <1>6 DEF ToSet
<1> QED
  BY <1>1, <1>7

\* What the code reads out of the text of a plain URL is its host.
LEMMA HostIsRead ==
    ASSUME NEW url \in UrlParts, IsUrl(url), IsPlain(url)
    PROVE  host_of(Text(url)) = IF url.host = <<>> THEN None ELSE url.host
<1>1. PICK scheme \in Seq(STRING), host \in Seq(STRING), port \in Seq(STRING), path \in Seq(STRING) :
         scheme = url.scheme /\ host = url.host /\ port = url.port /\ path = url.path
  BY DEF UrlParts
<1>2. /\ scheme # <<>> => Len(scheme) = 2 /\ scheme[1] # "://" /\ scheme[2] = "://"
      /\ "/" \notin ToSet(host) /\ "://" \notin ToSet(host) /\ ":" \notin ToSet(host)
      /\ "/" \notin ToSet(port) /\ "://" \notin ToSet(port)
      /\ port # <<>> => port[1] = ":"
      /\ path # <<>> => path[1] = "/"
      /\ scheme = <<>> => "://" \notin ToSet(path)
  BY <1>1 DEF IsUrl, IsPlain
<1>3. PICK authority \in Seq(STRING) :
         authority = host \o port /\ "/" \notin ToSet(authority) /\ "://" \notin ToSet(authority)
  <2>1. host \o port \in Seq(STRING) /\ "/" \notin ToSet(host \o port)
    BY <1>2, FreeOfBoth
  <2>2. "://" \notin ToSet(host \o port)
    BY <1>2, FreeOfBoth
  <2> QED
    BY <2>1, <2>2
<1>4. PICK rest \in Seq(STRING) :
         rest = authority \o path /\ (scheme = <<>> => "://" \notin ToSet(rest))
  <2>1. authority \o path \in Seq(STRING)
    BY ConcatProperties
  <2>2. scheme = <<>> => "://" \notin ToSet(authority \o path)
    BY <1>2, <1>3, FreeOfBoth
  <2> QED
    BY <2>1, <2>2
<1>5. Text(url) = scheme \o rest
  <2>1. <<>> \o authority = authority
    BY ConcatEmptySeq
  <2> QED
    BY <1>1, <1>3, <1>4, <2>1 DEF Text, IsPlain
<1>6. Past(Text(url), "://") = rest
  <2>1. CASE scheme = <<>>
    <3>1. Text(url) = rest
      BY <1>5, <2>1, ConcatEmptySeq
    <3> QED
      BY <1>4, <2>1, <3>1, PastNothing
  <2>2. CASE scheme # <<>>
    BY <1>2, <1>5, <2>2, PastTheScheme
  <2> QED
    BY <2>1, <2>2
<1>7. UpTo(rest, "/") = authority
  <2>1. UpTo(authority \o path, "/") = authority
    BY <1>2, <1>3, UpToIsFirst, ZenonT(30)
  <2> QED
    BY <1>4, <2>1
<1>8. UpTo(authority, ":") = host
  BY <1>2, <1>3, UpToIsFirst, ZenonT(30)
<1> QED
  BY <1>1, <1>6, <1>7, <1>8 DEF host_of
-----------------------------------------------------------------------------
(* What a checkout knows of the lists.                                      *)

\* Some list in force allowed the nth URL of a request, if it is a plain one.
WasAllowed(q, n) ==
    LET url == Urls(q.req)[n]
    IN  url # None /\ IsPlain(url) => \E list \in q.lists : Allows(list, url)

\* A checkout has noted the list in force; the URLs behind it were allowed; and it looks
\* for a host because it read one, and because it counted a domain.
Looked(q, listed) ==
    q.req.op = "checkout" =>
        /\ listed \in q.lists
        /\ \A n \in 1..2 :
              q.stage = "insert" \/ (q.stage \in {"count", "find"} /\ n < q.at) => WasAllowed(q, n)
        /\ q.stage = "find" =>
              host_of(Text(Urls(q.req)[q.at])) # None /\ \E list \in q.lists : list # {}

ListsHold == \A t \in Task : task[t] # None => Looked(task[t], Listed)

\* Whatever becomes of the list, a task that stays where it is keeps what it knows.
LEMMA StillLooked ==
    ASSUME ListsHold, NEW t \in Task, Stays(t), task'[t] # None
    PROVE  Looked(task'[t], Listed')
<1>1. task[t] # None /\ Looked(task[t], Listed)
  BY DEF Stays, ListsHold
<1>2. /\ task'[t].req = task[t].req /\ task'[t].stage = task[t].stage
      /\ task'[t].at = task[t].at
  BY <1>1 DEF Stays
<1>3. SUFFICES ASSUME task[t].req.op = "checkout"
               PROVE  Looked(task'[t], Listed')
  BY <1>2 DEF Looked
<1>4. \/ Listed' = Listed /\ task'[t].lists = task[t].lists
      \/ task'[t].lists = task[t].lists \cup {Listed'}
  BY <1>1, <1>3 DEF Stays, Noting
<1>5. \A n \in 1..2 : WasAllowed(task[t], n) => WasAllowed(task'[t], n)
  BY <1>2, <1>4 DEF WasAllowed
<1> QED
  BY <1>1, <1>2, <1>3, <1>4, <1>5 DEF Looked

\* On to the next URL, when those before it were allowed.
LEMMA CheckLooks ==
    ASSUME Placed, NEW t \in Task, task[t] # None, NEW n \in 1..3, Check(t, n),
           Listed \in task[t].lists, \A m \in 1..2 : m < n => WasAllowed(task[t], m)
    PROVE  Looked(task'[t], Listed)
<1> DEFINE urls == Urls(task[t].req)
<1>1. ASSUME NEW m \in 1..2, urls[m] = None
      PROVE  WasAllowed(task[t], m)
  BY <1>1 DEF WasAllowed
<1>2. CASE Move(t, "insert", 1) /\ \A m \in n..2 : urls[m] = None
  <2>1. /\ task'[t].stage = "insert" /\ task'[t].req = task[t].req
        /\ task'[t].lists = task[t].lists
    BY <1>2, Moves DEF Stages
  <2>2. \A m \in 1..2 : WasAllowed(task[t], m)
    BY <1>1, <1>2
  <2> QED
    BY <2>1, <2>2 DEF Looked, WasAllowed
<1>3. ASSUME NEW k \in n..2, Move(t, "count", k), \A m \in n..(k - 1) : urls[m] = None
      PROVE  Looked(task'[t], Listed)
  <2>1. /\ task'[t].stage = "count" /\ task'[t].at = k /\ task'[t].req = task[t].req
        /\ task'[t].lists = task[t].lists
    BY <1>3, Moves DEF Stages
  <2>2. \A m \in 1..2 : m < k => WasAllowed(task[t], m)
    BY <1>1, <1>3
  <2> QED
    BY <2>1, <2>2 DEF Looked, WasAllowed
<1> QED
  BY <1>2, <1>3, Checks

\* A checkout's URLs are such, and none of them nor any domain is None.
LEMMA UrlsAndDomains ==
    /\ \A r \in Request : \A n \in 1..2 :
          r.op = "checkout" /\ Urls(r)[n] # None => Urls(r)[n] \in UrlParts /\ IsUrl(Urls(r)[n])
    /\ \A d \in Domains : d \in Seq(STRING) /\ d # None
<1>1. ASSUME NEW r \in Request, r.op = "checkout", NEW n \in 1..2, Urls(r)[n] # None
      PROVE  Urls(r)[n] \in UrlParts /\ IsUrl(Urls(r)[n])
  <2>1. /\ {r.return_url, r.webhook_url} \subseteq UrlParts \cup {None}
        /\ \A url \in {r.return_url, r.webhook_url} \ {None} : IsUrl(url)
    BY <1>1, RequestAssumption
  <2>2. Urls(r)[n] \in {r.return_url, r.webhook_url}
    BY DEF Urls
  <2> QED
    BY <1>1, <2>1, <2>2
<1>2. \A d \in Domains : d \in Seq(STRING) /\ d # None
  BY RequestAssumption, ApiAssumption DEF Domains
<1> QED
  BY <1>1, <1>2

\* A statement of a checkout's own.
LEMMA CheckoutLooks ==
    ASSUME Placed, ListsHold, NEW t \in Task, task'[t] # None,
           LookUp(t) \/ Stamp(t) \/ Count(t) \/ Find(t) \/ Insert(t)
    PROVE  Looked(task'[t], Listed')
<1> DEFINE q == task[t]
<1>1. /\ q # None /\ q \in Serving /\ PlaceFits(q) /\ Looked(q, Listed) /\ Listed' = Listed
      /\ q.req \in Request
  BY DEF LookUp, Stamp, Count, Find, Insert, At, Placed, ApiTypeOK, ListsHold, tables, Listed,
         Serving
<1>2. \A code \in Codes : ~Finish(t, code)
  BY <1>1, Finishes
<1>3. ASSUME NEW stage \in {"stamp", "find"}, NEW n \in Nat, Move(t, stage, n)
      PROVE  /\ task'[t].stage = stage /\ task'[t].at = n /\ task'[t].req = q.req
             /\ task'[t].lists = q.lists
  BY <1>1, <1>3, Moves DEF Stages
<1>4. CASE LookUp(t)
  <2>1. Move(t, "stamp", 1)
    BY <1>2, <1>4 DEF LookUp, Codes
  <2> QED
    BY <1>1, <1>3, <2>1 DEF Looked, WasAllowed
<1>5. CASE Stamp(t)
  <2>1. Check(t, 1) /\ q.req.op = "checkout"
    BY <1>2, <1>5 DEF Stamp, Serve, Codes
  <2> QED
    BY <1>1, <2>1, CheckLooks DEF Looked
<1>6. CASE Count(t)
  <2>1. /\ q.stage = "count" /\ q.at \in 1..2 /\ q.req.op = "checkout" /\ Listed \in q.lists
        /\ \A m \in 1..2 : m < q.at => WasAllowed(q, m)
    BY <1>1, <1>6 DEF Count, At, PlaceFits, Looked
  <2>2. CASE Listed = {} /\ Check(t, q.at + 1)
    <3>1. WasAllowed(q, q.at)
      BY <2>1, <2>2 DEF WasAllowed, Allows
    <3>2. \A m \in 1..2 : m < q.at + 1 => WasAllowed(q, m)
      BY <2>1, <3>1
    <3> QED
      BY <1>1, <2>1, <2>2, <3>2, CheckLooks
  <2>3. CASE Listed # {} /\ host_of(Url(t)) # None /\ Move(t, "find", q.at)
    <3>1. /\ task'[t].stage = "find" /\ task'[t].at = q.at /\ task'[t].req = q.req
          /\ task'[t].lists = q.lists
      BY <1>3, <2>1, <2>3
    <3> QED
      BY <1>1, <2>1, <2>3, <3>1 DEF Looked, WasAllowed, Url
  <2> QED
    BY <1>2, <1>6, <2>2, <2>3 DEF Count, Codes
<1>7. CASE Find(t)
  <2>1. /\ q.stage = "find" /\ q.at \in 1..2 /\ q.req.op = "checkout" /\ Listed \in q.lists
        /\ \A m \in 1..2 : m < q.at => WasAllowed(q, m)
        /\ Urls(q.req)[q.at] # None /\ host_of(Text(Urls(q.req)[q.at])) # None
    BY <1>1, <1>7 DEF Find, At, PlaceFits, Looked
  <2>2. host_of(Text(Urls(q.req)[q.at])) \in Listed /\ Check(t, q.at + 1)
    BY <1>2, <1>7 DEF Find, Codes, Url
  <2>3. PICK url \in UrlParts : url = Urls(q.req)[q.at] /\ IsUrl(url)
    BY <1>1, <2>1, UrlsAndDomains
  <2>4. IsPlain(url) => Allows(Listed, url)
    BY <2>1, <2>2, <2>3, HostIsRead DEF Allows
  <2>5. WasAllowed(q, q.at)
    BY <2>1, <2>3, <2>4 DEF WasAllowed
  <2>6. \A m \in 1..2 : m < q.at + 1 => WasAllowed(q, m)
    BY <2>1, <2>5
  <2> QED
    BY <1>1, <2>1, <2>2, <2>6, CheckLooks
<1>8. CASE Insert(t)
  BY <1>2, <1>8 DEF Insert, Codes
<1> QED
  BY <1>4, <1>5, <1>6, <1>7, <1>8

LEMMA ListsStep == Placed /\ ListsHold /\ [Next]_vars => ListsHold'
<1> SUFFICES ASSUME Placed, ListsHold, [Next]_vars, NEW v \in Task, task'[v] # None
             PROVE  Looked(task'[v], Listed')
  BY DEF ListsHold
<1>1. ASSUME Stays(v) PROVE Looked(task'[v], Listed')
  BY <1>1, StillLooked
<1>2. ASSUME NEW u \in Task, u # v,
             Step(u) \/ Abandon(u) \/ \E r \in clients[u] : Arrive(u, r)
      PROVE  Looked(task'[v], Listed')
  BY <1>1, <1>2, StepsApart
<1>3. ASSUME task'[v].req.op # "checkout" PROVE Looked(task'[v], Listed')
  BY <1>3 DEF Looked
<1>4. ASSUME task[v] = None, NEW r \in clients[v], Arrive(v, r)
      PROVE  Looked(task'[v], Listed')
  <2>1. PICK stage \in {"lookup", "admin"} :
           Begin(v, r, stage) /\ (stage = "lookup" \/ r.op # "checkout")
    BY <1>4 DEF Arrive, login, Call, Administer, Draft, Dismiss
  <2>2. /\ task'[v].req = r /\ task'[v].stage = stage
        /\ task'[v].lists = IF r.op \in Noting THEN {Listed} ELSE {}
    <3>1. stage \in Stages /\ Begin(v, r, stage)
      BY <2>1 DEF Stages
    <3> QED
      BY <1>4, <3>1, Begins
  <2>3. Listed' = Listed
    BY <1>4 DEF Arrive, login, Call, Administer, Draft, tables, Listed
  <2> QED
    BY <2>1, <2>2, <2>3 DEF Looked, Noting
<1>5. CASE LookUp(v) \/ Stamp(v) \/ Count(v) \/ Find(v) \/ Insert(v)
  BY <1>5, CheckoutLooks
<1>6. ASSUME Step(v), ~(LookUp(v) \/ Stamp(v) \/ Count(v) \/ Find(v) \/ Insert(v))
      PROVE  Looked(task'[v], Listed')
  <2>1. task[v] # None /\ task'[v].req = task[v].req /\ PlaceFits(task[v])
    BY <1>6, StepsOn DEF Placed
  <2>2. task[v].req.op # "checkout"
    BY <1>6, <2>1 DEF Step, create_api_key, pair_device, revoke_api_key, create_domain, Reread,
       delete_domain, InsertInvoice, InsertItem, Does, At, PlaceFits, Guarded
  <2> QED
    BY <1>3, <2>1, <2>2
<1>7. CASE \/ UNCHANGED <<task, allowed_domains>>
           \/ Abandon(v)
           \/ \E c \in Config : Restart(c)
  <2>1. UNCHANGED <<task, allowed_domains>>
    BY <1>7 DEF Abandon, Restart, Placed, ApiTypeOK
  <2> QED
    BY <1>1, <2>1 DEF Stays, Listed
<1> QED
  BY <1>2, <1>4, <1>5, <1>6, <1>7 DEF Next, RevokeDevice, Tick, vars, tables

LEMMA SpecListsHold == Spec => [](Placed /\ ListsHold)
<1>1. Init => ListsHold
  BY DEF Init, ListsHold
<1> QED
  BY <1>1, SpecIsPlaced, ListsStep, PTL DEF Spec

LEMMA AcceptedStep ==
    Placed /\ ListsHold /\ AcceptedWasAllowed /\ [Next]_vars => AcceptedWasAllowed'
<1> SUFFICES ASSUME Placed, ListsHold, AcceptedWasAllowed, [Next]_vars, answer' # None,
                    answer'.req.op = "checkout", answer'.code = 200
             PROVE  \A n \in 1..2 : WasAllowed(answer', n)
  BY DEF AcceptedWasAllowed, Checkout, WasAllowed, Urls, IsPlain, Allows
<1>1. CASE UNCHANGED vars
  BY <1>1 DEF vars, AcceptedWasAllowed, Checkout, WasAllowed
<1>2. ASSUME NEW t \in Task, NEW code, Answering(t, code)
      PROVE  \A n \in 1..2 : WasAllowed(answer', n)
  <2> DEFINE q == task[t]
  <2>1. /\ q # None /\ PlaceFits(q) /\ Looked(q, Listed)
        /\ answer'.req = q.req /\ answer'.lists = q.lists /\ code = 200
    BY <1>2 DEF Answering, Reply, Placed, ListsHold
  <2>2. Insert(t)
    BY <1>2, <2>1 DEF Answering, PlaceFits, Guarded
  <2>3. q.stage = "insert"
    BY <2>2 DEF Insert, At
  <2> QED
    BY <2>1, <2>3 DEF Looked, WasAllowed
<1>3. ASSUME NEW t, NEW r, NEW code, r.op \notin Guarded, Dismiss(t, r, code)
      PROVE  FALSE
  BY <1>3, FreshRequest DEF Dismiss, Reply, Guarded
<1> QED
  BY <1>1, <1>2, <1>3, EveryAnswer

\* However the list is edited between a checkout's reads of it, the checkout goes through
\* only if the host of each of its plain URLs was listed, or the list was empty, at some
\* moment while it was served (domain.rs:72-94, checkout.rs:85-89).
THEOREM AcceptedUrlsWereAllowed == Spec => []AcceptedWasAllowed
<1>1. Init => AcceptedWasAllowed
  BY DEF Init, AcceptedWasAllowed, Checkout
<1> QED
  BY <1>1, SpecListsHold, AcceptedStep, PTL DEF Spec

LEMMA RefusedStep == Placed /\ ListsHold /\ RefusedUnlessEmptied /\ [Next]_vars => RefusedUnlessEmptied'
<1> DEFINE Why(reply) ==
             \/ \E n \in 1..2 :
                   LET url == Urls(reply.req)[n]
                   IN  url # None /\ (IsPlain(url) => \E list \in reply.lists : ~Allows(list, url))
             \/ {} \in reply.lists /\ reply.lists # {{}}
<1> SUFFICES ASSUME Placed, ListsHold, RefusedUnlessEmptied, [Next]_vars, answer' # None,
                    answer'.req.op = "checkout", answer'.code = 422,
                    IsPositive(answer'.req.amount)
             PROVE  Why(answer')
  BY DEF RefusedUnlessEmptied, Checkout, IsPositive, Urls, IsPlain, Allows
<1>1. CASE UNCHANGED vars
  BY <1>1 DEF vars, RefusedUnlessEmptied, Checkout, IsPositive
<1>2. ASSUME NEW t \in Task, NEW code, Answering(t, code)
      PROVE  Why(answer')
  <2> DEFINE q == task[t]
             url == Urls(q.req)[q.at]
  <2>1. /\ q # None /\ PlaceFits(q) /\ Looked(q, Listed) /\ q \in Serving /\ q.req \in Request
        /\ answer'.req = q.req /\ answer'.lists = q.lists /\ code = 422
    BY <1>2 DEF Answering, Reply, Placed, ListsHold, ApiTypeOK, Serving
  <2>2. \/ Count(t) /\ Listed # {} /\ host_of(Url(t)) = None
        \/ Find(t) /\ host_of(Url(t)) \notin Listed
    BY <1>2, <2>1 DEF Answering
  <2>3. /\ q.stage \in {"count", "find"} /\ q.at \in 1..2 /\ url # None
        /\ Listed \in q.lists /\ Listed \in SUBSET Domains
    BY <2>1, <2>2 DEF Count, Find, At, PlaceFits, Looked, Listed
  <2>4. url \in UrlParts /\ IsUrl(url)
    BY <2>1, <2>3, UrlsAndDomains
  <2>5. host_of(Text(url)) \notin Listed
    <3>1. None \notin Listed
      BY <2>3, UrlsAndDomains
    <3> QED
      BY <2>2, <3>1 DEF Url
  <2>6. CASE Listed # {}
    <3>1. IsPlain(url) => ~Allows(Listed, url)
      BY <2>4, <2>5, <2>6, HostIsRead DEF Allows
    <3> HIDE DEF url
    <3>2. url # None /\ (IsPlain(url) => \E list \in q.lists : ~Allows(list, url))
      BY <2>3, <3>1
    <3> QED
      BY <2>1, <2>3, <3>2 DEF url
  <2>7. CASE Listed = {}
    <3>1. q.stage = "find"
      BY <2>2, <2>7 DEF Find, At
    <3>2. \E list \in q.lists : list # {}
      BY <2>1, <3>1 DEF Looked
    <3> QED
      BY <2>1, <2>3, <2>7, <3>2
  <2> QED
    BY <2>6, <2>7
<1>3. ASSUME NEW t, NEW r, NEW code, r.op \notin Guarded, Dismiss(t, r, code)
      PROVE  FALSE
  BY <1>3, FreshRequest DEF Dismiss, Reply, Guarded
<1> QED
  BY <1>1, <1>2, <1>3, EveryAnswer

\* Whatever the operator lists, a checkout is turned away for its URLs only if one of them
\* is not plain, a list in force forbade one of them, or the list became empty between the
\* count and the look-up (domain.rs:77-92).
THEOREM OnlyForbiddenAreRefused == Spec => []RefusedUnlessEmptied
<1>1. Init => RefusedUnlessEmptied
  BY DEF Init, RefusedUnlessEmptied, Checkout
<1> QED
  BY <1>1, SpecListsHold, RefusedStep, PTL DEF Spec
=============================================================================
