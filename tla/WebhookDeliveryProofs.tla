----------------------- MODULE WebhookDeliveryProofs ------------------------
(***************************************************************************)
(* Theorems about WebhookDelivery, for any number of rows, any limits and  *)
(* any number of faults.                                                   *)
(***************************************************************************)
EXTENDS WebhookDelivery, FiniteSetTheorems, SequenceTheorems, TLAPS

\* The snapshot is as good as a fresh read: what is left of the batch is due rows,
\* each once, with the attempts they have on record.
BatchIsCurrent ==
    /\ \A m \in DOMAIN batch :
          /\ batch[m].attempts = attempts[batch[m].id]
          /\ IsDue(batch[m].id)
    /\ \A m, n \in DOMAIN batch : batch[m].id = batch[n].id => m = n

\* A row is tried again only while it has attempts left.
AttemptsLeft ==
    \A d \in Delivery : /\ status[d] = "absent" => attempts[d] = 0
                        /\ status[d] = "pending" => attempts[d] < MaxAttempts

\* Only a fault hides an outcome.
OnlyFaultsLose == \A d \in Delivery : lost[d] <= faults

\* A success about to be recorded was taken in.
SuccessIsTrue == worker = "record" /\ success => received[Head(batch).id] > 0

\* The inductive invariant.
QueueIsSound ==
    /\ TypeOK /\ BatchIsCurrent /\ AttemptsLeft /\ OnlyFaultsLose /\ SuccessIsTrue
    /\ PostsAccountedFor /\ ConclusionsAreTrue
-----------------------------------------------------------------------------
\* A power of two is a natural number: it counts the subsets of 1..n.
LEMMA PowersAreNatural == \A n \in Nat : 2 ^ n \in Nat
<1> TAKE n \in Nat
<1>1. IsFiniteSet(1..n) /\ Cardinality(1..n) = n
  BY FS_Interval
<1>2. IsFiniteSet(SUBSET (1..n)) /\ Cardinality(SUBSET (1..n)) = 2 ^ n
  BY <1>1, FS_SUBSET
<1> QED
  BY <1>2, FS_CardinalityType

LEMMA BackoffIsBounded == \A n \in Nat : backoff_seconds(n) \in 0..BackoffCap
BY PowersAreNatural, WebhookAssumption DEF backoff_seconds

LEMMA BatchTyped ==
    ASSUME TypeOK
    PROVE  /\ batch \in Seq(Due) /\ DOMAIN batch = 1..Len(batch) /\ Len(batch) \in Nat
           /\ \A m \in DOMAIN batch : batch[m] \in Due /\ batch[m].id \in Delivery
                                      /\ batch[m].attempts \in Nat
<1>1. batch \in Seq(Due)
  BY DEF TypeOK
<1>2. /\ DOMAIN batch = 1..Len(batch) /\ Len(batch) \in Nat
      /\ \A m \in DOMAIN batch : batch[m] \in Due
  BY <1>1
<1> QED
  BY <1>1, <1>2 DEF Due

\* The row being sent, and what remains behind it.
LEMMA BatchSplits ==
    ASSUME TypeOK, worker \in {"send", "record"}
    PROVE  /\ 1 \in DOMAIN batch /\ Head(batch) = batch[1] /\ Head(batch) \in Due
           /\ Tail(batch) \in Seq(Due) /\ Len(Tail(batch)) = Len(batch) - 1
           /\ \A m \in DOMAIN Tail(batch) : /\ m + 1 \in DOMAIN batch
                                            /\ Tail(batch)[m] = batch[m + 1]
           /\ Len(batch) = 1 <=> Tail(batch) = <<>>
           /\ Head(batch).id \in Delivery
<1>1. batch \in Seq(Due) /\ batch # <<>>
  BY DEF TypeOK
<1>2. Len(batch) \in Nat \ {0} /\ 1 \in DOMAIN batch /\ Head(batch) = batch[1]
  BY <1>1
<1>3. Tail(batch) \in Seq(Due) /\ Len(Tail(batch)) = Len(batch) - 1
  BY <1>1
<1>4. \A m \in DOMAIN Tail(batch) : m + 1 \in DOMAIN batch /\ Tail(batch)[m] = batch[m + 1]
  BY <1>1
<1>5. Len(batch) = 1 <=> Tail(batch) = <<>>
  <2>1. \A t \in Seq(Due) : t = <<>> <=> Len(t) = 0
    BY EmptySeq
  <2>2. PICK rest \in Seq(Due) : rest = Tail(batch) /\ Len(rest) = Len(batch) - 1
    BY <1>3
  <2>3. rest = <<>> <=> Len(batch) - 1 = 0
    BY <2>1, <2>2
  <2> QED
    BY <1>2, <2>2, <2>3
<1>6. batch[1] \in Due
  BY <1>1, <1>2
<1> QED
  BY <1>1, <1>2, <1>3, <1>4, <1>5, <1>6 DEF Due
-----------------------------------------------------------------------------
LEMMA QueueStarts == Init => QueueIsSound
<1> SUFFICES ASSUME Init PROVE QueueIsSound
  OBVIOUS
<1>1. TypeOK
  <2>1. batch \in Seq(Due) /\ Len(batch) <= BatchLimit
    BY WebhookAssumption DEF Init
  <2>2. wait \in [Delivery -> (-MaxOverdue)..BackoffCap] /\ faults \in 0..MaxFaults
    BY WebhookAssumption DEF Init
  <2>3. /\ status \in [Delivery -> {"absent", "pending", "delivered", "failed"}]
        /\ attempts \in [Delivery -> 0..MaxAttempts]
        /\ posts \in [Delivery -> Nat] /\ received \in [Delivery -> Nat]
        /\ lost \in [Delivery -> Nat]
    BY WebhookAssumption DEF Init
  <2>4. success \in BOOLEAN /\ worker = "poll" /\ batch = <<>>
    BY DEF Init
  <2> QED
    BY <2>1, <2>2, <2>3, <2>4 DEF TypeOK
<1>2. BatchIsCurrent /\ AttemptsLeft /\ SuccessIsTrue
  BY WebhookAssumption DEF Init, BatchIsCurrent, AttemptsLeft, SuccessIsTrue
<1>3. OnlyFaultsLose /\ PostsAccountedFor /\ ConclusionsAreTrue
  BY DEF Init, OnlyFaultsLose, PostsAccountedFor, ConclusionsAreTrue, InFlight
<1> QED
  BY <1>1, <1>2, <1>3 DEF QueueIsSound

LEMMA EnqueueKeeps == \A d \in Delivery : QueueIsSound /\ enqueue(d) => QueueIsSound'
<1> SUFFICES ASSUME NEW d \in Delivery, QueueIsSound, enqueue(d) PROVE QueueIsSound'
  OBVIOUS
<1> USE DEF QueueIsSound
<1>1. /\ status[d] = "absent" /\ status' = [status EXCEPT ![d] = "pending"]
      /\ UNCHANGED <<attempts, wait, worker, batch, success, posts, received, lost, faults>>
  BY DEF enqueue, local, history
<1>2. TypeOK'
  BY <1>1 DEF TypeOK
<1>3. BatchIsCurrent'
  <2>1. \A m \in DOMAIN batch : batch[m].id # d
    BY <1>1 DEF BatchIsCurrent, IsDue
  <2>2. \A m \in DOMAIN batch : batch[m].id \in Delivery
    BY BatchTyped
  <2> QED
    BY <1>1, <2>1, <2>2 DEF BatchIsCurrent, IsDue
<1>4. AttemptsLeft'
  BY <1>1, WebhookAssumption DEF AttemptsLeft, TypeOK
<1>5. OnlyFaultsLose' /\ SuccessIsTrue' /\ PostsAccountedFor'
  BY <1>1 DEF OnlyFaultsLose, SuccessIsTrue, PostsAccountedFor, InFlight
<1>6. ConclusionsAreTrue'
  BY <1>1 DEF ConclusionsAreTrue, TypeOK
<1> QED
  BY <1>2, <1>3, <1>4, <1>5, <1>6

LEMMA PollKeeps == QueueIsSound /\ Poll => QueueIsSound'
<1> SUFFICES ASSUME QueueIsSound, Poll PROVE QueueIsSound'
  OBVIOUS
<1> USE DEF QueueIsSound
<1>1. PICK b \in Batches :
        /\ batch' = [m \in DOMAIN b |-> [id |-> b[m], attempts |-> attempts[b[m]]]]
        /\ worker' = IF b = <<>> THEN "sleep" ELSE "send"
  BY DEF Poll
<1>2. /\ worker = "poll"
      /\ UNCHANGED <<status, attempts, wait, success, posts, received, lost, faults>>
  BY DEF Poll, rows, history
<1>3. PICK n \in 0..BatchLimit : b \in [1..n -> Delivery]
  BY DEF Batches
<1>4. /\ \A m \in DOMAIN b : IsDue(b[m])
      /\ \A m, k \in DOMAIN b : m < k => b[m] # b[k]
  BY DEF Batches
<1>5. batch' \in [1..n -> Due] /\ n \in Nat
  <2>1. n \in Nat
    BY <1>3, WebhookAssumption
  <2>2. attempts \in [Delivery -> Nat]
    BY WebhookAssumption DEF TypeOK
  <2>3. \A m \in 1..n : [id |-> b[m], attempts |-> attempts[b[m]]] \in Due
    BY <1>3, <2>2 DEF Due
  <2>4. batch' = [m \in 1..n |-> [id |-> b[m], attempts |-> attempts[b[m]]]]
    BY <1>1, <1>3
  <2> QED
    BY <2>1, <2>3, <2>4
<1>6. batch' \in Seq(Due) /\ Len(batch') = n /\ DOMAIN batch' = DOMAIN b
  BY <1>3, <1>5, <1>1
<1>7. b = <<>> <=> batch' = <<>>
  <2>1. b \in Seq(Delivery) /\ Len(b) = n
    BY <1>3, <1>5
  <2> QED
    BY <1>6, <2>1
<1>8. TypeOK'
  <2>1. worker' \in {"sleep", "send"} /\ (worker' = "send" <=> batch' # <<>>)
    BY <1>1, <1>7
  <2>2. Len(batch') <= BatchLimit
    BY <1>3, <1>6, WebhookAssumption
  <2>3. worker' \in {"send", "record"} <=> batch' # <<>>
    BY <2>1
  <2>4. worker' \in {"sleep", "poll", "send", "record"}
    BY <2>1
  <2> QED
    BY <1>2, <1>6, <2>2, <2>3, <2>4 DEF TypeOK
<1>9. BatchIsCurrent'
  BY <1>1, <1>2, <1>3, <1>4, <1>6 DEF BatchIsCurrent, IsDue
<1>10. AttemptsLeft' /\ OnlyFaultsLose' /\ ConclusionsAreTrue'
  BY <1>2 DEF AttemptsLeft, OnlyFaultsLose, ConclusionsAreTrue
<1>11. SuccessIsTrue' /\ PostsAccountedFor'
  BY <1>1, <1>2 DEF SuccessIsTrue, PostsAccountedFor, InFlight
<1> QED
  BY <1>8, <1>9, <1>10, <1>11

LEMMA SendKeeps == QueueIsSound /\ Send => QueueIsSound'
<1> SUFFICES ASSUME QueueIsSound, Send PROVE QueueIsSound'
  OBVIOUS
<1> USE DEF QueueIsSound
<1>1. PICK d \in Delivery : d = Head(batch).id
  BY BatchSplits DEF Send
<1>2. /\ worker = "send" /\ worker' = "record"
      /\ posts' = [posts EXCEPT ![d] = @ + 1]
      /\ \/ /\ success' = TRUE /\ received' = [received EXCEPT ![d] = @ + 1]
         \/ /\ success' = FALSE
            /\ received' \in {received, [received EXCEPT ![d] = @ + 1]}
      /\ UNCHANGED <<status, attempts, wait, batch, lost, faults>>
  BY <1>1 DEF Send, rows
<1>3. IsDue(d)
  BY <1>1, <1>2, BatchSplits DEF BatchIsCurrent
<1>4. received \in [Delivery -> Nat] /\ posts \in [Delivery -> Nat]
  BY DEF TypeOK
<1>5. /\ received' \in [Delivery -> Nat]
      /\ \A e \in Delivery : received'[e] >= received[e]
      /\ success' => received'[d] > 0
  <2>1. CASE received' = received /\ ~success'
    BY <1>4, <2>1
  <2>2. CASE received' = [received EXCEPT ![d] = @ + 1]
    BY <1>4, <2>2
  <2> QED
    BY <1>2, <2>1, <2>2
<1>6. /\ posts' \in [Delivery -> Nat]
      /\ \A e \in Delivery : posts'[e] = IF e = d THEN posts[e] + 1 ELSE posts[e]
  BY <1>2, <1>4
<1>7. TypeOK'
  BY <1>2, <1>5, <1>6 DEF TypeOK
<1>8. BatchIsCurrent' /\ AttemptsLeft' /\ OnlyFaultsLose'
  BY <1>2 DEF BatchIsCurrent, IsDue, AttemptsLeft, OnlyFaultsLose
<1>9. SuccessIsTrue'
  BY <1>1, <1>2, <1>5 DEF SuccessIsTrue
<1>10. PostsAccountedFor'
  <2>1. \A e \in Delivery : InFlight(e) = 0 /\ InFlight(e)' = IF e = d THEN 1 ELSE 0
    BY <1>1, <1>2 DEF InFlight
  <2>2. \A e \in Delivery : attempts[e] \in Nat /\ lost[e] \in Nat
    BY DEF TypeOK
  <2> QED
    BY <1>2, <1>6, <2>1, <2>2 DEF PostsAccountedFor
<1>11. ConclusionsAreTrue'
  <2>1. \A e \in Delivery : /\ received[e] \in Nat /\ received'[e] \in Nat
                            /\ posts[e] \in Nat /\ posts'[e] \in Nat /\ posts'[e] >= posts[e]
    BY <1>4, <1>5, <1>6
  <2> QED
    BY <1>2, <1>5, <2>1, WebhookAssumption DEF ConclusionsAreTrue
<1> QED
  BY <1>7, <1>8, <1>9, <1>10, <1>11

LEMMA RecordKeeps == QueueIsSound /\ Record => QueueIsSound'
<1> SUFFICES ASSUME QueueIsSound, Record PROVE QueueIsSound'
  OBVIOUS
<1> USE DEF QueueIsSound
<1>0. PICK d \in Delivery, n \in Nat : d = Head(batch).id /\ n = Head(batch).attempts + 1
  BY BatchSplits, BatchTyped DEF Record
<1>1. /\ worker = "record" /\ batch' = Tail(batch)
      /\ worker' = IF Len(batch) = 1 THEN "sleep" ELSE "send"
      /\ success' = FALSE /\ attempts' = [attempts EXCEPT ![d] = n]
      /\ UNCHANGED <<posts, received, lost, faults>>
  BY <1>0 DEF Record, Outcome, history
<1>2. /\ n = attempts[d] + 1 /\ n \in 1..MaxAttempts /\ status[d] = "pending"
      /\ batch[1].id = d /\ 1 \in DOMAIN batch
  <2>1. 1 \in DOMAIN batch /\ Head(batch) = batch[1]
    BY <1>1, BatchSplits
  <2>2. n = attempts[d] + 1 /\ status[d] = "pending"
    BY <1>0, <2>1 DEF BatchIsCurrent, IsDue
  <2>3. attempts[d] \in Nat /\ attempts[d] < MaxAttempts
    BY <2>2 DEF AttemptsLeft, TypeOK
  <2> QED
    BY <1>0, <2>1, <2>2, <2>3, WebhookAssumption
<1>3. \/ success /\ status' = [status EXCEPT ![d] = "delivered"] /\ wait' = wait
      \/ ~success /\ n >= MaxAttempts /\ status' = [status EXCEPT ![d] = "failed"] /\ wait' = wait
      \/ /\ ~success /\ n < MaxAttempts /\ status' = status
         /\ wait' = [wait EXCEPT ![d] = backoff_seconds(n)]
  BY <1>0, <1>2, WebhookAssumption DEF Record, Outcome, Exhausted
<1>4. \A e \in Delivery : e # d => /\ status'[e] = status[e] /\ wait'[e] = wait[e]
                                   /\ attempts'[e] = attempts[e]
  BY <1>1, <1>2, <1>3 DEF TypeOK
<1>5. attempts'[d] = n /\ attempts' \in [Delivery -> 0..MaxAttempts]
  BY <1>1, <1>2 DEF TypeOK
<1>6. TypeOK'
  <2>1. status' \in [Delivery -> {"absent", "pending", "delivered", "failed"}]
    BY <1>2, <1>3 DEF TypeOK
  <2>2. wait' \in [Delivery -> (-MaxOverdue)..BackoffCap]
    <3>1. backoff_seconds(n) \in (-MaxOverdue)..BackoffCap
      BY <1>2, BackoffIsBounded, WebhookAssumption
    <3> QED
      BY <1>2, <1>3, <3>1 DEF TypeOK
  <2>3. /\ batch' \in Seq(Due) /\ Len(batch') <= BatchLimit
        /\ worker' \in {"send", "record"} <=> batch' # <<>>
    <3>1. batch' \in Seq(Due) /\ Len(batch') = Len(batch) - 1 /\ Len(batch) \in Nat
          /\ (Len(batch) = 1 <=> batch' = <<>>)
      BY <1>1, BatchSplits, BatchTyped
    <3>2. Len(batch) <= BatchLimit
      BY DEF TypeOK
    <3> QED
      BY <1>1, <3>1, <3>2, WebhookAssumption
  <2> QED
    BY <1>1, <1>5, <2>1, <2>2, <2>3 DEF TypeOK
<1>7. BatchIsCurrent'
  <2>1. DOMAIN batch' \subseteq Nat \ {0}
    BY <1>1, BatchSplits
  <2>2. \A m \in DOMAIN batch' : m + 1 \in DOMAIN batch /\ batch'[m] = batch[m + 1]
    BY <1>1, BatchSplits
  <2>3. \A m \in DOMAIN batch' : batch'[m].id \in Delivery \ {d}
    BY <1>2, <2>1, <2>2, BatchTyped DEF BatchIsCurrent
  <2>4. ASSUME NEW m \in DOMAIN batch', NEW e, e = batch'[m].id
        PROVE  batch'[m].attempts = attempts'[e] /\ status'[e] = "pending" /\ wait'[e] <= 0
    <3>1. e \in Delivery \ {d} /\ m + 1 \in DOMAIN batch /\ batch[m + 1].id = e
          /\ batch[m + 1].attempts = batch'[m].attempts
      BY <2>2, <2>3, <2>4
    <3>2. batch[m + 1].attempts = attempts[e] /\ status[e] = "pending" /\ wait[e] <= 0
      BY <3>1 DEF BatchIsCurrent, IsDue
    <3> QED
      BY <1>4, <3>1, <3>2
  <2>5. \A m, k \in DOMAIN batch' : batch'[m].id = batch'[k].id => m = k
    BY <2>1, <2>2 DEF BatchIsCurrent
  <2> QED
    BY <2>4, <2>5 DEF BatchIsCurrent, IsDue
<1>8. AttemptsLeft'
  BY <1>2, <1>3, <1>4, <1>5, WebhookAssumption DEF AttemptsLeft, TypeOK
<1>9. OnlyFaultsLose' /\ SuccessIsTrue'
  BY <1>1 DEF OnlyFaultsLose, SuccessIsTrue
<1>10. PostsAccountedFor'
  <2>1. \A e \in Delivery : InFlight(e)' = 0 /\ InFlight(e) = IF e = d THEN 1 ELSE 0
    BY <1>0, <1>1 DEF InFlight
  <2>2. \A e \in Delivery : attempts[e] \in Nat /\ lost[e] \in Nat
    BY DEF TypeOK
  <2>3. \A e \in Delivery : posts[e] = attempts[e] + lost[e] + InFlight(e)
    BY DEF PostsAccountedFor
  <2>4. \A e \in Delivery : attempts'[e] = IF e = d THEN attempts[e] + 1 ELSE attempts[e]
    BY <1>2, <1>4, <1>5
  <2>5. ASSUME NEW e \in Delivery
        PROVE  posts'[e] = attempts'[e] + lost'[e] + InFlight(e)'
    <3>1. CASE e = d
      BY <1>1, <2>1, <2>2, <2>3, <2>4, <3>1
    <3>2. CASE e # d
      BY <1>1, <2>1, <2>2, <2>3, <2>4, <3>2
    <3> QED
      BY <3>1, <3>2
  <2> QED
    BY <2>5 DEF PostsAccountedFor
<1>11. ConclusionsAreTrue'
  <2>1. \A e \in Delivery : e # d =>
          /\ status'[e] = "delivered" => received'[e] > 0
          /\ status'[e] = "failed" => attempts'[e] = MaxAttempts /\ posts'[e] >= MaxAttempts
    BY <1>1, <1>4 DEF ConclusionsAreTrue
  <2>2. status'[d] = "delivered" => received'[d] > 0
    BY <1>0, <1>1, <1>2, <1>3 DEF SuccessIsTrue, TypeOK
  <2>3. status'[d] = "failed" => n = MaxAttempts
    BY <1>2, <1>3, WebhookAssumption DEF TypeOK
  <2>4. posts'[d] >= n
    BY <1>0, <1>1, <1>2, WebhookAssumption DEF PostsAccountedFor, InFlight, TypeOK
  <2> QED
    BY <1>5, <2>1, <2>2, <2>3, <2>4 DEF ConclusionsAreTrue
<1> QED
  BY <1>6, <1>7, <1>8, <1>9, <1>10, <1>11

\* A fault forgets the batch; a POST in flight becomes a lost one.
LEMMA DropKeeps ==
    ASSUME QueueIsSound, NEW stage \in {"sleep", "poll"}, DropBatch(stage)
    PROVE  QueueIsSound'
<1> USE DEF QueueIsSound
<1>1. /\ faults < MaxFaults /\ faults' = faults + 1
      /\ batch' = <<>> /\ success' = FALSE /\ worker' = stage
      /\ UNCHANGED <<status, attempts, wait, posts, received>>
  BY DEF DropBatch, rows
<1>2. lost \in [Delivery -> Nat] /\ faults \in Nat
  BY DEF TypeOK
<1>3. /\ lost' \in [Delivery -> Nat]
      /\ \A d \in Delivery : lost'[d] = lost[d] + InFlight(d)
  <2>1. CASE worker = "record"
    <3>1. PICK e \in Delivery : e = Head(batch).id
      BY <2>1, BatchSplits
    <3>2. lost' = [lost EXCEPT ![e] = @ + 1]
      BY <2>1, <3>1 DEF DropBatch
    <3> QED
      BY <1>2, <2>1, <3>1, <3>2 DEF InFlight
  <2>2. CASE worker # "record"
    BY <1>2, <2>2 DEF DropBatch, InFlight
  <2> QED
    BY <2>1, <2>2
<1>4. TypeOK'
  <2>1. batch' \in Seq(Due) /\ Len(batch') = 0
    BY <1>1
  <2>2. faults' \in 0..MaxFaults /\ 0 <= BatchLimit
    BY <1>1, <1>2, WebhookAssumption
  <2>3. worker' \in {"sleep", "poll"} /\ success' \in BOOLEAN
    BY <1>1
  <2>4. /\ UNCHANGED <<status, attempts, wait, posts, received>> /\ batch' = <<>>
    BY <1>1
  <2> QED
    BY <1>3, <2>1, <2>2, <2>3, <2>4 DEF TypeOK
<1>5. BatchIsCurrent' /\ AttemptsLeft' /\ SuccessIsTrue' /\ ConclusionsAreTrue'
  BY <1>1 DEF BatchIsCurrent, AttemptsLeft, SuccessIsTrue, ConclusionsAreTrue
<1>6. OnlyFaultsLose'
  <2>1. \A d \in Delivery : InFlight(d) \in 0..1
    BY DEF InFlight
  <2> QED
    BY <1>1, <1>2, <1>3, <2>1 DEF OnlyFaultsLose
<1>7. PostsAccountedFor'
  <2>1. \A d \in Delivery : InFlight(d)' = 0 /\ InFlight(d) \in 0..1
    BY <1>1 DEF InFlight
  <2>2. \A d \in Delivery : attempts[d] \in Nat /\ lost[d] \in Nat
    BY DEF TypeOK
  <2>3. ASSUME NEW d \in Delivery
        PROVE  posts'[d] = attempts'[d] + lost'[d] + InFlight(d)'
    <3>1. posts[d] = attempts[d] + lost[d] + InFlight(d)
      BY DEF PostsAccountedFor
    <3>2. CASE InFlight(d) = 0
      BY <1>1, <1>3, <2>1, <2>2, <3>1, <3>2
    <3>3. CASE InFlight(d) = 1
      BY <1>1, <1>3, <2>1, <2>2, <3>1, <3>3
    <3> QED
      BY <2>1, <3>2, <3>3
  <2> QED
    BY <2>3 DEF PostsAccountedFor
<1> QED
  BY <1>4, <1>5, <1>6, <1>7

LEMMA WakeKeeps == QueueIsSound /\ Wake => QueueIsSound'
<1> SUFFICES ASSUME QueueIsSound, Wake PROVE QueueIsSound'
  OBVIOUS
<1>1. /\ worker = "sleep" /\ worker' = "poll"
      /\ UNCHANGED <<status, attempts, wait, batch, success, posts, received, lost, faults>>
  BY DEF Wake, rows, history
<1>2. TypeOK'
  BY <1>1 DEF QueueIsSound, TypeOK
<1> QED
  BY <1>1, <1>2 DEF QueueIsSound, BatchIsCurrent, IsDue, AttemptsLeft, OnlyFaultsLose,
     SuccessIsTrue, PostsAccountedFor, InFlight, ConclusionsAreTrue

\* Rows only become more due.
LEMMA TickKeeps == QueueIsSound /\ Tick => QueueIsSound'
<1> SUFFICES ASSUME QueueIsSound, Tick PROVE QueueIsSound'
  OBVIOUS
<1> USE DEF QueueIsSound
<1>1. UNCHANGED <<status, attempts, worker, batch, success, posts, received, lost, faults>>
  BY DEF Tick, local, history
<1>2. /\ wait' \in [Delivery -> (-MaxOverdue)..BackoffCap]
      /\ \A d \in Delivery : wait'[d] <= wait[d]
  <2>1. wait \in [Delivery -> (-MaxOverdue)..BackoffCap]
    BY DEF TypeOK
  <2>2. wait' = [d \in Delivery |-> IF status[d] = "pending" /\ wait[d] > -MaxOverdue
                                    THEN wait[d] - 1 ELSE wait[d]]
    BY DEF Tick
  <2>3. ASSUME NEW d \in Delivery
        PROVE  wait'[d] \in (-MaxOverdue)..BackoffCap /\ wait'[d] <= wait[d]
    <3>1. wait[d] \in (-MaxOverdue)..BackoffCap
      BY <2>1
    <3>2. wait'[d] = wait[d] \/ (wait[d] > -MaxOverdue /\ wait'[d] = wait[d] - 1)
      BY <2>2
    <3> HIDE DEF QueueIsSound
    <3> QED
      BY <3>1, <3>2, WebhookAssumption
  <2> HIDE DEF QueueIsSound
  <2>4. wait' \in [Delivery -> (-MaxOverdue)..BackoffCap]
    BY <2>2, <2>3
  <2> QED
    BY <2>3, <2>4
<1>3. TypeOK'
  BY <1>1, <1>2 DEF TypeOK
<1>4. BatchIsCurrent'
  <2>1. \A m \in DOMAIN batch : batch[m].id \in Delivery
    BY BatchTyped
  <2>2. \A m \in DOMAIN batch : wait[batch[m].id] <= 0 => wait'[batch[m].id] <= 0
    BY <1>2, <2>1, WebhookAssumption DEF TypeOK
  <2> QED
    BY <1>1, <2>2 DEF BatchIsCurrent, IsDue
<1>5. AttemptsLeft' /\ OnlyFaultsLose' /\ SuccessIsTrue' /\ PostsAccountedFor' /\ ConclusionsAreTrue'
  BY <1>1 DEF AttemptsLeft, OnlyFaultsLose, SuccessIsTrue, PostsAccountedFor, InFlight,
     ConclusionsAreTrue
<1> QED
  BY <1>3, <1>4, <1>5

LEMMA QueueStaysSound == QueueIsSound /\ [Next]_vars => QueueIsSound'
<1> SUFFICES ASSUME QueueIsSound, [Next]_vars PROVE QueueIsSound'
  OBVIOUS
<1>1. CASE \E d \in Delivery : enqueue(d)
  BY <1>1, EnqueueKeeps
<1>2. CASE WorkerStep
  BY <1>2, PollKeeps, SendKeeps, RecordKeeps, WakeKeeps DEF WorkerStep
<1>3. CASE DbError
  BY <1>3, DropKeeps DEF DbError
<1>4. CASE Crash
  BY <1>4, DropKeeps DEF Crash
<1>5. CASE Tick
  BY <1>5, TickKeeps
<1>6. CASE UNCHANGED vars
  <2>1. TypeOK'
    BY <1>6 DEF vars, rows, local, history, QueueIsSound, TypeOK
  <2> QED
    BY <1>6, <2>1 DEF vars, rows, local, history, QueueIsSound, BatchIsCurrent, IsDue,
       AttemptsLeft, OnlyFaultsLose, SuccessIsTrue, PostsAccountedFor, InFlight,
       ConclusionsAreTrue
<1> QED
  BY <1>1, <1>2, <1>3, <1>4, <1>5, <1>6 DEF Next

LEMMA SpecIsSound == Spec => []QueueIsSound
BY QueueStarts, QueueStaysSound, PTL DEF Spec
-----------------------------------------------------------------------------
\* The columns, the batch and the backoff stay in their ranges (webhook.rs:41-43).
THEOREM QueueIsTyped == Spec => []TypeOK
BY SpecIsSound, PTL DEF QueueIsSound

\* Every POST is recorded, in flight or lost to a fault (webhook.rs:106-152).
THEOREM EveryPostIsAccountedFor == Spec => []PostsAccountedFor
BY SpecIsSound, PTL DEF QueueIsSound

\* Delivered means taken in, failed means tried max_attempts times (webhook.rs:125-152).
THEOREM QueueConclusionsAreTrue == Spec => []ConclusionsAreTrue
BY SpecIsSound, PTL DEF QueueIsSound

\* At most max_attempts POSTs for a row, and one more for each fault (webhook.rs:3).
THEOREM PostsAreBounded == Spec => []PostsBounded
<1>1. QueueIsSound => PostsBounded
  <2> SUFFICES ASSUME QueueIsSound, NEW d \in Delivery
               PROVE  posts[d] <= MaxAttempts + faults
    BY DEF PostsBounded
  <2> USE DEF QueueIsSound
  <2>1. attempts[d] + InFlight(d) <= MaxAttempts
    <3>1. CASE worker = "record" /\ Head(batch).id = d
      BY <3>1, BatchSplits, WebhookAssumption DEF InFlight, BatchIsCurrent, IsDue, AttemptsLeft,
         TypeOK
    <3>2. CASE ~(worker = "record" /\ Head(batch).id = d)
      BY <3>2, WebhookAssumption DEF InFlight, TypeOK
    <3> QED
      BY <3>1, <3>2
  <2> QED
    BY <2>1, WebhookAssumption DEF PostsAccountedFor, OnlyFaultsLose, InFlight, TypeOK
<1> QED
  BY <1>1, SpecIsSound, PTL

\* A POST is only ever made for a row that is pending and due, although the batch was
\* selected earlier (webhook.rs:91-103).
THEOREM EverySendIsDue == Spec => SendsOnlyWhenDue
<1>1. QueueIsSound /\ [Next]_vars =>
        [\A d \in Delivery : posts'[d] # posts[d] => status[d] = "pending" /\ wait[d] <= 0]_vars
  <2> SUFFICES ASSUME QueueIsSound, [Next]_vars, NEW d \in Delivery, posts'[d] # posts[d]
               PROVE  IsDue(d)
    BY DEF IsDue
  <2>1. Send
    BY DEF Next, WorkerStep, enqueue, Poll, Record, Wake, DbError, Crash, DropBatch, Tick,
       vars, history
  <2>2. Head(batch).id = d
    BY <2>1 DEF Send, QueueIsSound, TypeOK
  <2> QED
    BY <2>1, <2>2, BatchSplits DEF Send, QueueIsSound, BatchIsCurrent
<1> QED
  BY <1>1, SpecIsSound, PTL DEF Spec, SendsOnlyWhenDue

\* No later UPDATE, from whatever snapshot, touches a concluded row (webhook.rs:125-152).
THEOREM ConclusionsStay == Spec => ConclusionsAreFinal
<1>1. QueueIsSound /\ [Next]_vars =>
        [\A d \in Delivery : Concluded(d) => UNCHANGED <<status[d], attempts[d], posts[d]>>]_vars
  <2> SUFFICES ASSUME QueueIsSound, [Next]_vars, NEW d \in Delivery, Concluded(d)
               PROVE  UNCHANGED <<status[d], attempts[d], posts[d]>>
    OBVIOUS
  <2>1. worker \in {"send", "record"} => Head(batch).id \in Delivery /\ Head(batch).id # d
    BY BatchSplits DEF QueueIsSound, BatchIsCurrent, IsDue, Concluded, Due
  <2>2. CASE Send
    BY <2>1, <2>2 DEF Send, rows, QueueIsSound, TypeOK
  <2>3. CASE Record
    BY <2>1, <2>3 DEF Record, Outcome, history, QueueIsSound, TypeOK
  <2>4. CASE \E e \in Delivery : enqueue(e)
    BY <2>4 DEF enqueue, history, Concluded, QueueIsSound, TypeOK
  <2>5. CASE Poll \/ Wake \/ DbError \/ Crash \/ Tick \/ UNCHANGED vars
    BY <2>5 DEF Poll, Wake, DbError, Crash, DropBatch, Tick, vars, rows, history
  <2> QED
    BY <2>2, <2>3, <2>4, <2>5 DEF Next, WorkerStep
<1> QED
  BY <1>1, SpecIsSound, PTL DEF Spec, ConclusionsAreFinal
=============================================================================
