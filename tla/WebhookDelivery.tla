-------------------------- MODULE WebhookDelivery ---------------------------
(***************************************************************************)
(* The outbound webhook queue (src/src/webhook.rs): rows enqueued by       *)
(* settlements and one background worker that polls for due rows, POSTs    *)
(* each and records the outcome.                                           *)
(*                                                                         *)
(* The worker works on a snapshot: the batch it selected keeps the attempt *)
(* counts of that moment.  A POST and the UPDATE that records it are two   *)
(* steps, and between them the process may stop or the database may fail.  *)
(* The merchant is external: it may take a request in and still be seen as *)
(* failing (an error status, or an answer after the client's timeout).     *)
(*                                                                         *)
(* Time is relative: wait[d] is next_attempt_at minus the current time.    *)
(***************************************************************************)
EXTENDS Integers, Sequences

CONSTANTS
    Delivery,     \* rows of webhook_deliveries
    MaxAttempts,  \* max_attempts (8 in the code)
    BatchLimit,   \* LIMIT of the poll (20 in the code)
    BackoffCap,   \* the ceiling of the backoff (3600 seconds in the code)
    MaxOverdue,   \* how far behind an overdue row is still told apart
    MaxFaults     \* how many statements or processes may fail

ASSUME WebhookAssumption ==
    /\ MaxAttempts \in Nat \ {0}
    /\ BatchLimit \in Nat \ {0}
    /\ BackoffCap \in Nat \ {0}
    /\ MaxOverdue \in Nat
    /\ MaxFaults \in Nat

VARIABLES
    status,    \* row status, "absent" before the row exists
    attempts,  \* recorded attempts
    wait,      \* seconds until next_attempt_at; due when not positive
    worker,    \* "sleep", "poll", "send" or "record"
    batch,     \* worker local: the due rows still to deliver, as they were selected
    success,   \* worker local: whether the last POST was answered with success
    posts,     \* history: POSTs made for a row
    received,  \* history: POSTs the merchant took in
    lost,      \* history: POSTs whose outcome was never recorded
    faults     \* how many faults happened (bounded by MaxFaults)

rows    == <<status, attempts, wait>>
local   == <<worker, batch, success>>
history == <<posts, received, lost>>
vars    == <<rows, local, history, faults>>

Due == [id : Delivery, attempts : Nat]

TypeOK ==
    /\ status \in [Delivery -> {"absent", "pending", "delivered", "failed"}]
    /\ attempts \in [Delivery -> 0..MaxAttempts]
    /\ wait \in [Delivery -> (-MaxOverdue)..BackoffCap]
    /\ worker \in {"sleep", "poll", "send", "record"}
    /\ batch \in Seq(Due) /\ Len(batch) <= BatchLimit
    /\ worker \in {"send", "record"} <=> batch # <<>>
    /\ success \in BOOLEAN
    /\ posts \in [Delivery -> Nat]
    /\ received \in [Delivery -> Nat]
    /\ lost \in [Delivery -> Nat]
    /\ faults \in 0..MaxFaults

Init ==
    /\ status = [d \in Delivery |-> "absent"]
    /\ attempts = [d \in Delivery |-> 0]
    /\ wait = [d \in Delivery |-> 0]
    /\ worker = "poll"
    /\ batch = <<>>
    /\ success = FALSE
    /\ posts = [d \in Delivery |-> 0]
    /\ received = [d \in Delivery |-> 0]
    /\ lost = [d \in Delivery |-> 0]
    /\ faults = 0

\* Mutant of backoff_seconds: no ceiling.
backoff_uncapped(n) == 2 ^ n

\* 2^attempts seconds with a ceiling.  (The exponent's own cap of 20 only keeps
\* the power within 64 bits: 2^20 is above the ceiling already.)
backoff_seconds(n) == IF 2 ^ n < BackoffCap THEN 2 ^ n ELSE BackoffCap
-----------------------------------------------------------------------------
\* A settlement queues a callback; the columns take their defaults.
enqueue(d) ==
    /\ status[d] = "absent"
    /\ status' = [status EXCEPT ![d] = "pending"]
    /\ UNCHANGED <<attempts, wait, local, history, faults>>

\* Mutants of IsDue: the poll forgets next_attempt_at; the poll forgets the status.
IsPending(d) == status[d] = "pending"
IsOverdue(d) == status[d] # "absent" /\ wait[d] <= 0

IsDue(d) == status[d] = "pending" /\ wait[d] <= 0

\* The answers the poll may give: the due rows, longest overdue first, cut at the
\* limit.  Rows equally overdue come in any order.
Batches ==
    {b \in UNION {[1..n -> Delivery] : n \in 0..BatchLimit} :
        /\ \A m \in DOMAIN b : IsDue(b[m])
        /\ \A m, n \in DOMAIN b : m < n => b[m] # b[n] /\ wait[b[m]] <= wait[b[n]]
        /\ \A d \in Delivery : IsDue(d) /\ (\A m \in DOMAIN b : b[m] # d) =>
              Len(b) = BatchLimit /\ wait[b[BatchLimit]] <= wait[d]}

Poll ==
    /\ worker = "poll"
    /\ \E b \in Batches :
          /\ batch' = [n \in DOMAIN b |-> [id |-> b[n], attempts |-> attempts[b[n]]]]
          /\ worker' = IF b = <<>> THEN "sleep" ELSE "send"
    /\ UNCHANGED <<rows, success, history, faults>>

\* The POST: answered with success only if the merchant took it in, but not
\* always when it did.
Send ==
    /\ worker = "send"
    /\ worker' = "record"
    /\ posts' = [posts EXCEPT ![Head(batch).id] = @ + 1]
    /\ \/ /\ success' = TRUE
          /\ received' = [received EXCEPT ![Head(batch).id] = @ + 1]
       \/ /\ success' = FALSE
          /\ received' \in {received, [received EXCEPT ![Head(batch).id] = @ + 1]}
    /\ UNCHANGED <<rows, batch, lost, faults>>

\* Mutant of Exhausted: one attempt too few.
AlmostExhausted(n) == n + 1 >= MaxAttempts

Exhausted(n) == n >= MaxAttempts

\* The UPDATE that records an outcome: delivered, given up, or put off.
Outcome(d, n) ==
    /\ attempts' = [attempts EXCEPT ![d] = n]
    /\ \/ /\ success
          /\ status' = [status EXCEPT ![d] = "delivered"]
          /\ UNCHANGED wait
       \/ /\ ~success /\ Exhausted(n)
          /\ status' = [status EXCEPT ![d] = "failed"]
          /\ UNCHANGED wait
       \/ /\ ~success /\ ~Exhausted(n)
          /\ wait' = [wait EXCEPT ![d] = backoff_seconds(n)]
          /\ UNCHANGED status

\* Mutant of Record: the attempt is not counted.
RecordUncounted ==
    /\ worker = "record"
    /\ Outcome(Head(batch).id, Head(batch).attempts)
    /\ batch' = Tail(batch)
    /\ worker' = IF Len(batch) = 1 THEN "sleep" ELSE "send"
    /\ success' = FALSE
    /\ UNCHANGED <<history, faults>>

Record ==
    /\ worker = "record"
    /\ Outcome(Head(batch).id, Head(batch).attempts + 1)
    /\ batch' = Tail(batch)
    /\ worker' = IF Len(batch) = 1 THEN "sleep" ELSE "send"
    /\ success' = FALSE
    /\ UNCHANGED <<history, faults>>

\* POLL_INTERVAL has passed.
Wake ==
    /\ worker = "sleep"
    /\ worker' = "poll"
    /\ UNCHANGED <<rows, batch, success, history, faults>>
-----------------------------------------------------------------------------
\* The rest of the batch is dropped; a POST not yet recorded stays unrecorded.
DropBatch(stage) ==
    /\ faults < MaxFaults
    /\ faults' = faults + 1
    /\ lost' = IF worker = "record" THEN [lost EXCEPT ![Head(batch).id] = @ + 1] ELSE lost
    /\ batch' = <<>>
    /\ success' = FALSE
    /\ worker' = stage
    /\ UNCHANGED <<rows, posts, received>>

\* Mutant of DbError: the error ends the loop.
DbErrorStops == worker \in {"poll", "record"} /\ DropBatch("stopped")

\* The poll or an UPDATE fails: drain_due returns the error and the loop sleeps.
DbError == worker \in {"poll", "record"} /\ DropBatch("sleep")

\* The process stops, anywhere, and its successor starts by polling.
Crash == DropBatch("poll")

\* A second passes.
Tick ==
    /\ \E d \in Delivery : status[d] = "pending" /\ wait[d] > -MaxOverdue
    /\ wait' = [d \in Delivery |->
                  IF status[d] = "pending" /\ wait[d] > -MaxOverdue
                  THEN wait[d] - 1 ELSE wait[d]]
    /\ UNCHANGED <<status, attempts, local, history, faults>>
-----------------------------------------------------------------------------
WorkerStep == Poll \/ Send \/ Record \/ Wake

Next ==
    \/ \E d \in Delivery : enqueue(d)
    \/ WorkerStep
    \/ DbError
    \/ Crash
    \/ Tick

\* Time passes, every POST ends (the client has a timeout) and the worker's task is
\* scheduled.  Merchants may fail for ever, and nothing need ever be enqueued.
Spec == Init /\ [][Next]_vars /\ WF_vars(WorkerStep) /\ WF_vars(Tick)
-----------------------------------------------------------------------------
(* Properties.                                                              *)

InFlight(d) == IF worker = "record" /\ Head(batch).id = d THEN 1 ELSE 0

\* Every POST is accounted for: recorded in attempts, in flight, or lost to a fault
\* between the POST and its UPDATE.  The count written comes from the snapshot
\* (webhook.rs:113), so it would be short if a row were delivered twice meanwhile.
PostsAccountedFor ==
    \A d \in Delivery : posts[d] = attempts[d] + lost[d] + InFlight(d)

\* A row is delivered only if the merchant took a request in, and given up only
\* after max_attempts POSTs (webhook.rs:125-152).
ConclusionsAreTrue ==
    \A d \in Delivery :
        /\ status[d] = "delivered" => received[d] > 0
        /\ status[d] = "failed" => attempts[d] = MaxAttempts /\ posts[d] >= MaxAttempts

\* A merchant sees at most max_attempts requests for a row, plus one for each fault
\* that hid an outcome (webhook.rs:3, "at-least-once").
PostsBounded ==
    \A d \in Delivery : posts[d] <= MaxAttempts + faults

\* A request is only ever made for a row that is pending and due at that moment,
\* although the batch was selected earlier (webhook.rs:91-103).
SendsOnlyWhenDue ==
    [][\A d \in Delivery : posts'[d] # posts[d] => status[d] = "pending" /\ wait[d] <= 0]_vars

Concluded(d) == status[d] \in {"delivered", "failed"}

\* A concluded row is never touched again: no later UPDATE reopens or reclassifies it.
ConclusionsAreFinal ==
    [][\A d \in Delivery :
          Concluded(d) => UNCHANGED <<status[d], attempts[d], posts[d]>>]_vars

\* Every queued callback is eventually delivered or given up: no poll error, lost
\* outcome, full batch or slow merchant parks a row for ever (webhook.rs:76-104).
EveryDeliveryConcludes ==
    \A d \in Delivery : status[d] = "pending" ~> Concluded(d)
=============================================================================
