----------------------------- MODULE PaySystem ------------------------------
(***************************************************************************)
(* The server as one process: request tasks that settle payments           *)
(* (Settlement) and the background worker that tells merchants             *)
(* (WebhookDelivery), joined by the table webhook_deliveries.  mark_paid   *)
(* ends by inserting a row; the worker selects it, POSTs it and records    *)
(* the outcome.  When the process stops both stop; rows survive.           *)
(***************************************************************************)
EXTENDS Settlement, FiniteSetsExt

CONSTANTS
    MaxRows,      \* rows of webhook_deliveries (a bound, above what the instance inserts)
    MaxAttempts, BatchLimit, BackoffCap, MaxOverdue   \* as in WebhookDelivery

ASSUME PayAssumption ==
    /\ MaxRows \in Nat
    /\ MaxAttempts \in Nat \ {0} /\ BatchLimit \in Nat \ {0}
    /\ BackoffCap \in Nat \ {0} /\ MaxOverdue \in Nat

VARIABLES
    row_status, attempts, wait,   \* the other columns of the nth delivery
    worker, batch, success,       \* the worker
    posts, received, lost         \* history

queue == <<row_status, attempts, wait, worker, batch, success, posts, received, lost>>

Row == 1..MaxRows

\* A fault may hit a request, the worker or both: `faults' is one counter.
W == INSTANCE WebhookDelivery WITH Delivery <- Row, status <- row_status

PayInit == Init /\ W!Init
-----------------------------------------------------------------------------
\* A step of a request, whose last statement queues the callback.
Settle(h) ==
    \/ Notify(h) /\ Len(deliveries) < MaxRows /\ W!enqueue(Len(deliveries) + 1)
    \/ HandlerStep(h) /\ UNCHANGED <<deliveries, queue>>

\* Everything else the requests do leaves the queue alone.
Handlers ==
    \/ \E h \in Handler : Settle(h)
    \/ Serve /\ UNCHANGED <<deliveries, queue>>

\* The worker reads and writes its own columns only.
Work == W!WorkerStep /\ UNCHANGED <<db, locals>>

QueueFails == W!DbError /\ UNCHANGED <<db, locals>>

SecondPasses == W!Tick /\ UNCHANGED <<db, locals>>

\* One process: requests and worker end together.
StopAndStart ==
    /\ W!Crash
    /\ \/ Crash
       \/ (\A h \in Handler : pc[h] = "idle") /\ UNCHANGED <<db, locals>>

PayNext == Handlers \/ Work \/ QueueFails \/ SecondPasses \/ StopAndStart

\* The fairness of both components: tasks and the worker are scheduled, time passes.
PaySpec ==
    /\ PayInit /\ [][PayNext]_<<vars, queue>>
    /\ \A h \in Handler : WF_<<vars, queue>>(Settle(h))
    /\ WF_<<vars, queue>>(Work) /\ WF_<<vars, queue>>(SecondPasses)
-----------------------------------------------------------------------------
(* Properties.                                                              *)

\* No merchant is ever called about a payment that is not in the ledger and on its
\* charge, whatever was abandoned between the statements that made it so, and he is
\* called at most max_attempts times for each posting and once more for each fault:
\* a double settlement shows as further calls, no call is out of thin air
\* (charge.rs:111-156, webhook.rs:106-172).
CallsAreBacked ==
    \A c \in ChargeId :
        LET about == {n \in DOMAIN deliveries : deliveries[n].charge_id = c}
        IN  /\ MapThenSumSet(LAMBDA n : posts[n], about)
                 <= MaxAttempts * Cardinality(PostingsOf(c)) + faults
            /\ \A n \in about : posts[n] > 0 => /\ status[c] = "paid"
                                                /\ PostedFor(c, deliveries[n].event)

\* A transfer attributed to a charge is, unless something failed, followed through to
\* its end: the charge is paid and its callback delivered or given up (sms.rs:81,
\* charge.rs:111-156, webhook.rs:76-104).
PaymentsAreReported ==
    \A k \in Keys :
        (\E e \in sms_events : Key(e.txn) = k /\ e.charge_id # None)
            ~> \/ faults > 0
               \/ \E e \in sms_events :
                     /\ Key(e.txn) = k /\ e.charge_id # None
                     /\ status[e.charge_id] = "paid"
                     /\ terms[e.charge_id].callback_url =>
                          \E n \in DOMAIN deliveries :
                             deliveries[n].event = k /\ W!Concluded(n)

\* "Delivery is durable" (charge.rs:140): once queued, a callback is delivered or given
\* up, through poll errors, lost outcomes and restarts of the process.
QueuedIsConcluded == W!EveryDeliveryConcludes
=============================================================================
