# SpritEXAI Pay: verification project

TLA+ models of SpritEXAI Pay (`src/src/*.rs`), model-checked with TLC and proved with
TLAPS. Line references are to the repository's files.

## The system and its parts

One Rust process (axum on tokio) over one SQLite database. Every request is a task;
each SQL statement is atomic, nothing spans two statements except `ledger::post`,
and tasks interleave at every await. A task can end at any await: the client hangs
up, a statement fails (`SQLITE_BUSY` after 5 s), the process stops. One background
task, the webhook worker, runs beside the requests.

| Part | State | Operations | Talks to | What makes it correct |
|---|---|---|---|---|
| SMS ingestion (`sms.rs`) | `sms_events`, unique by (gateway, txn_id) | `ingest`: parse, match, record, settle | parsers, AI, charges | one settlement per transfer; never guess the payer |
| Gateways and AI (`gateway.rs`, `ai.rs`) | `ai_parse_log` | parse, `extract`, `suggest_regex` | providers | first valid reading wins; money read exactly; every miss logged |
| Charges (`charge.rs`) | `charges` | `create`, `mark_paid` (post, mark, invoices, enqueue) | ledger, invoices, webhooks | paid means posted; settles once; nothing lost on the way |
| Ledger (`ledger.rs`) | `ledger_transactions`, `ledger_entries` | `post` (one DB transaction), `account_balance` | - | balanced, append-only, backed by transfers |
| Invoices (`invoice.rs`) | `invoices`, `invoice_items` | `create`, `issue_payment`, `settle_for_charge` | checkout, charges | paid iff a charge minted for it was; totals add up |
| Hosted checkout (`checkout.rs`) | `charges` (pay_ref, claims) | `create_checkout`, `select_gateway`, `submit_manual`, `verify` | domains, charges | a claim never settles; verify is consistent |
| Reconciliation (`reconcile.rs`) | - (query) | `reconcile` | `sms_events` | agrees with the ledger |
| Fraud scan (`fraud.rs`) | - (four queries) | `scan` | `sms_events`, `charges` | misses nothing that was on record |
| Webhooks (`webhook.rs`) | `webhook_deliveries`, the worker's batch | `enqueue`, poll, deliver, record | merchants | at-least-once, bounded, every row concludes |
| Payment links (`payment_link.rs`) | `payment_links` | `create`, `open` | checkout | quantity caps the opens |
| Domains (`domain.rs`) | `allowed_domains` | `create`, `delete`, `is_allowed` | checkout | answer right for some moment of the call |
| API keys, phones, console (`merchant.rs`, `device.rs`, `auth.rs`) | `api_keys`, `devices`, a signed token | create, verify, revoke, pair, exchange, login | http | revoked or expired credentials stop working |
| HTTP surface (`http.rs`) | - | guards, error codes, one task per request | all | answers say what happened |
| Settings, customers, audit | own tables | set, create, record | - | - |

Hard behaviours: handlers acting on rows read before an await; settlement as five
separate commits; redelivery of SMS, and a re-reading of one by a model; a POST and
its record as two steps; time and backoff; several openers of one link; credentials
and lists that change under the requests using them. `PROJECT.json` lists them as
hazards at the line where each bites.

## Modules

Each component is a module; `EXTENDS` or `INSTANCE` composes those that interact.

| Module | Models | State and actions |
|---|---|---|
| `Matching` | `sms.rs:95-143` | pure operators over the rows a SELECT returned: `normalize_msisdn` on sequences of characters, `find_matching_charge` on sets |
| `Settlement` | `sms.rs:36-90`, `charge.rs`, `ledger.rs::post`, `invoice.rs::issue_payment`, `settle_for_charge`, the INSERT of `checkout.rs::create_checkout` | tables as variables; per handler `pc` and locals. One action per committed statement: `Receive`, `Match`, `RecordMatched` / `RecordUnmatched` / `RejectDuplicate`, `Post`, `MarkPaid`, `SettleInvoices`, `Notify`; `IssueCheckout`, `IssueLink`; `create`, `create_checkout`; `Abandon`, `Crash` |
| `PaymentLifecycle` | what the money path promises (abstract) | a charge is opened for a price, collects transfers of that price, closes, tells of what it collected |
| `Reconciliation` | `reconcile.rs`, `ledger.rs::account_balance` | queries over `Settlement` |
| `HostedCheckout` | `checkout.rs::select_gateway`, `submit_manual`, `verify` | composed with `Settlement`: the `gateway` and `claimed` columns, per poller the row it read and its last answer; `select_gateway`, `submit_manual`, `VerifyCharge`, `VerifyEvent`, `Hangup`, `Restart` |
| `Money` | `gateway.rs:43-51` and the conversions of `ai.rs` and `checkout.rs` | decimals as digits and as n / 10^k; `amount_to_minor`, `to_minor`, and `Worth`, the reference definition |
| `SmsReading` | `http.rs::sms_webhook`, `gateway.rs`, `ai.rs::extract`, `parse_extraction`, `samples` | composed with `Settlement`: per handler how far the reading is, `ai_parse_log`, the event's `parse_source`, the last answer; `Deliver`, `Ask`, `Log`, `Panic`, `HangUp`, `Ingest`, `Drop`, `RestartReading` |
| `FraudScan` | `fraud.rs` | composed with `Settlement`: the locals of a scan; one action per SELECT and `ScanFails` |
| `WebhookDelivery` | `webhook.rs` | rows, worker stage, its batch snapshot; `enqueue`, `Poll`, `Send`, `Record`, `Wake`, `DbError`, `Crash`, `Tick` |
| `PaySystem` | the process: requests and worker, joined by `webhook_deliveries` | `Settlement` and an INSTANCE of `WebhookDelivery`: `Notify` and `enqueue` are one step (`Settle`), `Work`, `QueueFails`, `SecondPasses`, `StopAndStart` ends both |
| `PaymentLinks` | `payment_link.rs` | rows, per opener the decision it took; `create`, `Open`, `Consume`, `Mint`, `Abandon` |
| `MerchantApi` | `merchant.rs`, `device.rs`, `auth.rs`, `domain.rs`, `invoice.rs::create`, the guards of `http.rs` and of `create_checkout` | tables, the console's `session`, per task the request it serves and where it is; `Call`, `LookUp`, `Stamp`, `Count`, `Find`, `Insert`; `login`, `Tick`; `Administer`, `create_api_key`, `revoke_api_key`, `pair_device`, `create_domain`, `Reread`, `delete_domain`; `Draft`, `InsertInvoice`, `InsertItem`; `Abandon`, `Restart` |
| `SettlementProofs`, `HostedCheckoutProofs`, `SmsReadingProofs`, `WebhookDeliveryProofs`, `PaymentLinksProofs`, `MerchantApiProofs` | - | theorems about the modules they are named for |
| `SystemProofs` | - | theorems about `Reconciliation`, `FraudScan` and `PaySystem` |
| `FoldTheorems` | - | lemmas about sums: the folds of the library add up a set in any order |
| `MC...` | - | instances for TLC |

Choices worth knowing:

* A charge row is split into `status`, the only column settlement changes, and
  `terms`. Reads of columns that no statement changes (the `get` at the start of
  `mark_paid`, the `pay_ref` lookup in `issue_payment`) are folded into the step
  that uses them.
* Fields and variables called history are read by properties only; the program does
  not store them (the `event` of a posting, `posts`, `received`, `lost`, `granted`,
  `consumed`, `minted`, `free`, `unlogged`, `since`; in `MerchantApi` the `revoked`,
  `login` and `lists` of a request, the `by` of an answer, the `of` of an invoice,
  `logins` and `cut`).
* In `Settlement` what a message is read as is a constant, `Readings`. `SmsReading`
  computes it from what the patterns capture and the providers reply, and asserts
  (`ReadingsAreThese`) that the constant is just that.
* A regular expression is abstracted to its captures, a provider's reply to the three
  fields `parse_extraction` looks at, to no content, or to content whose last brace
  comes before its first. On that last one the slice in `ai.rs:87` panics, and the
  release profile has `panic = "abort"` (`Cargo.toml:39`): `Panic` is `StopAndStart`.
* Amounts are decimals below 2^53 minor units, where rounding absorbs the error of
  `f64`, but for an amount exactly between two minor units: the model rounds it away
  from zero, the code either way (1.005 is a little less than that in `f64` and becomes
  100). No property depends on such an amount.
* A URL of `MerchantApi` is its parts (scheme, user information, host, port, path); a
  request carries their `Text`, a sequence of tokens that `host_of` cuts as the code
  cuts the string. Whether a list allows a URL (`Allows`) is a matter of its host part,
  never of what `host_of` reads, so the properties compare the two.
* Integers of invoices have `Width` bits and wrap, as a release build's do. `DraftsAddUp`
  compares what is stored with the unbounded sum of the items (`ItemSum`).
* A token is the secret that signed it and the seconds it has left. `logins` counts for
  each secret how long the last login under it has left, apart from the token, and a
  request keeps what was left when it came in.
* Currency, names and timestamps are left out: matching ignores them too.
* `verify` takes the latest event by `received_at`, a wall-clock time the model leaves
  out: it lets any event of the charge come first, which covers ties and clock steps
  and allows more than the program does when a charge has several events.
* Merchants and providers are external: a merchant may take a request in and still be
  seen as failing, a provider may answer differently each time.
* Operators introduced by a comment "Mutant of X" are faulty variants of X, kept
  to show that each property can fail.

## Runs

Constants are model values and small sets; `SignificantDigits` is 2 instead of 10.

| Run | Instance | Shows |
|---|---|---|
| `settlement_faults` | 2 handlers, 2 charges, 3 transfers of one amount (one txn_id on two gateways, one subscriber in two formats), 1 invoice, an invalid and a duplicate order, 1 fault | the books stay sound (`Consistent` and its parts), nothing is lost without a fault, double settlement is bounded, the report differs from the ledger only by what is underway or stranded, matching never guesses |
| `hosted` | 1 handler, 2 charges, 2 transfers, an invoice, 1 claim, 1 poller, 1 fault | completed answers are verified and final, customers implement `Settlement`'s stuttering, and requests taken one at a time without a fault settle once (`SequentialIsExact`) |
| `pay` | 1 handler, the worker, 1 charge, 3 transfers, 3 rows, 2 attempts, batch of 1, 1 fault, fairness | no call without a posting; a matched transfer ends in a concluded callback; every queued callback concludes; the tables implement `PaymentLifecycle` |
| `reading` | 1 handler, 3 messages (read by the patterns, by two disagreeing providers, by none), 1 fault, fairness | answers are true, the log is complete, what the patterns read is recorded once as sent, every delivery ends, the money path implements `Settlement`; on the way, `amount_to_minor` equals `Worth` for every capture of up to four characters |
| `fraud` | 1 handler, 2 charges, 3 transfers of two amounts, `Multiple` 1 and `MinSample` 1, 1 fault | a scan among settlements misses nothing on record when it began; an outlier needs more settlements than the multiple, or an arrival during the scan |
| `webhook_safety` | 3 rows, limit 2, 3 attempts, ceiling 3, 1 fault | POSTs accounted for and made only when due; conclusions true and final |
| `links` | 3 openers, 5 kinds of link | no use lost, overdraft bounded |
| `merchant_api` | 2 tasks, one key, one phone, one domain, one invoice number, three environments, `Width` 8, `Lifetime` 1, 2 faults; three scenarios | a request after a revocation is refused; the own host of an accepted plain URL was allowed; refusals and internal errors are explained; drafts add up where the sum is an integer, and only one that a fault cut short lacks items; what the console guards changes only by requests admitted under an unexpired login and the secret in force |
| `settlement_double` | 2 handlers, no fault | `SettledOnce` violated: both match before either marks |
| `settlement_stranded` | 1 handler, 1 fault, fairness | `MatchedIsPaid` violated: redelivery is refused as a duplicate |
| `settlement_reissue` | 2 handlers, no fault | `InvoiceFollowsItsCharge` violated |
| `links_cap` | 1 opener | `CapRespected` violated |

Why these bounds. A race needs two handlers; a third transfer shows that the bound on
double settlement is reached and not passed; two charges are what an ambiguous match
needs; one fault at every await gives every partial settlement. Three rows and a
limit of two make a batch leave a row out, three attempts pass the backoff's ceiling.
`hosted`, `pay`, `reading` and `fraud` have one handler: two events on one charge come
from the fault, races of handlers are `settlement_faults`', and the theorems cover any
number. In `pay`, a batch of one makes two rows wait for each other. With `Multiple`
and `MinSample` 1 three settlements are a long history. `MerchantApi` picks one of
three scenarios at the start (`OfKeys`, `OfWhitelist`, `OfInvoices` in
`MCMerchantApi`): keys and phones, the whitelist and drafts share no table, so an
execution that mixes them shows nothing new, while two faults let a restart bring back
an old secret. Eight bits make a sum of two items wrap, negative in one draft and
positive in another; the other drafts' sums fit. A `Lifetime` of 1 lets a token expire
with a request admitted by it still in progress.

Redelivery is not bounded: `Receive` may repeat for ever, and the state stays finite
because the events' key does. The artificial bounds are `MaxFaults`, `MaxOverdue` (how
long overdue is still told apart), `MaxOpens`, `MaxRows`, `Clients` and the number of
credentials (`RowLeft`).

Deadlock is checked except for the two runs on links, which `MaxOpens` stops.

Fairness. Every fair specification assumes that a task that has been started is polled
and its statement answered (tokio, SQLite); requests need never come. `FairSpec` of
`Settlement`: each handler's steps. `ReadingSpec`: those and the provider calls, each
of which ends with the client's timeout. `WebhookDelivery` and `PaySpec`: also the
worker (a POST ends after 10 s) and the clock. Merchants may fail for ever, and no
fairness is asked of clients, operators or faults.

Refinement. `FollowsLifecycle`: `Settlement` implements `PaymentLifecycle` under the
mapping at the end of `Settlement.tla` (state, price, collected transfers and what was
told, from the four tables). `CustomersCannotSettle` and `ReadingImplementsSettlement`:
`HostedCheckout` and `SmsReading` implement `Settlement`, so what is shown of it holds
of them. `PaySystem` instantiates `WebhookDelivery` and checks its liveness of the
whole process (`QueuedIsConcluded`).

What the violated properties say is in `PROJECT.json` under findings. In short: the
match is never re-validated, and settlement is not one transaction.

### Observations

Met while modelling, and visible in the properties rather than contrary to them:

* A message only the providers can read may be read with another txn_id when it is
  delivered again, and then settles another charge (`RecordedAsSent` says so for the
  patterns only; nothing stored relates the two events, `raw_sha256` is not unique).
* A forwarder that retries a delivery which died between its event and its posting is
  answered 409, as if it had been settled (`AnswersAreTrue` promises no more).
* A provider's reply with its braces reversed ends the process (`ai.rs:85-87`; the same
  slice is in `ai.rs:208-218`); a merchant's callbacks survive it, requests do not.
* `sender_mismatch` compares numbers as they were written, so one subscriber in two
  formats is flagged, unlike in matching.
* With the code's constants an outlier needs more than ten settlements, although five
  are enough for an average (`OutliersNeedHistory`).
* `device.rs:6` calls pairing tokens revocable; no route revokes one (`RevokeDevice` is
  an operator's UPDATE).
* Deleting the last domain between a count and its look-up refuses a URL that was
  allowed before and after (`RefusedUnlessEmptied` excepts it).
* An amount of less than half a minor unit is answered with a 500.
* An invoice's total wraps past the width of an integer (`invoice.rs:69`; the release
  profile checks no overflow): at a `Width` of 8, `merchant_api` stores 51 for items of
  307, although `invoice.rs:66` says "`amount_minor` is the summed total".
  `DraftsAddUp` says nothing of an invoice whose sum does not fit.
* `domain.rs:71` promises that a URL passes only if its "host exactly matches a
  whitelisted domain". `host_of` (`domain.rs:55-65`, in its own words a naive split)
  reads something else where a URL carries user information or an IPv6 address, where
  a query or fragment directly follows the host, or where a URL without a scheme has
  `://` in its path. On those the promise does not hold in general: what is matched with
  the list is then not the host, and a URL may be accepted whose host is not on it.
  `AcceptedWasAllowed` speaks of URLs that are plain in this sense (`IsPlain`) and says
  nothing of the others.
* A draft cut short by a fault leaves an invoice with fewer items than its total, which
  nothing repairs; its number is taken, so drafting it again is answered with a 500.
* A request of the operator that was admitted is carried out although the token expires
  before its statements, but not past a restart (`ChangesNeedALogin`).

## Proofs

Eight modules, for all values of the constants. Every invariant and every action
property that a passing run checks is a theorem, and so are the three refinements.

`SettlementProofs`, for any sets of handlers, messages, charges and invoices and any
number of faults: `TypeCorrect`, `ConsistentAlways`, `LedgerIsSound`,
`PaidMeansPosted`, `NotificationsAreTrue`, `PaidInvoicesWereCollected`,
`OnlyFaultsLose`, `OverSettlementIsBounded`, `SequentialSettlesExactly`,
`MatchingNeverGuesses` and the refinement `SettlementFollowsLifecycle`. No safety
property is inductive by itself: that a posting is backed by an event depends on what
a handler between two steps carries.
1. `Shape`: types, rows exist for charges that have a status, a handler's locals fit
   its stage (a matched charge asks for the transfer's amount; a settling handler's
   event is on record), events have distinct keys, invoices link to charges minted
   for them. Rows never change, so what a handler learned of a row's terms stays true.
2. `Books`, given `Shape`: a settling handler is alone with its event, has posted iff
   it is past `post`, has marked iff past `mark`, has not notified. A step that settles
   nothing (`Quiet`) keeps the books; the five that do are one case each.
3. `PaidInvoiceWasCollected` and `SettledUnlessInterrupted` follow step by step from
   the two and from `RowsPersist`.
4. `PostingsCovered` bounds double settlement. While a charge is pending, each of its
   postings is of a handler about to mark it (`Marking`) or of one that a fault took
   away; once it is paid no new match is made, and the stale matches still under way
   (`Posting`) are counted with the postings.
5. `OneAtATime`, kept while there is one handler and no fault: a pending charge minted
   for an invoice is the one under its link or about to be, or has a pending twin that
   makes both ambiguous for good (`LinkedOrAmbiguous`); what is being settled is linked
   (`HandledIsLinked`); a paid charge's invoice is paid or about to be (`PaidOrAboutTo`).
6. The refinement: `create`, `create_checkout` and `IssueCheckout` are `Open`, `Post` is
   `Collect` (the event of a settling handler has no posting yet), `MarkPaid` is `Close`
   or, on a charge paid meanwhile, a stutter, `Notify` is `Tell`, and the rest leave the
   four tables alone.

`SystemProofs`, about what reads those tables or runs beside them:
* `BooksAlwaysReconcile`. The report, the balance and what is underway are folds over
  sets; `FoldTheorems` makes them sums (`SumOver`) that grow and shrink by one element.
  `BooksBalance` says that what was received is at least what is posted and due, and
  exactly that without a fault: `RecordMatched` adds the amount to both sides
  (`EventsFit`: the charge asks for what the transfer carries), `Post` moves it, a fault
  only drops what is due.
* `ScanTypes`, `ScansAreExact`, `OutliersTakeHistory`, from `ScanHolds`, which says at
  each of the four SELECTs what the earlier ones have established. It survives the
  settlements in between because tables only grow (`Growing`). For the outliers a
  set of events stays witness of the threshold (`NormOf`): by `RoundedMean`, the rounded
  mean of at most `Multiple` amounts, `Multiple` times over, is no less than their sum.
* `EveryCallIsBacked`, of `PaySystem`. `PaySound` joins `Shape` and `Books` with
  `QueueIsSound`, instantiated from `WebhookDeliveryProofs`, and with `LostOnce`: what
  was lost of all rows together is no more than the faults. A row is POSTed at most
  `MaxAttempts` times and once for each loss (`PostsOfARow`), and the rows about a charge
  are no more than its postings, by an injection from `NotifiedWasSettled`.
* `PaymentsFollowLifecycle`: with the worker and common restarts the process still
  implements `PaymentLifecycle`.

`HostedCheckoutProofs` proves that `HostedCheckout` implements `Settlement`
(`MoneyPathUnmoved`), so that the above holds of it too, and from this `HostedIsTyped`,
`CompletedPaymentsAreVerified` and `CompletedAnswersAreFinal`. The strengthening is
`RowsCurrent`: what `verify` read of a paid charge is still current, because a paid
charge stays paid and the customer's UPDATEs require a pending one. That the second
read finds an event follows from `PaidIsPosted` and `LedgerBacked`.

`SmsReadingProofs`: `ReadingIsSettlement`, that whatever messages, providers and
replies there are, a step of `SmsReading` is a step of `Settlement` or a stutter; the
invariant is `ReadingsFit`: a handler that is still asking holds no transaction, and
what a provider gave it is one of the message's `Readings`. From it `ReadingTypes`,
`AnswersNeverLie` (an answer is given in the step that settles last, and what it says
is stable), `DriftIsLogged` (what a handler carries is in the log, unless a row was
lost) and `MessagesAreRecordedAsSent` (`RecordsFit`: a provenance row, its event and the
message agree). The last assumes that `amount_to_minor` is exact on the captures that
occur (`CapturedAmountsAreRead`), which the run evaluates.

`MerchantApiProofs`: `ApiTypes`, `RevokedAreRefused`, `ErrorsHaveAReason`,
`NothingChangesUnguarded`, `DraftsAlwaysAddUp`, `AcceptedUrlsWereAllowed`,
`OnlyForbiddenAreRefused`, for any tasks, credentials, domains, URLs and width of
integers. The invariants say what a task between two statements may rely on: `Placed`
(its locals fit its stage and its rows, and a request that came after the revocation of
its credential is still at the look-up, where it will be refused), `DomainsHold` (a task
about to read its new domain back had it on the list; if the row there is its own before
its INSERT, from an earlier request, the domain was on the list all along), `Admitted` (the console's token lives as long as the
last login under its secret, and while a password is set every operator's request in
progress came in under a login of the secret in force), `DraftsHold` (an invoice's items
are the first of its draft's, one task drafts it, and what no task drafts is complete or
was cut short), `ListsHold` (what a checkout concluded of the list so far was so of the
hosts of its URLs in a list in force while it was served). The last rests on
`HostIsRead`: what `host_of` cuts out of the text of a plain URL is its host, for
sequences of any length.

`WebhookDeliveryProofs`: `QueueIsTyped`, `EveryPostIsAccountedFor`,
`QueueConclusionsAreTrue`, `PostsAreBounded`, `EverySendIsDue`, `ConclusionsStay`, for
any rows, attempts, limit and ceiling. The inductive invariant is `QueueIsSound`: the
snapshot is as good as a fresh read (`BatchIsCurrent`: what is left of the batch is due
rows, each once, with their attempts on record; only the worker writes them, one at a
time), a pending row has attempts left, a success about to be recorded was taken in,
only a fault loses an outcome. That the backoff is a natural number rests on
`PowersAreNatural`, which counts subsets because arithmetic here has no induction.

`PaymentLinksProofs`: `LinksAreTyped`, `EveryUseIsAccountedFor`, `FreeOpensAreExhausted`,
`OverdraftIsBounded`, for any finite set of openers. The inductive invariant
`LinksAreSound` strengthens the bound to `OverdraftCovered`: the quantity less the
openers about to consume stays above minus their number.

`FoldTheorems` does by a least counterexample what would be induction: the natural
numbers are well-founded, so of the subsets on which a claim fails one is minimal
(`Minimal`). From this: the function the library's folds choose exists
(`FoldExists`), a sum does not depend on the order (`SumsByAny`), grows by what is added
(`SumOverOneMore`) and is monotonic (`SumOverPart`, `SumOverAtMost`).

Assumptions: `None` is none of the values it stands beside (`NoneAssumption`,
`RowAssumption`, `NothingIsNoReading`, `NothingIsNoRow`, parts of the others), amounts
are integers (`TxnAssumption`, `RequestAssumption`), invoice totals are positive
(`InvoiceAssumption`), the server serves finitely many requests at a time
(`HandlerAssumption`), bounds are numbers (`FaultAssumption`, `WebhookAssumption`,
`PayAssumption`, `ScanAssumption`, `LinkAssumption`), the powers of two and ten that `MerchantApi` uses are
positive (`PowerAssumption`, arithmetic that would need induction), a chain is a sequence with replies for each of its providers
(`ReadingAssumption`), and `Readings` is what the messages may be read as
(`ReadingsAreThese`).

Only model-checked: liveness (`PaymentsAreReported`, `QueuedIsConcluded`,
`EveryDeliveryEnds`), which is out of the prover's reach, and the arithmetic of `Money`
(`amount_to_minor` equals `Worth`), which needs induction over the digits.

## Left to do

Worth proving next: that `PaySystem` keeps the action properties of its queue
(`SendsOnlyWhenDue`, `ConclusionsAreFinal`) and `MerchantApi` an abstract specification
of a guarded call; an ambiguous match as a lemma about `normalize_msisdn`.

## Not modelled

* Routing, extraction, rate limiting, static files and list endpoints of `http.rs`:
  framework code or reads that change nothing. Its two guards, error codes, login and
  SMS endpoint are modelled.
* The checkout page (`checkout_page.rs`): one HTML text.
* Configuration, database set-up, HMAC and hashing (`config.rs`, `db.rs`, `crypto.rs`):
  environment, connection options and library calls.
* Settings, customers and the audit log: single-statement upserts and inserts that no
  other component reads; nothing writes the audit log yet.
* Which question the reconciliation chat routes to which report, and the expression a
  model suggests (`suggest_regex`): text of a model. The samples it is shown are modelled.
* `gateway_configs`: read by its own list and by `get_public_charge`
  (`checkout.rs:151-153`), which shows the enabled receivers to the payer; neither
  read changes anything, and nothing else depends on them.
* What a payer does with two pending charges of one amount, a hazard without a
  property: the program rightly refuses to guess. (The other is the wrapping total,
  see the observations.)
