----------------------------- MODULE SmsReading -----------------------------
(***************************************************************************)
(* How a delivered message becomes the transaction that Settlement works   *)
(* on: the forwarder's endpoint (http.rs, sms_webhook), the gateway's      *)
(* patterns (gateway.rs), and when they miss, the chain of AI providers    *)
(* (ai.rs, extract), asked in order, each attempt logged.  From there on   *)
(* the handler runs through ingest as in Settlement, and is answered.      *)
(*                                                                         *)
(* A message is what the patterns can capture of it, a provider's reply    *)
(* what parse_extraction looks at.  Providers are external: a reply may    *)
(* come late or not at all, be no JSON, or differ from one time to the     *)
(* next.                                                                   *)
(***************************************************************************)
EXTENDS Settlement, Money

CONSTANTS
    Message,    \* Message[s]: what the patterns capture of s, None where they miss
    Chain,      \* the providers configured, in order of priority
    Replies,    \* Replies[s][n]: what the nth provider may make of s
    NoReply,    \* a chat call that yields no content: timeout, error status, no choice
    Reversed    \* content in which the last brace comes before the first one

\* The fields of the JSON object a reply holds; those of a reply without one are None.
Extraction == [txn_id : {t.txn_id : t \in Txn} \cup {None},
               amount_bdt : Decimal \cup {None},
               sender_msisdn : Msisdn \cup {None}]

ASSUME ReadingAssumption ==
    /\ Chain \in Seq(STRING)
    /\ Replies \in [Sms -> [DOMAIN Chain -> SUBSET (Extraction \cup {NoReply, Reversed})]]

VARIABLES
    reading,       \* handler local: the message, how far its reading is, what was made of it
    ai_parse_log,  \* rows of ai_parse_log (raw_sha256 and raw_body are the message)
    provenance,    \* raw_sha256 and parse_source of each row of sms_events
    answer,        \* the answer the last step sent: a status, and for which transaction
    unlogged       \* history: an INSERT into ai_parse_log failed

readingVars == <<reading, ai_parse_log, provenance, answer, unlogged>>

\* stage: "ask" the provider at position `at', "log" what it answered, or "in" ingest.
Reading == [sms : Sms, stage : {"ask", "log", "in"}, at : 0..Len(Chain),
            parsed : Txn \cup {None}]

ASSUME NothingIsNoReading == None \notin Reading

LogRow == [sms : Sms, provider : 1..Len(Chain), parsed : Txn \cup {None}]
Source == [key : Keys, sms : Sms, at : 0..Len(Chain)]
Answer == [code : {202, 409, 422}, key : Keys \cup {None}]

ReadingTypeOK ==
    /\ reading \in [Handler -> Reading \cup {None}]
    /\ ai_parse_log \subseteq LogRow
    /\ provenance \subseteq Source
    /\ answer \in Answer \cup {None}
    /\ unlogged \in BOOLEAN
    /\ \A h \in Handler : pc[h] # "idle" => reading[h] # None /\ reading[h].stage = "in"

ReadingInit ==
    /\ Init
    /\ reading = [h \in Handler |-> None]
    /\ ai_parse_log = {}
    /\ provenance = {}
    /\ answer = None
    /\ unlogged = FALSE
-----------------------------------------------------------------------------
(* The patterns.                                                            *)

resolve(gateway) == gateway \in {"bkash", "nagad"}

\* parse_sms of either gateway: the TrxID and an amount are needed, the sender is not.
Parses(m) == m.txn_id # None /\ m.amount # None /\ IsAmount(m.amount)

parse_sms(m) == [gateway       |-> m.gateway,
                 txn_id        |-> m.txn_id,
                 amount_minor  |-> amount_to_minor(m.amount),
                 sender_msisdn |-> m.sender_msisdn]
-----------------------------------------------------------------------------
(* The providers.                                                           *)

\* A reply is an extraction if it names a transaction and a positive amount.
Complete(r) == r # NoReply /\ r.txn_id # None /\ r.amount_bdt # None /\ r.amount_bdt.n > 0

parse_extraction(gateway, r) ==
    IF Complete(r)
    THEN [gateway       |-> gateway,
          txn_id        |-> r.txn_id,
          amount_minor  |-> to_minor(r.amount_bdt),
          sender_msisdn |-> r.sender_msisdn]
    ELSE None

\* What a message may be read as: by the patterns, or else by any provider.
Possible(s) ==
    LET m == Message[s]
    IN  IF ~resolve(m.gateway) THEN {}
        ELSE IF Parses(m) THEN {parse_sms(m)}
        ELSE IF Chain = <<>> THEN {}
        ELSE {parse_extraction(m.gateway, r) :
                    r \in (UNION {Replies[s][n] : n \in DOMAIN Chain}) \ {Reversed}} \ {None}

\* Settlement takes the readings of a message as given: these are they.
ASSUME ReadingsAreThese == \A s \in Sms : Readings[s] = Possible(s)
-----------------------------------------------------------------------------
(* The request, up to the transaction.                                      *)

\* The request ends with this answer; None when the client gets none.
Respond(h, a) ==
    /\ reading' = [reading EXCEPT ![h] = None]
    /\ answer' = a

NoAnswerYet == answer' = None

Unprocessable == [code |-> 422, key |-> None]

\* Mutant of Accept: the transaction is recorded without looking for its charge.
AcceptUnmatched(h, s, at, t) ==
    /\ reading' = [reading EXCEPT ![h] = [sms |-> s, stage |-> "in", at |-> at, parsed |-> t]]
    /\ txn' = [txn EXCEPT ![h] = t]
    /\ pc' = [pc EXCEPT ![h] = "record"]
    /\ UNCHANGED <<db, target, issuing, faults>>

\* Take t, read by the patterns (0) or by a provider, into ingest.
Accept(h, s, at, t) ==
    /\ reading' = [reading EXCEPT ![h] = [sms |-> s, stage |-> "in", at |-> at, parsed |-> t]]
    /\ txn' = [txn EXCEPT ![h] = t]
    /\ pc' = [pc EXCEPT ![h] = "match"]
    /\ UNCHANGED <<db, target, issuing, faults>>

AskProvider(h, s, at) ==
    /\ reading' = [reading EXCEPT ![h] =
                      [sms |-> s, stage |-> "ask", at |-> at, parsed |-> None]]
    /\ UNCHANGED vars

\* Mutant of NeedsAi: the patterns are not asked first.
NeedsAiAlways(m) == Chain # <<>>

NeedsAi(m) == ~Parses(m) /\ Chain # <<>>

\* sms_webhook and the first lines of ingest.
Deliver(h, s) ==
    LET m == Message[s]
    IN  /\ pc[h] = "idle" /\ reading[h] = None
        /\ \/ /\ ~resolve(m.gateway) \/ ~(Parses(m) \/ NeedsAi(m))
              /\ Respond(h, Unprocessable)
              /\ UNCHANGED vars
           \/ /\ resolve(m.gateway) /\ NeedsAi(m)
              /\ AskProvider(h, s, 1)
              /\ NoAnswerYet
           \/ /\ resolve(m.gateway) /\ Parses(m) /\ ~NeedsAi(m)
              /\ Accept(h, s, 0, parse_sms(m))
              /\ NoAnswerYet
        /\ UNCHANGED <<ai_parse_log, provenance, unlogged>>

At(h, stage) == reading[h] # None /\ reading[h].stage = stage

\* call_provider and parse_extraction.
Ask(h) ==
    /\ At(h, "ask")
    /\ \E r \in Replies[reading[h].sms][reading[h].at] \ {Reversed} :
          reading' = [reading EXCEPT ![h].stage = "log",
                          ![h].parsed = parse_extraction(Message[reading[h].sms].gateway, r)]
    /\ NoAnswerYet
    /\ UNCHANGED <<vars, ai_parse_log, provenance, unlogged>>

\* The process stops and starts again, whatever its tasks are doing.
StopAndStart ==
    /\ \/ Crash
       \/ (\A h \in Handler : pc[h] = "idle") /\ UNCHANGED vars
    /\ reading' = [h \in Handler |-> None]
    /\ NoAnswerYet
    /\ UNCHANGED <<ai_parse_log, provenance, unlogged>>

\* &content[start..=end] panics when the braces are reversed, and a release build
\* aborts on a panic (Cargo.toml:39): no answer, no log row, no other provider asked,
\* and every other request ends with this one.
Panic(h) ==
    /\ At(h, "ask")
    /\ Reversed \in Replies[reading[h].sms][reading[h].at]
    /\ StopAndStart

Row(h) == [sms |-> reading[h].sms, provider |-> reading[h].at, parsed |-> reading[h].parsed]

\* Mutant of LogAttempt: only what was recovered is logged.
LogSuccess(h) == /\ ai_parse_log' = IF reading[h].parsed = None THEN ai_parse_log
                                    ELSE ai_parse_log \cup {Row(h)}
                 /\ UNCHANGED unlogged

\* The INSERT; its result is ignored.
LogAttempt(h) ==
    \/ ai_parse_log' = ai_parse_log \cup {Row(h)} /\ UNCHANGED unlogged
    \/ unlogged' = TRUE /\ UNCHANGED ai_parse_log

\* Mutant of NextProvider: the chain is asked from the start again.
SameProvider(n) == 1

NextProvider(n) == n + 1

\* Log the attempt, then take the extraction, ask the next provider, or give up.
Log(h) ==
    LET g == reading[h]
    IN  /\ At(h, "log")
        /\ LogAttempt(h)
        /\ \/ /\ g.parsed # None
              /\ Accept(h, g.sms, g.at, g.parsed)
              /\ NoAnswerYet
           \/ /\ g.parsed = None /\ NextProvider(g.at) \in DOMAIN Chain
              /\ AskProvider(h, g.sms, NextProvider(g.at))
              /\ NoAnswerYet
           \/ /\ g.parsed = None /\ NextProvider(g.at) \notin DOMAIN Chain
              /\ Respond(h, Unprocessable)
              /\ UNCHANGED vars
        /\ UNCHANGED provenance
-----------------------------------------------------------------------------
(* The rest of ingest is Settlement's, with the columns and the answer.     *)

\* The statement inserts the event of this handler's transaction.
Inserting(h) == pc[h] = "record" /\ ~IsRecorded(txn[h])

Ingest(h) ==
    /\ At(h, "in")
    /\ HandlerStep(h)
    /\ provenance' = IF Inserting(h)
                     THEN provenance \cup {[key |-> Key(txn[h]), sms |-> reading[h].sms,
                                            at |-> reading[h].at]}
                     ELSE provenance
    /\ IF pc'[h] # "idle" THEN NoAnswerYet /\ UNCHANGED reading
       ELSE Respond(h, [code |-> IF pc[h] = "record" /\ ~Inserting(h) THEN 409 ELSE 202,
                        key  |-> Key(txn[h])])
    /\ UNCHANGED <<ai_parse_log, unlogged>>

\* A statement fails (the forwarder sees a 500) or the forwarder hangs up.
Drop(h) ==
    /\ Abandon(h)
    /\ Respond(h, None)
    /\ UNCHANGED <<ai_parse_log, provenance, unlogged>>

\* Mutant of HangUp: what has been read is forgotten, the request goes on.
HangUpAnytime(h) ==
    /\ reading[h] # None
    /\ Respond(h, None)
    /\ UNCHANGED <<vars, ai_parse_log, provenance, unlogged>>

\* The forwarder hangs up before there is a transaction.
HangUp(h) ==
    /\ reading[h] # None /\ reading[h].stage # "in"
    /\ Respond(h, None)
    /\ UNCHANGED <<vars, ai_parse_log, provenance, unlogged>>

RestartReading == (\E h \in Handler : reading[h] # None) /\ StopAndStart

\* Charges come in meanwhile (create_checkout's INSERT is the same, with its own order_id).
Merchant == \E c \in ChargeId, r \in ChargeReq : create(c, r)

\* Every step of a handler that does not wait for its client.
Progress(h) == Ask(h) \/ Log(h) \/ Ingest(h)

\* What happens while the process is up.
ReadingServe ==
    \/ Merchant /\ NoAnswerYet /\ UNCHANGED <<reading, ai_parse_log, provenance, unlogged>>
    \/ \E h \in Handler, s \in Sms : Deliver(h, s)
    \/ \E h \in Handler : Progress(h) \/ Panic(h) \/ Drop(h) \/ HangUp(h)

ReadingNext == ReadingServe \/ RestartReading

\* Every provider call ends within the client's timeout, every statement is answered.
ReadingSpec == /\ ReadingInit
               /\ [][ReadingNext]_<<vars, readingVars>>
               /\ \A h \in Handler : WF_<<vars, readingVars>>(Progress(h))
-----------------------------------------------------------------------------
(* Properties.                                                              *)

\* What regex_suggestion hands the model (the newest 20 of them): the texts that the
\* patterns missed and a provider recovered.
samples(gateway) ==
    {row.sms : row \in {r \in ai_parse_log : /\ Message[r.sms].gateway = gateway
                                            /\ r.parsed # None}}

\* The patterns, the providers and the log decide what a message is read as and
\* nothing else: the money path does only what Settlement allows (sms.rs:39-52).
ReadingImplementsSettlement == Spec

\* The forwarder is told 202 only when the transaction is on record and, if it was
\* matched, posted, its charge paid and its callback queued; told 409 only when it is
\* on record, although whoever recorded it may never have settled it (sms.rs:74-83).
AnswersAreTrue ==
    answer # None /\ answer.key # None =>
        \E e \in sms_events :
            /\ Key(e.txn) = answer.key
            /\ answer.code = 202 /\ e.charge_id # None => FullySettled(e)

\* A message that the patterns read is recorded once, with exactly the amount it
\* states, however often it is delivered; only a message that a provider read may be
\* recorded again, under another txn_id (sms.rs:43-50).
RecordedAsSent ==
    \A p \in provenance :
        LET m == Message[p.sms]
        IN  /\ p.at = 0 <=> Parses(m)
            /\ p.at = 0 => /\ \A q \in provenance : q.sms = p.sms => q = p
                           /\ \A e \in sms_events : Key(e.txn) = p.key =>
                                /\ Decimals(m.amount) <= 2 =>
                                     e.txn.amount_minor = Worth(m.amount)
                                /\ e.txn.sender_msisdn = m.sender_msisdn

\* A transaction recovered by a provider was logged as recovered, and every provider
\* before it as having failed on that message, unless an INSERT failed (ai.rs:122-153);
\* nothing the patterns can read is in the log (0007_ai_suggest.sql:5).
DriftLogIsComplete ==
    /\ \A row \in ai_parse_log : ~Parses(Message[row.sms])
    /\ ~unlogged => \A p \in provenance : p.at # 0 =>
          /\ p.sms \in samples(Message[p.sms].gateway)
          /\ \E row \in ai_parse_log : /\ row.sms = p.sms /\ row.provider = p.at
                                       /\ row.parsed # None /\ Key(row.parsed) = p.key
          /\ \A n \in 1..(p.at - 1) : [sms |-> p.sms, provider |-> n, parsed |-> None]
                                         \in ai_parse_log

\* Every delivery is eventually done with: the chain is finite, each call has a
\* timeout (ai.rs:117) and no provider is asked for ever.
EveryDeliveryEnds == \A h \in Handler : reading[h] # None ~> reading[h] = None
=============================================================================
