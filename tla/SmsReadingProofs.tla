-------------------------- MODULE SmsReadingProofs --------------------------
(***************************************************************************)
(* SmsReading implements Settlement: for any messages, patterns' captures, *)
(* providers and replies, reading a message amounts to the Receive of one  *)
(* of its Readings, and nothing else a forwarder or a provider does shows  *)
(* in the tables.  The rows it leaves (sms_events, answers, the drift log) *)
(* say what was sent, what was read of it and which providers failed.      *)
(***************************************************************************)
EXTENDS SmsReading, SettlementProofs

\* A handler that has asked a provider has no transaction yet; what it got is one of
\* the readings of its message.
AskingFits(h) ==
    LET g == reading[h]
    IN  /\ pc[h] = "idle"
        /\ g.sms \in Sms /\ resolve(Message[g.sms].gateway) /\ ~Parses(Message[g.sms])
        /\ g.at \in DOMAIN Chain
        /\ g.parsed # None => g.parsed \in Readings[g.sms]

ReadingsFit ==
    /\ reading \in [Handler -> Reading \cup {None}]
    /\ \A h \in Handler : At(h, "ask") \/ At(h, "log") => AskingFits(h)
-----------------------------------------------------------------------------
\* What the patterns capture, and what a provider makes of a message they miss, are
\* readings of it.
LEMMA ParsedIsPossible ==
    ASSUME NEW s \in Sms, resolve(Message[s].gateway), Parses(Message[s])
    PROVE  parse_sms(Message[s]) \in Readings[s]
BY ReadingsAreThese DEF Possible

LEMMA ExtractedIsPossible ==
    ASSUME NEW s \in Sms, resolve(Message[s].gateway), ~Parses(Message[s]),
           NEW n \in DOMAIN Chain, NEW r \in Replies[s][n] \ {Reversed},
           parse_extraction(Message[s].gateway, r) # None
    PROVE  parse_extraction(Message[s].gateway, r) \in Readings[s]
<1> DEFINE all == (UNION {Replies[s][k] : k \in DOMAIN Chain}) \ {Reversed}
<1>1. Chain # <<>>
  BY ReadingAssumption
<1>2. r \in all
  BY Zenon
<1>3. Readings[s] = {parse_extraction(Message[s].gateway, q) : q \in all} \ {None}
  BY <1>1, ReadingsAreThese DEF Possible
<1> HIDE DEF all
<1> QED
  BY <1>2, <1>3
-----------------------------------------------------------------------------
LEMMA ReadingsStart == ReadingInit => ReadingsFit
BY DEF ReadingInit, ReadingsFit, At

\* One handler's reading moves on and its place in Settlement stays.
LEMMA OneReadingMoves ==
    ASSUME ReadingsFit, NEW h \in Handler, NEW g \in Reading \cup {None},
           reading' = [reading EXCEPT ![h] = g],
           \A k \in Handler \ {h} : pc[k] = "idle" => pc'[k] = "idle",
           g # None /\ g.stage # "in" => AskingFits(h)'
    PROVE  ReadingsFit'
<1>1. /\ reading' \in [Handler -> Reading \cup {None}] /\ reading'[h] = g
      /\ \A k \in Handler : k # h => reading'[k] = reading[k]
  BY DEF ReadingsFit
<1>2. ASSUME NEW k \in Handler, (At(k, "ask") \/ At(k, "log"))' PROVE AskingFits(k)'
  <2>1. CASE k = h
    BY <1>1, <1>2, <2>1 DEF At
  <2>2. CASE k # h
    BY <1>1, <1>2, <2>2 DEF At, ReadingsFit, AskingFits
  <2> QED
    BY <2>1, <2>2
<1> QED
  BY <1>1, <1>2 DEF ReadingsFit

\* Accept is Receive, for one of the message's readings.
LEMMA AcceptReceives ==
    ASSUME TypeOK, ReadingsFit, NEW h \in Handler, NEW s \in Sms, NEW at \in 0..Len(Chain),
           NEW t \in Readings[s], pc[h] = "idle", Accept(h, s, at, t)
    PROVE  [Next]_vars /\ ReadingsFit'
<1>1. Receive(h, s)
  BY DEF Accept, Receive
<1>2. t \in Txn
  BY TxnAssumption
<1> DEFINE g == [sms |-> s, stage |-> "in", at |-> at, parsed |-> t]
<1>3. g \in Reading
  BY <1>2 DEF Reading
<1>4. reading' = [reading EXCEPT ![h] = g] /\ pc' = [pc EXCEPT ![h] = "match"]
  BY DEF Accept
<1>5. ReadingsFit'
  BY <1>3, <1>4, OneReadingMoves DEF TypeOK
<1> QED
  BY <1>1, <1>5 DEF Next, Serve

\* A delivery is refused, taken in as Receive would, or passed to the first provider.
LEMMA DeliverReceives ==
    ASSUME TypeOK, ReadingsFit, NEW h \in Handler, NEW s \in Sms, Deliver(h, s)
    PROVE  [Next]_vars /\ ReadingsFit'
<1>1. pc[h] = "idle"
  BY DEF Deliver
<1>2. CASE Respond(h, Unprocessable) /\ UNCHANGED vars
  BY <1>2, OneReadingMoves DEF Respond, vars, locals
<1>3. CASE resolve(Message[s].gateway) /\ NeedsAi(Message[s]) /\ AskProvider(h, s, 1)
  <2> DEFINE g == [sms |-> s, stage |-> "ask", at |-> 1, parsed |-> None]
  <2>1. reading' = [reading EXCEPT ![h] = g] /\ UNCHANGED vars /\ UNCHANGED pc
    BY <1>3 DEF AskProvider, vars, locals
  <2>2. 1 \in DOMAIN Chain /\ ~Parses(Message[s]) /\ Len(Chain) \in Nat
    BY <1>3, ReadingAssumption DEF NeedsAi
  <2>3. g \in Reading
    BY <2>2 DEF Reading
  <2>4. AskingFits(h)'
    BY <1>1, <1>3, <2>1, <2>2 DEF AskingFits, ReadingsFit
  <2> QED
    BY <2>1, <2>3, <2>4, OneReadingMoves
<1>4. CASE resolve(Message[s].gateway) /\ Parses(Message[s]) /\ Accept(h, s, 0, parse_sms(Message[s]))
  <2>1. parse_sms(Message[s]) \in Readings[s] /\ 0 \in 0..Len(Chain)
    BY <1>4, ParsedIsPossible, ReadingAssumption
  <2> QED
    BY <1>1, <1>4, <2>1, AcceptReceives
<1> QED
  BY <1>2, <1>3, <1>4 DEF Deliver

\* A provider's reply is looked at, or makes the process stop.
LEMMA AskIsInvisible ==
    ASSUME TypeOK, ReadingsFit, NEW h \in Handler, Ask(h)
    PROVE  UNCHANGED vars /\ ReadingsFit'
<1>1. AskingFits(h) /\ reading[h] \in Reading /\ reading[h].stage = "ask"
  BY DEF Ask, At, ReadingsFit
<1>2. PICK r \in Replies[reading[h].sms][reading[h].at] \ {Reversed} :
        reading' = [reading EXCEPT ![h].stage = "log",
                      ![h].parsed = parse_extraction(Message[reading[h].sms].gateway, r)]
  BY DEF Ask
<1>3. UNCHANGED vars /\ UNCHANGED pc
  BY DEF Ask, vars, locals
<1> DEFINE t == parse_extraction(Message[reading[h].sms].gateway, r)
           g == [reading[h] EXCEPT !.stage = "log", !.parsed = t]
<1>4. t # None => t \in Readings[reading[h].sms]
  BY <1>1, ExtractedIsPossible DEF AskingFits
<1>5. g \in Reading /\ g.sms = reading[h].sms /\ g.at = reading[h].at /\ g.parsed = t
  <2>1. t \in Txn \cup {None}
    BY <1>1, <1>4, TxnAssumption DEF AskingFits
  <2> QED
    BY <1>1, <2>1 DEF Reading
<1>6. reading' = [reading EXCEPT ![h] = g] /\ reading'[h] = g
  BY <1>2 DEF ReadingsFit
<1>7. AskingFits(h)'
  BY <1>1, <1>3, <1>4, <1>5, <1>6 DEF AskingFits
<1> QED
  BY <1>3, <1>5, <1>6, <1>7, OneReadingMoves

\* After the log the extraction is taken in, the next provider asked, or none is left.
LEMMA LogReceives ==
    ASSUME TypeOK, ReadingsFit, NEW h \in Handler, Log(h)
    PROVE  [Next]_vars /\ ReadingsFit'
<1> DEFINE g == reading[h]
<1>1. AskingFits(h) /\ g \in Reading /\ g.sms \in Sms
  BY DEF Log, At, ReadingsFit, AskingFits
<1>2. CASE g.parsed # None /\ Accept(h, g.sms, g.at, g.parsed)
  <2>1. g.parsed \in Readings[g.sms] /\ g.at \in 0..Len(Chain) /\ pc[h] = "idle"
    BY <1>1, <1>2 DEF AskingFits, Reading
  <2> QED
    BY <1>1, <1>2, <2>1, AcceptReceives
<1>3. CASE NextProvider(g.at) \in DOMAIN Chain /\ AskProvider(h, g.sms, NextProvider(g.at))
  <2> DEFINE n == NextProvider(g.at)
             q == [sms |-> g.sms, stage |-> "ask", at |-> n, parsed |-> None]
  <2>1. reading' = [reading EXCEPT ![h] = q] /\ UNCHANGED vars /\ UNCHANGED pc
    BY <1>3 DEF AskProvider, vars, locals
  <2>2. q \in Reading
    <3>1. n \in 0..Len(Chain)
      BY <1>3, ReadingAssumption
    <3> QED
      BY <1>1, <3>1 DEF Reading
  <2>3. AskingFits(h)'
    <3>1. reading'[h] = q
      BY <2>1 DEF ReadingsFit
    <3> QED
      BY <1>1, <1>3, <2>1, <3>1 DEF AskingFits
  <2> QED
    BY <2>1, <2>2, <2>3, OneReadingMoves
<1>4. CASE Respond(h, Unprocessable) /\ UNCHANGED vars
  BY <1>4, OneReadingMoves DEF Respond, vars, locals
<1> QED
  BY <1>2, <1>3, <1>4 DEF Log

\* From there on the handler does what Settlement's does.
LEMMA IngestSettles ==
    ASSUME TypeOK, ReadingsFit, NEW h \in Handler, Ingest(h)
    PROVE  [Next]_vars /\ ReadingsFit'
<1>1. HandlerStep(h) /\ reading[h].stage = "in" /\ reading[h] \in Reading
  BY DEF Ingest, At, ReadingsFit
<1>2. \A k \in Handler \ {h} : pc'[k] = pc[k]
  BY <1>1 DEF HandlerStep, Match, RejectDuplicate, RecordUnmatched, RecordMatched, InsertEvent,
     Post, MarkPaid, SettleInvoices, Notify, IssueLink, Leave, Proceed, TypeOK
<1>3. PICK g \in {reading[h], None} : reading' = [reading EXCEPT ![h] = g]
  BY <1>1 DEF Ingest, Respond, ReadingsFit
<1>4. ReadingsFit'
  BY <1>1, <1>2, <1>3, OneReadingMoves
<1> QED
  BY <1>1, <1>4 DEF Next, Serve

\* Whatever stops the process, its successor reads nothing.
LEMMA StopForgets ==
    ASSUME StopAndStart PROVE [Next]_vars /\ ReadingsFit'
<1>1. ReadingsFit'
  BY DEF StopAndStart, ReadingsFit, At
<1>2. [Next]_vars
  BY DEF StopAndStart, Next
<1> QED
  BY <1>1, <1>2

\* A handler that ends, for whatever reason, has no reading left to fit.
LEMMA DroppedReads ==
    ASSUME TypeOK, ReadingsFit, NEW h \in Handler, Drop(h) \/ HangUp(h)
    PROVE  [Next]_vars /\ ReadingsFit'
<1>1. reading' = [reading EXCEPT ![h] = None]
  BY DEF Drop, HangUp, Respond
<1>2. \A k \in Handler \ {h} : pc'[k] = pc[k]
  BY DEF Drop, HangUp, Abandon, Leave, TypeOK, vars, locals
<1>3. ReadingsFit'
  BY <1>1, <1>2, OneReadingMoves
<1>4. [Next]_vars
  BY DEF Drop, HangUp, Next, Serve
<1> QED
  BY <1>3, <1>4

LEMMA ReadingStepSettles ==
    TypeOK /\ ReadingsFit /\ [ReadingNext]_<<vars, readingVars>> => [Next]_vars /\ ReadingsFit'
<1> SUFFICES ASSUME TypeOK, ReadingsFit, [ReadingNext]_<<vars, readingVars>>
             PROVE  [Next]_vars /\ ReadingsFit'
  OBVIOUS
<1>1. CASE Merchant /\ UNCHANGED reading
  <2>1. Next
    BY <1>1 DEF Merchant, Next, Serve
  <2>2. UNCHANGED <<pc, reading>>
    BY <1>1 DEF Merchant, create, locals
  <2> QED
    BY <2>1, <2>2 DEF ReadingsFit, At, AskingFits
<1>2. CASE \E h \in Handler, s \in Sms : Deliver(h, s)
  BY <1>2, DeliverReceives
<1>3. CASE \E h \in Handler : Progress(h)
  BY <1>3, AskIsInvisible, LogReceives, IngestSettles DEF Progress
<1>4. CASE \E h \in Handler : Panic(h)
  BY <1>4, StopForgets DEF Panic
<1>5. CASE RestartReading
  BY <1>5, StopForgets DEF RestartReading
<1>6. CASE \E h \in Handler : Drop(h) \/ HangUp(h)
  BY <1>6, DroppedReads
<1>7. CASE UNCHANGED <<vars, readingVars>>
  BY <1>7 DEF vars, locals, readingVars, ReadingsFit, At, AskingFits
<1> QED
  BY <1>1, <1>2, <1>3, <1>4, <1>5, <1>6, <1>7 DEF ReadingNext, ReadingServe

\* The patterns, the providers and the log decide what a message is read as and nothing
\* else, for any number of handlers and providers: every theorem about Settlement holds
\* of the server that reads its messages (sms.rs:39-52, ai.rs:122-153).
THEOREM ReadingIsSettlement == ReadingSpec => ReadingImplementsSettlement
<1>1. ReadingInit => Init
  BY DEF ReadingInit
<1>2. Shape /\ ReadingsFit /\ [ReadingNext]_<<vars, readingVars>>
        => [Next]_vars /\ (Shape /\ ReadingsFit)'
  BY ReadingStepSettles, ShapeStep DEF Shape
<1>3. ReadingInit => Shape /\ ReadingsFit
  BY <1>1, ShapeInit, ReadingsStart
<1> QED
  BY <1>1, <1>2, <1>3, PTL DEF ReadingSpec, Spec, ReadingImplementsSettlement
-----------------------------------------------------------------------------
(* What is recorded, logged and answered.                                   *)

\* t is what the patterns (at 0) or a provider made of message s.
Origin(s, at, t) ==
    /\ s \in Sms /\ t \in Txn
    /\ at = 0 <=> Parses(Message[s])
    /\ at = 0 => t = parse_sms(Message[s])

\* Every provider before this one is on record as having failed on the message.
FailedBefore(s, at) ==
    \A n \in 1..(at - 1) : [sms |-> s, provider |-> n, parsed |-> None] \in ai_parse_log

\* So is what this one recovered.
Logged(s, at, t) ==
    at # 0 => FailedBefore(s, at) /\ [sms |-> s, provider |-> at, parsed |-> t] \in ai_parse_log

\* A handler is in ingest with what its message was read as, and not before.
IngestFits(h) ==
    /\ pc[h] # "link"
    /\ pc[h] # "idle" <=> At(h, "in")
    /\ At(h, "in") => /\ Origin(reading[h].sms, reading[h].at, txn[h])
                      /\ ~unlogged => Logged(reading[h].sms, reading[h].at, txn[h])
    /\ At(h, "ask") \/ At(h, "log") => unlogged \/ FailedBefore(reading[h].sms, reading[h].at)

\* The columns of an event tell where its transaction came from.
SourceFits(p) ==
    \E e \in sms_events : /\ Key(e.txn) = p.key
                          /\ Origin(p.sms, p.at, e.txn)
                          /\ ~unlogged => Logged(p.sms, p.at, e.txn)

RecordsFit ==
    /\ ai_parse_log \subseteq LogRow
    /\ \A row \in ai_parse_log : ~Parses(Message[row.sms])
    /\ provenance \subseteq Source
    /\ answer \in Answer \cup {None}
    /\ unlogged \in BOOLEAN
    /\ \A h \in Handler : IngestFits(h)
    /\ \A p \in provenance : SourceFits(p)

LEMMA RecordsStart == ReadingInit => RecordsFit
BY DEF ReadingInit, Init, RecordsFit, IngestFits, At

\* The log only grows, and so what it shows stays shown.
LEMMA LogGrows ==
    ASSUME ai_parse_log \subseteq ai_parse_log'
    PROVE  /\ \A s, at : FailedBefore(s, at) => FailedBefore(s, at)'
           /\ \A s, at, t : Logged(s, at, t) => Logged(s, at, t)'
BY DEF FailedBefore, Logged

\* A step of one handler leaves the others, and the rows there are, fitting.
LEMMA OthersStillFit ==
    ASSUME RecordsFit, NEW h \in Handler,
           \A k \in Handler \ {h} : UNCHANGED <<pc[k], txn[k], reading[k]>>,
           sms_events \subseteq sms_events', ai_parse_log \subseteq ai_parse_log',
           unlogged => unlogged'
    PROVE  /\ \A k \in Handler \ {h} : IngestFits(k)'
           /\ \A p \in provenance : SourceFits(p)'
<1>1. ASSUME NEW k \in Handler \ {h} PROVE IngestFits(k)'
  <2>1. IngestFits(k) /\ UNCHANGED <<pc[k], txn[k], reading[k]>>
    BY DEF RecordsFit
  <2> QED
    BY <2>1, LogGrows DEF IngestFits, At
<1>2. ASSUME NEW p \in provenance PROVE SourceFits(p)'
  <2>1. SourceFits(p)
    BY DEF RecordsFit
  <2> QED
    BY <2>1, LogGrows DEF SourceFits
<1> QED
  BY <1>1, <1>2

\* A message that stands where the chain is tried goes in, on, or away: the log
\* and the tables of ingest are the same, but for the row that is given.
LEMMA ReadingMovesOn ==
    ASSUME TypeOK, ReadingsFit, RecordsFit, NEW h \in Handler, NEW g,
           reading' = [reading EXCEPT ![h] = g],
           \A k \in Handler \ {h} : UNCHANGED <<pc[k], txn[k]>>,
           ai_parse_log \subseteq ai_parse_log', ai_parse_log' \subseteq LogRow,
           \A row \in ai_parse_log' : ~Parses(Message[row.sms]),
           unlogged' \in BOOLEAN, unlogged => unlogged',
           answer' \in Answer \cup {None}, UNCHANGED <<sms_events, provenance>>,
           IngestFits(h)'
    PROVE  RecordsFit'
<1>1. \A k \in Handler \ {h} : UNCHANGED reading[k]
  BY DEF ReadingsFit
<1>2. /\ \A k \in Handler : IngestFits(k)'
      /\ \A p \in provenance : SourceFits(p)'
  BY <1>1, OthersStillFit
<1> QED
  BY <1>2 DEF RecordsFit

LEMMA AcceptedFits ==
    ASSUME TypeOK, ReadingsFit, NEW h \in Handler, NEW s, NEW at \in 0..Len(Chain), NEW t,
           Accept(h, s, at, t), Origin(s, at, t), (~unlogged => Logged(s, at, t))'
    PROVE  IngestFits(h)' /\ \A k \in Handler \ {h} : UNCHANGED <<pc[k], txn[k]>>
<1> DEFINE g == [sms |-> s, stage |-> "in", at |-> at, parsed |-> t]
<1>1. g \in Reading /\ g # None
  BY NothingIsNoReading DEF Reading, Origin
<1>2. reading'[h] = g
  BY DEF Accept, ReadingsFit
<1>3. /\ pc'[h] = "match" /\ txn'[h] = t
      /\ \A k \in Handler \ {h} : UNCHANGED <<pc[k], txn[k]>>
  BY DEF Accept, TypeOK
<1>4. ~At(h, "ask")' /\ ~At(h, "log")' /\ At(h, "in")'
  BY <1>1, <1>2 DEF At
<1> QED
  BY <1>2, <1>3, <1>4 DEF IngestFits

LEMMA AnswerTypes ==
    /\ None \in Answer \cup {None} /\ Unprocessable \in Answer
    /\ \A k \in Keys : [code |-> 202, key |-> k] \in Answer /\ [code |-> 409, key |-> k] \in Answer
BY DEF Answer, Unprocessable

LEMMA DeliverKeepsRecords ==
    ASSUME TypeOK, ReadingsFit, RecordsFit, NEW h \in Handler, NEW s \in Sms, Deliver(h, s)
    PROVE  RecordsFit'
<1>1. /\ pc[h] = "idle" /\ reading[h] = None
      /\ UNCHANGED <<ai_parse_log, provenance, unlogged>>
  BY DEF Deliver
<1>2. /\ ai_parse_log \subseteq LogRow /\ unlogged \in BOOLEAN /\ reading \in [Handler -> Reading \cup {None}]
      /\ \A row \in ai_parse_log : ~Parses(Message[row.sms])
  BY DEF RecordsFit, ReadingsFit
<1>3. CASE Respond(h, Unprocessable) /\ UNCHANGED vars
  <2>1. /\ reading' = [reading EXCEPT ![h] = None] /\ UNCHANGED <<pc, txn, sms_events>>
        /\ answer' \in Answer \cup {None}
    BY <1>3, AnswerTypes DEF Respond, vars, db, locals
  <2>2. IngestFits(h)'
    BY <1>1, <1>2, <2>1 DEF IngestFits, At
  <2> QED
    BY <1>1, <1>2, <2>1, <2>2, ReadingMovesOn
<1>4. CASE NeedsAi(Message[s]) /\ AskProvider(h, s, 1) /\ NoAnswerYet
  <2> DEFINE g == [sms |-> s, stage |-> "ask", at |-> 1, parsed |-> None]
  <2>1. /\ reading' = [reading EXCEPT ![h] = g] /\ UNCHANGED <<pc, txn, sms_events>>
        /\ answer' \in Answer \cup {None}
    BY <1>4 DEF AskProvider, NoAnswerYet, vars, db, locals
  <2>2. IngestFits(h)'
    BY <1>1, <1>2, <2>1 DEF IngestFits, At, FailedBefore
  <2> QED
    BY <1>1, <1>2, <2>1, <2>2, ReadingMovesOn
<1>5. CASE /\ resolve(Message[s].gateway) /\ Parses(Message[s]) /\ NoAnswerYet
           /\ Accept(h, s, 0, parse_sms(Message[s]))
  <2> DEFINE t == parse_sms(Message[s])
             g == [sms |-> s, stage |-> "in", at |-> 0, parsed |-> t]
  <2>1. t \in Txn
    BY <1>5, ParsedIsPossible, TxnAssumption
  <2>2. Origin(s, 0, t) /\ Logged(s, 0, t)'
    BY <1>5, <2>1 DEF Origin, Logged
  <2>3. IngestFits(h)' /\ \A k \in Handler \ {h} : UNCHANGED <<pc[k], txn[k]>>
    BY <1>5, <2>2, AcceptedFits
  <2>4. /\ reading' = [reading EXCEPT ![h] = g] /\ UNCHANGED sms_events
        /\ answer' \in Answer \cup {None}
    BY <1>5 DEF Accept, NoAnswerYet, db
  <2> QED
    BY <1>1, <1>2, <2>3, <2>4, ReadingMovesOn
<1> QED
  BY <1>3, <1>4, <1>5 DEF Deliver

LEMMA AskKeepsRecords ==
    ASSUME TypeOK, ReadingsFit, RecordsFit, NEW h \in Handler, Ask(h)
    PROVE  RecordsFit'
<1>1. AskingFits(h) /\ reading[h] \in Reading /\ At(h, "ask")
  BY DEF Ask, At, ReadingsFit
<1>2. PICK t : reading' = [reading EXCEPT ![h] = [reading[h] EXCEPT !.stage = "log", !.parsed = t]]
  BY DEF Ask
<1>3. /\ UNCHANGED <<pc, txn, sms_events, ai_parse_log, provenance, unlogged>>
      /\ answer' \in Answer \cup {None}
  BY DEF Ask, NoAnswerYet, vars, db, locals
<1>4. /\ reading'[h].sms = reading[h].sms /\ reading'[h].at = reading[h].at
      /\ reading'[h].stage = "log"
  BY <1>1, <1>2 DEF ReadingsFit, Reading, At
<1>5. IngestFits(h)'
  <2>1. ~At(h, "ask")' /\ ~At(h, "in")'
    BY <1>4 DEF At
  <2>2. unlogged \/ FailedBefore(reading[h].sms, reading[h].at)
    BY <1>1 DEF RecordsFit, IngestFits
  <2>3. (unlogged \/ FailedBefore(reading[h].sms, reading[h].at))'
    BY <1>3, <1>4, <2>2 DEF FailedBefore
  <2>4. pc'[h] = "idle"
    BY <1>1, <1>3 DEF AskingFits
  <2> QED
    BY <2>1, <2>3, <2>4 DEF IngestFits
<1> QED
  BY <1>2, <1>3, <1>5, ReadingMovesOn DEF RecordsFit

LEMMA LogKeepsRecords ==
    ASSUME TypeOK, ReadingsFit, RecordsFit, NEW h \in Handler, Log(h)
    PROVE  RecordsFit'
<1> DEFINE g == reading[h]
<1>1. /\ AskingFits(h) /\ g \in Reading /\ At(h, "log") /\ g.at \in 1..Len(Chain)
      /\ Len(Chain) \in Nat /\ DOMAIN Chain = 1..Len(Chain)
  BY ReadingAssumption DEF Log, At, ReadingsFit, AskingFits
<1>2. /\ Row(h) \in LogRow /\ ~Parses(Message[Row(h).sms])
      /\ Row(h) = [sms |-> g.sms, provider |-> g.at, parsed |-> g.parsed]
  BY <1>1 DEF Row, LogRow, Reading, AskingFits
<1>3. /\ ai_parse_log \subseteq ai_parse_log' /\ ai_parse_log' \subseteq LogRow
      /\ \A row \in ai_parse_log' : ~Parses(Message[row.sms])
      /\ unlogged' \in BOOLEAN
      /\ unlogged => unlogged'
      /\ ~unlogged' => Row(h) \in ai_parse_log'
  <2>1. LogAttempt(h)
    BY Zenon DEF Log
  <2>2. /\ ai_parse_log \subseteq LogRow /\ unlogged \in BOOLEAN
        /\ \A row \in ai_parse_log : ~Parses(Message[row.sms])
    BY DEF RecordsFit
  <2>3. CASE ai_parse_log' = ai_parse_log \cup {Row(h)} /\ UNCHANGED unlogged
    BY <1>2, <2>2, <2>3
  <2>4. CASE unlogged' = TRUE /\ UNCHANGED ai_parse_log
    BY <2>2, <2>4
  <2> QED
    BY <2>1, <2>3, <2>4 DEF LogAttempt
<1>4. unlogged \/ FailedBefore(g.sms, g.at)
  BY <1>1 DEF RecordsFit, IngestFits
<1>5. /\ UNCHANGED provenance /\ answer' \in Answer \cup {None}
  BY AnswerTypes DEF Log, NoAnswerYet, Respond
<1>6. PICK m, n, t : m = g.sms /\ n = g.at /\ t = g.parsed
  OBVIOUS
<1>7. ~unlogged' => /\ (FailedBefore(m, n))'
                    /\ [sms |-> m, provider |-> n, parsed |-> t] \in ai_parse_log'
  <2>1. ~unlogged' => [sms |-> m, provider |-> n, parsed |-> t] \in ai_parse_log'
    BY <1>2, <1>3, <1>6
  <2>2. ~unlogged' => FailedBefore(m, n)
    BY <1>3, <1>4, <1>6
  <2> QED
    BY <1>3, <2>1, <2>2, LogGrows
<1>8. CASE t # None /\ Accept(h, m, n, t) /\ NoAnswerYet
  <2>1. Origin(m, n, t) /\ n \in 0..Len(Chain)
    BY <1>1, <1>6, <1>8 DEF Reading, Origin, AskingFits
  <2>2. (~unlogged => Logged(m, n, t))'
    BY <1>7 DEF Logged
  <2>3. IngestFits(h)' /\ \A k \in Handler \ {h} : UNCHANGED <<pc[k], txn[k]>>
    BY <1>8, <2>1, <2>2, AcceptedFits
  <2>4. /\ reading' = [reading EXCEPT ![h] = [sms |-> m, stage |-> "in", at |-> n, parsed |-> t]]
        /\ UNCHANGED sms_events
    BY <1>8 DEF Accept, db
  <2> QED
    BY <1>3, <1>5, <2>3, <2>4, ReadingMovesOn
<1>9. CASE t = None /\ n + 1 \in DOMAIN Chain /\ AskProvider(h, m, n + 1)
  <2> DEFINE q == [sms |-> m, stage |-> "ask", at |-> n + 1, parsed |-> None]
  <2>1. reading' = [reading EXCEPT ![h] = q] /\ UNCHANGED <<pc, txn, sms_events>>
    BY <1>9 DEF AskProvider, vars, db, locals
  <2>2. reading'[h] = q
    BY <2>1 DEF ReadingsFit
  <2>3. (unlogged \/ FailedBefore(m, n + 1))'
    BY <1>1, <1>6, <1>7, <1>9 DEF FailedBefore
  <2>4. IngestFits(h)'
    BY <1>1, <2>1, <2>2, <2>3 DEF IngestFits, At, AskingFits
  <2> QED
    BY <1>3, <1>5, <2>1, <2>4, ReadingMovesOn
<1>10. CASE Respond(h, Unprocessable) /\ UNCHANGED vars
  <2>1. reading' = [reading EXCEPT ![h] = None] /\ UNCHANGED <<pc, txn, sms_events>>
    BY <1>10 DEF Respond, vars, db, locals
  <2>2. IngestFits(h)'
    BY <1>1, <2>1 DEF IngestFits, At, AskingFits, ReadingsFit
  <2> QED
    BY <1>3, <1>5, <2>1, <2>2, ReadingMovesOn
<1> QED
  BY <1>6, <1>8, <1>9, <1>10 DEF Log, NextProvider

\* What a step of ingest does to the handlers and to the events.
LEMMA StepOfIngest ==
    ASSUME TypeOK, NEW h \in Handler, HandlerStep(h), pc[h] # "link"
    PROVE  /\ \A k \in Handler \ {h} : UNCHANGED <<pc[k], txn[k]>>
           /\ pc'[h] \in Stages \ {"link"}
           /\ pc'[h] # "idle" => txn'[h] = txn[h]
           /\ sms_events \subseteq sms_events'
           /\ Inserting(h) => [txn |-> txn[h], charge_id |-> target[h]] \in sms_events'
<1> USE DEF TypeOK, Stages
<1>1. CASE Match(h)
  BY <1>1 DEF Match, Inserting, db
<1>2. CASE RejectDuplicate(h)
  BY <1>2 DEF RejectDuplicate, Leave, Inserting, db
<1>3. CASE RecordUnmatched(h)
  BY <1>3 DEF RecordUnmatched, InsertEvent, Leave
<1>4. CASE RecordMatched(h)
  BY <1>4 DEF RecordMatched, InsertEvent, Proceed
<1>5. CASE Post(h) \/ MarkPaid(h)
  BY <1>5 DEF Post, MarkPaid, Proceed, Inserting, db
<1>6. CASE SettleInvoices(h)
  BY <1>6 DEF SettleInvoices, Proceed, Leave, Inserting
<1>7. CASE Notify(h)
  BY <1>7 DEF Notify, Leave, Inserting
<1> QED
  BY <1>1, <1>2, <1>3, <1>4, <1>5, <1>6, <1>7 DEF HandlerStep, IssueLink

LEMMA IngestKeepsRecords ==
    ASSUME TypeOK, ReadingsFit, RecordsFit, NEW h \in Handler, Ingest(h)
    PROVE  RecordsFit'
<1> DEFINE g == reading[h]
<1>1. /\ IngestFits(h) /\ At(h, "in") /\ HandlerStep(h) /\ g \in Reading
      /\ UNCHANGED <<ai_parse_log, unlogged>>
  BY DEF Ingest, RecordsFit, ReadingsFit, At
<1>2. /\ \A k \in Handler \ {h} : UNCHANGED <<pc[k], txn[k]>>
      /\ pc'[h] \in Stages \ {"link"}
      /\ pc'[h] # "idle" => txn'[h] = txn[h]
      /\ sms_events \subseteq sms_events'
      /\ Inserting(h) => [txn |-> txn[h], charge_id |-> target[h]] \in sms_events'
  BY <1>1, StepOfIngest DEF IngestFits
<1>3. Origin(g.sms, g.at, txn[h]) /\ (~unlogged => Logged(g.sms, g.at, txn[h]))
  BY <1>1 DEF IngestFits
<1>4. Key(txn[h]) \in Keys
  BY <1>3 DEF Origin, Keys
<1>5. answer' \in Answer \cup {None}
  <2>1. CASE pc'[h] # "idle"
    BY <2>1 DEF Ingest, NoAnswerYet
  <2>2. CASE pc'[h] = "idle"
    <3>1. PICK c \in {202, 409} : answer' = [code |-> c, key |-> Key(txn[h])]
      BY <2>2 DEF Ingest, Respond
    <3> QED
      BY <1>4, <3>1 DEF Answer
  <2> QED
    BY <2>1, <2>2
<1>6. \A k \in Handler \ {h} : UNCHANGED <<pc[k], txn[k], reading[k]>>
  BY <1>2 DEF Ingest, Respond, ReadingsFit
<1>7. /\ \A k \in Handler \ {h} : IngestFits(k)'
      /\ \A p \in provenance : SourceFits(p)'
  BY <1>1, <1>2, <1>6, OthersStillFit
<1>8. IngestFits(h)'
  <2>1. CASE pc'[h] # "idle"
    <3>1. UNCHANGED reading
      BY <2>1 DEF Ingest
    <3>2. At(h, "in")' /\ ~At(h, "ask")' /\ ~At(h, "log")'
      BY <1>1, <3>1 DEF At
    <3>3. (Origin(g.sms, g.at, txn[h]) /\ (~unlogged => Logged(g.sms, g.at, txn[h])))'
      BY <1>1, <1>2, <1>3, <2>1, <3>1 DEF Origin, Logged, FailedBefore
    <3> QED
      BY <1>2, <2>1, <3>2, <3>3 DEF IngestFits
  <2>2. CASE pc'[h] = "idle"
    <3>1. reading'[h] = None
      BY <2>2 DEF Ingest, Respond, ReadingsFit
    <3> QED
      BY <2>2, <3>1 DEF IngestFits, At
  <2> QED
    BY <2>1, <2>2
<1>9. provenance' \subseteq Source /\ \A p \in provenance' : SourceFits(p)'
  <2>1. CASE UNCHANGED provenance
    BY <1>7, <2>1 DEF RecordsFit
  <2>2. CASE Inserting(h)
    <3>1. PICK p : p = [key |-> Key(txn[h]), sms |-> g.sms, at |-> g.at]
      OBVIOUS
    <3>2. [txn |-> txn[h], charge_id |-> target[h]] \in sms_events'
      BY <1>2, <2>2
    <3>3. PICK e \in sms_events' : e.txn = txn[h]
      BY <3>2
    <3>4. p.sms = g.sms /\ p.at = g.at /\ p.key = Key(e.txn)
      BY <3>1, <3>3
    <3>5. SourceFits(p)'
      <4>1. Origin(p.sms, p.at, e.txn) /\ (~unlogged => Logged(p.sms, p.at, e.txn))
        BY <1>3, <3>3, <3>4
      <4>2. Logged(p.sms, p.at, e.txn) => Logged(p.sms, p.at, e.txn)'
        BY <1>1, LogGrows
      <4> QED
        BY <1>1, <3>3, <3>4, <4>1, <4>2 DEF SourceFits
    <3>6. provenance' = provenance \cup {p} /\ p \in Source
      BY <1>1, <1>4, <2>2, <3>1 DEF Ingest, Source, Reading
    <3>7. provenance \subseteq Source
      BY DEF RecordsFit
    <3> QED
      BY <1>7, <3>5, <3>6, <3>7
  <2> QED
    BY <2>1, <2>2 DEF Ingest
<1> QED
  BY <1>1, <1>5, <1>7, <1>8, <1>9 DEF RecordsFit

\* Where the handlers that change forget everything, and nothing is written.
LEMMA ForgettingKeepsRecords ==
    ASSUME TypeOK, ReadingsFit, RecordsFit,
           \A h \in Handler : \/ UNCHANGED <<pc[h], txn[h], reading[h]>>
                              \/ pc'[h] = "idle" /\ reading'[h] = None,
           UNCHANGED <<sms_events, ai_parse_log, provenance, unlogged>>,
           answer' \in Answer \cup {None}
    PROVE  RecordsFit'
<1>1. ASSUME NEW h \in Handler PROVE IngestFits(h)'
  <2>1. CASE UNCHANGED <<pc[h], txn[h], reading[h]>>
    <3>1. IngestFits(h)
      BY DEF RecordsFit
    <3> QED
      BY <2>1, <3>1 DEF IngestFits, At, FailedBefore, Logged
  <2>2. CASE pc'[h] = "idle" /\ reading'[h] = None
    BY <2>2 DEF IngestFits, At
  <2> QED
    BY <2>1, <2>2
<1>2. ASSUME NEW p \in provenance PROVE SourceFits(p)'
  <2>1. SourceFits(p)
    BY DEF RecordsFit
  <2> QED
    BY <2>1 DEF SourceFits, FailedBefore, Logged
<1> QED
  BY <1>1, <1>2 DEF RecordsFit

LEMMA RecordsStep ==
    TypeOK /\ ReadingsFit /\ RecordsFit /\ [ReadingNext]_<<vars, readingVars>> => RecordsFit'
<1> SUFFICES ASSUME TypeOK, ReadingsFit, RecordsFit, [ReadingNext]_<<vars, readingVars>>
             PROVE  RecordsFit'
  OBVIOUS
<1>1. CASE Merchant /\ NoAnswerYet /\ UNCHANGED <<reading, ai_parse_log, provenance, unlogged>>
  <2>1. UNCHANGED <<pc, txn, sms_events>>
    BY <1>1 DEF Merchant, create, locals
  <2> QED
    BY <1>1, <2>1, ForgettingKeepsRecords DEF NoAnswerYet
<1>2. CASE \E h \in Handler, s \in Sms : Deliver(h, s)
  BY <1>2, DeliverKeepsRecords
<1>3. CASE \E h \in Handler : Progress(h)
  BY <1>3, AskKeepsRecords, LogKeepsRecords, IngestKeepsRecords DEF Progress
<1>4. CASE StopAndStart
  <2>1. \A h \in Handler : pc'[h] = "idle" /\ reading'[h] = None
    BY <1>4 DEF StopAndStart, Crash, vars, locals
  <2>2. /\ UNCHANGED <<sms_events, ai_parse_log, provenance, unlogged>>
        /\ answer' = None
    BY <1>4 DEF StopAndStart, Crash, NoAnswerYet, vars, db
  <2> QED
    BY <2>1, <2>2, ForgettingKeepsRecords
<1>5. ASSUME NEW h \in Handler, Drop(h) \/ HangUp(h) PROVE RecordsFit'
  <2>1. /\ reading' = [reading EXCEPT ![h] = None] /\ answer' = None
        /\ UNCHANGED <<sms_events, ai_parse_log, provenance, unlogged>>
    BY <1>5 DEF Drop, HangUp, Respond, Abandon, vars, db
  <2>2. pc'[h] = "idle" /\ \A k \in Handler \ {h} : UNCHANGED <<pc[k], txn[k]>>
    <3>1. CASE Drop(h)
      BY <3>1 DEF Drop, Abandon, Leave, TypeOK
    <3>2. CASE HangUp(h)
      <4>1. pc[h] = "idle"
        BY <3>2 DEF HangUp, RecordsFit, IngestFits, At
      <4> QED
        BY <3>2, <4>1 DEF HangUp, vars, locals
    <3> QED
      BY <1>5, <3>1, <3>2
  <2>3. reading'[h] = None /\ \A k \in Handler \ {h} : UNCHANGED reading[k]
    BY <2>1 DEF ReadingsFit
  <2> QED
    BY <2>1, <2>2, <2>3, ForgettingKeepsRecords
<1>6. CASE UNCHANGED <<vars, readingVars>>
  <2>1. UNCHANGED <<pc, txn, sms_events, reading, ai_parse_log, provenance, unlogged, answer>>
    BY <1>6 DEF vars, db, locals, readingVars
  <2> QED
    BY <2>1, ForgettingKeepsRecords DEF RecordsFit
<1> QED
  BY <1>1, <1>2, <1>3, <1>4, <1>5, <1>6 DEF ReadingNext, ReadingServe, RestartReading, Panic
-----------------------------------------------------------------------------
(* The theorems.                                                            *)

\* Every step of the server answers for itself, out of the tables it leaves.
LEMMA AnswersStep ==
    ASSUME Shape, Books, ReadingsFit, RecordsFit, AnswersAreTrue,
           [ReadingNext]_<<vars, readingVars>>
    PROVE  AnswersAreTrue'
<1>1. CASE answer' = None \/ answer' = Unprocessable
  BY <1>1 DEF AnswersAreTrue, Unprocessable
<1>2. CASE UNCHANGED <<vars, readingVars>>
  BY <1>2 DEF AnswersAreTrue, FullySettled, PostedFor, PostingsOf, vars, db, readingVars
<1>3. ASSUME NEW h \in Handler, Ingest(h), answer' # None
      PROVE  AnswersAreTrue'
  <2>1. /\ pc'[h] = "idle" /\ HandlerStep(h) /\ txn[h] \in Txn /\ pc[h] # "link"
        /\ answer' = [code |-> IF pc[h] = "record" /\ ~Inserting(h) THEN 409 ELSE 202,
                      key  |-> Key(txn[h])]
    BY <1>3 DEF Ingest, NoAnswerYet, Respond, RecordsFit, IngestFits, Origin
  <2> DEFINE Told == \E e \in sms_events' :
                       /\ Key(e.txn) = Key(txn[h])
                       /\ answer'.code = 202 /\ e.charge_id # None => FullySettled(e)'
  <2>2. Told => AnswersAreTrue'
    BY <2>1 DEF AnswersAreTrue
  <2>3. ASSUME RejectDuplicate(h) PROVE Told
    <3>1. answer'.code = 409
      BY <2>1, <2>3 DEF RejectDuplicate, Inserting
    <3> QED
      BY <2>3, <3>1 DEF RejectDuplicate, IsRecorded, db
  <2>4. ASSUME RecordUnmatched(h) PROVE Told
    <3>1. PICK e : e = [txn |-> txn[h], charge_id |-> target[h]]
      OBVIOUS
    <3>2. e \in sms_events' /\ e.txn = txn[h] /\ e.charge_id = None
      BY <2>4, <3>1 DEF RecordUnmatched, InsertEvent
    <3> QED
      BY <3>2
  <2>5. ASSUME Notify(h) \/ (SettleInvoices(h) /\ ~terms[target[h]].callback_url) PROVE Told
    <3>1. Settling(h) /\ UNCHANGED sms_events
      BY <2>5 DEF SettleInvoices, Notify, Settling
    <3>2. PICK e \in sms_events : e.txn = txn[h]
      <4>1. [txn |-> txn[h], charge_id |-> target[h]] \in sms_events
        BY <3>1 DEF Shape, LocalsFit
      <4> QED
        BY <4>1
    <3>3. FullySettled(e)'
      BY <2>5, <3>1, <3>2, LastStatementSettles
    <3> QED
      BY <3>1, <3>2, <3>3
  <2>6. \/ RejectDuplicate(h) \/ RecordUnmatched(h) \/ Notify(h)
        \/ SettleInvoices(h) /\ ~terms[target[h]].callback_url
    BY <2>1 DEF HandlerStep, Match, RecordMatched, Post, MarkPaid, SettleInvoices, IssueLink,
                Proceed, Shape, TypeOK
  <2> HIDE DEF Told
  <2> QED
    BY <2>2, <2>3, <2>4, <2>5, <2>6
<1>4. \/ answer' = None \/ answer' = Unprocessable \/ UNCHANGED <<vars, readingVars>>
      \/ \E h \in Handler : Ingest(h)
  BY DEF ReadingNext, ReadingServe, RestartReading, StopAndStart, NoAnswerYet, Deliver, Progress,
         Ask, Log, Panic, Drop, HangUp, Respond
<1> QED
  BY <1>1, <1>2, <1>3, <1>4

\* All of it together, along every execution.
LEMMA ReadingHolds ==
    ReadingSpec => [](Shape /\ Books /\ ReadingsFit /\ RecordsFit /\ AnswersAreTrue)
<1> DEFINE I == ReadingsFit /\ RecordsFit /\ AnswersAreTrue
           J == Shape /\ Books
<1>1. ReadingInit => I
  <2>1. ReadingInit => AnswersAreTrue
    BY DEF ReadingInit, AnswersAreTrue
  <2> QED
    BY <2>1, ReadingsStart, RecordsStart
<1>2. J /\ I /\ [ReadingNext]_<<vars, readingVars>> => I'
  BY ReadingStepSettles, RecordsStep, AnswersStep DEF Shape
<1>3. ReadingSpec => []J
  <2>1. Spec => []J
    BY SpecIsConsistent, PTL
  <2> QED
    BY <2>1, ReadingIsSettlement, PTL DEF ReadingImplementsSettlement
<1> QED
  BY <1>1, <1>2, <1>3, PTL DEF ReadingSpec

\* A message is always at a place it can be, and what is logged, recorded and answered
\* is of the types the tables and the endpoint have (ai.rs:122-153, sms.rs:74-83).
THEOREM ReadingTypes == ReadingSpec => []ReadingTypeOK
<1>1. ReadingsFit /\ RecordsFit => ReadingTypeOK
  BY DEF ReadingsFit, RecordsFit, ReadingTypeOK, IngestFits, At
<1> QED
  BY <1>1, ReadingHolds, PTL

\* The forwarder is never told that a transaction is on record or settled when it is
\* not, whatever races with its request (sms.rs:74-83).
THEOREM AnswersNeverLie == ReadingSpec => []AnswersAreTrue
BY ReadingHolds, PTL

\* For any chain of providers and any replies, a transaction recovered by a provider is
\* in the drift log with the failures before it, unless an INSERT failed, and nothing
\* that the patterns can read is (ai.rs:122-153).
THEOREM DriftIsLogged == ReadingSpec => []DriftLogIsComplete
<1>1. ASSUME RecordsFit, NEW p \in provenance, ~unlogged, p.at # 0
      PROVE  /\ p.sms \in samples(Message[p.sms].gateway)
             /\ \E row \in ai_parse_log : /\ row.sms = p.sms /\ row.provider = p.at
                                          /\ row.parsed # None /\ Key(row.parsed) = p.key
             /\ FailedBefore(p.sms, p.at)
  <2>1. PICK e \in sms_events : /\ Key(e.txn) = p.key /\ Origin(p.sms, p.at, e.txn)
                                /\ Logged(p.sms, p.at, e.txn)
    BY <1>1 DEF RecordsFit, SourceFits
  <2>2. PICK row \in ai_parse_log :
               row = [sms |-> p.sms, provider |-> p.at, parsed |-> e.txn]
    BY <1>1, <2>1 DEF Logged
  <2>3. row.sms = p.sms /\ row.provider = p.at /\ row.parsed # None /\ Key(row.parsed) = p.key
    BY <2>1, <2>2, TxnAssumption DEF Origin
  <2> QED
    BY <1>1, <2>1, <2>3 DEF samples, Logged
<1>2. RecordsFit => DriftLogIsComplete
  BY <1>1 DEF RecordsFit, DriftLogIsComplete, FailedBefore
<1> QED
  BY <1>2, ReadingHolds, PTL

\* The amounts that the patterns capture are converted to what they are worth.
CapturedAmountsAreRead ==
    \A s \in Sms : LET m == Message[s]
                   IN  Parses(m) /\ Decimals(m.amount) <= 2
                         => amount_to_minor(m.amount) = Worth(m.amount)

\* Where the conversion of the captured amounts is exact, a message that the patterns
\* read is recorded at most once and as it was sent, however often it is delivered,
\* raced and dropped (sms.rs:43-50).
THEOREM MessagesAreRecordedAsSent ==
    ASSUME CapturedAmountsAreRead PROVE ReadingSpec => []RecordedAsSent
<1>1. ASSUME Shape, RecordsFit, NEW p \in provenance
      PROVE  LET m == Message[p.sms]
             IN  /\ p.at = 0 <=> Parses(m)
                 /\ p.at = 0 => /\ \A q \in provenance : q.sms = p.sms => q = p
                                /\ \A e \in sms_events : Key(e.txn) = p.key =>
                                     /\ Decimals(m.amount) <= 2 =>
                                          e.txn.amount_minor = Worth(m.amount)
                                     /\ e.txn.sender_msisdn = m.sender_msisdn
  <2> DEFINE m == Message[p.sms]
  <2>1. \A q \in provenance : \E e \in sms_events : Key(e.txn) = q.key /\ Origin(q.sms, q.at, e.txn)
    BY <1>1 DEF RecordsFit, SourceFits
  <2>2. p.at = 0 <=> Parses(m)
    BY <2>1 DEF Origin
  <2>3. ASSUME p.at = 0, NEW q \in provenance, q.sms = p.sms PROVE q = p
    <3>1. q.at = 0
      BY <2>1, <2>2, <2>3 DEF Origin
    <3>2. p.key = Key(parse_sms(m)) /\ q.key = Key(parse_sms(m))
      BY <2>1, <2>3, <3>1 DEF Origin
    <3>3. p \in Source /\ q \in Source
      BY <1>1 DEF RecordsFit
    <3> QED
      BY <2>3, <3>1, <3>2, <3>3 DEF Source
  <2>4. ASSUME p.at = 0, NEW e \in sms_events, Key(e.txn) = p.key
        PROVE  /\ Decimals(m.amount) <= 2 => e.txn.amount_minor = Worth(m.amount)
               /\ e.txn.sender_msisdn = m.sender_msisdn
    <3>1. e.txn = parse_sms(m) /\ p.sms \in Sms
      BY <1>1, <2>1, <2>4 DEF Origin, Shape, EventsFit
    <3> QED
      BY <2>2, <2>4, <3>1 DEF parse_sms, CapturedAmountsAreRead
  <2> QED
    BY <2>2, <2>3, <2>4
<1>2. Shape /\ RecordsFit => RecordedAsSent
  BY <1>1 DEF RecordedAsSent
<1> QED
  BY <1>2, ReadingHolds, PTL
=============================================================================
