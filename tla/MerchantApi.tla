---------------------------- MODULE MerchantApi -----------------------------
(***************************************************************************)
(* The guarded requests: a merchant's server opens checkouts and verifies  *)
(* payments with an API key (merchant.rs), a phone exchanges its pairing   *)
(* token (device.rs), and the operator, with the console's bearer token    *)
(* (auth.rs), adds and revokes keys, pairs phones, edits the whitelist     *)
(* (domain.rs) and drafts invoices (invoice.rs).  A checkout asks the      *)
(* whitelist about both of its URLs.                                       *)
(*                                                                         *)
(* Every request is a task and every SQL statement a step, so a key may be *)
(* revoked, and the whitelist edited, between the statements of a request  *)
(* that looked at them.  The charge a checkout ends with is Settlement's.  *)
(***************************************************************************)
EXTENDS Money, FiniteSets, SequencesExt

CONSTANTS
    Task,        \* request tasks
    ApiKey,      \* rows api_keys may get, each with a raw key of its own
    Device,      \* rows devices may get, each with a pairing token of its own
    Clients,     \* bound: for each task what it may be asked, one choice an execution
    Config,      \* environments the process may be started in
    Lifetime,    \* TOKEN_TTL_SECS
    Width,       \* bits of an integer (64 in the code)
    MaxFaults,   \* how often a task may be abandoned or the process restarted
    None

Credential == ApiKey \cup Device

Request == UNION {UNION {clients[t] : t \in Task} : clients \in Clients}

\* A URL by its parts, each with its own marks: <<"https", "://">>, <<"name", "@">>,
\* <<"shop">>, <<":", "8080">>, and the path with whatever query comes after it.
UrlParts == [scheme : Seq(STRING), user : Seq(STRING), host : Seq(STRING),
             port : Seq(STRING), path : Seq(STRING)]

IsUrl(url) ==
    /\ url.scheme # <<>> => Len(url.scheme) = 2 /\ url.scheme[1] # "://"
                             /\ url.scheme[2] = "://"
    /\ ToSet(url.host) \cap {"/", "@", "?", "#", "://"} = {}
    /\ url.port # <<>> => url.port[1] = ":"
    /\ ToSet(url.port) \cap {"/", "?", "#", "://"} = {}
    /\ url.path # <<>> => url.path[1] \in {"/", "?", "#"}

\* A request's URLs come as text.
Text(url) == url.scheme \o ((url.user \o (url.host \o url.port)) \o url.path)

Scope == {"create_payment", "verify_payment"}

ASSUME ApiAssumption ==
    /\ None \notin Task \cup Credential \cup Seq(STRING) \cup UrlParts
    /\ ApiKey \cap Device = {}
    /\ \A c \in Config : c.admin_password \in BOOLEAN
    /\ Lifetime \in Nat \ {0} /\ Width \in Nat \ {0} /\ MaxFaults \in Nat

LineItem == [quantity : Int, unit_minor : Int]

\* What the JSON of a request is deserialised into, by the kind of request.
ASSUME RequestAssumption ==
    \A r \in Request :
        /\ r.op = "checkout" =>
             /\ r.amount \in Decimal
             /\ {r.return_url, r.webhook_url} \subseteq UrlParts \cup {None}
             /\ \A url \in {r.return_url, r.webhook_url} \ {None} : IsUrl(url)
        /\ r.op = "create_key" => r.scopes \subseteq Scope
        /\ r.op = "revoke" => r.credential \in ApiKey
        /\ r.op \in {"create_domain", "delete_domain"} => r.domain \in Seq(STRING)
        /\ r.op = "create_invoice" => r.items \in Seq(LineItem)

Secrets == {c.auth_secret : c \in Config}
Domains == {r.domain : r \in {q \in Request : q.op \in {"create_domain", "delete_domain"}}}
Numbers == {r.number : r \in {q \in Request : q.op = "create_invoice"}}

VARIABLES
    clients,          \* what they ask in this execution
    config,           \* ADMIN_PASSWORD (whether it is set) and AUTH_SECRET of the process
    session,          \* the console's token: the secret it was signed with, seconds left
    logins,           \* history: for each secret the time left of the last login under it
    credentials,      \* rows of api_keys and devices: status, scopes, last_used_at set or not
    allowed_domains,  \* for each domain the task that added its row, None without one
    invoices,         \* for each number its row and those of its items, None without one
    task,             \* the request each task is serving
    cut,              \* history: the numbers whose drafting a fault cut short
    answer,           \* the request the last step answered, with the status code
    faults            \* how often something was abandoned (bounded by MaxFaults)

tables == <<credentials, allowed_domains, invoices>>
console == <<clients, config, session, logins>>
vars == <<console, tables, task, answer, faults, cut>>

\* The domains on the list at this moment.
Listed == {d \in Domains : allowed_domains[d] # None}

\* `at' is the URL or item a request has come to.  The rest is history: whether its
\* credential was revoked before it came in, how long the last login under the secret
\* in force had left then, and the lists in force since.
Stages == {"lookup", "stamp", "count", "find", "insert", "admin", "reread", "item"}
Serving == [req : Request, stage : Stages, at : Nat, revoked : BOOLEAN,
            login : 0..Lifetime, lists : SUBSET SUBSET Domains]

\* `of' is a history field: the request that drafted the invoice.
Invoice == [amount_minor : 1..(2 ^ (Width - 1) - 1), items : Seq(LineItem), of : Request]

ASSUME NothingIsNoRow == None \notin Serving \cup Invoice

Answer == [by : Task, req : Request, code : {200, 201, 204, 401, 404, 422, 500},
           revoked : BOOLEAN, lists : SUBSET SUBSET Domains]
Token == [secret : Secrets, left : 0..Lifetime]

\* About the powers that occur here.
ASSUME PowerAssumption ==
    /\ 2 ^ (Width - 1) \in Nat \ {0} /\ 2 ^ Width = 2 * 2 ^ (Width - 1)
    /\ \A r \in Request : r.op = "checkout" => 10 ^ r.amount.k \in Nat \ {0}

ApiTypeOK ==
    /\ clients \in Clients
    /\ config \in Config
    /\ session \in Token \cup {None}
    /\ logins \in [Secrets -> 0..Lifetime]
    /\ credentials \in [Credential -> [status : {"absent", "active", "revoked"},
                                       scopes : SUBSET Scope, used : BOOLEAN]]
    /\ \A c \in Credential : credentials[c].used => credentials[c].status # "absent"
    /\ allowed_domains \in [Domains -> Task \cup {None}]
    /\ invoices \in [Numbers -> Invoice \cup {None}]
    /\ task \in [Task -> Serving \cup {None}]
    /\ answer \in Answer \cup {None}
    /\ faults \in 0..MaxFaults
    /\ cut \subseteq Numbers

Init ==
    /\ clients \in Clients
    /\ config \in Config
    /\ session = None
    /\ logins = [secret \in Secrets |-> 0]
    /\ credentials = [c \in Credential |->
                        [status |-> "absent", scopes |-> {}, used |-> FALSE]]
    /\ allowed_domains = [d \in Domains |-> None]
    /\ invoices = [n \in Numbers |-> None]
    /\ task = [t \in Task |-> None]
    /\ answer = None
    /\ faults = 0
    /\ cut = {}
-----------------------------------------------------------------------------
(* Tasks and answers.                                                       *)

At(t, stage) == task[t] # None /\ task[t].stage = stage

\* Task t answers what it served.
Reply(t, q, code) ==
    answer' = [by |-> t, req |-> q.req, code |-> code, revoked |-> q.revoked,
               lists |-> q.lists]

NoReply == answer' = None

\* Task t goes on, to a stage and to its nth URL or item there.
Move(t, stage, n) ==
    /\ task' = [task EXCEPT ![t].stage = stage, ![t].at = n]
    /\ NoReply

Finish(t, code) ==
    /\ task' = [task EXCEPT ![t] = None]
    /\ Reply(t, task[t], code)

Guarded == {"checkout", "verify", "exchange"}

\* The requests for which the lists are noted.
Noting == {"checkout", "create_domain"}

\* A request that has just come in, before its first statement.
Fresh(r, stage) ==
    [req |-> r, stage |-> stage, at |-> 1,
     revoked |-> r.op \in Guarded /\ credentials[r.credential].status = "revoked",
     login |-> IF r.op \in Guarded THEN 0 ELSE logins[config.auth_secret],
     lists |-> IF r.op \in Noting THEN {Listed} ELSE {}]

Begin(t, r, stage) == task' = [task EXCEPT ![t] = Fresh(r, stage)] /\ NoReply

\* Answered without any statement.
Dismiss(t, r, code) == Reply(t, Fresh(r, "admin"), code) /\ UNCHANGED task
-----------------------------------------------------------------------------
(* The console's token (auth.rs).                                           *)

issue_token == [secret |-> config.auth_secret, left |-> Lifetime]

\* Mutant of verify_token: the signature is not checked.
verify_expiry(token) == token # None /\ token.left > 0

verify_token(token) ==
    token # None /\ token.secret = config.auth_secret /\ token.left > 0

require_auth == config.admin_password => verify_token(session)

login(t, r) ==
    /\ r.op = "login"
    /\ IF config.admin_password /\ r.right
       THEN /\ session' = issue_token
            /\ logins' = [logins EXCEPT ![config.auth_secret] = Lifetime]
            /\ Dismiss(t, r, 200)
       ELSE /\ Dismiss(t, r, IF config.admin_password THEN 401 ELSE 404)
            /\ UNCHANGED <<session, logins>>
    /\ UNCHANGED <<clients, config, tables, faults, cut>>

\* A second of the token's life passes.
Tick ==
    /\ session # None /\ session.left > 0
    /\ session' = [session EXCEPT !.left = @ - 1]
    /\ logins' = [secret \in Secrets |->
                    IF logins[secret] > 0 THEN logins[secret] - 1 ELSE 0]
    /\ NoReply
    /\ UNCHANGED <<clients, config, tables, task, faults, cut>>
-----------------------------------------------------------------------------
(* The URLs of a checkout (domain.rs).                                      *)

\* Where the first mark is in a sequence of tokens, 0 if nowhere; what stands before it
\* and after it.
Place(url, mark) == SelectInSeq(url, LAMBDA token : token = mark)
UpTo(url, mark) == IF Place(url, mark) = 0 THEN url ELSE SubSeq(url, 1, Place(url, mark) - 1)
Past(url, mark) == SubSeq(url, Place(url, mark) + 1, Len(url))

\* Mutant of host_of: the port is taken for a part of the host.
host_and_port(url) ==
    LET host == UpTo(Past(url, "://"), "/")
    IN  IF host = <<>> THEN None ELSE host

host_of(url) ==
    LET host == UpTo(UpTo(Past(url, "://"), "/"), ":")
    IN  IF host = <<>> THEN None ELSE host

Urls(r) == <<r.return_url, r.webhook_url>>

\* On to the next URL there is, or to the INSERT.
Check(t, n) ==
    LET left == {m \in n..2 : Urls(task[t].req)[m] # None}
    IN  IF left = {} THEN Move(t, "insert", 1)
        ELSE Move(t, "count", CHOOSE m \in left : \A k \in left : m <= k)

Url(t) == Text(Urls(task[t].req)[task[t].at])
-----------------------------------------------------------------------------
(* API keys and pairing tokens (merchant.rs, device.rs, require_api_key).   *)

Call(t, r) ==
    /\ r.op \in Guarded
    /\ Begin(t, r, "lookup")
    /\ UNCHANGED <<console, tables, faults, cut>>

\* The two kinds are kept in tables of their own and hashed apart.
Table(op) == IF op = "exchange" THEN Device ELSE ApiKey

Required(op) == CASE op = "checkout" -> {"create_payment"}
                  [] op = "verify"   -> {"verify_payment"}
                  [] op = "exchange" -> {}

\* Mutant of Accepts: WHERE ... AND status = 'active' is missing.
AcceptsAnyStatus(r) ==
    /\ r.credential \in Table(r.op)
    /\ credentials[r.credential].status # "absent"
    /\ Required(r.op) \subseteq credentials[r.credential].scopes

Accepts(r) ==
    /\ r.credential \in Table(r.op)
    /\ credentials[r.credential].status = "active"
    /\ Required(r.op) \subseteq credentials[r.credential].scopes

LookUp(t) ==
    /\ At(t, "lookup")
    /\ IF Accepts(task[t].req) THEN Move(t, "stamp", 1) ELSE Finish(t, 401)
    /\ UNCHANGED <<console, tables, faults, cut>>

\* create_checkout's own check of the amount, before it awaits anything.
IsPositive(amount) == amount.n > 0

\* verify's two reads are HostedCheckout's; an exchange is answered with the secret.
Serve(t) ==
    IF task[t].req.op = "checkout"
    THEN IF IsPositive(task[t].req.amount) THEN Check(t, 1) ELSE Finish(t, 422)
    ELSE Finish(t, 200)

\* UPDATE ... SET last_used_at / last_seen_at ... WHERE id = ?, whatever the status now.
Stamp(t) ==
    /\ At(t, "stamp")
    /\ credentials' = [credentials EXCEPT ![task[t].req.credential].used = TRUE]
    /\ Serve(t)
    /\ UNCHANGED <<console, allowed_domains, invoices, faults, cut>>
-----------------------------------------------------------------------------
(* create_checkout: is_allowed for one URL, then for the other.             *)

\* SELECT COUNT(*): an empty list allows everything.
Count(t) ==
    /\ At(t, "count")
    /\ IF Listed = {} THEN Check(t, task[t].at + 1)
       ELSE IF host_of(Url(t)) = None THEN Finish(t, 422)
       ELSE Move(t, "find", task[t].at)
    /\ UNCHANGED <<console, tables, faults, cut>>

\* Mutant of Find: what is not on the list is let through.
FindNothing(t) ==
    /\ At(t, "find")
    /\ Check(t, task[t].at + 1)
    /\ UNCHANGED <<console, tables, faults, cut>>

\* SELECT ... WHERE domain = ?
Find(t) ==
    /\ At(t, "find")
    /\ IF host_of(Url(t)) \in Listed THEN Check(t, task[t].at + 1) ELSE Finish(t, 422)
    /\ UNCHANGED <<console, tables, faults, cut>>

\* The INSERT, or the CHECK of the table that refuses it.
Insert(t) ==
    /\ At(t, "insert")
    /\ Finish(t, IF to_minor(task[t].req.amount) > 0 THEN 200 ELSE 500)
    /\ UNCHANGED <<console, tables, faults, cut>>
-----------------------------------------------------------------------------
(* What the operator does (keys, pairing, whitelist), one statement each    *)
(* but for a new domain, which is read back.                                *)

\* Bound: a row of ApiKey or Device is left for the credential a request will create.
RowLeft(rows, op) ==
    LET minting == {t \in Task : task[t] # None /\ task[t].req.op = op}
    IN  Cardinality(minting)
            < Cardinality({c \in rows : credentials[c].status = "absent"})

Administer(t, r) ==
    /\ r.op = "create_key" => RowLeft(ApiKey, r.op)
    /\ r.op = "pair" => RowLeft(Device, r.op)
    /\ r.op \in {"create_key", "pair", "revoke", "create_domain", "delete_domain"}
    /\ IF require_auth THEN Begin(t, r, "admin") ELSE Dismiss(t, r, 401)
    /\ UNCHANGED <<console, tables, faults, cut>>

Does(t, op) == At(t, "admin") /\ task[t].req.op = op

\* A new row with a fresh raw key; without scopes given, both.
InsertCredential(c, scopes) ==
    /\ credentials[c].status = "absent"
    /\ credentials' = [credentials EXCEPT ![c].status = "active", ![c].scopes = scopes]
    /\ UNCHANGED <<console, allowed_domains, invoices, faults, cut>>

create_api_key(t, c) ==
    /\ Does(t, "create_key")
    /\ InsertCredential(c, IF task[t].req.scopes = {} THEN Scope ELSE task[t].req.scopes)
    /\ Finish(t, 201)

pair_device(t, c) == Does(t, "pair") /\ InsertCredential(c, {}) /\ Finish(t, 201)

revoke_api_key(t) ==
    LET c == task[t].req.credential
    IN  /\ Does(t, "revoke")
        /\ IF credentials[c].status = "absent" THEN Finish(t, 404) /\ UNCHANGED credentials
           ELSE /\ credentials' = [credentials EXCEPT ![c].status = "revoked"]
                /\ Finish(t, 200)
        /\ UNCHANGED <<console, allowed_domains, invoices, faults, cut>>

\* There is no request that revokes a phone: an operator edits the table.
RevokeDevice(c) ==
    /\ credentials[c].status = "active"
    /\ credentials' = [credentials EXCEPT ![c].status = "revoked"]
    /\ NoReply
    /\ UNCHANGED <<console, allowed_domains, invoices, task, faults, cut>>

\* The list changes under every request it is noted for.
Relist(d, owner, tasks) ==
    /\ allowed_domains' = [allowed_domains EXCEPT ![d] = owner]
    /\ task' = [u \in Task |->
                  IF tasks[u] # None /\ tasks[u].req.op \in Noting
                  THEN [tasks[u] EXCEPT !.lists =
                          @ \cup {IF owner = None THEN Listed \ {d} ELSE Listed \cup {d}}]
                  ELSE tasks[u]]

\* The domain is UNIQUE.
create_domain(t) ==
    LET d == task[t].req.domain
    IN  /\ Does(t, "create_domain")
        /\ IF d \in Listed THEN Finish(t, 500) /\ UNCHANGED allowed_domains
           ELSE Relist(d, t, [task EXCEPT ![t].stage = "reread"]) /\ NoReply
        /\ UNCHANGED <<console, credentials, invoices, faults, cut>>

\* Mutant of Reread: it asks for an id that no row has.
RereadNothing(t) ==
    /\ At(t, "reread")
    /\ Finish(t, 500)
    /\ UNCHANGED <<console, tables, faults, cut>>

\* fetch_one finds the row, unless it has been deleted again.
Reread(t) ==
    /\ At(t, "reread")
    /\ Finish(t, IF allowed_domains[task[t].req.domain] = t THEN 201 ELSE 500)
    /\ UNCHANGED <<console, tables, faults, cut>>

\* A row is deleted by its id, which may be of no row, or of an earlier one of this domain.
delete_domain(t) ==
    LET d == task[t].req.domain
    IN  /\ Does(t, "delete_domain")
        /\ \/ /\ d \in Listed
              /\ Relist(d, None, [task EXCEPT ![t] = None])
              /\ Reply(t, task[t], 204)
           \/ Finish(t, 404) /\ UNCHANGED allowed_domains
        /\ UNCHANGED <<console, credentials, invoices, faults, cut>>
-----------------------------------------------------------------------------
(* Drafting an invoice (invoice.rs): its row, then a row for each item.     *)

\* i64 arithmetic of a release build.
Wrap(n) == ((n + 2 ^ (Width - 1)) % (2 ^ Width)) - 2 ^ (Width - 1)

ItemSum(items) == FoldLeft(LAMBDA sum, i : sum + i.quantity * i.unit_minor, 0, items)

Total(items) == Wrap(ItemSum(items))

\* Mutant of Draft: the total is not checked.
DraftUnchecked(t, r) ==
    /\ r.op = "create_invoice"
    /\ IF require_auth THEN Begin(t, r, "admin") ELSE Dismiss(t, r, 401)
    /\ UNCHANGED <<console, tables, faults, cut>>

Draft(t, r) ==
    /\ r.op = "create_invoice"
    /\ IF ~require_auth THEN Dismiss(t, r, 401)
       ELSE IF Total(r.items) <= 0 THEN Dismiss(t, r, 422)
       ELSE Begin(t, r, "admin")
    /\ UNCHANGED <<console, tables, faults, cut>>

\* Mutant of IsTaken: idx_invoices_number is missing.
NeverTaken(number) == FALSE

\* idx_invoices_number
IsTaken(number) == invoices[number] # None

InsertInvoice(t) ==
    LET r == task[t].req
    IN  /\ Does(t, "create_invoice")
        /\ IF IsTaken(r.number) THEN Finish(t, 500) /\ UNCHANGED invoices
           ELSE /\ invoices' = [invoices EXCEPT ![r.number] =
                                  [amount_minor |-> Total(r.items), items |-> <<>>, of |-> r]]
                /\ Move(t, "item", 1)
        /\ UNCHANGED <<console, credentials, allowed_domains, faults, cut>>

\* The row is read back after the last item; nothing deletes an invoice.
InsertItem(t) ==
    LET r == task[t].req
        n == task[t].at
    IN  /\ At(t, "item")
        /\ invoices' = [invoices EXCEPT ![r.number].items = Append(@, r.items[n])]
        /\ IF n < Len(r.items) THEN Move(t, "item", n + 1) ELSE Finish(t, 201)
        /\ UNCHANGED <<console, credentials, allowed_domains, faults, cut>>
-----------------------------------------------------------------------------
(* Faults.                                                                  *)

\* What of the invoices is left unfinished when these tasks end.
Cut(tasks) == cut' = cut \cup {task[t].req.number : t \in {u \in tasks : At(u, "item")}}

\* A statement fails, or the client hangs up.
Abandon(t) ==
    /\ task[t] # None
    /\ faults < MaxFaults
    /\ faults' = faults + 1
    /\ Cut({t})
    /\ task' = [task EXCEPT ![t] = None]
    /\ NoReply
    /\ UNCHANGED <<console, tables>>

\* The process is started again, perhaps with another environment.
Restart(c) ==
    /\ faults < MaxFaults
    /\ faults' = faults + 1
    /\ Cut(Task)
    /\ config' = c
    /\ task' = [t \in Task |-> None]
    /\ NoReply
    /\ UNCHANGED <<clients, session, logins, tables>>
-----------------------------------------------------------------------------
Arrive(t, r) == login(t, r) \/ Call(t, r) \/ Administer(t, r) \/ Draft(t, r)

Step(t) ==
    \/ LookUp(t) \/ Stamp(t) \/ Count(t) \/ Find(t) \/ Insert(t)
    \/ \E c \in ApiKey : create_api_key(t, c)
    \/ \E c \in Device : pair_device(t, c)
    \/ revoke_api_key(t) \/ create_domain(t) \/ Reread(t) \/ delete_domain(t)
    \/ InsertInvoice(t) \/ InsertItem(t)

Next ==
    \/ \E t \in Task : \/ task[t] = None /\ \E r \in clients[t] : Arrive(t, r)
                       \/ Step(t)
                       \/ Abandon(t)
    \/ \E c \in Device : RevokeDevice(c)
    \/ \E c \in Config : Restart(c)
    \/ Tick

Spec == Init /\ [][Next]_vars
-----------------------------------------------------------------------------
(* Properties.                                                              *)

\* A request that comes in after its key or pairing token was revoked is refused: only
\* those in flight at the revocation are served, although the key is looked at in one
\* statement and used and stamped in later ones (merchant.rs:85-115).
RevokedIsRefused == answer # None /\ answer.revoked => answer.code = 401

Checkout(code) == answer # None /\ answer.req.op = "checkout" /\ answer.code = code

\* The URLs whose host the code takes for it: no user information, no IPv6 address, a
\* path that begins with a slash, and no second scheme in the path of one without.
IsPlain(url) ==
    /\ url.user = <<>> /\ ":" \notin ToSet(url.host)
    /\ url.path # <<>> => url.path[1] = "/"
    /\ url.scheme = <<>> => "://" \notin ToSet(url.path)

\* What a list says of a URL: its host, not what the code reads out of its text, is on it.
Allows(list, url) == list = {} \/ (url.host # <<>> /\ url.host \in list)

\* A checkout goes through only if the host of each of its plain URLs was allowed at
\* some moment while it was served, though the list is read up to four times
\* (domain.rs:72-94, checkout.rs:85-89).
AcceptedWasAllowed ==
    Checkout(200) =>
        \A n \in 1..2 :
           LET url == Urls(answer.req)[n]
           IN  url # None /\ IsPlain(url) => \E list \in answer.lists : Allows(list, url)

\* A checkout is turned away for its URLs only if one of them is not plain, a list in
\* force forbade one of them, or the last domain was deleted between the count and the
\* look-up (domain.rs:77-92): then both were allowed all along.
RefusedUnlessEmptied ==
    Checkout(422) /\ IsPositive(answer.req.amount) =>
        \/ \E n \in 1..2 :
              LET url == Urls(answer.req)[n]
              IN  url # None /\ (IsPlain(url) =>
                                    \E list \in answer.lists : ~Allows(list, url))
        \/ {} \in answer.lists /\ answer.lists # {{}}

\* A client is told of an internal error without one only for an amount that rounds to
\* nothing (checkout.rs:92), an invoice number taken (invoice.rs:81) or a domain that
\* was on the list at some moment of the request, and is not there now by this request's
\* own INSERT: it was there before it, or is off the list again (domain.rs:27-36).
ErrorsAreExplained ==
    answer # None /\ answer.code = 500 =>
        \/ /\ answer.req.op = "checkout"
           /\ IsPositive(answer.req.amount) /\ to_minor(answer.req.amount) = 0
        \/ answer.req.op = "create_invoice" /\ invoices[answer.req.number] # None
        \/ /\ answer.req.op = "create_domain"
           /\ \E list \in answer.lists : answer.req.domain \in list
           /\ \/ allowed_domains[answer.req.domain] # answer.by
              \/ \A list \in answer.lists : answer.req.domain \in list

\* Task t is writing the items of this invoice.
Drafting(t, number) == At(t, "item") /\ task[t].req.number = number

\* The integers there are.
Fits(n) == n \in -(2 ^ (Width - 1))..(2 ^ (Width - 1) - 1)

\* An invoice asks for the sum of the items it was drafted with, if that is an integer;
\* the rows of its items are the first of those, and all of them once it was answered or
\* if no fault cut its own drafting short, also when two drafts race for one number
\* (invoice.rs:68-106).
DraftsAddUp ==
    /\ \A number \in Numbers :
          LET row == invoices[number]
          IN  row # None =>
                /\ Fits(ItemSum(row.of.items)) => row.amount_minor = ItemSum(row.of.items)
                /\ IsPrefix(row.items, row.of.items)
                /\ \/ row.items = row.of.items
                   \/ \E t \in Task : Drafting(t, number)
                   \/ number \in cut
    /\ answer # None /\ answer.req.op = "create_invoice" /\ answer.code = 201 =>
          /\ invoices[answer.req.number].of = answer.req
          /\ invoices[answer.req.number].items = answer.req.items

\* What the console guards: the whitelist, the invoices, the keys and what they may do,
\* and which phones are paired.
Secured ==
    <<allowed_domains, invoices,
      [c \in ApiKey |-> <<credentials[c].status, credentials[c].scopes>>],
      {c \in Device : credentials[c].status # "absent"}>>

\* Task t goes on.
GoesOn(t) ==
    task'[t] = None \/ <<task'[t].stage, task'[t].at>> # <<task[t].stage, task[t].at>>

\* Where a password is set, what the console guards changes only by a request that came
\* in while a login under the secret in force was not yet past its expiry: rotating
\* AUTH_SECRET ends every session (auth.rs:14), time does (auth.rs:52), and a restart
\* ends every request admitted before it, one let in without a password too.
ChangesNeedALogin ==
    [][config.admin_password =>
         \/ UNCHANGED Secured
         \/ \E t \in Task : /\ task[t] # None /\ task[t].req.op \notin Guarded
                             /\ task[t].login > 0 /\ GoesOn(t)]_vars
=============================================================================
