------------------------------ MODULE TaskApi ------------------------------
(***************************************************************************)
(* HTTP requests on their way through the middleware chain, the handlers,  *)
(* the validator, the service and the repository, and back.                *)
(*                                                                         *)
(* A text is classed by what the validator and the column tell apart: it   *)
(* is empty, it fits the limit they share, it is longer, or it fits but    *)
(* holds a character Postgres refuses (U+0000).  The fields that may be    *)
(* empty, description and assignee, are one, and empty is one way to fit.  *)
(***************************************************************************)
EXTENDS Integers, FiniteSets

CONSTANTS
    Requests,   \* bound: the requests that are made
    Ids         \* task ids BIGSERIAL can hand out

ASSUME IdsAssumption == Ids \subseteq Nat \ {0}

VARIABLES
    rows,       \* Postgres: a row per id that was handed out
    sent,       \* per request: what the client sent
    stage,      \* per request: where its goroutine is
    err,        \* per request: the repository's error
    status,     \* per request: the status of the response, 0 before
    observed,   \* per request: the status requests_total was increased for
    logged,     \* per request: the status in its "http request" log entry
    changed,    \* history: the requests that changed a row
    fault       \* history: the requests that met a failure or a panic

answer == <<err, status>>
record == <<observed, logged>>
vars   == <<rows, sent, stage, answer, record, changed, fault>>

Absent   == "absent"
Titles   == {"empty", "fits", "long", "nul"}
Texts    == {"fits", "long", "nul"}
Valid    == {"pending", "done"}     \* two of the three statuses of a task
Statuses == Valid \cup {"empty", "unknown"}
NoFields == [title |-> Absent, text |-> Absent, status |-> Absent]

\* Bound: at most one of the fields of a request is not as it should be.
Fields ==
    {f \in [title : Titles \cup {Absent}, text : Texts \cup {Absent},
            status : Statuses \cup {Absent}] :
        Cardinality({k \in DOMAIN f : f[k] \notin Valid \cup {Absent, "fits"}}) <= 1}

\* The columns, and whether deleted_at is NULL.
Row == [title : Titles, text : Texts, status : Statuses, live : BOOLEAN]

Writes == {"create", "update", "delete"}
ById   == {"get", "update", "delete"}
Tasks  == Writes \cup {"get", "list"}
\* Routes registered before Use(Metrics) are not counted; unmatched ones are.
Uncounted == {"metrics", "swagger"}
Routes    == Tasks \cup Uncounted \cup {"healthz", "unmatched"}

\* id 0 stands for a path segment that is no positive number.  readable is
\* false for a body that is not JSON of the right types, and for a cursor or
\* limit that is not a number; a negative cursor is answered just the same.
Messages ==
    {q \in [route : Routes, id : Ids \cup {0}, readable : BOOLEAN, fields : Fields] :
        /\ q.route \notin ById => q.id = 0
        /\ q.route \notin {"create", "update", "list"} => q.readable
        /\ q.route \notin {"create", "update", "list"} \/ ~q.readable => q.fields = NoFields
        /\ q.route = "update" /\ q.id = 0 => q.fields = NoFields
        /\ q.route = "list" => q.fields.title = Absent}

TypeOK ==
    /\ DOMAIN rows \subseteq Ids /\ rows \in [DOMAIN rows -> Row]
    /\ sent \in [Requests -> Messages]
    /\ stage \in [Requests -> {"none", "handler", "repository", "response", "metrics",
                               "logger", "done"}]
    /\ err \in [Requests -> {"none", "notFound", "failed"}]
    /\ status \in [Requests -> {0, 200, 201, 204, 400, 404, 500}]
    /\ observed \in [Requests -> Nat] /\ logged \in [Requests -> Nat]
    /\ changed \subseteq Requests /\ fault \subseteq Requests

-----------------------------------------------------------------------------
(* The validator.                                                          *)

\* A field that the JSON or the query leaves out is the zero value.
Given(v, zero) == IF v = Absent THEN zero ELSE v

AnyTitle(t)   == t # "empty"
CheckTitle(t) == t \notin {"empty", "long"}
CheckText(t)  == t # "long"
CheckStatus(s, required) == s \in Valid \/ (s = "empty" /\ ~required)

ValidCreate(f) ==
    /\ CheckTitle(Given(f.title, "empty")) /\ CheckText(f.text)
    /\ CheckStatus(Given(f.status, "empty"), FALSE)

\* An update must name a field, and checks the ones it names.
StatusOptional(f) ==
    /\ f # NoFields
    /\ f.title # Absent => CheckTitle(f.title)
    /\ f.text # Absent => CheckText(f.text)
    /\ f.status # Absent => CheckStatus(f.status, FALSE)
ValidUpdate(f) ==
    /\ f # NoFields
    /\ f.title # Absent => CheckTitle(f.title)
    /\ f.text # Absent => CheckText(f.text)
    /\ f.status # Absent => CheckStatus(f.status, TRUE)

ValidList(f) == CheckText(f.text) /\ CheckStatus(Given(f.status, "empty"), FALSE)

Accepted(q) ==
    /\ q.route \in ById => q.id # 0
    /\ q.readable
    /\ q.route = "create" => ValidCreate(q.fields)
    /\ q.route = "update" => ValidUpdate(q.fields)
    /\ q.route = "list" => ValidList(q.fields)

-----------------------------------------------------------------------------
(* The way in.                                                             *)

At(r, s) == stage[r] = s
To(r, s) == stage' = [stage EXCEPT ![r] = s]

Arrive(r) ==
    /\ At(r, "none") /\ To(r, "handler")
    /\ \E q \in Messages : sent' = [sent EXCEPT ![r] = q]
    /\ UNCHANGED <<rows, answer, record, changed, fault>>

Write(r, s) == status' = [status EXCEPT ![r] = s]

\* Back from the handler: Metrics is next on the routes it was registered for.
Unwind(r) == To(r, IF sent[r].route \in Uncounted THEN "logger" ELSE "metrics")

\* A handler answers at once or calls the service.  Only pages that exist are
\* asked of the documentation.
Handle(r) ==
    /\ At(r, "handler")
    /\ IF sent[r].route \in Tasks /\ Accepted(sent[r])
       THEN To(r, "repository") /\ UNCHANGED status
       ELSE /\ Write(r, CASE sent[r].route \in Tasks -> 400
                          [] sent[r].route = "unmatched" -> 404
                          [] OTHER -> 200)
            /\ Unwind(r)
    /\ UNCHANGED <<rows, sent, err, record, changed, fault>>

-----------------------------------------------------------------------------
(* The service and the repository.                                         *)

Return(r, e) == To(r, "response") /\ err' = [err EXCEPT ![r] = e]

AnyRow(i) == i \in DOMAIN rows
Live(i)   == AnyRow(i) /\ rows[i].live

\* VARCHAR(n) takes no more, no text holds U+0000, and no CHECK confines status.
Storable(row) == {row.title, row.text} \cap {"long", "nul"} = {}

\* Service.Create gives a task without a status one.
Created(f) ==
    [title |-> Given(f.title, "empty"), text |-> Given(f.text, "fits"), live |-> TRUE,
     status |-> IF Given(f.status, "empty") = "empty" THEN "pending" ELSE f.status]

\* SET only the columns the request names.
AllColumns(row, f) ==
    [row EXCEPT !.title = f.title, !.text = f.text, !.status = f.status]
Merged(row, f) ==
    [row EXCEPT !.title  = Given(f.title, @), !.text = Given(f.text, @),
                !.status = Given(f.status, @)]

\* The row commits; its answer may be lost all the same.
Commit(r, i, row) ==
    /\ rows' = [j \in DOMAIN rows \cup {i} |-> IF j = i THEN row ELSE rows[j]]
    /\ changed' = changed \cup {r}
    /\ \/ Return(r, "none") /\ UNCHANGED fault
       \/ Return(r, "failed") /\ fault' = fault \cup {r}

Nothing(r, e) == Return(r, e) /\ UNCHANGED <<rows, changed, fault>>

\* Postgres refuses a value.
Refused(r) == Nothing(r, "failed")

Create(r) ==
    /\ At(r, "repository") /\ sent[r].route = "create"
    /\ LET row == Created(sent[r].fields)
       IN  \/ ~Storable(row) /\ Refused(r)
           \/ Storable(row) /\ \E i \in Ids \ DOMAIN rows : Commit(r, i, row)
    /\ UNCHANGED <<sent, status, record>>

Update(r) ==
    /\ At(r, "repository") /\ sent[r].route = "update"
    /\ LET i   == sent[r].id
           row == Merged(rows[i], sent[r].fields)
       IN  \/ Live(i) /\ ~Storable(row) /\ Refused(r)
           \/ Live(i) /\ Storable(row) /\ Commit(r, i, row)
           \/ ~Live(i) /\ Nothing(r, "notFound")
    /\ UNCHANGED <<sent, status, record>>

Delete(r) ==
    /\ At(r, "repository") /\ sent[r].route = "delete"
    /\ \/ Live(sent[r].id) /\ Commit(r, sent[r].id, [rows[sent[r].id] EXCEPT !.live = FALSE])
       \/ ~Live(sent[r].id) /\ Nothing(r, "notFound")
    /\ UNCHANGED <<sent, status, record>>

\* A cached copy may outlive its task.
Get(r) ==
    /\ At(r, "repository") /\ sent[r].route = "get"
    /\ \/ AnyRow(sent[r].id) /\ Nothing(r, "none")
       \/ ~Live(sent[r].id) /\ Nothing(r, "notFound")
    /\ UNCHANGED <<sent, status, record>>

List(r) ==
    /\ At(r, "repository") /\ sent[r].route = "list"
    /\ IF sent[r].fields.text = "nul" THEN Refused(r) ELSE Nothing(r, "none")
    /\ UNCHANGED <<sent, status, record>>

\* The statement fails, or its context ends before it begins.
Fail(r) ==
    /\ At(r, "repository") /\ Return(r, "failed") /\ fault' = fault \cup {r}
    /\ UNCHANGED <<rows, sent, status, record, changed>>

-----------------------------------------------------------------------------
(* The way out.                                                            *)

Success(route) == CASE route = "create" -> 201
                    [] route = "delete" -> 204
                    [] OTHER -> 200

\* writeError.
NotFoundOnAnyError(e) == 404
ErrorStatus(e) == IF e = "notFound" THEN 404 ELSE 500

Respond(r) ==
    /\ At(r, "response")
    /\ Write(r, IF err[r] = "none" THEN Success(sent[r].route) ELSE ErrorStatus(err[r]))
    /\ Unwind(r)
    /\ UNCHANGED <<rows, sent, err, record, changed, fault>>

\* Metrics, after c.Next.
StatusBefore(r) == 200
StatusAfter(r)  == status[r]

ObserveRequest(r) ==
    /\ At(r, "metrics") /\ To(r, "logger")
    /\ observed' = [observed EXCEPT ![r] = StatusAfter(r)]
    /\ UNCHANGED <<rows, sent, answer, logged, changed, fault>>

\* A handler panics before it has answered: Recovery does, and the part of
\* Metrics that comes after c.Next is skipped.
Panic(r) ==
    /\ stage[r] \in {"handler", "repository", "response"} /\ To(r, "logger")
    /\ Write(r, 500) /\ fault' = fault \cup {r}
    /\ UNCHANGED <<rows, sent, err, record, changed>>

\* RequestLogger, after c.Next; scrapes are not logged.
Log(r) ==
    /\ At(r, "logger") /\ To(r, "done")
    /\ logged' = IF sent[r].route = "metrics" THEN logged ELSE [logged EXCEPT ![r] = status[r]]
    /\ UNCHANGED <<rows, sent, answer, observed, changed, fault>>

-----------------------------------------------------------------------------
Nowhere == [route |-> "unmatched", id |-> 0, readable |-> TRUE, fields |-> NoFields]

Init ==
    /\ \E S \in SUBSET Ids : rows = [i \in S |-> Created([NoFields EXCEPT !.title = "fits"])]
    /\ sent = [r \in Requests |-> Nowhere]
    /\ stage = [r \in Requests |-> "none"]
    /\ err = [r \in Requests |-> "none"] /\ status = [r \in Requests |-> 0]
    /\ observed = [r \in Requests |-> 0] /\ logged = [r \in Requests |-> 0]
    /\ changed = {} /\ fault = {}

Serve(r) ==
    \/ Arrive(r) \/ Handle(r)
    \/ Create(r) \/ Update(r) \/ Delete(r) \/ Get(r) \/ List(r) \/ Fail(r)
    \/ Respond(r) \/ Panic(r) \/ ObserveRequest(r) \/ Log(r)

Next == \E r \in Requests : Serve(r)

Spec == Init /\ [][Next]_vars

-----------------------------------------------------------------------------
(* Properties.                                                             *)

Answered(r) == stage[r] = "done"

\* The client can believe the status: told 2xx of a write, the write is done;
\* told 4xx, nothing was changed, not even by a statement that committed and
\* whose answer was lost, or before a panic.
StatusTellsWhatHappened ==
    \A r \in Requests : Answered(r) =>
        /\ sent[r].route \in Writes /\ status[r] \in {200, 201, 204} => r \in changed
        /\ r \in changed => status[r] \in {200, 201, 204, 500}

\* The validator and the columns agree on the limits: whatever the client sent,
\* 500 means a failure, a panic or a text with U+0000, the one kind of value
\* that the validator lets pass and Postgres refuses.
InternalErrorHasACause ==
    \A r \in Requests : Answered(r) /\ status[r] = 500 =>
        r \in fault \/ "nul" \in {sent[r].fields.title, sent[r].fields.text}

\* Nothing in the schema confines the status of a task.  The validator and the
\* service do, on both ways by which a status can reach a row.
RowsAreValid ==
    \A i \in DOMAIN rows :
        rows[i].title = "fits" /\ rows[i].text = "fits" /\ rows[i].status \in Valid

\* An update or delete that was accepted while its task was live does not touch
\* the row after a delete that overtook it, and no id is used twice.
DeletedForGood ==
    [][\A i \in DOMAIN rows : rows[i].live \/ rows'[i] = rows[i]]_vars

\* Log and metrics tell what the client was told: a request is in the log with
\* the status of its response, and so it is in requests_total, unless its
\* handler panicked or its route is not counted.
RecordsAgree ==
    \A r \in Requests : Answered(r) =>
        /\ logged[r] = IF sent[r].route = "metrics" THEN 0 ELSE status[r]
        /\ observed[r] \in {0, status[r]}
        /\ observed[r] = 0 => r \in fault \/ sent[r].route \in Uncounted

=============================================================================
