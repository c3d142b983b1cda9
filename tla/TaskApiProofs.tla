--------------------------- MODULE TaskApiProofs ---------------------------
(***************************************************************************)
(* The way of a request, for any number of requests and ids: the types and *)
(* all of the safety properties of TaskApi.                                *)
(*                                                                         *)
(* The properties speak of requests that were answered.  RequestInv is     *)
(* what makes them so: what has been settled about a request at each stage *)
(* of its way in and out.  RowsAreValid is needed for more than itself:    *)
(* an update that Postgres refuses is the client's doing only because what *)
(* the row held before could be stored.                                    *)
(***************************************************************************)
EXTENDS TaskApi, TLAPS, FiniteSetTheorems

NulSent(r) == "nul" \in {sent[r].fields.title, sent[r].fields.text}

\* The status a request is answered with, once it is known.
Outcome(r) ==
    /\ status[r] # 0
    /\ sent[r].route \in Writes /\ status[r] \in {200, 201, 204} => r \in changed
    /\ r \in changed => status[r] \in {200, 201, 204, 500}
    /\ status[r] = 500 => r \in fault \/ NulSent(r)

\* The entry in requests_total, once Metrics is done or skipped.
Observed(r) ==
    /\ observed[r] \in {0, status[r]}
    /\ observed[r] = 0 => r \in fault \/ sent[r].route \in Uncounted

RequestInv(r) ==
    /\ stage[r] \in {"none", "handler", "repository"} => r \notin changed
    /\ stage[r] \in {"repository", "response"} => sent[r].route \in Tasks /\ Accepted(sent[r])
    /\ stage[r] \in {"none", "handler", "repository", "response", "metrics"} => observed[r] = 0
    /\ stage[r] # "done" => logged[r] = 0
    /\ stage[r] = "response" =>
        /\ err[r] = "none" /\ sent[r].route \in Writes => r \in changed
        /\ r \in changed => err[r] # "notFound"
        /\ err[r] = "failed" => r \in fault \/ NulSent(r)
    /\ stage[r] \in {"metrics", "logger", "done"} => Outcome(r)
    /\ stage[r] \in {"logger", "done"} => Observed(r)
    /\ stage[r] = "done" =>
        logged[r] = IF sent[r].route = "metrics" THEN 0 ELSE status[r]

RequestsInv == \A r \in Requests : RequestInv(r)

ApiInv == TypeOK /\ RowsAreValid /\ RequestsInv

-----------------------------------------------------------------------------
(* What the validator lets through, and what becomes of it in a row.       *)

AllFields == [title : Titles \cup {Absent}, text : Texts \cup {Absent},
              status : Statuses \cup {Absent}]

RowIsValid(row) == row.title = "fits" /\ row.text = "fits" /\ row.status \in Valid

\* Postgres stores a row and it is valid, or refuses it for what the client sent.
StoredAsSent(row, f) ==
    /\ row \in Row /\ row.live
    /\ Storable(row) => RowIsValid(row)
    /\ ~Storable(row) => "nul" \in {f.title, f.text}

LEMMA NoFieldsAreFields == NoFields \in Fields
<1>1. NoFields \in AllFields
    BY DEF NoFields, AllFields
<1>2. {k \in DOMAIN NoFields : NoFields[k] \notin Valid \cup {Absent, "fits"}} = {}
    BY DEF NoFields
<1> QED
    BY <1>1, <1>2, FS_EmptySet DEF Fields, AllFields

LEMMA CreateStores ==
    ASSUME NEW f \in AllFields, ValidCreate(f)
    PROVE  StoredAsSent(Created(f), f)
<1> DEFINE row == Created(f)
<1> USE DEF AllFields, Titles, Texts, Statuses, Valid, Absent, Given
<1>1. /\ row.title = Given(f.title, "empty") /\ row.text = Given(f.text, "fits")
      /\ row.status = IF Given(f.status, "empty") = "empty" THEN "pending" ELSE f.status
    BY DEF Created
<1>2. row.live
    BY Zenon DEF Created
<1>3. /\ row.title \in {"fits", "nul"} /\ row.text \in {"fits", "nul"}
      /\ row.status \in Valid
    BY <1>1 DEF ValidCreate, CheckTitle, CheckText, CheckStatus
<1>4. row \in Row
    BY <1>3 DEF Created, Row
<1>5. Storable(row) => RowIsValid(row)
    BY <1>3 DEF Storable, RowIsValid
<1>6. ~Storable(row) => "nul" \in {f.title, f.text}
    BY <1>1, <1>3 DEF Storable
<1> QED
    BY <1>2, <1>4, <1>5, <1>6 DEF StoredAsSent

LEMMA UpdateStores ==
    ASSUME NEW f \in AllFields, ValidUpdate(f), NEW row \in Row, RowIsValid(row), row.live
    PROVE  StoredAsSent(Merged(row, f), f)
<1> DEFINE new == Merged(row, f)
<1> USE DEF AllFields, Titles, Texts, Statuses, Valid, Absent, Given
<1>1. /\ new.title = Given(f.title, row.title) /\ new.text = Given(f.text, row.text)
      /\ new.status = Given(f.status, row.status)
    BY DEF Merged, Row
<1>2. /\ new.title \in {"fits", "nul"} /\ new.text \in {"fits", "nul"}
      /\ new.status \in Valid
    BY <1>1 DEF ValidUpdate, CheckTitle, CheckText, CheckStatus, RowIsValid
<1>3. new \in Row
    BY <1>2 DEF Merged, Row
<1>4. new.live = row.live
    BY DEF Merged, Row
<1>5. Storable(new) => RowIsValid(new)
    BY <1>2 DEF Storable, RowIsValid
<1>6. ~Storable(new) => "nul" \in {f.title, f.text}
    BY <1>1, <1>2 DEF Storable, RowIsValid
<1> QED
    BY <1>3, <1>4, <1>5, <1>6, Zenon DEF StoredAsSent

\* A deleted row keeps its columns.
LEMMA DeleteStores ==
    ASSUME NEW row \in Row, RowIsValid(row)
    PROVE  [row EXCEPT !.live = FALSE] \in Row /\ RowIsValid([row EXCEPT !.live = FALSE])
BY DEF Row, RowIsValid

-----------------------------------------------------------------------------
(* The table.                                                              *)

LEMMA SentFields ==
    ASSUME TypeOK, NEW r \in Requests
    PROVE  sent[r] \in Messages /\ sent[r].fields \in AllFields /\ sent[r].route \in Routes
BY DEF TypeOK, Messages, Fields, AllFields

\* A write stores a valid row under an id that is new or live, or Postgres
\* refuses what the client sent, or there is no task.
Wrote(r) ==
    \/ \E i \in Ids, row \in Row :
        RowIsValid(row) /\ (i \notin DOMAIN rows \/ Live(i)) /\ Commit(r, i, row)
    \/ Nothing(r, "notFound")
    \/ Nothing(r, "failed") /\ NulSent(r)

LEMMA Writing ==
    ASSUME ApiInv, NEW r \in Requests, Create(r) \/ Update(r) \/ Delete(r)
    PROVE  Wrote(r)
<1> DEFINE f == sent[r].fields
<1>1. f \in AllFields
    BY SentFields DEF ApiInv
<1>2. Accepted(sent[r])
    BY DEF ApiInv, RequestsInv, RequestInv, Create, Update, Delete, At
<1>3. \A i \in DOMAIN rows : i \in Ids /\ rows[i] \in Row /\ RowIsValid(rows[i])
    BY DEF ApiInv, TypeOK, RowsAreValid, RowIsValid
<1>4. CASE Create(r)
    <2>1. ValidCreate(f)
        BY <1>2, <1>4 DEF Create, Accepted
    <2>2. StoredAsSent(Created(f), f)
        BY <1>1, <2>1, CreateStores
    <2> HIDE DEF f
    <2>3. \/ ~Storable(Created(f)) /\ Nothing(r, "failed")
          \/ Storable(Created(f)) /\ \E i \in Ids \ DOMAIN rows : Commit(r, i, Created(f))
        BY <1>4, Zenon DEF Create, Refused, f
    <2>4. ~Storable(Created(f)) => NulSent(r)
        BY <2>2, Zenon DEF StoredAsSent, NulSent, f
    <2> QED
        BY <2>2, <2>3, <2>4 DEF StoredAsSent, Wrote
<1>5. CASE Update(r)
    <2> DEFINE i == sent[r].id
               row == Merged(rows[i], f)
    <2>1. ValidUpdate(f)
        BY <1>2, <1>5 DEF Update, Accepted
    <2>2. Live(i) => StoredAsSent(row, f)
        <3>1. Live(i) => i \in DOMAIN rows /\ rows[i].live
            BY Zenon DEF Live, AnyRow
        <3> QED
            BY <1>1, <1>3, <2>1, <3>1, UpdateStores
    <2>3. Live(i) => i \in Ids
        BY <1>3 DEF Live, AnyRow
    <2> HIDE DEF f, i, row
    <2>4. \/ Live(i) /\ ~Storable(row) /\ Nothing(r, "failed")
          \/ Live(i) /\ Storable(row) /\ Commit(r, i, row)
          \/ Nothing(r, "notFound")
        BY <1>5, Zenon DEF Update, Refused, f, i, row
    <2>5. Live(i) /\ ~Storable(row) => NulSent(r)
        BY <2>2, Zenon DEF StoredAsSent, NulSent, f
    <2> QED
        BY <2>2, <2>3, <2>4, <2>5, Zenon DEF StoredAsSent, Wrote
<1>6. CASE Delete(r)
    <2> DEFINE i == sent[r].id
               row == [rows[i] EXCEPT !.live = FALSE]
    <2>1. Live(i) => i \in Ids /\ row \in Row /\ RowIsValid(row)
        BY <1>3, DeleteStores DEF Live, AnyRow
    <2> HIDE DEF f, i, row
    <2>2. (Live(i) /\ Commit(r, i, row)) \/ Nothing(r, "notFound")
        BY <1>6, Zenon DEF Delete, i, row
    <2> QED
        BY <2>1, <2>2, Zenon DEF Wrote
<1> QED
    BY <1>4, <1>5, <1>6

LEMMA TableKept ==
    ASSUME ApiInv, NEW r \in Requests, Wrote(r)
    PROVE  /\ DOMAIN rows' \subseteq Ids /\ rows' \in [DOMAIN rows' -> Row]
           /\ RowsAreValid'
           /\ \A i \in DOMAIN rows : rows[i].live \/ rows'[i] = rows[i]
<1>1. CASE rows' = rows
    BY <1>1 DEF ApiInv, TypeOK, RowsAreValid
<1>2. ASSUME NEW i \in Ids, NEW row \in Row, RowIsValid(row), i \notin DOMAIN rows \/ Live(i),
             rows' = [j \in DOMAIN rows \cup {i} |-> IF j = i THEN row ELSE rows[j]]
      PROVE  /\ DOMAIN rows' \subseteq Ids /\ rows' \in [DOMAIN rows' -> Row]
             /\ RowsAreValid'
             /\ \A j \in DOMAIN rows : rows[j].live \/ rows'[j] = rows[j]
    <2>1. DOMAIN rows' = DOMAIN rows \cup {i}
        BY <1>2
    <2>2. \A j \in DOMAIN rows' : rows'[j] = IF j = i THEN row ELSE rows[j]
        BY <1>2
    <2>3. \A j \in DOMAIN rows : rows[j] \in Row /\ RowIsValid(rows[j])
        BY DEF ApiInv, TypeOK, RowsAreValid, RowIsValid
    <2>4. \A j \in DOMAIN rows' : rows'[j] \in Row /\ RowIsValid(rows'[j])
        BY <1>2, <2>1, <2>2, <2>3
    <2>5. DOMAIN rows' \subseteq Ids
        BY <2>1 DEF ApiInv, TypeOK
    <2>6. rows' \in [DOMAIN rows' -> Row]
        BY <1>2, <2>1, <2>4
    <2>7. RowsAreValid'
        BY <2>4, Zenon DEF RowsAreValid, RowIsValid
    <2>8. ASSUME NEW j \in DOMAIN rows PROVE rows[j].live \/ rows'[j] = rows[j]
        <3>1. j = i => rows[j].live
            BY <1>2, Zenon DEF Live, AnyRow
        <3>2. j # i => rows'[j] = rows[j]
            BY <2>1, <2>2
        <3> QED
            BY <3>1, <3>2, Zenon
    <2> QED
        BY <2>5, <2>6, <2>7, <2>8
<1>3. \/ rows' = rows
      \/ \E i \in Ids, row \in Row :
            /\ RowIsValid(row) /\ (i \notin DOMAIN rows \/ Live(i))
            /\ rows' = [j \in DOMAIN rows \cup {i} |-> IF j = i THEN row ELSE rows[j]]
    BY Zenon DEF Wrote, Commit, Nothing
<1> QED
    BY <1>1, <1>2, <1>3, Zenon

-----------------------------------------------------------------------------
(* One step of one request.                                                *)

\* The repository answers, having changed rows or not, having failed or not.
Repository(r) ==
    /\ stage[r] = "repository"
    /\ \E e \in {"none", "notFound", "failed"} : Return(r, e)
    /\ changed' = changed \/ changed' = changed \cup {r}
    /\ fault' = fault \/ fault' = fault \cup {r}
    /\ UNCHANGED <<sent, status, record>>

LEMMA Reading ==
    ASSUME NEW r \in Requests, Get(r) \/ List(r)
    PROVE  /\ Nothing(r, "none") \/ (Nothing(r, "notFound") /\ sent[r].route = "get")
                 \/ (Nothing(r, "failed") /\ NulSent(r))
           /\ sent[r].route \in {"get", "list"}
BY Zenon DEF Get, List, Refused, NulSent

LEMMA Repositories ==
    ASSUME ApiInv, NEW r \in Requests,
           Create(r) \/ Update(r) \/ Delete(r) \/ Get(r) \/ List(r) \/ Fail(r)
    PROVE  Repository(r)
<1>1. stage[r] = "repository" /\ UNCHANGED <<sent, status, record>>
    BY Zenon DEF Create, Update, Delete, Get, List, Fail, At
<1>2. CASE Create(r) \/ Update(r) \/ Delete(r)
    <2>1. Wrote(r)
        BY <1>2, Writing
    <2> QED
        BY <1>1, <2>1 DEF Wrote, Commit, Nothing, Repository
<1>3. CASE Get(r) \/ List(r)
    <2>1. Nothing(r, "none") \/ Nothing(r, "notFound") \/ Nothing(r, "failed")
        BY <1>3, Reading, Zenon
    <2> QED
        BY <1>1, <2>1 DEF Nothing, Repository
<1>4. CASE Fail(r)
    BY <1>1, <1>4 DEF Fail, Repository
<1> QED
    BY <1>2, <1>3, <1>4

LEMMA Answers ==
    ASSUME TypeOK, NEW r \in Requests, Handle(r)
    PROVE  \/ /\ sent[r].route \in Tasks /\ Accepted(sent[r])
              /\ To(r, "repository") /\ UNCHANGED status
           \/ /\ \E s \in {200, 400, 404} :
                    Write(r, s) /\ (s = 200 => sent[r].route \notin Tasks)
              /\ Unwind(r)
<1>1. CASE sent[r].route \in Tasks /\ Accepted(sent[r])
    BY <1>1, Zenon DEF Handle
<1>2. CASE ~(sent[r].route \in Tasks /\ Accepted(sent[r]))
    <2>1. Unwind(r)
        BY <1>2, Zenon DEF Handle
    <2>2. CASE sent[r].route \in Tasks
        BY <1>2, <2>1, <2>2 DEF Handle
    <2>3. CASE sent[r].route \notin Tasks
        BY <1>2, <2>1, <2>3 DEF Handle
    <2> QED
        BY <2>2, <2>3
<1> QED
    BY <1>1, <1>2

LEMMA Responds ==
    ASSUME NEW r \in Requests, Respond(r)
    PROVE  \E s \in {200, 201, 204, 404, 500} :
               /\ Write(r, s)
               /\ s \in {200, 201, 204} <=> err[r] = "none"
               /\ s = 404 <=> err[r] = "notFound"
<1>1. Success(sent[r].route) \in {200, 201, 204}
    BY DEF Success
<1>2. CASE err[r] = "none"
    BY <1>1, <1>2 DEF Respond
<1>3. CASE err[r] # "none"
    BY <1>3 DEF Respond, ErrorStatus
<1> QED
    BY <1>2, <1>3

\* A step of one request does nothing to another.
LEMMA OthersKept ==
    ASSUME ApiInv, NEW r \in Requests, Serve(r), NEW q \in Requests \ {r}
    PROVE  /\ sent'[q] = sent[q] /\ stage'[q] = stage[q] /\ err'[q] = err[q]
           /\ status'[q] = status[q] /\ observed'[q] = observed[q] /\ logged'[q] = logged[q]
           /\ q \in changed' <=> q \in changed
           /\ q \in fault' <=> q \in fault
<1> USE DEF ApiInv, TypeOK, To, Write, Return, Unwind, answer, record
<1>1. CASE Create(r) \/ Update(r) \/ Delete(r) \/ Get(r) \/ List(r) \/ Fail(r)
    <2>1. Repository(r)
        BY <1>1, Repositories
    <2> QED
        BY <2>1 DEF Repository
<1>2. CASE Arrive(r)
    BY <1>2 DEF Arrive
<1>3. CASE Handle(r)
    <2>1. UNCHANGED <<sent, err, record, changed, fault>>
        BY <1>3 DEF Handle
    <2> QED
        BY <1>3, <2>1, Answers
<1>4. CASE Respond(r)
    <2>1. UNCHANGED <<sent, err, record, changed, fault>> /\ Unwind(r)
        BY <1>4 DEF Respond
    <2> QED
        BY <1>4, <2>1, Responds
<1>5. CASE Panic(r)
    BY <1>5 DEF Panic
<1>6. CASE ObserveRequest(r)
    BY <1>6 DEF ObserveRequest
<1>7. CASE Log(r)
    BY <1>7 DEF Log
<1> QED
    BY <1>1, <1>2, <1>3, <1>4, <1>5, <1>6, <1>7 DEF Serve

LEMMA TypesKept ==
    ASSUME ApiInv, NEW r \in Requests, Serve(r)
    PROVE  TypeOK' /\ RowsAreValid' /\ \A i \in DOMAIN rows : rows[i].live \/ rows'[i] = rows[i]
<1> USE DEF ApiInv, TypeOK, To, Write, Return, Unwind, answer, record
<1>1. CASE Create(r) \/ Update(r) \/ Delete(r)
    <2>1. Repository(r)
        BY <1>1, Repositories
    <2>2. Wrote(r)
        BY <1>1, Writing
    <2>3. /\ DOMAIN rows' \subseteq Ids /\ rows' \in [DOMAIN rows' -> Row]
          /\ RowsAreValid' /\ \A i \in DOMAIN rows : rows[i].live \/ rows'[i] = rows[i]
        BY <2>2, TableKept
    <2> QED
        BY <2>1, <2>3 DEF Repository
<1>2. CASE Get(r) \/ List(r) \/ Fail(r)
    <2>1. Repository(r)
        BY <1>2, Repositories
    <2>2. rows' = rows
        BY <1>2 DEF Get, List, Fail, Nothing, Refused
    <2> QED
        BY <2>1, <2>2 DEF Repository, RowsAreValid
<1>3. rows' = rows => RowsAreValid' /\ \A i \in DOMAIN rows : rows[i].live \/ rows'[i] = rows[i]
    BY DEF RowsAreValid
<1>4. CASE Arrive(r)
    BY <1>3, <1>4 DEF Arrive
<1>5. CASE Handle(r)
    <2>1. UNCHANGED <<rows, sent, err, record, changed, fault>>
        BY <1>5 DEF Handle
    <2> QED
        BY <1>3, <1>5, <2>1, Answers
<1>6. CASE Respond(r)
    <2>1. UNCHANGED <<rows, sent, err, record, changed, fault>> /\ Unwind(r)
        BY <1>6 DEF Respond
    <2> QED
        BY <1>3, <1>6, <2>1, Responds
<1>7. CASE Panic(r)
    BY <1>3, <1>7 DEF Panic
<1>8. CASE ObserveRequest(r)
    BY <1>3, <1>8 DEF ObserveRequest, StatusAfter
<1>9. CASE Log(r)
    BY <1>3, <1>9 DEF Log
<1> QED
    BY <1>1, <1>2, <1>4, <1>5, <1>6, <1>7, <1>8, <1>9 DEF Serve

LEMMA RequestKept ==
    ASSUME ApiInv, NEW r \in Requests, Serve(r)
    PROVE  RequestInv(r)'
<1> USE DEF ApiInv, TypeOK, RequestsInv, To, Write, Return, Unwind, At, answer, record
<1>1. CASE Create(r) \/ Update(r) \/ Delete(r)
    <2>1. Repository(r)
        BY <1>1, Repositories
    <2>2. r \notin changed /\ sent' = sent
        BY <2>1 DEF Repository, RequestInv
    <2>3. CASE \E i \in Ids, row \in Row : Commit(r, i, row)
        <3>1. r \in changed' /\ (err'[r] = "none" \/ (err'[r] = "failed" /\ r \in fault'))
            BY <2>3 DEF Commit
        <3> QED
            BY <2>1, <3>1 DEF Repository, RequestInv
    <2>4. CASE Nothing(r, "notFound")
        <3>1. r \notin changed' /\ err'[r] = "notFound"
            BY <2>2, <2>4 DEF Nothing
        <3> QED
            BY <2>1, <3>1 DEF Repository, RequestInv
    <2>5. CASE Nothing(r, "failed") /\ NulSent(r)
        <3>1. r \notin changed' /\ err'[r] = "failed" /\ NulSent(r)'
            BY <2>2, <2>5 DEF Nothing, NulSent
        <3> QED
            BY <2>1, <3>1 DEF Repository, RequestInv
    <2> QED
        BY <1>1, <2>3, <2>4, <2>5, Writing DEF Wrote
<1>2. CASE Get(r) \/ List(r)
    <2>1. Repository(r)
        BY <1>2, Repositories
    <2>2. sent[r].route \notin Writes /\ r \notin changed /\ sent' = sent
        BY <1>2, <2>1 DEF Get, List, Writes, Repository, RequestInv
    <2>3. r \notin changed'
        BY <1>2, <2>2, Reading DEF Nothing
    <2>4. err'[r] = "failed" => NulSent(r)'
        <3>1. err'[r] \in {"none", "notFound"} \/ NulSent(r)
            BY <1>2, Reading DEF Nothing
        <3> QED
            BY <2>2, <3>1 DEF NulSent
    <2> QED
        BY <2>1, <2>2, <2>3, <2>4 DEF Repository, RequestInv
<1>3. CASE Fail(r)
    <2>1. Repository(r)
        BY <1>3, Repositories
    <2>2. err'[r] = "failed" /\ r \in fault'
        BY <1>3, <2>1 DEF Fail
    <2> QED
        BY <2>1, <2>2 DEF Repository, RequestInv
<1>4. CASE Arrive(r)
    BY <1>4 DEF Arrive, RequestInv
<1>5. CASE Handle(r)
    <2>1. UNCHANGED <<sent, err, record, changed, fault>> /\ stage[r] = "handler"
        BY <1>5 DEF Handle
    <2>2. CASE To(r, "repository")
        <3>1. ~Unwind(r)
            BY <2>2
        <3>2. sent[r].route \in Tasks /\ Accepted(sent[r]) /\ UNCHANGED status
            BY <1>5, <3>1, Answers
        <3>3. stage'[r] = "repository"
            BY <2>2
        <3> QED
            BY <2>1, <3>2, <3>3 DEF RequestInv
    <2>3. CASE ~To(r, "repository")
        <3>1. PICK s \in {200, 400, 404} :
                Write(r, s) /\ (s = 200 => sent[r].route \notin Tasks) /\ Unwind(r)
            BY <1>5, <2>3, Answers
        <3> QED
            BY <2>1, <3>1 DEF RequestInv, Outcome, Observed, Tasks
    <2> QED
        BY <2>2, <2>3
<1>6. CASE Respond(r)
    <2>1. /\ UNCHANGED <<sent, err, record, changed, fault>> /\ stage[r] = "response"
          /\ Unwind(r)
        BY <1>6 DEF Respond
    <2>2. PICK s \in {200, 201, 204, 404, 500} :
               /\ Write(r, s)
               /\ s \in {200, 201, 204} <=> err[r] = "none"
               /\ s = 404 <=> err[r] = "notFound"
        BY <1>6, Responds
    <2>3. Outcome(r)'
        BY <2>1, <2>2 DEF RequestInv, Outcome, NulSent
    <2>4. sent[r].route \in Tasks => sent[r].route \notin Uncounted
        BY DEF Tasks, Writes, Uncounted
    <2> QED
        BY <2>1, <2>3, <2>4 DEF RequestInv
<1>7. CASE Panic(r)
    <2>1. /\ UNCHANGED <<sent, err, record, changed>> /\ stage'[r] = "logger"
          /\ status'[r] = 500 /\ r \in fault' /\ observed[r] = 0 /\ logged[r] = 0
        BY <1>7 DEF Panic, RequestInv
    <2> QED
        BY <2>1 DEF RequestInv, Outcome, Observed
<1>8. CASE ObserveRequest(r)
    <2>1. /\ UNCHANGED <<sent, answer, logged, changed, fault>> /\ stage[r] = "metrics"
          /\ stage'[r] = "logger" /\ observed'[r] = status[r]
        BY <1>8 DEF ObserveRequest, StatusAfter
    <2> QED
        BY <2>1 DEF RequestInv, Outcome, Observed, NulSent
<1>9. CASE Log(r)
    <2>1. /\ UNCHANGED <<sent, answer, observed, changed, fault>> /\ stage[r] = "logger"
          /\ stage'[r] = "done"
          /\ logged'[r] = IF sent[r].route = "metrics" THEN 0 ELSE status[r]
        BY <1>9 DEF Log, RequestInv
    <2> QED
        BY <2>1 DEF RequestInv, Outcome, Observed, NulSent
<1> QED
    BY <1>1, <1>2, <1>3, <1>4, <1>5, <1>6, <1>7, <1>8, <1>9 DEF Serve

-----------------------------------------------------------------------------
(* The properties.                                                         *)

LEMMA InitApi == Init => ApiInv
<1> SUFFICES ASSUME Init PROVE ApiInv
    OBVIOUS
<1>1. Nowhere \in Messages
    BY NoFieldsAreFields DEF Nowhere, Messages, Routes, Tasks, ById, Writes, Uncounted
<1>2. /\ sent = [r \in Requests |-> Nowhere] /\ stage = [r \in Requests |-> "none"]
      /\ err = [r \in Requests |-> "none"] /\ status = [r \in Requests |-> 0]
      /\ observed = [r \in Requests |-> 0] /\ logged = [r \in Requests |-> 0]
      /\ changed = {} /\ fault = {}
    BY DEF Init
<1> DEFINE f == [NoFields EXCEPT !.title = "fits"]
           row == Created(f)
<1>3. f.title = "fits" /\ f.text = Absent /\ f.status = Absent /\ f \in AllFields
    BY DEF NoFields, AllFields, Titles
<1>4. row \in Row /\ RowIsValid(row)
    <2>1. ValidCreate(f)
        BY <1>3 DEF ValidCreate, CheckTitle, CheckText, CheckStatus, Given, Absent
    <2>2. row.title = "fits" /\ row.text = "fits"
        BY <1>3 DEF Created, Given, Absent
    <2>3. Storable(row)
        BY <2>2 DEF Storable
    <2>4. StoredAsSent(row, f)
        BY <1>3, <2>1, CreateStores
    <2> QED
        BY <2>3, <2>4, Zenon DEF StoredAsSent
<1>5. PICK S \in SUBSET Ids : rows = [i \in S |-> row]
    BY Zenon DEF Init
<1> HIDE DEF row, f
<1>6. TypeOK
    BY <1>1, <1>2, <1>4, <1>5 DEF TypeOK
<1>7. RowsAreValid
    BY <1>4, <1>5 DEF RowsAreValid, RowIsValid
<1>8. RequestsInv
    BY <1>2 DEF RequestsInv, RequestInv
<1> QED
    BY <1>6, <1>7, <1>8 DEF ApiInv

LEMMA ApiStep == ApiInv /\ [Next]_vars => ApiInv'
<1> SUFFICES ASSUME ApiInv, [Next]_vars PROVE ApiInv'
    OBVIOUS
<1>1. ASSUME NEW r \in Requests, Serve(r) PROVE ApiInv'
    <2>1. TypeOK' /\ RowsAreValid'
        BY <1>1, TypesKept
    <2>2. ASSUME NEW q \in Requests, q # r PROVE RequestInv(q)'
        <3>1. RequestInv(q)
            BY DEF ApiInv, RequestsInv
        <3> QED
            BY <1>1, <2>2, <3>1, OthersKept DEF RequestInv, Outcome, Observed, NulSent
    <2>3. RequestInv(r)'
        BY <1>1, RequestKept
    <2> QED
        BY <2>1, <2>2, <2>3 DEF ApiInv, RequestsInv
<1>2. CASE UNCHANGED vars
    BY <1>2 DEF vars, answer, record, ApiInv, TypeOK, RowsAreValid, RequestsInv, RequestInv,
        Outcome, Observed, NulSent
<1> QED
    BY <1>1, <1>2 DEF Next

\* ApiInv holds at the start and is kept by every step.
THEOREM ApiInvariant == Spec => []ApiInv
BY InitApi, ApiStep, PTL DEF Spec

\* Every variable keeps its type.
THEOREM ApiTypes == Spec => []TypeOK
BY ApiInvariant, PTL DEF ApiInv

\* Validator, service and columns leave only valid rows.
THEOREM TableIsValid == Spec => []RowsAreValid
BY ApiInvariant, PTL DEF ApiInv

\* The status tells whether the write was done.
THEOREM StatusIsTrue == Spec => []StatusTellsWhatHappened
<1>1. ApiInv => StatusTellsWhatHappened
    BY DEF ApiInv, RequestsInv, RequestInv, Outcome, StatusTellsWhatHappened, Answered
<1> QED
    BY <1>1, ApiInvariant, PTL

\* 500 has a cause the client is not to blame for, or a U+0000.
THEOREM ErrorsHaveCauses == Spec => []InternalErrorHasACause
<1>1. ApiInv => InternalErrorHasACause
    BY DEF ApiInv, RequestsInv, RequestInv, Outcome, NulSent, InternalErrorHasACause, Answered
<1> QED
    BY <1>1, ApiInvariant, PTL

\* Log and metrics tell what the client was told.
THEOREM RecordsAreTrue == Spec => []RecordsAgree
<1>1. ApiInv => RecordsAgree
    BY DEF ApiInv, RequestsInv, RequestInv, Observed, RecordsAgree, Answered
<1> QED
    BY <1>1, ApiInvariant, PTL

\* A deleted row stays as it is.
THEOREM DeletionIsForGood == Spec => DeletedForGood
<1>1. ApiInv /\ [Next]_vars => [\A i \in DOMAIN rows : rows[i].live \/ rows'[i] = rows[i]]_vars
    BY TypesKept DEF Next
<1> QED
    BY <1>1, ApiInvariant, PTL DEF Spec, DeletedForGood

=============================================================================
