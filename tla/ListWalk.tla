------------------------------ MODULE ListWalk ------------------------------
(***************************************************************************)
(* Clients that walk GET /tasks page by page, next_cursor by next_cursor,  *)
(* while tasks are created, moved to another status and deleted.           *)
(*                                                                         *)
(* The repository is abstracted to what RedisTask promises of List: the    *)
(* answer is computed from the table as it was at some moment that is not  *)
(* before the last write acknowledged when the request began.  A page is a *)
(* set of ids: ORDER BY id DESC orders it.                                 *)
(***************************************************************************)
EXTENDS Integers, FiniteSets, Sequences

CONSTANTS
    MaxId,          \* ids run from 1 to MaxId
    Clients,        \* who walks
    DefaultLimit,   \* DefaultTaskListLimit
    MaxLimit,       \* MaxTaskListLimit
    Limits,         \* the limits clients ask for
    Filters,        \* bound: the statuses clients ask for, or "any"
    MaxWrites       \* bound on the writes

ASSUME MaxIdAssumption == MaxId \in Nat
ASSUME LimitAssumption ==
    /\ DefaultLimit \in 1..MaxLimit /\ MaxLimit \in Nat /\ Limits \subseteq Int
ASSUME MaxWritesAssumption == MaxWrites \in Nat

Ids      == 1..MaxId
Statuses == {"pending", "done"}
Gone     == "gone"      \* never inserted, or soft-deleted
Tables   == [Ids -> Statuses \cup {Gone}]
AnyStatus == "any"      \* the status parameter is absent

ASSUME FiltersAssumption == Filters \subseteq Statuses \cup {AnyStatus}

VARIABLES
    log,        \* the tables since the start, the current one last
    floor,      \* the table of the latest acknowledged write, as an index of log
    unused,     \* ids that have not been inserted
    state,      \* per client: "idle", "ready" to ask, "asking", "walked", "failed"
    filter,     \* per client: the status asked for
    limit,      \* per client: the limit asked for
    cursor,     \* per client: the cursor of the next request
    base,       \* per client: floor when the request in progress began
    begin,      \* per client: floor when its walk began
    page,       \* per client: the latest response, and the table it came from
    returned    \* per client: the ids its walk has been given

vars == <<log, floor, unused, state, filter, limit, cursor, base, begin, page, returned>>

Pages    == {S \in SUBSET Ids : Cardinality(S) <= MaxLimit}
Response == [tasks : Pages, next : Ids \cup {0}, more : BOOLEAN, from : Nat]

TypeOK ==
    /\ log \in Seq(Tables) /\ floor \in 1..Len(log)
    /\ unused \subseteq Ids
    /\ state \in [Clients -> {"idle", "ready", "asking", "walked", "failed"}]
    /\ filter \in [Clients -> Statuses \cup {AnyStatus}]
    /\ limit \in [Clients -> Limits]
    /\ cursor \in [Clients -> Ids \cup {0}]
    /\ base \in [Clients -> 1..Len(log)] /\ begin \in [Clients -> 1..Len(log)]
    /\ page \in [Clients -> Response]
    /\ returned \in [Clients -> SUBSET Ids]

-----------------------------------------------------------------------------
(* One list request.                                                       *)

\* The n largest of a set of ids: what LIMIT n leaves of ORDER BY id DESC.
Largest(S, n) == {i \in S : Cardinality({j \in S : j > i}) < n}
Least(S)      == CHOOSE i \in S : \A j \in S : i <= j

Matches(t, status, i) == t[i] # Gone /\ status \in {AnyStatus, t[i]}

InclusiveSelect(t, status, below, n) ==
    Largest({i \in Ids : Matches(t, status, i) /\ (below > 0 => i <= below)}, n)

\* postgrestask.List: live tasks of that status, below the cursor if there is one.
Select(t, status, below, n) ==
    Largest({i \in Ids : Matches(t, status, i) /\ (below > 0 => i < below)}, n)

\* WithClampedLimit.
Unbounded(n) == IF n <= 0 THEN DefaultLimit ELSE n
Clamp(n) == IF n <= 0 THEN DefaultLimit ELSE IF n > MaxLimit THEN MaxLimit ELSE n

\* Service.List asks for one task more than the page holds, to learn whether
\* there is one, cuts it off again and goes on from the last one left.
MoreWhenFull(probed, n) == Cardinality(probed) >= n
HasMore(probed, n)      == Cardinality(probed) > n

LastProbed(probed, n)  == Least(probed)
CursorAfter(probed, n) == Least(Largest(probed, n))

List(t, status, below, n) ==
    LET size   == Clamp(n)
        probed == Select(t, status, below, size + 1)
        more   == HasMore(probed, size)
    IN  [tasks |-> Largest(probed, size), more |-> more,
         next |-> IF more THEN CursorAfter(probed, size) ELSE 0]

-----------------------------------------------------------------------------
(* Clients.                                                                *)

\* Bound: a client walks once.
BeginWalk(c) ==
    /\ state[c] = "idle"
    /\ state' = [state EXCEPT ![c] = "ready"]
    /\ \E s \in Filters, n \in Limits :
        filter' = [filter EXCEPT ![c] = s] /\ limit' = [limit EXCEPT ![c] = n]
    /\ cursor' = [cursor EXCEPT ![c] = 0]
    /\ begin' = [begin EXCEPT ![c] = floor]
    /\ returned' = [returned EXCEPT ![c] = {}]
    /\ UNCHANGED <<log, floor, unused, base, page>>

Ask(c) ==
    /\ state[c] = "ready"
    /\ state' = [state EXCEPT ![c] = "asking"]
    /\ base' = [base EXCEPT ![c] = floor]
    /\ UNCHANGED <<log, floor, unused, filter, limit, cursor, begin, page, returned>>

\* The response arrives; the client goes on from next_cursor while has_more.
Answer(c) ==
    /\ state[c] = "asking"
    /\ \E k \in base[c]..Len(log) :
        LET r == List(log[k], filter[c], cursor[c], limit[c])
        IN  /\ page' = [page EXCEPT ![c] =
                    [tasks |-> r.tasks, next |-> r.next, more |-> r.more, from |-> k]]
            /\ returned' = [returned EXCEPT ![c] = @ \cup r.tasks]
            /\ IF r.more
               THEN /\ state' = [state EXCEPT ![c] = "ready"]
                    /\ cursor' = [cursor EXCEPT ![c] = r.next]
               ELSE /\ state' = [state EXCEPT ![c] = "walked"]
                    /\ UNCHANGED cursor
    /\ UNCHANGED <<log, floor, unused, filter, limit, base, begin>>

\* The request fails, and the client gives the walk up.
Fail(c) ==
    /\ state[c] = "asking"
    /\ state' = [state EXCEPT ![c] = "failed"]
    /\ UNCHANGED <<log, floor, unused, filter, limit, cursor, base, begin, page, returned>>

-----------------------------------------------------------------------------
(* Writes, committed first and acknowledged later, in any order.           *)

rows == log[Len(log)]

Commit(t) == Len(log) <= MaxWrites /\ log' = Append(log, t)

\* Ids are drawn in order but commit in any order.
Create(i, s) ==
    /\ i \in unused /\ unused' = unused \ {i}
    /\ Commit([rows EXCEPT ![i] = s])
    /\ UNCHANGED <<floor, state, filter, limit, cursor, base, begin, page, returned>>

SetStatus(i, s) ==
    /\ rows[i] \notin {Gone, s}
    /\ Commit([rows EXCEPT ![i] = s])
    /\ UNCHANGED <<floor, unused, state, filter, limit, cursor, base, begin, page, returned>>

Delete(i) ==
    /\ rows[i] # Gone
    /\ Commit([rows EXCEPT ![i] = Gone])
    /\ UNCHANGED <<floor, unused, state, filter, limit, cursor, base, begin, page, returned>>

Acknowledge ==
    /\ \E k \in (floor + 1)..Len(log) : floor' = k
    /\ UNCHANGED <<log, unused, state, filter, limit, cursor, base, begin, page, returned>>

-----------------------------------------------------------------------------
Init ==
    /\ log \in {<<t>> : t \in Tables}
    /\ unused = {i \in Ids : rows[i] = Gone}
    /\ floor = 1
    /\ state = [c \in Clients |-> "idle"]
    /\ filter = [c \in Clients |-> AnyStatus]
    /\ limit \in {f \in [Clients -> Limits] : \A c, d \in Clients : f[c] = f[d]}
    /\ cursor = [c \in Clients |-> 0]
    /\ base = [c \in Clients |-> 1] /\ begin = [c \in Clients |-> 1]
    /\ page = [c \in Clients |-> [tasks |-> {}, next |-> 0, more |-> FALSE, from |-> 1]]
    /\ returned = [c \in Clients |-> {}]

Walk(c) == BeginWalk(c) \/ Ask(c) \/ Answer(c) \/ Fail(c)

Write ==
    \/ \E i \in Ids, s \in Statuses : Create(i, s) \/ SetStatus(i, s)
    \/ \E i \in Ids : Delete(i)
    \/ Acknowledge

Next == (\E c \in Clients : Walk(c)) \/ Write

Spec == Init /\ [][Next]_vars

\* Clients go on with the walks they began, and requests are answered or fail.
FairSpec == Spec /\ \A c \in Clients : WF_vars(Ask(c)) /\ WF_vars(Answer(c) \/ Fail(c))

-----------------------------------------------------------------------------
(* Properties.                                                             *)

\* A walk that reaches its end was given every task that matched its filter
\* from the last write acknowledged before it began until now, however tasks
\* came, moved and went between two pages and however old a page was.
WalkMissesNothing ==
    \A c \in Clients : state[c] = "walked" =>
        \A i \in Ids :
            (\A k \in begin[c]..Len(log) : Matches(log[k], filter[c], i)) => i \in returned[c]

\* Pages descend: a page of a walk lies below all the earlier ones, so that no
\* task is given twice, not even one that left the filter and came back.
PagesDescend ==
    [][\A c \in Clients :
        state[c] = "asking" /\ state'[c] \in {"ready", "walked"} =>
            \A i \in page'[c].tasks, j \in returned[c] : i < j]_vars

\* has_more is told exactly: there is a next page to ask for if and only if the
\* table the page came from holds a matching task below it.
HasMoreIsExact ==
    \A c \in Clients : state[c] = "walked" \/ (state[c] = "ready" /\ cursor[c] # 0) =>
        LET p == page[c]
            Below == {i \in Ids : Matches(log[p.from], filter[c], i)
                                  /\ \A j \in returned[c] : i < j}
        IN  /\ p.more <=> Below # {}
            /\ p.more <=> p.next # 0

\* Every walk comes to an end although tasks keep coming: under FairSpec.
WalkEnds ==
    \A c \in Clients : state[c] = "ready" ~> state[c] \in {"walked", "failed"}

=============================================================================
