----------------------------- MODULE RedisTask -----------------------------
(***************************************************************************)
(* The cache-aside decorator redistask.DB over the Postgres adapter: every *)
(* repository call, broken at each Redis command and each SQL statement,   *)
(* run by several goroutines of one or several API processes that share    *)
(* one Redis and one Postgres.                                             *)
(*                                                                         *)
(* A Redis key is a set of at most one value (empty: missing, expired or   *)
(* evicted).  A cached page or count is the table it was computed from.    *)
(* One list request stands for all: requests with different keys share     *)
(* nothing but the generation.                                             *)
(***************************************************************************)
EXTENDS TaskTable, Sequences

CONSTANTS
    Procs,      \* goroutines that make repository calls
    Ops,        \* the repository calls they make
    RedisFails, \* may a Redis command fail although its context is live?
    Resends,    \* does the client send a command again when its answer is lost?
    LockEvictable, \* may Redis drop the lock key before its TTL (LRU, restart)?
    MaxGens     \* bound on the generations drawn before one may be evicted

Writers == {"create", "update", "delete"}
Readers == {"get", "list", "count"}

ASSUME OpsAssumption == Ops \subseteq Writers \cup Readers
ASSUME RedisAssumption ==
    RedisFails \in BOOLEAN /\ Resends \in BOOLEAN /\ LockEvictable \in BOOLEAN
ASSUME MaxGensAssumption == MaxGens \in Nat

VARIABLES
    rows,       \* Postgres: the tasks table
    task,       \* Redis task:{id}
    gen,        \* Redis tasks:list:gen, 0 when missing
    pages,      \* Redis tasks:list:{gen}:..., as records [gen, table]
    count,      \* Redis tasks:count
    lock,       \* Redis tasks:count:lock, the goroutine whose token it holds
    op, pc, id, \* per goroutine: the call it makes, where it is, its task id
    key,        \* per goroutine: the generation in its list key, 0 for "";
                \* before that and in a write, the token it has sent, 0 for none
    got,        \* per goroutine: what Postgres or the cache gave it
    res,        \* per goroutine: "ok" or "err" once the result is decided
    gone,       \* per goroutine: the context in use is cancelled or expired
    warned,     \* per goroutine: the caches whose invalidation it warned of
    born,       \* history: born[g] is the table when generation g was drawn
    acked,      \* history: per reader, writes acknowledged without a warning
    since       \* history: per goroutine, acked when its read started

redis   == <<task, gen, pages, count, lock>>
history == <<born, acked>>
vars    == <<rows, redis, op, pc, id, key, got, res, gone, warned, since, history>>

Labels == {"idle", "next", "load", "store", "evict", "retire", "listKey",
           "lock", "recheck", "set", "invalidate", "bypass", "bypassLocked",
           "release"}
Entry == [row : Row, late : BOOLEAN]
Page  == [gen : Nat, table : Table]

TypeOK ==
    /\ rows \in Table
    /\ task \in [Ids -> SUBSET Entry]
    /\ gen \in Nat
    /\ pages \subseteq Page
    /\ count \subseteq Table
    /\ lock \subseteq Procs
    /\ op \in [Procs -> Writers \cup Readers]
    /\ pc \in [Procs -> Labels]
    /\ id \in [Procs -> Ids]
    /\ key \in [Procs -> Nat]
    /\ got \in [Procs -> Table]
    /\ res \in [Procs -> {"none", "ok", "err"}]
    /\ gone \in [Procs -> BOOLEAN]
    /\ warned \in [Procs -> SUBSET Readers]
    /\ born \in Seq(Table)
    /\ acked \in [Readers -> Versions]
    /\ since \in [Procs -> Versions]

-----------------------------------------------------------------------------
(* Contexts, control and results.                                          *)

\* A command on the call's own context is refused once that context is done.
Live(p)   == ~gone[p]
\* It fails then, or when Redis does.  A command on context.WithoutCancel
\* fails only when Redis does.
EndUnnoticed(p) == RedisFails
CtxErr(p) == gone[p] \/ RedisFails

Goto(p, l)   == pc' = [pc EXCEPT ![p] = l]
Result(p, r) == res' = [res EXCEPT ![p] = r]
Fetch(p, t)  == got' = [got EXCEPT ![p] = t]
Warn(p, w)   == warned' = [warned EXCEPT ![p] = @ \cup w]

\* The call returns its result r to its caller.
Finish(p, r) == Goto(p, "idle") /\ Result(p, r)

\* The caches a write invalidates, by the reader they serve.
Serves(o) == IF o = "update" THEN {"get", "list"} ELSE Readers

\* A write returns success: its version is acknowledged to the readers of
\* every cache it invalidated without logging a warning.
Acknowledge(p, w) ==
    acked' = [r \in Readers |->
        IF r \in Serves(op[p]) \ w
        THEN [acked[r] EXCEPT ![id[p]] =
                 IF @ < got[p][id[p]].ver THEN got[p][id[p]].ver ELSE @]
        ELSE acked[r]]

-----------------------------------------------------------------------------
(* Calls.                                                                  *)

First(o) == CASE o \in Writers -> "next"
              [] o = "list"    -> "listKey"
              [] OTHER         -> "load"

\* A caller makes a call; a create gets its id from Postgres later.
Start(p) ==
    /\ pc[p] = "idle"
    /\ \E o \in Ops :
        /\ op' = [op EXCEPT ![p] = o]
        /\ Goto(p, First(o))
        /\ since' = [since EXCEPT ![p] = IF o \in Readers THEN acked[o] ELSE None]
        /\ IF o \in {"get", "update", "delete"}
           THEN \E i \in Ids : id' = [id EXCEPT ![p] = i]
           ELSE UNCHANGED id
    /\ key' = [key EXCEPT ![p] = 0]
    /\ Fetch(p, NoRows)
    /\ Result(p, "none")
    /\ gone' = [gone EXCEPT ![p] = FALSE]
    /\ warned' = [warned EXCEPT ![p] = {}]
    /\ UNCHANGED <<rows, redis, history>>

-----------------------------------------------------------------------------
(* Writes: d.next, then the invalidations.                                 *)

\* A new task has no entry of its own to evict.
NothingEvicted(o) == "retire"
AfterCommit(o)    == IF o = "create" THEN "retire" ELSE "evict"

\* The statement commits and turns the table into t.  Its answer arrives and
\* the invalidations follow, or the answer is lost (the context ended, the
\* connection broke) and the call fails with its write in place.
Commit(p, i, t) ==
    /\ rows' = t
    /\ id' = [id EXCEPT ![p] = i]
    /\ Fetch(p, Only(i, t[i]))
    /\ \/ Live(p) /\ Goto(p, AfterCommit(op[p])) /\ Result(p, "ok")
       \/ Finish(p, "err")

\* No such row, or the statement failed: the call returns the error.
WriteFails(p) == Finish(p, "err") /\ UNCHANGED <<rows, id, got>>

Create(p) ==
    /\ pc[p] = "next" /\ op[p] = "create"
    /\ \/ \E i \in Ids :
            CanInsert(rows, i) /\ Commit(p, i, Inserted(rows, i))
       \/ WriteFails(p)
    /\ UNCHANGED <<redis, op, key, gone, warned, since, history>>

Update(p) ==
    /\ pc[p] = "next" /\ op[p] = "update"
    /\ \/ /\ CanUpdate(rows, id[p]) /\ rows[id[p]].ver < MaxVer
          /\ Commit(p, id[p], Updated(rows, id[p]))
       \/ WriteFails(p)
    /\ UNCHANGED <<redis, op, key, gone, warned, since, history>>

Delete(p) ==
    /\ pc[p] = "next" /\ op[p] = "delete"
    /\ \/ /\ CanDelete(rows, id[p]) /\ rows[id[p]].ver < MaxVer
          /\ Commit(p, id[p], Deleted(rows, id[p]))
       \/ WriteFails(p)
    /\ UNCHANGED <<redis, op, key, gone, warned, since, history>>

\* DEL task:{id}.  A failing command may or may not have reached Redis.
Evict(p) ==
    /\ pc[p] = "evict"
    /\ LET evicted == [task EXCEPT ![id[p]] = {}]
       IN  \/ task' = evicted /\ UNCHANGED warned
           \/ RedisFails /\ task' \in {task, evicted} /\ Warn(p, {"get"})
    /\ Goto(p, "retire")
    /\ UNCHANGED <<rows, gen, pages, count, lock, op, id, key, got, res, gone,
                   since, history>>

\* A token from crypto/rand never equals an earlier one: tokens are numbered
\* in the order in which they become the generation.
ZeroBasedCounter  == gen' = Len(born) - 1 /\ born' = Append(born, rows)
RestartingCounter ==
    /\ gen' = gen + 1
    /\ born' = IF gen' > Len(born) THEN Append(born, rows) ELSE [born EXCEPT ![gen'] = rows]
NewGeneration     == gen' = Len(born) + 1 /\ born' = Append(born, rows)

\* tasks:list:gen becomes the token of this call: a new one, unless the same
\* command has been sent before.
Draw(p) ==
    \/ key[p] = 0 /\ NewGeneration
    \/ key[p] # 0 /\ gen' = key[p] /\ UNCHANGED born

SetGeneration(p) == Draw(p) /\ key' = [key EXCEPT ![p] = gen']

\* SET tasks:list:gen.  An update then returns; a create or a delete goes on to
\* invalidateCount, under a context of its own.
Retire(p) ==
    /\ pc[p] = "retire"
    /\ \/ SetGeneration(p) /\ UNCHANGED warned
       \/ /\ RedisFails /\ Warn(p, {"list"})
          /\ SetGeneration(p) \/ UNCHANGED <<key, gen, born>>
    /\ IF op[p] = "update"
       THEN Goto(p, "idle") /\ Acknowledge(p, warned'[p]) /\ UNCHANGED gone
       ELSE Goto(p, "lock") /\ gone' = [gone EXCEPT ![p] = FALSE] /\ UNCHANGED acked
    /\ UNCHANGED <<rows, task, pages, count, lock, op, id, got, res, since>>

\* SET NX tasks:count:lock, retried while another token is there, until the
\* context ends.  A failing SET NX may have taken the lock for nobody.
AcquireLock(p) ==
    /\ pc[p] = "lock"
    /\ \/ /\ Live(p) /\ lock = {} /\ lock' = {p}
          /\ Goto(p, IF op[p] = "count" THEN "recheck" ELSE "invalidate")
          /\ UNCHANGED <<warned, acked>>
       \/ /\ CtxErr(p) /\ lock' \in {lock, IF lock = {} THEN {p} ELSE lock}
          /\ IF op[p] = "count"
             THEN Goto(p, "bypass") /\ UNCHANGED <<warned, acked>>
             ELSE /\ Goto(p, "idle") /\ Warn(p, {"count"})
                  /\ Acknowledge(p, warned'[p])
    /\ UNCHANGED <<rows, task, gen, pages, count, op, id, key, got, res, gone,
                   since, born>>

\* DEL tasks:count.
Invalidate(p) ==
    /\ pc[p] = "invalidate"
    /\ \/ Live(p) /\ count' = {} /\ UNCHANGED warned
       \/ CtxErr(p) /\ count' \in {count, {}} /\ Warn(p, {"count"})
    /\ Goto(p, "release")
    /\ UNCHANGED <<rows, task, gen, pages, lock, op, id, key, got, res, gone,
                   since, history>>

\* The release script deletes the lock only if it holds this call's token.
AnyToken(p)     == {}
OwnTokenOnly(p) == lock \ {p}

\* The deferred release, last step of invalidateCount and of a locked Count.
Release(p) ==
    /\ pc[p] = "release"
    /\ lock' = OwnTokenOnly(p) \/ (RedisFails /\ lock' = lock)
    /\ Goto(p, "idle")
    /\ IF op[p] \in Writers THEN Acknowledge(p, warned[p]) ELSE UNCHANGED acked
    /\ UNCHANGED <<rows, task, gen, pages, count, op, id, key, got, res, gone,
                   warned, since, born>>

-----------------------------------------------------------------------------
(* GetByID.                                                                *)

LoadTask(p) ==
    /\ pc[p] = "load" /\ op[p] = "get"
    /\ \/ /\ Live(p)
          /\ \E e \in task[id[p]] : Fetch(p, Only(id[p], e.row))
          /\ Finish(p, "ok")
       \/ /\ (Live(p) /\ task[id[p]] = {}) \/ CtxErr(p)
          /\ Goto(p, "next")
          /\ UNCHANGED <<got, res>>
    /\ UNCHANGED <<rows, redis, op, id, key, gone, warned, since, history>>

\* A task that is missing is an error, and errors are not cached.
ReadTask(p) ==
    /\ pc[p] = "next" /\ op[p] = "get"
    /\ \/ /\ Live(p) /\ rows[id[p]].live
          /\ Fetch(p, Only(id[p], rows[id[p]]))
          /\ Goto(p, "store") /\ Result(p, "ok")
       \/ Finish(p, "err") /\ UNCHANGED got
    /\ UNCHANGED <<rows, redis, op, id, key, gone, warned, since, history>>

\* The entry is late when the row changed since it was read.
CachedTask(p) ==
    LET r == got[p][id[p]] IN [row |-> r, late |-> r # rows[id[p]]]
PutTask(p) == task' = [task EXCEPT ![id[p]] = {CachedTask(p)}]

\* SET task:{id}.
StoreTask(p) ==
    /\ pc[p] = "store" /\ op[p] = "get"
    /\ PutTask(p) \/ (RedisFails /\ UNCHANGED task)
    /\ Goto(p, "idle")
    /\ UNCHANGED <<rows, gen, pages, count, lock, op, id, key, got, res, gone,
                   warned, since, history>>

-----------------------------------------------------------------------------
(* List.                                                                   *)

\* The generation script: the token there, or a new one put in its place.
\* When it fails the key is "" and the call does without the cache.
ListKey(p) ==
    /\ pc[p] = "listKey"
    /\ \/ /\ Live(p) /\ gen # 0 /\ UNCHANGED <<gen, born>>
          /\ key' = [key EXCEPT ![p] = gen] /\ Goto(p, "load")
       \/ Live(p) /\ gen = 0 /\ SetGeneration(p) /\ Goto(p, "load")
       \/ /\ CtxErr(p) /\ Goto(p, "next") /\ key' = [key EXCEPT ![p] = 0]
          /\ UNCHANGED <<gen, born>> \/ (gen = 0 /\ Draw(p))
    /\ UNCHANGED <<rows, task, pages, count, lock, op, id, got, res, gone, warned,
                   since, acked>>

Hit(p) == {e \in pages : e.gen = key[p]}

LoadPage(p) ==
    /\ pc[p] = "load" /\ op[p] = "list"
    /\ \/ /\ Live(p)
          /\ \E e \in Hit(p) : Fetch(p, e.table)
          /\ Finish(p, "ok")
       \/ /\ (Live(p) /\ Hit(p) = {}) \/ CtxErr(p)
          /\ Goto(p, "next")
          /\ UNCHANGED <<got, res>>
    /\ UNCHANGED <<rows, redis, op, id, key, gone, warned, since, history>>

ReadPage(p) ==
    /\ pc[p] = "next" /\ op[p] = "list"
    /\ \/ /\ Live(p) /\ Fetch(p, rows) /\ Result(p, "ok")
          /\ Goto(p, IF key[p] = 0 THEN "idle" ELSE "store")
       \/ Finish(p, "err") /\ UNCHANGED got
    /\ UNCHANGED <<rows, redis, op, id, key, gone, warned, since, history>>

PutPage(p) == pages' = (pages \ Hit(p)) \cup {[gen |-> key[p], table |-> got[p]]}

\* SET on the page key.
StorePage(p) ==
    /\ pc[p] = "store" /\ op[p] = "list"
    /\ PutPage(p) \/ (RedisFails /\ UNCHANGED pages)
    /\ Goto(p, "idle")
    /\ UNCHANGED <<rows, task, gen, count, lock, op, id, key, got, res, gone,
                   warned, since, history>>

-----------------------------------------------------------------------------
(* Count, called by the gauge refresher under its two-second deadline.     *)

\* GET tasks:count: a hit is the result, a miss goes for the lock.
LoadCount(p) ==
    /\ pc[p] = "load" /\ op[p] = "count"
    /\ \/ Live(p) /\ (\E t \in count : Fetch(p, t)) /\ Finish(p, "ok")
       \/ Live(p) /\ count = {} /\ Goto(p, "lock") /\ UNCHANGED <<got, res>>
       \/ CtxErr(p) /\ Goto(p, "bypass") /\ UNCHANGED <<got, res>>
    /\ UNCHANGED <<rows, redis, op, id, key, gone, warned, since, history>>

\* The same GET again, under the lock.
RecheckCount(p) ==
    /\ pc[p] = "recheck"
    /\ \/ /\ Live(p) /\ (\E t \in count : Fetch(p, t))
          /\ Result(p, "ok") /\ Goto(p, "release")
       \/ Live(p) /\ count = {} /\ Goto(p, "next") /\ UNCHANGED <<got, res>>
       \/ CtxErr(p) /\ Goto(p, "bypassLocked") /\ UNCHANGED <<got, res>>
    /\ UNCHANGED <<rows, redis, op, id, key, gone, warned, since, history>>

\* d.next.Count: to be cached, or in place of a cache that failed.
ReadCount(p) ==
    /\ op[p] = "count" /\ pc[p] \in {"next", "bypass", "bypassLocked"}
    /\ \/ /\ Live(p) /\ Fetch(p, rows) /\ Result(p, "ok")
          /\ Goto(p, CASE pc[p] = "next"   -> "set"
                       [] pc[p] = "bypass" -> "idle"
                       [] OTHER            -> "release")
       \/ /\ Result(p, "err") /\ UNCHANGED got
          /\ Goto(p, IF pc[p] = "bypass" THEN "idle" ELSE "release")
    /\ UNCHANGED <<rows, redis, op, id, key, gone, warned, since, history>>

\* SET tasks:count.
SetCount(p) ==
    /\ pc[p] = "set"
    /\ \/ Live(p) /\ count' = {got[p]}
       \/ CtxErr(p) /\ UNCHANGED count
    /\ Goto(p, "release")
    /\ UNCHANGED <<rows, task, gen, pages, lock, op, id, key, got, res, gone,
                   warned, since, history>>

-----------------------------------------------------------------------------
(* Commands sent again.                                                    *)

\* A command takes effect, its answer is lost, and the client will send the
\* same command again.  A second DEL is no different from an expiry, a second
\* release finds nothing to release, and a second GET reads afresh.
ResentGeneration(p) ==
    /\ pc[p] = "retire" \/ (pc[p] = "listKey" /\ Live(p) /\ gen = 0)
    /\ SetGeneration(p)
    /\ UNCHANGED <<task, pages, count, lock>>

ResentLock(p) ==
    /\ pc[p] = "lock" /\ Live(p) /\ lock = {} /\ lock' = {p}
    /\ UNCHANGED <<task, gen, pages, count, key, born>>

ResentValue(p) ==
    /\ \/ pc[p] = "store" /\ op[p] = "get" /\ PutTask(p) /\ UNCHANGED <<pages, count>>
       \/ pc[p] = "store" /\ op[p] = "list" /\ PutPage(p) /\ UNCHANGED <<task, count>>
       \/ pc[p] = "set" /\ Live(p) /\ count' = {got[p]} /\ UNCHANGED <<task, pages>>
    /\ UNCHANGED <<gen, lock, key, born>>

AnswerLost(p) ==
    /\ Resends
    /\ ResentGeneration(p) \/ ResentLock(p) \/ ResentValue(p)
    /\ UNCHANGED <<rows, op, pc, id, got, res, gone, warned, since, acked>>

-----------------------------------------------------------------------------
(* The environment.                                                        *)

\* The context in use ends: the client disconnects, the refresher's two
\* seconds pass, or the four seconds of invalidateCount do.
ContextEnds(p) ==
    /\ pc[p] # "idle" /\ ~gone[p]
    /\ gone' = [gone EXCEPT ![p] = TRUE]
    /\ UNCHANGED <<rows, redis, op, pc, id, key, got, res, warned, since, history>>

\* The process dies in the middle of the call: no deferred release runs.
Crash(p) ==
    /\ pc[p] # "idle"
    /\ Finish(p, "none") /\ Fetch(p, NoRows)
    /\ UNCHANGED <<rows, redis, op, id, key, gone, warned, since, history>>

\* A key reaches its TTL or is evicted.
TaskNeverExpires(i) == FALSE
DropTask(i) ==
    /\ task[i] # {} /\ task' = [task EXCEPT ![i] = {}]
    /\ UNCHANGED <<rows, gen, pages, count, lock, op, pc, id, key, got, res, gone,
                   warned, since, history>>

PageNeverExpires == FALSE
DropPage ==
    /\ \E e \in pages : pages' = pages \ {e}
    /\ UNCHANGED <<rows, task, gen, count, lock, op, pc, id, key, got, res, gone,
                   warned, since, history>>

DropGeneration ==
    /\ gen # 0 /\ Len(born) < MaxGens /\ gen' = 0
    /\ UNCHANGED <<rows, task, pages, count, lock, op, pc, id, key, got, res, gone,
                   warned, since, history>>

CountNeverExpires == FALSE
DropCount ==
    /\ count # {} /\ count' = {}
    /\ UNCHANGED <<rows, task, gen, pages, lock, op, pc, id, key, got, res, gone,
                   warned, since, history>>

\* p is between taking the lock to count and caching the count, in time.
Counting(p) ==
    op[p] = "count" /\ pc[p] \in {"recheck", "next", "set"} /\ Live(p)

\* The lock lives for three seconds, a count for two: the TTL alone never
\* takes the lock from a count whose context is live.
DropLock ==
    /\ lock # {} /\ lock' = {}
    /\ LockEvictable \/ \A p \in lock : ~Counting(p)
    /\ UNCHANGED <<rows, task, gen, pages, count, op, pc, id, key, got, res, gone,
                   warned, since, history>>

-----------------------------------------------------------------------------
(* Specification.                                                          *)

\* The API starts on an empty Redis and the tasks that are in Postgres.
Init ==
    /\ rows \in [Ids -> {Absent, [ver |-> 1, live |-> TRUE]}]
    /\ task = [i \in Ids |-> {}]
    /\ gen = 0 /\ pages = {} /\ count = {} /\ lock = {}
    /\ op \in [Procs -> {"list"}]
    /\ pc = [p \in Procs |-> "idle"]
    /\ id \in {f \in [Procs -> Ids] : \A p, q \in Procs : f[p] = f[q]}
    /\ key = [p \in Procs |-> 0]
    /\ got = [p \in Procs |-> NoRows]
    /\ res = [p \in Procs |-> "none"]
    /\ gone = [p \in Procs |-> FALSE]
    /\ warned = [p \in Procs |-> {}]
    /\ born = <<>>
    /\ acked = [r \in Readers |-> None]
    /\ since = [p \in Procs |-> None]

\* The next step of the call p is in.
Step(p) ==
    \/ Create(p) \/ Update(p) \/ Delete(p)
    \/ Evict(p) \/ Retire(p)
    \/ AcquireLock(p) \/ Invalidate(p) \/ Release(p)
    \/ LoadTask(p) \/ ReadTask(p) \/ StoreTask(p)
    \/ ListKey(p) \/ LoadPage(p) \/ ReadPage(p) \/ StorePage(p)
    \/ LoadCount(p) \/ RecheckCount(p) \/ ReadCount(p) \/ SetCount(p)

Expiry ==
    \/ \E i \in Ids : DropTask(i)
    \/ DropPage \/ DropGeneration \/ DropCount \/ DropLock

Next ==
    \/ \E p \in Procs : Start(p) \/ Step(p) \/ AnswerLost(p) \/ ContextEnds(p) \/ Crash(p)
    \/ Expiry

Spec == Init /\ [][Next]_vars

\* Goroutines are scheduled, and commands and statements are answered or fail,
\* the ones sent again included: the client gives up after three attempts more.
\* The contexts of the loop that waits for the lock have deadlines: two seconds
\* in the refresher, which alone counts, and four in invalidateCount.
\* Every cached value has a TTL.
FairSpec ==
    /\ Spec
    /\ \A p \in Procs : WF_vars(Step(p)) /\ WF_vars(pc[p] = "lock" /\ ContextEnds(p))
    /\ \A i \in Ids : WF_vars(DropTask(i))
    /\ WF_vars(DropPage) /\ WF_vars(DropCount)

-----------------------------------------------------------------------------
(* Safety.                                                                 *)

Returned(p, o) == pc[p] = "idle" /\ res[p] = "ok" /\ op[p] = o

\* A list that starts after a write returned to its caller, without a warning
\* about the lists, never answers from a page that misses that write: not
\* through a page stored meanwhile by a slower reader, not through an evicted
\* generation, not after any command failed or process died.
ListsSeeAckedWrites ==
    \A p \in Procs : Returned(p, "list") => Reflects(got[p], since[p])

\* The same for the cached count and the creates and deletes it counts.
CountsSeeAckedWrites ==
    \A p \in Procs : Returned(p, "count") => Reflects(got[p], since[p])

\* Two counts are never between lock and SET at once with live contexts, even
\* though locks expire under their owners and owners release late.
OneCounterAtATime ==
    \A p, q \in Procs : Counting(p) /\ Counting(q) => p = q

\* A cached task that misses an acknowledged write was out of date when it was
\* stored: a task cached fresh is evicted by the next write to it.
StaleTaskWasStoredLate ==
    \A i \in Ids : \A e \in task[i] : e.row.ver < acked["get"][i] => e.late

\* README.md:316, old keys "become unreachable because no later read constructs
\* a key with a previous token", and README.md:323, "an abandoned page cannot
\* become reachable again": the generation a list learns is the newest one.
NoLaterReadUsesPreviousToken ==
    [][\A p \in Procs : pc[p] = "listKey" /\ pc'[p] = "load" => key'[p] = Len(born')]_vars

\* README.md:240, "subsequent get, update and delete requests treat it as
\* missing": a get that starts after a delete was acknowledged, its eviction
\* included, does not return the task.
DeletedTaskIsMissing ==
    \A p \in Procs : Returned(p, "get") =>
        ~(since[p][id[p]] = rows[id[p]].ver /\ ~rows[id[p]].live)

\* README.md:328, "a client that disconnects the instant after its write still
\* gets its stale entries dropped": when a client is gone and its write is in
\* place, the generation is one drawn after that write.
DisconnectedWriteRetires ==
    \A p \in Procs :
        (/\ pc[p] = "idle" /\ op[p] \in Writers /\ gone[p]
         /\ res[p] = "err" /\ got[p] # NoRows)
        => gen = 0 \/ born[gen][id[p]].ver >= got[p][id[p]].ver

-----------------------------------------------------------------------------
(* What the decorator promises its readers, as FreshReads states it.       *)

RowVersions == [i \in Ids |-> rows[i].ver]

\* The reads of one kind: when each began, and the writes its answer reflects.
CallSince(o)  == [p \in Procs |-> IF op[p] = o THEN since[p] ELSE None]
CallAnswer(o) == [p \in Procs |->
    IF Returned(p, o) THEN {[i \in Ids |-> got[p][i].ver]} ELSE {}]

Reads(o) == INSTANCE FreshReads WITH Keys <- Ids, now <- RowVersions,
                acked <- acked[o], since <- CallSince(o), answer <- CallAnswer(o)

\* A client of List cannot tell the cache from reads of the table that lag
\* behind, by no more than the writes nobody was told of: an answer is given
\* once, reflects what was acknowledged when the call began, and holds nothing
\* that was not committed.
ListsAreFresh == Reads("list")!Init /\ [][Reads("list")!Next]_(Reads("list")!vars)

\* Nor can a caller of Count, unless Redis drops a lock: whichever of its ways
\* Count takes, cached, under the lock or around it, its answer lacks no create
\* or delete acknowledged before the call and counts nothing uncommitted.
CountsAreFresh == Reads("count")!Init /\ [][Reads("count")!Next]_(Reads("count")!vars)

-----------------------------------------------------------------------------
(* Why the lists are right: an inductive invariant when nothing is resent.  *)

\* The generation in place is the newest; whatever was drawn, and every page
\* stored under it, is at least as new as the table was then, and the newest
\* was drawn after every write whose caller has been answered.
ListStore ==
    /\ gen \in {0, Len(born)}
    /\ \A g \in 1..Len(born) : Older(born[g], rows)
    /\ Reflects(rows, acked["list"])
    /\ gen # 0 => Reflects(born[gen], acked["list"])
    /\ \A e \in pages : e.gen \in 1..Len(born) /\ Older(born[e.gen], e.table)

\* Which calls can be where.
CallControl(p) ==
    /\ pc[p] \in {"evict", "retire", "invalidate"} => op[p] \in Writers
    /\ pc[p] \in {"lock", "release"} => op[p] \in Writers \cup {"count"}
    /\ pc[p] \in {"recheck", "set", "bypass", "bypassLocked"} => op[p] = "count"
    /\ pc[p] = "listKey" => op[p] = "list" /\ key[p] = 0
    /\ op[p] \in Writers /\ pc[p] \in {"next", "evict", "retire"} => key[p] = 0

\* A write in progress is in the table; once its invalidation of the lists is
\* behind it, the generation in place was drawn after it.
WriteRetires(p) ==
    op[p] \in Writers =>
    /\ pc[p] \in {"evict", "retire", "lock", "invalidate", "release"} =>
           got[p][id[p]].ver <= rows[id[p]].ver
    /\ (/\ pc[p] \in {"lock", "invalidate", "release"}
        /\ "list" \notin warned[p] /\ gen # 0)
           => got[p][id[p]].ver <= born[gen][id[p]].ver

\* The generation a list finds, and then works under, reflects what was
\* acknowledged when the list started, and so does what it stores under it or returns.
ListKeeps(p) ==
    op[p] = "list" =>
    /\ Reflects(rows, since[p])
    /\ pc[p] = "listKey" /\ gen # 0 => Reflects(born[gen], since[p])
    /\ pc[p] \in {"load", "next", "store"} /\ key[p] # 0 =>
           key[p] \in 1..Len(born) /\ Reflects(born[key[p]], since[p])
    /\ pc[p] = "store" =>
           key[p] # 0 /\ Older(born[key[p]], got[p]) /\ Reflects(got[p], since[p])
    /\ pc[p] = "idle" /\ res[p] = "ok" => Reflects(got[p], since[p])

ListCall(p) == CallControl(p) /\ WriteRetires(p) /\ ListKeeps(p)

ListInv == ListStore /\ \A p \in Procs : ListCall(p)

-----------------------------------------------------------------------------
(* Liveness, under FairSpec.                                               *)

\* Every repository call returns, whatever Redis does and whoever dies
\* holding the lock: the loop in acquireCountLock is always left.
EveryCallReturns == \A p \in Procs : pc[p] # "idle" ~> pc[p] = "idle"

\* Once the writes stop, the values that can still be read from the cache come
\* to agree with the table for good, whatever invalidations were lost and
\* whichever slow readers stored late: no one keeps a stale value alive.
CachesConverge ==
    <>[](/\ \A i \in Ids : \A e \in task[i] : e.row = rows[i]
         /\ \A e \in pages : e.gen = gen => e.table = rows
         /\ \A t \in count : t = rows)

=============================================================================
