------------------------ MODULE RedisTaskCountProofs ------------------------
(***************************************************************************)
(* The cached tasks and the cached count.                                  *)
(*                                                                         *)
(* A task is stored without a lock: whoever stores it late stores it       *)
(* stale, and nothing else leaves a stale task behind (TasksCorrect).  The *)
(* count is stored under a lock: as long as Redis keeps the lock for its   *)
(* TTL, one goroutine counts at a time (CountsTakeTurns), and no count     *)
(* misses an acknowledged write (CountsCorrect).  Neither needs a client   *)
(* that sends a command once.                                              *)
(***************************************************************************)
EXTENDS RedisTaskProofs

-----------------------------------------------------------------------------
(* Writes in progress.                                                     *)

\* Which calls can be where.
Control(p) ==
    /\ pc[p] \in {"evict", "retire", "invalidate"} => op[p] \in Writers
    /\ pc[p] \in {"lock", "release"} => op[p] \in Writers \cup {"count"}
    /\ pc[p] \in {"recheck", "set", "bypass", "bypassLocked"} => op[p] = "count"
    /\ pc[p] = "listKey" => op[p] = "list"

\* The statement of p's write has committed, and p has yet to return.
Committed(p) ==
    op[p] \in Writers /\ pc[p] \in {"evict", "retire", "lock", "invalidate", "release"}

Written(p) == got[p][id[p]].ver

WriteInv ==
    /\ \A p \in Procs : Control(p)
    /\ \A p \in Procs : Committed(p) => Written(p) <= rows[id[p]].ver
    /\ \A r \in Readers : Reflects(rows, acked[r])

-----------------------------------------------------------------------------
(* The cached tasks.                                                       *)

\* p's eviction of its task is behind it.
Evicted(p) ==
    /\ op[p] \in Writers /\ pc[p] \in {"retire", "lock", "invalidate", "release"}
    /\ "get" \notin warned[p]

\* A cached task has been written at least once; it was out of date when it
\* was stored, or reflects what was acknowledged and what is about to be.
TaskStore ==
    \A i \in Ids : \A e \in task[i] :
        /\ 1 <= e.row.ver
        /\ e.late \/ acked["get"][i] <= e.row.ver

TaskCall(p) ==
    /\ Evicted(p) => \A e \in task[id[p]] : e.late \/ Written(p) <= e.row.ver
    /\ op[p] = "get" /\ pc[p] = "store" => 1 <= Written(p)

TaskInv ==
    /\ \A i \in Ids : rows[i].live => 1 <= rows[i].ver
    /\ TaskStore
    /\ \A p \in Procs : TaskCall(p)

-----------------------------------------------------------------------------
(* The cached count.                                                       *)

\* p will cache what it has read.
Caching(p) == Counting(p) /\ pc[p] = "set"

\* Whoever counts holds the lock: its TTL is longer than the deadline.
LockInv == \A p \in Procs : Counting(p) => lock = {p}

\* p has had the lock since its write: a count that began before it is over.
Excluded(p) == \A q \in Procs : Caching(q) => Written(p) <= got[q][id[p]].ver

CountStore ==
    /\ \A t \in count : Reflects(t, acked["count"])
    /\ \A p \in Procs : Caching(p) => Reflects(got[p], acked["count"])

\* What the write of p does to the count, and what the count p is given.
CountWrite(p) ==
    op[p] \in Writers =>
        /\ pc[p] = "invalidate" => Excluded(p)
        /\ pc[p] = "release" /\ "count" \notin warned[p] =>
            Excluded(p) /\ \A t \in count : Written(p) <= t[id[p]].ver

CountRead(p) ==
    op[p] = "count" =>
        /\ \A i \in Ids : since[p][i] <= acked["count"][i]
        /\ pc[p] \in {"set", "release", "idle"} /\ res[p] = "ok" => Reflects(got[p], since[p])

CountInv ==
    /\ LockInv /\ CountStore
    /\ \A p \in Procs : CountWrite(p) /\ CountRead(p)

-----------------------------------------------------------------------------
(* What the rest of the system sees of a step.                             *)

Acts(p) == Start(p) \/ Step(p) \/ AnswerLost(p) \/ ContextEnds(p) \/ Crash(p)

Idles(q) == CallUnchanged(q) /\ gone'[q] = gone[q]

\* A step of p is not a step of anyone else.
LEMMA OthersIdle ==
    ASSUME TypeOK, NEW p \in Procs, Acts(p)
    PROVE  \A q \in Procs \ {p} : Idles(q)
<1> USE DEF Goto, Result, Fetch, Warn, Finish, Idles, CallUnchanged, TypeOK
<1>1. CASE Start(p)
      BY <1>1 DEF Start
<1>2. CASE Create(p) \/ Update(p) \/ Delete(p)
      BY <1>2 DEF Create, Update, Delete, Commit, WriteFails
<1>3. CASE Evict(p) \/ Invalidate(p)
      BY <1>3 DEF Evict, Invalidate
<1>4. CASE Retire(p)
      BY <1>4 DEF Retire, SetGeneration
<1>5. CASE AcquireLock(p) \/ Release(p)
      BY <1>5 DEF AcquireLock, Release
<1>6. CASE LoadTask(p) \/ ReadTask(p) \/ StoreTask(p)
      BY <1>6 DEF LoadTask, ReadTask, StoreTask
<1>7. CASE ListKey(p)
      BY <1>7 DEF ListKey, SetGeneration
<1>8. CASE LoadPage(p) \/ ReadPage(p) \/ StorePage(p)
      BY <1>8 DEF LoadPage, ReadPage, StorePage
<1>9. CASE LoadCount(p) \/ RecheckCount(p) \/ ReadCount(p)
      BY <1>9 DEF LoadCount, RecheckCount, ReadCount
<1>10. CASE SetCount(p)
      BY <1>10 DEF SetCount
<1>11. CASE AnswerLost(p)
      BY <1>11 DEF AnswerLost, ResentGeneration, ResentLock, ResentValue, SetGeneration
<1>12. CASE ContextEnds(p) \/ Crash(p)
      BY <1>12 DEF ContextEnds, Crash
<1> QED
    BY <1>1, <1>2, <1>3, <1>4, <1>5, <1>6, <1>7, <1>8, <1>9, <1>10, <1>11, <1>12
       DEF Acts, Step

\* Where the calls of p can be after a step.
LEMMA ControlStep ==
    ASSUME TypeOK, NEW p \in Procs, Control(p), Acts(p)
    PROVE  Control(p)'
<1> USE DEF Goto, Finish, Control, TypeOK, Writers
<1>1. CASE Start(p)
    <2>1. PICK o \in Ops : op'[p] = o /\ pc'[p] = First(o)
          BY <1>1 DEF Start
    <2>2. pc'[p] \in {"next", "listKey", "load"} /\ (pc'[p] = "listKey" => op'[p] = "list")
          BY <2>1 DEF First
    <2> QED
        BY <2>2
<1>2. CASE Create(p) \/ Update(p) \/ Delete(p)
      BY <1>2 DEF Create, Update, Delete, Commit, WriteFails, AfterCommit
<1>3. CASE Evict(p) \/ Invalidate(p)
      BY <1>3 DEF Evict, Invalidate
<1>4. CASE Retire(p)
      BY <1>4 DEF Retire
<1>5. CASE AcquireLock(p) \/ Release(p)
      BY <1>5 DEF AcquireLock, Release
<1>6. CASE LoadTask(p) \/ ReadTask(p) \/ StoreTask(p)
      BY <1>6 DEF LoadTask, ReadTask, StoreTask
<1>7. CASE ListKey(p)
      BY <1>7 DEF ListKey
<1>8. CASE LoadPage(p) \/ ReadPage(p) \/ StorePage(p)
      BY <1>8 DEF LoadPage, ReadPage, StorePage
<1>9. CASE LoadCount(p) \/ RecheckCount(p) \/ ReadCount(p)
      BY <1>9 DEF LoadCount, RecheckCount, ReadCount
<1>10. CASE SetCount(p)
      BY <1>10 DEF SetCount
<1>11. CASE AnswerLost(p) \/ ContextEnds(p) \/ Crash(p)
      BY <1>11 DEF AnswerLost, ContextEnds, Crash
<1> QED
    BY <1>1, <1>2, <1>3, <1>4, <1>5, <1>6, <1>7, <1>8, <1>9, <1>10, <1>11
       DEF Acts, Step

\* A write is acknowledged as it returns, with all it warned of.
Acknowledges(p) ==
    /\ op[p] \in Writers /\ pc[p] \in {"retire", "lock", "release"} /\ pc'[p] = "idle"
    /\ warned[p] \subseteq warned'[p] /\ Acknowledge(p, warned'[p])
    /\ pc[p] = "retire" => op[p] = "update"
    /\ pc[p] = "lock" => "count" \in warned'[p]
    /\ UNCHANGED <<rows, task, pages, count>>

LEMMA Acknowledgments ==
    ASSUME TypeOK, NEW p \in Procs, Control(p), Acts(p)
    PROVE  acked' = acked \/ Acknowledges(p)
<1> USE DEF history, Goto, TypeOK, Control, Acknowledges
<1>1. CASE Retire(p)
      BY <1>1 DEF Retire, Warn
<1>2. CASE AcquireLock(p)
      BY <1>2 DEF AcquireLock, Warn
<1>3. CASE Release(p)
      BY <1>3 DEF Release
<1>4. CASE Start(p) \/ AnswerLost(p) \/ ContextEnds(p) \/ Crash(p)
      BY <1>4 DEF Start, AnswerLost, ContextEnds, Crash
<1>5. CASE Create(p) \/ Update(p) \/ Delete(p) \/ Evict(p) \/ Invalidate(p)
      BY <1>5 DEF Create, Update, Delete, Evict, Invalidate
<1>6. CASE LoadTask(p) \/ ReadTask(p) \/ StoreTask(p)
      BY <1>6 DEF LoadTask, ReadTask, StoreTask
<1>7. CASE ListKey(p) \/ LoadPage(p) \/ ReadPage(p) \/ StorePage(p)
      BY <1>7 DEF ListKey, LoadPage, ReadPage, StorePage
<1>8. CASE LoadCount(p) \/ RecheckCount(p) \/ ReadCount(p) \/ SetCount(p)
      BY <1>8 DEF LoadCount, RecheckCount, ReadCount, SetCount
<1> QED
    BY <1>1, <1>2, <1>3, <1>4, <1>5, <1>6, <1>7, <1>8 DEF Acts, Step

\* An acknowledgment raises the writes of one row, for the readers it serves.
LEMMA Raised ==
    ASSUME TypeOK, NEW p \in Procs, NEW w, Acknowledge(p, w), NEW r \in Readers, NEW i \in Ids
    PROVE  /\ acked[r][i] <= acked'[r][i]
           /\ \/ acked'[r][i] = acked[r][i]
              \/ r \in Serves(op[p]) \ w /\ i = id[p] /\ acked'[r][i] = Written(p)
<1> DEFINE v == got[p][id[p]].ver
<1>1. /\ id[p] \in Ids /\ got[p] \in Table /\ acked[r] \in Versions
      BY DEF TypeOK
<1>2. v \in Nat /\ acked[r] \in [Ids -> Nat]
      BY <1>1 DEF Table, Row, Versions
<1>3. acked'[r] = IF r \in Serves(op[p]) \ w
                  THEN [acked[r] EXCEPT ![id[p]] = IF @ < v THEN v ELSE @]
                  ELSE acked[r]
      BY DEF Acknowledge
<1>4. Written(p) = v
      BY DEF Written
<1> HIDE DEF v
<1> QED
    BY <1>1, <1>2, <1>3, <1>4

\* The statement of p's write, which may turn the table into a newer one.
Writing(p) == Create(p) \/ Update(p) \/ Delete(p)

LEMMA WriteCommits ==
    ASSUME TypeOK, NEW p \in Procs, Writing(p)
    PROVE  /\ op[p] \in Writers /\ op' = op /\ warned' = warned /\ UNCHANGED <<redis, acked>>
           /\ pc[p] = "next"
           /\ \/ rows' = rows /\ pc'[p] = "idle"
              \/ \E i \in Ids, t \in Table : Older(rows, t) /\ Commit(p, i, t)
<1>1. rows \in Table /\ id[p] \in Ids
      BY DEF TypeOK
<1>2. op[p] \in Writers /\ op' = op /\ warned' = warned /\ UNCHANGED <<redis, acked>>
      BY DEF Writing, Create, Update, Delete, Writers, history
<1>3. pc[p] = "next"
      BY DEF Writing, Create, Update, Delete
<1>4. ASSUME WriteFails(p)
      PROVE  rows' = rows /\ pc'[p] = "idle"
      BY <1>4 DEF WriteFails, Finish, Goto, TypeOK
<1>5. Create(p) => WriteFails(p) \/ \E i \in Ids, t \in Table : Older(rows, t) /\ Commit(p, i, t)
      BY <1>1, StatementTypes, StatementsAge DEF Create
<1>6. Update(p) => WriteFails(p) \/ \E i \in Ids, t \in Table : Older(rows, t) /\ Commit(p, i, t)
      BY <1>1, StatementTypes, StatementsAge DEF Update
<1>7. Delete(p) => WriteFails(p) \/ \E i \in Ids, t \in Table : Older(rows, t) /\ Commit(p, i, t)
      BY <1>1, StatementTypes, StatementsAge DEF Delete
<1> QED
    BY <1>2, <1>3, <1>4, <1>5, <1>6, <1>7 DEF Writing

\* All other steps leave the table alone.
LEMMA TableStays ==
    ASSUME NEW p \in Procs, Acts(p), ~Writing(p)
    PROVE  rows' = rows
BY DEF Acts, Step, Writing, Start, AnswerLost, ContextEnds, Crash, Evict, Retire, AcquireLock,
       Invalidate, Release, LoadTask, ReadTask, StoreTask, ListKey, LoadPage, ReadPage,
       StorePage, LoadCount, RecheckCount, ReadCount, SetCount

LEMMA TableAges ==
    ASSUME TypeOK, NEW p \in Procs, Acts(p)
    PROVE  Older(rows, rows')
<1>1. CASE Writing(p)
      BY <1>1, WriteCommits, OlderRefl DEF Commit, TypeOK
<1>2. CASE ~Writing(p)
      BY <1>2, TableStays, OlderRefl DEF TypeOK
<1> QED
    BY <1>1, <1>2

-----------------------------------------------------------------------------
(* WriteInv.                                                               *)

\* A write stays where it was, or has just committed.
LEMMA WrittenStays ==
    ASSUME TypeOK, NEW p \in Procs, Control(p), Acts(p), Committed(p)', ~Writing(p)
    PROVE  /\ Committed(p) /\ op'[p] = op[p] /\ id'[p] = id[p] /\ got'[p] = got[p]
           /\ warned[p] \subseteq warned'[p]
<1> USE DEF Goto, Finish, Warn, Control, Committed, TypeOK, Writers
<1>1. CASE Start(p)
      BY <1>1, OpsAssumption DEF Start, First, Readers
<1>2. CASE Evict(p) \/ Invalidate(p)
      BY <1>2 DEF Evict, Invalidate
<1>3. CASE Retire(p)
      BY <1>3 DEF Retire
<1>4. CASE AcquireLock(p) \/ Release(p)
      BY <1>4 DEF AcquireLock, Release
<1>5. CASE LoadTask(p) \/ ReadTask(p) \/ StoreTask(p)
      BY <1>5 DEF LoadTask, ReadTask, StoreTask
<1>6. CASE ListKey(p) \/ LoadPage(p) \/ ReadPage(p) \/ StorePage(p)
      BY <1>6 DEF ListKey, LoadPage, ReadPage, StorePage
<1>7. CASE LoadCount(p) \/ RecheckCount(p) \/ ReadCount(p) \/ SetCount(p)
      BY <1>7 DEF LoadCount, RecheckCount, ReadCount, SetCount
<1>8. CASE AnswerLost(p)
      BY <1>8 DEF AnswerLost
<1>9. CASE ContextEnds(p) \/ Crash(p)
      BY <1>9 DEF ContextEnds, Crash
<1> QED
    BY <1>1, <1>2, <1>3, <1>4, <1>5, <1>6, <1>7, <1>8, <1>9 DEF Acts, Step, Writing

\* The write that has just committed is in the table.
LEMMA WrittenPlaced ==
    ASSUME TypeOK, NEW p \in Procs, Writing(p), Committed(p)'
    PROVE  /\ Written(p)' = rows'[id'[p]].ver
           /\ pc'[p] \in {"evict", "retire"}
<1>1. PICK i \in Ids, t \in Table : Commit(p, i, t)
      BY WriteCommits DEF Committed
<1>2. id'[p] = i /\ got'[p] = Only(i, t[i]) /\ rows' = t
      BY <1>1 DEF Commit, Fetch, TypeOK
<1>3. pc'[p] \in {"evict", "retire"}
      BY <1>1 DEF Commit, Goto, Finish, AfterCommit, Committed, TypeOK
<1> QED
    BY <1>2, <1>3 DEF Written, Only

LEMMA WriteStep ==
    ASSUME TypeOK, TypeOK', WriteInv, NEW p \in Procs, Acts(p)
    PROVE  WriteInv'
<1> USE DEF WriteInv
<1>1. Older(rows, rows') /\ rows \in Table /\ rows' \in Table
      BY TableAges DEF TypeOK
<1>2. \A i \in Ids : rows[i].ver <= rows'[i].ver /\ rows[i].ver \in Nat /\ rows'[i].ver \in Nat
      BY <1>1 DEF Older, Table, Row
<1>3. \A q \in Procs : Written(q) \in Nat /\ id[q] \in Ids
      BY DEF Written, TypeOK, Table, Row
<1>4. \A q \in Procs : Control(q)'
    <2>1. TAKE q \in Procs
    <2>2. CASE q = p
          BY <2>2, ControlStep
    <2>3. CASE q # p
          BY <2>3, OthersIdle DEF Idles, CallUnchanged, Control
    <2> QED
        BY <2>2, <2>3
<1>5. ASSUME NEW q \in Procs, Committed(q)'
      PROVE  Written(q)' <= rows'[id'[q]].ver
    <2>1. CASE q = p /\ Writing(p)
          BY <1>2, <1>5, <2>1, WrittenPlaced DEF TypeOK
    <2>2. CASE q = p /\ ~Writing(p)
          BY <1>2, <1>3, <1>5, <2>2, WrittenStays DEF Written
    <2>3. CASE q # p
          BY <1>2, <1>3, <1>5, <2>3, OthersIdle DEF Idles, CallUnchanged, Committed, Written
    <2> QED
        BY <2>1, <2>2, <2>3
<1>6. ASSUME NEW r \in Readers
      PROVE  Reflects(rows', acked'[r])
    <2>1. CASE acked' = acked
          BY <1>1, <2>1, ReflectsOlder DEF TypeOK
    <2>2. CASE Acknowledges(p)
        <3>1. Committed(p) /\ rows' = rows
              BY <2>2 DEF Acknowledges, Committed
        <3>2. ASSUME NEW i \in Ids
              PROVE  acked'[r][i] <= rows[i].ver
            <4>1. acked'[r][i] = acked[r][i] \/ (i = id[p] /\ acked'[r][i] = Written(p))
                  BY <2>2, Raised DEF Acknowledges
            <4>2. acked[r][i] <= rows[i].ver
                  BY DEF Reflects
            <4> QED
                BY <3>1, <4>1, <4>2
        <3> QED
            BY <3>1, <3>2 DEF Reflects
    <2> QED
        BY <2>1, <2>2, Acknowledgments
<1> QED
    BY <1>4, <1>5, <1>6

-----------------------------------------------------------------------------
(* TaskInv.                                                                *)

\* The writes of a live row are counted from one, and a create makes the first.
LEMMA LiveRows ==
    ASSUME TypeOK, TypeOK', NEW p \in Procs, Acts(p),
           \A i \in Ids : rows[i].live => 1 <= rows[i].ver
    PROVE  \A i \in Ids : rows'[i].live => 1 <= rows'[i].ver
<1>1. rows \in Table /\ \A i \in Ids : rows[i].ver \in Nat
      BY DEF TypeOK, Table, Row
<1>2. CASE ~Writing(p)
      BY <1>2, TableStays
<1>3. ASSUME NEW j \in Ids, NEW r, rows' = [rows EXCEPT ![j] = r], r.live => 1 <= r.ver
      PROVE  \A i \in Ids : rows'[i].live => 1 <= rows'[i].ver
      BY <1>1, <1>3 DEF Table
<1>4. CASE rows' = rows
      BY <1>4
<1>5. CASE Create(p)
    <2>1. rows' = rows \/ \E i \in Ids : rows' = Inserted(rows, i)
          BY <1>5 DEF Create, Commit, WriteFails
    <2> QED
        BY <1>3, <1>4, <2>1 DEF Inserted
<1>6. CASE Update(p)
    <2>1. rows' = rows \/ rows' = Updated(rows, id[p])
          BY <1>6 DEF Update, Commit, WriteFails
    <2>2. id[p] \in Ids /\ 1 <= rows[id[p]].ver + 1
          BY <1>1 DEF TypeOK
    <2> QED
        BY <1>3, <1>4, <2>1, <2>2 DEF Updated
<1>7. CASE Delete(p)
    <2>1. rows' = rows \/ rows' = Deleted(rows, id[p])
          BY <1>7 DEF Delete, Commit, WriteFails
    <2>2. id[p] \in Ids
          BY DEF TypeOK
    <2> QED
        BY <1>3, <1>4, <2>1, <2>2 DEF Deleted
<1> QED
    BY <1>2, <1>5, <1>6, <1>7 DEF Writing

\* A write that has nothing to evict is the first one to its row.
LEMMA FirstWrite ==
    ASSUME TypeOK, NEW p \in Procs, Writing(p), Evicted(p)'
    PROVE  Written(p)' = 1
<1>1. pc'[p] = "retire" /\ op'[p] = op[p]
      BY WrittenPlaced, WriteCommits DEF Evicted, Committed
<1>2. op[p] = "create"
      BY <1>1 DEF Writing, Create, Update, Delete, Commit, WriteFails, Goto, Finish, AfterCommit,
                  TypeOK
<1>3. PICK i \in Ids : Commit(p, i, Inserted(rows, i))
      BY <1>1, <1>2 DEF Writing, Create, Update, Delete, WriteFails, Goto, Finish, TypeOK
<1>4. id'[p] = i /\ got'[p] = Only(i, Inserted(rows, i)[i])
      BY <1>3 DEF Commit, Fetch, TypeOK
<1>5. rows \in Table
      BY DEF TypeOK
<1> QED
    BY <1>4, <1>5 DEF Written, Only, Inserted, Table

\* A task is stored by a get and evicted by a write.
LEMMA TaskChanges ==
    ASSUME NEW p \in Procs, Acts(p)
    PROVE  \/ task' = task
           \/ PutTask(p) /\ op[p] = "get" /\ pc[p] = "store" /\ rows' = rows /\ acked' = acked
           \/ Evict(p)
<1>1. CASE Start(p) \/ ContextEnds(p) \/ Crash(p)
      BY <1>1 DEF Start, ContextEnds, Crash, redis
<1>2. CASE AnswerLost(p)
      BY <1>2 DEF AnswerLost, ResentGeneration, ResentLock, ResentValue
<1>3. CASE Step(p)
      BY <1>3 DEF Step, Create, Update, Delete, Retire, AcquireLock, Invalidate, Release,
             LoadTask, ReadTask, StoreTask, ListKey, LoadPage, ReadPage, StorePage, LoadCount,
             RecheckCount, ReadCount, SetCount, redis, history
<1> QED
    BY <1>1, <1>2, <1>3 DEF Acts

\* Only the eviction takes a write past it.
LEMMA EvictedStays ==
    ASSUME TypeOK, NEW p \in Procs, Control(p), Acts(p), Evicted(p)', ~Writing(p), ~Evict(p)
    PROVE  Evicted(p)
<1>1. Committed(p) /\ warned[p] \subseteq warned'[p] /\ pc'[p] # "evict" /\ pc'[p] # "idle"
      BY WrittenStays DEF Evicted, Committed
<1>2. pc[p] # "evict"
    <2> SUFFICES ASSUME pc[p] = "evict"
                 PROVE  FALSE
        OBVIOUS
    <2>1. AnswerLost(p) \/ ContextEnds(p) \/ Crash(p)
          BY <1>1 DEF Acts, Step, Writing, Start, Create, Update, Delete, Retire, AcquireLock,
                 Invalidate, Release, LoadTask, ReadTask, StoreTask, ListKey, LoadPage, ReadPage,
                 StorePage, LoadCount, RecheckCount, ReadCount, SetCount, Committed, Writers
    <2> QED
        BY <1>1, <2>1 DEF AnswerLost, ContextEnds, Crash, Finish, Goto, TypeOK
<1> QED
    BY <1>1, <1>2 DEF Evicted, Committed

\* What p stores is late, or as new as anything acknowledged or written.
LEMMA StoredTask ==
    ASSUME TypeOK, WriteInv, TaskInv, NEW p \in Procs, PutTask(p), op[p] = "get", pc[p] = "store",
           NEW i \in Ids, NEW e \in task'[i], e \notin task[i]
    PROVE  /\ 1 <= e.row.ver
           /\ e.late \/ /\ acked["get"][i] <= e.row.ver
                        /\ \A q \in Procs : Committed(q) /\ id[q] = i => Written(q) <= e.row.ver
<1>1. i = id[p] /\ e = CachedTask(p)
      BY DEF PutTask, TypeOK
<1>2. e.row = got[p][i] /\ (e.late \/ e.row = rows[i])
      BY <1>1 DEF CachedTask
<1>3. 1 <= e.row.ver
      BY <1>1, <1>2 DEF TaskInv, TaskCall, Written
<1>4. acked["get"][i] <= rows[i].ver
      BY DEF WriteInv, Reflects, Readers
<1> QED
    BY <1>2, <1>3, <1>4 DEF WriteInv

LEMMA TaskStep ==
    ASSUME TypeOK, TypeOK', WriteInv, TaskInv, NEW p \in Procs, Acts(p)
    PROVE  TaskInv'
<1> USE DEF TaskInv
<1>0. Control(p)
      BY DEF WriteInv
<1>1. \A i \in Ids : \A e \in task'[i] : e \in task[i] \/ (PutTask(p) /\ op[p] = "get"
                     /\ pc[p] = "store" /\ acked' = acked)
      BY TaskChanges DEF Evict, TypeOK
<1>2. TaskStore'
    <2> SUFFICES ASSUME NEW i \in Ids, NEW e \in task'[i]
                 PROVE  1 <= e.row.ver /\ (e.late \/ acked'["get"][i] <= e.row.ver)
        BY DEF TaskStore
    <2>1. CASE e \notin task[i]
          BY <1>1, <2>1, StoredTask
    <2>2. CASE e \in task[i] /\ acked' = acked
          BY <2>2 DEF TaskStore
    <2>3. CASE e \in task[i] /\ Acknowledges(p)
        <3>1. \/ acked'["get"][i] = acked["get"][i]
              \/ "get" \notin warned'[p] /\ i = id[p] /\ acked'["get"][i] = Written(p)
              BY <2>3, Raised DEF Acknowledges, Readers
        <3>2. "get" \notin warned'[p] => Evicted(p)
              BY <2>3 DEF Acknowledges, Evicted
        <3> QED
            BY <2>3, <3>1, <3>2 DEF TaskStore, TaskCall
    <2> QED
        BY <1>0, <2>1, <2>2, <2>3, Acknowledgments
<1>3. ASSUME NEW q \in Procs, Evicted(q)', NEW e \in task'[id'[q]]
      PROVE  e.late \/ Written(q)' <= e.row.ver
    <2>1. CASE q = p /\ Writing(p)
        <3>1. task' = task
              BY <2>1, WriteCommits DEF redis
        <3>2. Written(p)' = 1 /\ id'[p] \in Ids
              BY <1>3, <2>1, FirstWrite DEF TypeOK
        <3> QED
            BY <1>3, <2>1, <3>1, <3>2 DEF TaskStore
    <2>2. CASE q = p /\ Evict(p)
        <3>1. "get" \notin warned'[p]
              BY <1>3, <2>2 DEF Evicted
        <3>2. id'[p] = id[p] /\ task' = [task EXCEPT ![id[p]] = {}]
              BY <2>2, <3>1 DEF Evict, Warn, TypeOK
        <3> QED
            BY <1>3, <2>2, <3>2 DEF TypeOK
    <2>3. CASE q = p /\ ~Writing(p) /\ ~Evict(p)
        <3>1. Evicted(p) /\ Committed(p)
              BY <1>0, <1>3, <2>3, EvictedStays DEF Evicted, Committed
        <3>2. Written(p)' = Written(p) /\ id'[p] = id[p]
              BY <1>0, <1>3, <2>3, WrittenStays DEF Evicted, Committed, Written
        <3>3. task' = task
              BY <2>3, <3>1, TaskChanges DEF Evicted, Writers
        <3> QED
            BY <1>3, <2>3, <3>1, <3>2, <3>3 DEF TaskCall
    <2>4. CASE q # p
        <3>1. Evicted(q) /\ Committed(q) /\ Written(q)' = Written(q) /\ id'[q] = id[q]
              BY <1>3, <2>4, OthersIdle DEF Idles, CallUnchanged, Evicted, Committed, Written
        <3>2. id[q] \in Ids
              BY DEF TypeOK
        <3> QED
            BY <1>1, <1>3, <3>1, <3>2, StoredTask DEF TaskCall
    <2> QED
        BY <2>1, <2>2, <2>3, <2>4
<1>4. ASSUME NEW q \in Procs, op'[q] = "get", pc'[q] = "store"
      PROVE  1 <= Written(q)'
    <2>1. CASE q # p
          BY <1>4, <2>1, OthersIdle DEF Idles, CallUnchanged, TaskCall, Written
    <2>2. CASE q = p /\ ReadTask(p)
        <3>1. id'[p] = id[p] /\ got'[p] = Only(id[p], rows[id[p]]) /\ rows[id[p]].live
              BY <1>4, <2>2 DEF ReadTask, Goto, Finish, Fetch, TypeOK
        <3>2. id[p] \in Ids
              BY DEF TypeOK
        <3> QED
            BY <2>2, <3>1, <3>2 DEF Written, Only
    <2>3. CASE q = p /\ ~ReadTask(p)
        <3>1. op[p] = "get" /\ pc[p] = "store" /\ id'[p] = id[p] /\ got'[p] = got[p]
            <4> USE DEF Goto, Finish, TypeOK, First
            <4>1. CASE Start(p)
                  BY <1>4, <2>3, <4>1 DEF Start
            <4>2. CASE AnswerLost(p) \/ ContextEnds(p) \/ Crash(p)
                  BY <1>4, <2>3, <4>2 DEF AnswerLost, ContextEnds, Crash
            <4>3. CASE Writing(p)
                  BY <1>4, <2>3, <4>3, WriteCommits DEF Writers
            <4>4. CASE Evict(p) \/ Retire(p) \/ AcquireLock(p) \/ Invalidate(p) \/ Release(p)
                  BY <1>4, <2>3, <4>4 DEF Evict, Retire, AcquireLock, Invalidate, Release
            <4>5. CASE LoadTask(p) \/ StoreTask(p)
                  BY <1>4, <2>3, <4>5 DEF LoadTask, StoreTask
            <4>6. CASE ListKey(p) \/ LoadPage(p) \/ ReadPage(p) \/ StorePage(p)
                  BY <1>4, <2>3, <4>6 DEF ListKey, LoadPage, ReadPage, StorePage
            <4>7. CASE LoadCount(p) \/ RecheckCount(p) \/ ReadCount(p) \/ SetCount(p)
                  BY <1>4, <2>3, <4>7 DEF LoadCount, RecheckCount, ReadCount, SetCount
            <4> QED
                BY <2>3, <4>1, <4>2, <4>3, <4>4, <4>5, <4>6, <4>7 DEF Acts, Step, Writing
        <3> QED
            BY <2>3, <3>1 DEF TaskCall, Written
    <2> QED
        BY <2>1, <2>2, <2>3
<1> QED
    BY <1>2, <1>3, <1>4, LiveRows DEF TaskCall

-----------------------------------------------------------------------------
(* CountInv.                                                               *)

LEMMA LockChanges ==
    ASSUME NEW p \in Procs, Acts(p)
    PROVE  \/ lock' = lock
           \/ lock = {} /\ lock' = {p}
           \/ pc[p] = "release" /\ lock' = lock \ {p}
<1>1. CASE Start(p) \/ ContextEnds(p) \/ Crash(p)
      BY <1>1 DEF Start, ContextEnds, Crash, redis
<1>2. CASE AnswerLost(p)
      BY <1>2 DEF AnswerLost, ResentGeneration, ResentLock, ResentValue
<1>3. CASE Step(p)
      BY <1>3 DEF Step, Create, Update, Delete, Evict, Retire, AcquireLock, Invalidate, Release,
             OwnTokenOnly, LoadTask, ReadTask, StoreTask, ListKey, LoadPage, ReadPage, StorePage,
             LoadCount, RecheckCount, ReadCount, SetCount, redis
<1> QED
    BY <1>1, <1>2, <1>3 DEF Acts

\* Who counts has taken the lock, or counted before.
LEMMA CountingBegins ==
    ASSUME TypeOK, NEW p \in Procs, Control(p), Acts(p), Counting(p)'
    PROVE  Counting(p) \/ (pc[p] = "lock" /\ lock = {} /\ lock' = {p})
<1> USE DEF Goto, Finish, TypeOK, Counting, Live, Control, Writers
<1>1. CASE Start(p)
      BY <1>1 DEF Start, First
<1>2. CASE ContextEnds(p) \/ Crash(p) \/ AnswerLost(p)
      BY <1>2 DEF ContextEnds, Crash, AnswerLost
<1>3. CASE Writing(p)
      BY <1>3, WriteCommits
<1>4. CASE Evict(p) \/ Retire(p) \/ Invalidate(p) \/ Release(p)
      BY <1>4 DEF Evict, Retire, Invalidate, Release
<1>5. CASE AcquireLock(p)
      BY <1>5 DEF AcquireLock
<1>6. CASE LoadTask(p) \/ ReadTask(p) \/ StoreTask(p)
      BY <1>6 DEF LoadTask, ReadTask, StoreTask
<1>7. CASE ListKey(p) \/ LoadPage(p) \/ ReadPage(p) \/ StorePage(p)
      BY <1>7 DEF ListKey, LoadPage, ReadPage, StorePage
<1>8. CASE LoadCount(p) \/ RecheckCount(p) \/ ReadCount(p) \/ SetCount(p)
      BY <1>8 DEF LoadCount, RecheckCount, ReadCount, SetCount
<1> QED
    BY <1>1, <1>2, <1>3, <1>4, <1>5, <1>6, <1>7, <1>8 DEF Acts, Step, Writing

LEMMA LockStep ==
    ASSUME TypeOK, WriteInv, LockInv, NEW p \in Procs, Acts(p)
    PROVE  LockInv'
<1> SUFFICES ASSUME NEW q \in Procs, Counting(q)'
             PROVE  lock' = {q}
    BY DEF LockInv
<1>1. CASE Counting(q)
    <2>1. lock = {q}
          BY <1>1 DEF LockInv
    <2>2. pc[q] # "release"
          BY <1>1 DEF Counting
    <2> QED
        BY <2>1, <2>2, LockChanges
<1>2. CASE ~Counting(q)
    <2>1. q = p
          BY <1>2, OthersIdle DEF Idles, CallUnchanged, Counting, Live
    <2> QED
        BY <1>2, <2>1, CountingBegins DEF WriteInv
<1> QED
    BY <1>1, <1>2

\* What is about to be cached has just been read, or was about to be cached.
LEMMA CachingBegins ==
    ASSUME TypeOK, WriteInv, NEW p \in Procs, Acts(p), NEW q \in Procs, Caching(q)'
    PROVE  got'[q] = rows \/ (Caching(q) /\ got'[q] = got[q])
<1> USE DEF Goto, Finish, TypeOK, Caching, Counting, Live, Writers
<1>1. CASE q # p
      BY <1>1, OthersIdle DEF Idles, CallUnchanged
<1>2. CASE q = p /\ (Start(p) \/ ContextEnds(p) \/ Crash(p) \/ AnswerLost(p))
      BY <1>2 DEF Start, First, ContextEnds, Crash, AnswerLost
<1>3. CASE q = p /\ Writing(p)
      BY <1>3, WriteCommits
<1>4. CASE q = p /\ (Evict(p) \/ Retire(p) \/ AcquireLock(p) \/ Invalidate(p) \/ Release(p))
      BY <1>4 DEF Evict, Retire, AcquireLock, Invalidate, Release
<1>5. CASE q = p /\ (LoadTask(p) \/ ReadTask(p) \/ StoreTask(p))
      BY <1>5 DEF LoadTask, ReadTask, StoreTask
<1>6. CASE q = p /\ (ListKey(p) \/ LoadPage(p) \/ ReadPage(p) \/ StorePage(p))
      BY <1>6 DEF ListKey, LoadPage, ReadPage, StorePage
<1>7. CASE q = p /\ (LoadCount(p) \/ RecheckCount(p) \/ SetCount(p))
      BY <1>7 DEF LoadCount, RecheckCount, SetCount
<1>8. CASE q = p /\ ReadCount(p)
      BY <1>8 DEF ReadCount, Fetch
<1> QED
    BY <1>1, <1>2, <1>3, <1>4, <1>5, <1>6, <1>7, <1>8 DEF Acts, Step, Writing

LEMMA CountChanges ==
    ASSUME TypeOK, NEW p \in Procs, Control(p), Acts(p)
    PROVE  \/ count' \subseteq count
           \/ count' = {got[p]} /\ Caching(p) /\ acked' = acked
<1> USE DEF Control, Caching, Counting
<1>1. CASE Start(p) \/ ContextEnds(p) \/ Crash(p)
      BY <1>1 DEF Start, ContextEnds, Crash, redis
<1>2. CASE AnswerLost(p)
      BY <1>2 DEF AnswerLost, ResentGeneration, ResentLock, ResentValue
<1>3. CASE SetCount(p)
      BY <1>3 DEF SetCount, history
<1>4. CASE Step(p) /\ ~SetCount(p)
      BY <1>4 DEF Step, Create, Update, Delete, Evict, Retire, AcquireLock, Invalidate, Release,
             LoadTask, ReadTask, StoreTask, ListKey, LoadPage, ReadPage, StorePage, LoadCount,
             RecheckCount, ReadCount, redis
<1> QED
    BY <1>1, <1>2, <1>3, <1>4 DEF Acts

\* A write that is acknowledged to the counts has deleted the cached one.
LEMMA CountAcknowledges ==
    ASSUME TypeOK, NEW p \in Procs, Acknowledges(p), NEW i \in Ids
    PROVE  \/ acked'["count"][i] = acked["count"][i]
           \/ /\ op[p] \in Writers /\ pc[p] = "release" /\ "count" \notin warned[p]
              /\ i = id[p] /\ acked'["count"][i] = Written(p)
<1>1. \/ acked'["count"][i] = acked["count"][i]
      \/ /\ "count" \in Serves(op[p]) \ warned'[p]
         /\ i = id[p] /\ acked'["count"][i] = Written(p)
      BY Raised DEF Acknowledges, Readers
<1> QED
    BY <1>1 DEF Acknowledges, Serves

\* What reflects the acknowledged writes does so after a step, unless the step
\* acknowledges one that it misses.
LEMMA StillReflects ==
    ASSUME TypeOK, WriteInv, NEW p \in Procs, Acts(p), NEW t, Reflects(t, acked["count"]),
           (op[p] \in Writers /\ pc[p] = "release" /\ "count" \notin warned[p])
               => Written(p) <= t[id[p]].ver
    PROVE  Reflects(t, acked'["count"])
<1>1. CASE acked' = acked
      BY <1>1
<1>2. CASE Acknowledges(p)
      BY <1>2, CountAcknowledges DEF Reflects
<1> QED
    BY <1>1, <1>2, Acknowledgments DEF WriteInv

LEMMA CountStoreStep ==
    ASSUME TypeOK, WriteInv, CountInv, NEW p \in Procs, Acts(p)
    PROVE  CountStore'
<1>1. Control(p) /\ "count" \in Readers
      BY DEF WriteInv, Readers
<1>2. ASSUME NEW q \in Procs, Caching(q)
      PROVE  Reflects(got[q], acked'["count"])
      BY <1>2, StillReflects DEF CountInv, CountStore, CountWrite, Excluded
<1>3. ASSUME NEW t \in count
      PROVE  Reflects(t, acked'["count"])
      BY <1>3, StillReflects DEF CountInv, CountStore, CountWrite
<1>4. ASSUME NEW t \in count'
      PROVE  Reflects(t, acked'["count"])
      BY <1>1, <1>2, <1>3, <1>4, CountChanges
<1>5. ASSUME NEW q \in Procs, Caching(q)'
      PROVE  Reflects(got'[q], acked'["count"])
    <2>1. Reflects(rows, acked'["count"])
          BY <1>1, StillReflects DEF WriteInv, Committed
    <2> QED
        BY <1>2, <1>5, <2>1, CachingBegins
<1> QED
    BY <1>4, <1>5 DEF CountStore

\* A count that begins, or goes on, beside a write that holds off the counts
\* does not miss the write.
LEMMA StillExcluded ==
    ASSUME TypeOK, WriteInv, LockInv, NEW p \in Procs, Acts(p), NEW q \in Procs, Committed(q),
           Excluded(q) \/ lock = {}
    PROVE  \A r \in Procs : Caching(r)' => Written(q) <= got'[r][id[q]].ver
<1> SUFFICES ASSUME NEW r \in Procs, Caching(r)'
             PROVE  Written(q) <= got'[r][id[q]].ver
    OBVIOUS
<1>1. Written(q) <= rows[id[q]].ver
      BY DEF WriteInv
<1>2. Caching(r) => lock # {}
      BY DEF LockInv, Caching
<1> QED
    BY <1>1, <1>2, CachingBegins DEF Excluded

\* A write that can delete the count has just taken the lock; one that has
\* deleted it has no count left to see.
LEMMA InvalidateBegins ==
    ASSUME TypeOK, NEW p \in Procs, Control(p), Acts(p), op'[p] \in Writers, ~Writing(p),
           pc'[p] = "invalidate" \/ (pc'[p] = "release" /\ "count" \notin warned'[p])
    PROVE  \/ pc[p] = "lock" /\ lock = {} /\ pc'[p] = "invalidate"
           \/ pc[p] = "invalidate" /\ (pc'[p] = "release" => count' = {})
           \/ pc[p] = "release" /\ pc'[p] = "release" /\ "count" \notin warned[p]
<1> USE DEF Goto, Finish, Warn, TypeOK, Writers, Control
<1>1. CASE Start(p)
      BY <1>1, OpsAssumption DEF Start, First, Readers
<1>2. CASE ContextEnds(p) \/ Crash(p) \/ AnswerLost(p)
      BY <1>2 DEF ContextEnds, Crash, AnswerLost
<1>3. CASE Evict(p) \/ Retire(p) \/ Release(p)
      BY <1>3 DEF Evict, Retire, Release
<1>4. CASE AcquireLock(p)
      BY <1>4 DEF AcquireLock
<1>5. CASE Invalidate(p)
      BY <1>5 DEF Invalidate
<1>6. CASE LoadTask(p) \/ ReadTask(p) \/ StoreTask(p)
      BY <1>6 DEF LoadTask, ReadTask, StoreTask
<1>7. CASE ListKey(p) \/ LoadPage(p) \/ ReadPage(p) \/ StorePage(p)
      BY <1>7 DEF ListKey, LoadPage, ReadPage, StorePage
<1>8. CASE LoadCount(p) \/ RecheckCount(p) \/ ReadCount(p) \/ SetCount(p)
      BY <1>8 DEF LoadCount, RecheckCount, ReadCount, SetCount
<1> QED
    BY <1>1, <1>2, <1>3, <1>4, <1>5, <1>6, <1>7, <1>8 DEF Acts, Step, Writing

LEMMA CountWriteStep ==
    ASSUME TypeOK, WriteInv, CountInv, NEW p \in Procs, Acts(p), NEW q \in Procs
    PROVE  CountWrite(q)'
<1> SUFFICES ASSUME op'[q] \in Writers,
                    pc'[q] = "invalidate" \/ (pc'[q] = "release" /\ "count" \notin warned'[q])
             PROVE  /\ Excluded(q)'
                    /\ pc'[q] = "release" => \A t \in count' : Written(q)' <= t[id'[q]].ver
    BY DEF CountWrite
<1>1. Control(p) /\ CountWrite(q) /\ LockInv
      BY DEF WriteInv, CountInv
<1>2. Committed(q)'
      BY DEF Committed
<1>3. ~(q = p /\ Writing(p))
      BY <1>2, WrittenPlaced
<1>4. /\ op'[q] = op[q] /\ id'[q] = id[q] /\ got'[q] = got[q]
      /\ \/ pc[q] = "lock" /\ lock = {} /\ pc'[q] = "invalidate"
         \/ pc[q] = "invalidate" /\ (pc'[q] = "release" => count' = {})
         \/ pc[q] = "release" /\ pc'[q] = "release" /\ "count" \notin warned[q]
    <2>1. CASE q = p
          BY <1>1, <1>2, <1>3, <2>1, WrittenStays, InvalidateBegins
    <2>2. CASE q # p
          BY <2>2, OthersIdle DEF Idles, CallUnchanged
    <2> QED
        BY <2>1, <2>2
<1>5. Committed(q) /\ Written(q)' = Written(q)
      BY <1>4 DEF Committed, Written
<1>6. Excluded(q) \/ lock = {}
      BY <1>1, <1>4, <1>5 DEF CountWrite, Committed
<1>7. Excluded(q)'
      BY <1>1, <1>4, <1>5, <1>6, StillExcluded DEF Excluded
<1>8. ASSUME pc'[q] = "release", NEW t \in count'
      PROVE  Written(q) <= t[id[q]].ver
    <2>1. pc[q] = "release" /\ "count" \notin warned[q]
          BY <1>4, <1>8
    <2>2. Excluded(q) /\ \A s \in count : Written(q) <= s[id[q]].ver
          BY <1>1, <1>5, <2>1 DEF CountWrite, Committed
    <2> QED
        BY <1>1, <1>8, <2>2, CountChanges DEF Excluded
<1> QED
    BY <1>4, <1>5, <1>7, <1>8

\* A count has its answer from the table, from the cache, or had it before.
LEMMA CountAnswers ==
    ASSUME TypeOK, NEW p \in Procs, Control(p), Acts(p), ~Start(p), op'[p] = "count",
           pc'[p] \in {"set", "release", "idle"}, res'[p] = "ok"
    PROVE  \/ got'[p] = rows
           \/ got'[p] \in count
           \/ pc[p] \in {"set", "release", "idle"} /\ res[p] = "ok" /\ got'[p] = got[p]
<1> USE DEF Goto, Finish, Result, Fetch, TypeOK, Writers, Control
<1>1. CASE ContextEnds(p) \/ Crash(p)
      BY <1>1 DEF ContextEnds, Crash
<1>2. CASE AnswerLost(p)
      BY <1>2 DEF AnswerLost
<1>3. CASE Writing(p)
      BY <1>3, WriteCommits
<1>4. CASE Evict(p) \/ Retire(p) \/ AcquireLock(p) \/ Invalidate(p) \/ Release(p)
      BY <1>4 DEF Evict, Retire, AcquireLock, Invalidate, Release
<1>5. CASE LoadTask(p) \/ ReadTask(p) \/ StoreTask(p)
      BY <1>5 DEF LoadTask, ReadTask, StoreTask
<1>6. CASE ListKey(p) \/ LoadPage(p) \/ ReadPage(p) \/ StorePage(p)
      BY <1>6 DEF ListKey, LoadPage, ReadPage, StorePage
<1>7. CASE LoadCount(p) \/ RecheckCount(p)
      BY <1>7 DEF LoadCount, RecheckCount
<1>8. CASE ReadCount(p) \/ SetCount(p)
      BY <1>8 DEF ReadCount, SetCount
<1> QED
    BY <1>1, <1>2, <1>3, <1>4, <1>5, <1>6, <1>7, <1>8 DEF Acts, Step, Writing

\* Acknowledgments are never taken back, and only a call that starts looks.
LEMMA AckedGrows ==
    ASSUME TypeOK, NEW p \in Procs, Control(p), Acts(p)
    PROVE  \A r \in Readers, i \in Ids : acked[r][i] <= acked'[r][i]
<1>1. \A r \in Readers, i \in Ids : acked[r][i] \in Nat
      BY DEF TypeOK, Versions
<1>2. CASE acked' = acked
      BY <1>1, <1>2
<1>3. CASE Acknowledges(p)
      BY <1>3, Raised DEF Acknowledges
<1> QED
    BY <1>2, <1>3, Acknowledgments

LEMMA SinceStays ==
    ASSUME NEW p \in Procs, Acts(p), ~Start(p)
    PROVE  since' = since
BY DEF Acts, Step, AnswerLost, ContextEnds, Crash, Create, Update, Delete, Evict, Retire,
       AcquireLock, Invalidate, Release, LoadTask, ReadTask, StoreTask, ListKey, LoadPage,
       ReadPage, StorePage, LoadCount, RecheckCount, ReadCount, SetCount

LEMMA OpStays ==
    ASSUME NEW p \in Procs, Acts(p), ~Start(p)
    PROVE  op' = op
BY DEF Acts, Step, AnswerLost, ContextEnds, Crash, Create, Update, Delete, Evict, Retire,
       AcquireLock, Invalidate, Release, LoadTask, ReadTask, StoreTask, ListKey, LoadPage,
       ReadPage, StorePage, LoadCount, RecheckCount, ReadCount, SetCount

LEMMA CountReadStep ==
    ASSUME TypeOK, TypeOK', WriteInv, CountInv, NEW p \in Procs, Acts(p), NEW q \in Procs
    PROVE  CountRead(q)'
<1> SUFFICES ASSUME op'[q] = "count"
             PROVE  /\ \A i \in Ids : since'[q][i] <= acked'["count"][i]
                    /\ pc'[q] \in {"set", "release", "idle"} /\ res'[q] = "ok"
                           => Reflects(got'[q], since'[q])
    BY DEF CountRead
<1>0. Control(p) /\ "count" \in Readers /\ CountRead(q)
      BY DEF WriteInv, Readers, CountInv
<1>1. /\ \A i \in Ids : since[q][i] \in Nat /\ acked["count"][i] \in Nat
      /\ \A i \in Ids : acked'["count"][i] \in Nat
      BY <1>0 DEF TypeOK, Versions
<1>2. \A i \in Ids : acked["count"][i] <= acked'["count"][i]
      BY <1>0, AckedGrows
<1>3. CASE q # p
    <2>1. /\ op[q] = "count" /\ pc'[q] = pc[q] /\ res'[q] = res[q] /\ got'[q] = got[q]
          /\ since'[q] = since[q]
          BY <1>3, OthersIdle DEF Idles, CallUnchanged
    <2> QED
        BY <1>0, <1>1, <1>2, <2>1 DEF CountRead
<1>4. CASE q = p /\ Start(p)
    <2>1. since'[p] = acked["count"] /\ res'[p] = "none" /\ acked' = acked
          BY <1>4 DEF Start, Result, history, Readers, TypeOK
    <2> QED
        BY <1>1, <1>4, <2>1
<1>5. CASE q = p /\ ~Start(p)
    <2>1. op[p] = "count" /\ since' = since
          BY <1>5, OpStays, SinceStays
    <2>2. \A i \in Ids : since[p][i] <= acked["count"][i]
          BY <1>0, <1>5, <2>1 DEF CountRead
    <2>3. \A i \in Ids : since[p][i] <= acked'["count"][i]
          BY <1>1, <1>2, <1>5, <2>2
    <2>4. ASSUME NEW t \in Table, Reflects(t, acked["count"])
          PROVE  Reflects(t, since[p])
          BY <1>1, <1>5, <2>2, <2>4 DEF Reflects, Table, Row
    <2>5. Reflects(rows, acked["count"]) /\ \A t \in count : Reflects(t, acked["count"])
          BY <1>0 DEF WriteInv, CountInv, CountStore
    <2>6. rows \in Table /\ count \subseteq Table
          BY DEF TypeOK
    <2>7. ASSUME pc'[p] \in {"set", "release", "idle"}, res'[p] = "ok"
          PROVE  Reflects(got'[p], since[p])
        <3>1. CASE got'[p] = rows \/ got'[p] \in count
              BY <2>4, <2>5, <2>6, <3>1
        <3>2. CASE pc[p] \in {"set", "release", "idle"} /\ res[p] = "ok" /\ got'[p] = got[p]
              BY <1>0, <1>5, <2>1, <3>2 DEF CountRead
        <3> QED
            BY <1>0, <1>5, <2>7, <3>1, <3>2, CountAnswers
    <2> QED
        BY <1>5, <2>1, <2>3, <2>7
<1> QED
    BY <1>3, <1>4, <1>5

LEMMA CountStep ==
    ASSUME TypeOK, TypeOK', WriteInv, CountInv, NEW p \in Procs, Acts(p)
    PROVE  CountInv'
BY LockStep, CountStoreStep, CountWriteStep, CountReadStep DEF CountInv

-----------------------------------------------------------------------------
(* The environment, and the initial states.                                *)

\* A key that expires takes its value with it, and the calls see nothing.
LEMMA ExpiryTakes ==
    ASSUME TypeOK, Expiry \/ UNCHANGED vars
    PROVE  /\ UNCHANGED <<rows, op, pc, id, got, res, gone, warned, since, acked>>
           /\ \A i \in Ids : task'[i] \subseteq task[i]
           /\ count' \subseteq count
           /\ lock' = lock \/ LockEvictable \/ \A p \in lock : ~Counting(p)
<1>1. CASE Expiry
      BY <1>1 DEF Expiry, DropTask, DropPage, DropGeneration, DropCount, DropLock, TypeOK, history
<1>2. CASE UNCHANGED vars
      BY <1>2 DEF vars, redis, history
<1> QED
    BY <1>1, <1>2

LEMMA ExpiryKeepsWrites ==
    ASSUME TypeOK, WriteInv, Expiry \/ UNCHANGED vars
    PROVE  WriteInv'
BY ExpiryTakes DEF WriteInv, Control, Committed, Written

LEMMA ExpiryKeepsTasks ==
    ASSUME TypeOK, TaskInv, Expiry \/ UNCHANGED vars
    PROVE  TaskInv'
<1> USE ExpiryTakes DEF TaskInv
<1>1. TaskStore'
      BY DEF TaskStore
<1>2. ASSUME NEW p \in Procs
      PROVE  TaskCall(p)'
    <2>1. id[p] \in Ids
          BY DEF TypeOK
    <2> QED
        BY <2>1 DEF TaskCall, Evicted, Written
<1> QED
    BY <1>1, <1>2

LEMMA ExpiryKeepsCounts ==
    ASSUME ~LockEvictable, TypeOK, CountInv, Expiry \/ UNCHANGED vars
    PROVE  CountInv'
<1> USE ExpiryTakes DEF CountInv
<1>1. \A p \in Procs : Counting(p)' = Counting(p) /\ Caching(p)' = Caching(p)
      BY DEF Counting, Caching, Live
<1>2. LockInv'
      BY <1>1 DEF LockInv
<1>3. CountStore'
      BY <1>1 DEF CountStore
<1>4. ASSUME NEW p \in Procs
      PROVE  CountWrite(p)' /\ CountRead(p)'
      BY <1>1 DEF CountWrite, CountRead, Excluded, Written
<1> QED
    BY <1>2, <1>3, <1>4

LEMMA InitCorrect == Init => WriteInv /\ TaskInv /\ CountInv
<1> SUFFICES ASSUME Init
             PROVE  WriteInv /\ TaskInv /\ CountInv
    OBVIOUS
<1>1. \A p \in Procs : pc[p] = "idle" /\ op[p] = "list" /\ ~Committed(p) /\ ~Counting(p)
      BY DEF Init, Committed, Counting, Writers
<1>2. TypeOK
      BY TypeInit
<1>3. \A i \in Ids : rows[i].ver \in Nat /\ (rows[i].live => 1 <= rows[i].ver)
      BY DEF Init, Absent
<1>4. \A r \in Readers, i \in Ids : acked[r][i] = 0
      BY DEF Init, None
<1>5. WriteInv
      BY <1>1, <1>3, <1>4 DEF WriteInv, Control, Reflects
<1>6. TaskInv
      BY <1>1, <1>3 DEF TaskInv, TaskStore, TaskCall, Evicted, Init, Writers
<1>7. CountInv
      BY <1>1 DEF CountInv, LockInv, CountStore, Caching, CountWrite, CountRead, Init, Writers
<1> QED
    BY <1>5, <1>6, <1>7

-----------------------------------------------------------------------------
(* The theorems.                                                           *)

LEMMA NextTasks == TypeOK /\ TypeOK' /\ WriteInv /\ TaskInv /\ [Next]_vars => WriteInv' /\ TaskInv'
<1>1. [Next]_vars => (\E p \in Procs : Acts(p)) \/ Expiry \/ UNCHANGED vars
      BY DEF Next, Acts
<1> QED
    BY <1>1, WriteStep, TaskStep, ExpiryKeepsWrites, ExpiryKeepsTasks

LEMMA NextCounts ==
    ASSUME ~LockEvictable
    PROVE  TypeOK /\ TypeOK' /\ WriteInv /\ CountInv /\ [Next]_vars => CountInv'
<1>1. [Next]_vars => (\E p \in Procs : Acts(p)) \/ Expiry \/ UNCHANGED vars
      BY DEF Next, Acts
<1> QED
    BY <1>1, CountStep, ExpiryKeepsCounts

\* Whatever fails, is sent again or dies: WriteInv and TaskInv always hold.
LEMMA TasksInvariant == Spec => [](WriteInv /\ TaskInv)
BY InitCorrect, NextTasks, TypeCorrect, PTL DEF Spec

\* A cached task that misses a write acknowledged by Update or Delete was out
\* of date when GetByID stored it: what was cached fresh, the write evicts.
THEOREM TasksCorrect == Spec => []StaleTaskWasStoredLate
<1>1. TypeOK /\ TaskInv => StaleTaskWasStoredLate
    <2> SUFFICES ASSUME TypeOK, TaskInv, NEW i \in Ids, NEW e \in task[i],
                        e.row.ver < acked["get"][i]
                 PROVE  e.late
        BY DEF StaleTaskWasStoredLate
    <2>1. e.row.ver \in Nat /\ acked["get"][i] \in Nat
          BY DEF TypeOK, Entry, Row, Versions, Readers
    <2> QED
        BY <2>1 DEF TaskInv, TaskStore
<1> QED
    BY <1>1, TasksInvariant, TypeCorrect, PTL

LEMMA CountsInvariant ==
    ASSUME ~LockEvictable
    PROVE  Spec => []CountInv
BY InitCorrect, NextCounts, TasksInvariant, TypeCorrect, PTL DEF Spec

\* As long as Redis keeps the lock key for its TTL, two counts are never
\* between taking the lock and setting the count with live contexts.
THEOREM CountsTakeTurns ==
    ASSUME ~LockEvictable
    PROVE  Spec => []OneCounterAtATime
<1>1. CountInv => OneCounterAtATime
      BY DEF CountInv, LockInv, OneCounterAtATime
<1> QED
    BY <1>1, CountsInvariant, PTL

\* As long as Redis keeps the lock key for its TTL, a count that starts after
\* a create or a delete was acknowledged does not miss it: invalidateCount
\* deletes the cached count under the lock that every count caches under.
THEOREM CountsCorrect ==
    ASSUME ~LockEvictable
    PROVE  Spec => []CountsSeeAckedWrites
<1>1. CountInv => CountsSeeAckedWrites
      BY DEF CountInv, CountRead, CountsSeeAckedWrites, Returned
<1> QED
    BY <1>1, CountsInvariant, PTL

=============================================================================
