-------------------------- MODULE RedisTaskProofs --------------------------
(***************************************************************************)
(* Proofs about RedisTask, for any ids, goroutines, faults and bounds.     *)
(*                                                                         *)
(* First the types.  Then the cached lists, which never miss an            *)
(* acknowledged write: ListInv is inductive for a client that sends a      *)
(* command once, and implies ListsSeeAckedWrites.                          *)
(***************************************************************************)
EXTENDS RedisTask, SequenceTheorems, TLAPS

-----------------------------------------------------------------------------
(* Types.                                                                  *)

\* The statements of Postgres turn tables into tables.
LEMMA StatementTypes ==
    ASSUME NEW t \in Table, NEW i \in Ids
    PROVE  /\ Only(i, t[i]) \in Table
           /\ Inserted(t, i) \in Table /\ Updated(t, i) \in Table /\ Deleted(t, i) \in Table
BY DEF Table, Row, Only, Absent, Inserted, Updated, Deleted

LEMMA EmptyTypes == NoRows \in Table /\ None \in Versions
BY DEF NoRows, Absent, Table, Row, None, Versions

LEMMA TypeInit == Init => TypeOK
<1> SUFFICES ASSUME Init
             PROVE  TypeOK
    OBVIOUS
<1> USE DEF Init
<1>1. rows \in Table
    <2>1. Absent \in Row /\ [ver |-> 1, live |-> TRUE] \in Row
          BY DEF Row, Absent
    <2> QED
        BY <2>1 DEF Table
<1>2. /\ task \in [Ids -> SUBSET Entry] /\ gen \in Nat
      /\ pages \subseteq Page /\ count \subseteq Table /\ lock \subseteq Procs
      OBVIOUS
<1>3. op \in [Procs -> Writers \cup Readers] /\ pc \in [Procs -> Labels]
      BY DEF Writers, Readers, Labels
<1>4. id \in [Procs -> Ids] /\ key \in [Procs -> Nat]
      OBVIOUS
<1>5. res \in [Procs -> {"none", "ok", "err"}]
      OBVIOUS
<1>6. gone \in [Procs -> BOOLEAN] /\ warned \in [Procs -> SUBSET Readers]
      OBVIOUS
<1>7. /\ got \in [Procs -> Table] /\ since \in [Procs -> Versions]
      /\ acked \in [Readers -> Versions] /\ born \in Seq(Table)
      BY EmptyTypes
<1> QED
    BY ONLY <1>1, <1>2, <1>3, <1>4, <1>5, <1>6, <1>7 DEF TypeOK

\* A write's acknowledgment keeps the histories well-typed.
LEMMA AcknowledgeType ==
    ASSUME TypeOK, NEW p \in Procs, NEW w, Acknowledge(p, w)
    PROVE  acked' \in [Readers -> Versions]
BY DEF TypeOK, Acknowledge, Versions, Table, Row

LEMMA DrawType ==
    ASSUME TypeOK, NEW p \in Procs, Draw(p)
    PROVE  gen' \in Nat /\ born' \in Seq(Table)
<1>1. CASE NewGeneration
      BY <1>1 DEF TypeOK, NewGeneration
<1>2. CASE gen' = key[p] /\ UNCHANGED born
      BY <1>2 DEF TypeOK
<1> QED
    BY <1>1, <1>2 DEF Draw

LEMMA WarnType ==
    ASSUME TypeOK, NEW p \in Procs, NEW w \in SUBSET Readers, Warn(p, w)
    PROVE  warned' \in [Procs -> SUBSET Readers]
BY DEF TypeOK, Warn

\* The row of a cached entry makes a table of one row.
LEMMA EntryType ==
    ASSUME TypeOK, NEW i \in Ids, NEW e \in task[i]
    PROVE  Only(i, e.row) \in Table
BY DEF TypeOK, Entry, Only, Absent, Table, Row

\* What goroutines store is typed.
LEMMA PutTypes ==
    ASSUME TypeOK, NEW p \in Procs
    PROVE  /\ PutTask(p) => task' \in [Ids -> SUBSET Entry]
           /\ PutPage(p) => pages' \subseteq Page
<1>1. CachedTask(p) \in Entry
      BY DEF TypeOK, CachedTask, Entry, Table
<1>2. PutTask(p) => task' \in [Ids -> SUBSET Entry]
      BY <1>1 DEF TypeOK, PutTask
<1>3. PutPage(p) => pages' \subseteq Page
      BY DEF TypeOK, PutPage, Hit, Page
<1> QED
    BY <1>2, <1>3

LEMMA TypeStep == TypeOK /\ [Next]_vars => TypeOK'
<1> SUFFICES ASSUME TypeOK, [Next]_vars
             PROVE  TypeOK'
    OBVIOUS
<1> USE DEF TypeOK, redis, history, Goto, Result, Fetch, Warn, Finish
<1>1. ASSUME NEW p \in Procs, Start(p)
      PROVE  TypeOK'
    <2> USE DEF Start
    <2>1. op' \in [Procs -> Writers \cup Readers]
         BY <1>1, OpsAssumption DEF Readers, Writers
    <2>2. pc' \in [Procs -> Labels]
         BY <1>1 DEF First, Labels
    <2>3. /\ id' \in [Procs -> Ids]
         /\ key' \in [Procs -> Nat]
         /\ res' \in [Procs -> {"none", "ok", "err"}]
         /\ gone' \in [Procs -> BOOLEAN]
         /\ warned' \in [Procs -> SUBSET Readers]
         BY <1>1
    <2>4. got' \in [Procs -> Table] /\ since' \in [Procs -> Versions]
         BY <1>1, EmptyTypes DEF Readers
    <2>5. UNCHANGED <<rows, task, gen, pages, count, lock, born, acked>>
         BY <1>1
    <2> QED
        BY ONLY TypeOK, <2>1, <2>2, <2>3, <2>4, <2>5 DEF TypeOK
<1>2. ASSUME NEW p \in Procs, Create(p)
      PROVE  TypeOK'
    <2> USE DEF Create, Commit, WriteFails, AfterCommit
    <2>1. pc' \in [Procs -> Labels] /\ res' \in [Procs -> {"none", "ok", "err"}]
         BY <1>2 DEF Labels
    <2>2. rows' \in Table /\ id' \in [Procs -> Ids] /\ got' \in [Procs -> Table]
        <3>1. CASE UNCHANGED <<rows, id, got>>
              BY <3>1
        <3>2. CASE \E i \in Ids : Commit(p, i, Inserted(rows, i))
            <4>1. PICK i \in Ids : Commit(p, i, Inserted(rows, i))
                  BY <3>2
            <4>2. Inserted(rows, i) \in Table
                  BY StatementTypes
            <4>3. Only(i, Inserted(rows, i)[i]) \in Table
                  BY <4>2, StatementTypes
            <4> QED
                BY <4>1, <4>2, <4>3
        <3> QED
            BY <1>2, <3>1, <3>2
    <2>3. UNCHANGED <<task, gen, pages, count, lock, op, key, gone, warned,
                       born, acked, since>>
         BY <1>2
    <2> QED
        BY ONLY TypeOK, <2>1, <2>2, <2>3 DEF TypeOK
<1>3. ASSUME NEW p \in Procs, Update(p)
      PROVE  TypeOK'
    <2> USE DEF Update, Commit, WriteFails, AfterCommit
    <2>1. pc' \in [Procs -> Labels] /\ res' \in [Procs -> {"none", "ok", "err"}]
         BY <1>3 DEF Labels
    <2>2. rows' \in Table /\ id' \in [Procs -> Ids] /\ got' \in [Procs -> Table]
        <3>1. CASE UNCHANGED <<rows, id, got>>
              BY <3>1
        <3>2. CASE \E i \in Ids : Commit(p, i, Updated(rows, i))
            <4>1. PICK i \in Ids : Commit(p, i, Updated(rows, i))
                  BY <3>2
            <4>2. Updated(rows, i) \in Table
                  BY StatementTypes
            <4>3. Only(i, Updated(rows, i)[i]) \in Table
                  BY <4>2, StatementTypes
            <4> QED
                BY <4>1, <4>2, <4>3
        <3> QED
            BY <1>3, <3>1, <3>2
    <2>3. UNCHANGED <<task, gen, pages, count, lock, op, key, gone, warned,
                       born, acked, since>>
         BY <1>3
    <2> QED
        BY ONLY TypeOK, <2>1, <2>2, <2>3 DEF TypeOK
<1>4. ASSUME NEW p \in Procs, Delete(p)
      PROVE  TypeOK'
    <2> USE DEF Delete, Commit, WriteFails, AfterCommit
    <2>1. pc' \in [Procs -> Labels] /\ res' \in [Procs -> {"none", "ok", "err"}]
         BY <1>4 DEF Labels
    <2>2. rows' \in Table /\ id' \in [Procs -> Ids] /\ got' \in [Procs -> Table]
        <3>1. CASE UNCHANGED <<rows, id, got>>
              BY <3>1
        <3>2. CASE \E i \in Ids : Commit(p, i, Deleted(rows, i))
            <4>1. PICK i \in Ids : Commit(p, i, Deleted(rows, i))
                  BY <3>2
            <4>2. Deleted(rows, i) \in Table
                  BY StatementTypes
            <4>3. Only(i, Deleted(rows, i)[i]) \in Table
                  BY <4>2, StatementTypes
            <4> QED
                BY <4>1, <4>2, <4>3
        <3> QED
            BY <1>4, <3>1, <3>2
    <2>3. UNCHANGED <<task, gen, pages, count, lock, op, key, gone, warned,
                       born, acked, since>>
         BY <1>4
    <2> QED
        BY ONLY TypeOK, <2>1, <2>2, <2>3 DEF TypeOK
<1>5. ASSUME NEW p \in Procs, Evict(p)
      PROVE  TypeOK'
    <2> USE DEF Evict
    <2>1. pc' \in [Procs -> Labels]
         BY <1>5 DEF Labels
    <2>2. task' \in [Ids -> SUBSET Entry]
         BY <1>5
    <2>3. warned' \in [Procs -> SUBSET Readers]
         BY <1>5 DEF Readers
    <2>4. UNCHANGED <<rows, gen, pages, count, lock, op, id, key, got, res,
                       gone, born, acked, since>>
         BY <1>5
    <2> QED
        BY ONLY TypeOK, <2>1, <2>2, <2>3, <2>4 DEF TypeOK
<1>6. ASSUME NEW p \in Procs, AnswerLost(p)
      PROVE  TypeOK'
    <2>1. gen' \in Nat /\ born' \in Seq(Table) /\ key' \in [Procs -> Nat]
         BY <1>6, DrawType DEF AnswerLost, ResentGeneration, ResentLock, ResentValue,
                               SetGeneration
    <2>2. task' \in [Ids -> SUBSET Entry] /\ pages' \subseteq Page
         BY <1>6, PutTypes DEF AnswerLost, ResentGeneration, ResentLock, ResentValue
    <2>3. count' \subseteq Table /\ lock' \subseteq Procs
         BY <1>6 DEF AnswerLost, ResentGeneration, ResentLock, ResentValue
    <2>4. UNCHANGED <<rows, op, pc, id, got, res, gone, warned, acked, since>>
         BY <1>6 DEF AnswerLost
    <2> QED
        BY ONLY TypeOK, <2>1, <2>2, <2>3, <2>4 DEF TypeOK
<1>7. ASSUME NEW p \in Procs, Retire(p)
      PROVE  TypeOK'
    <2> USE DEF Retire, SetGeneration
    <2>1. pc' \in [Procs -> Labels] /\ gone' \in [Procs -> BOOLEAN]
         BY <1>7 DEF Labels
    <2>2. warned' \in [Procs -> SUBSET Readers]
        <3>1. UNCHANGED warned \/ Warn(p, {"list"})
              BY <1>7
        <3>2. {"list"} \in SUBSET Readers
              BY DEF Readers
        <3> QED
            BY ONLY <3>1, <3>2, TypeOK, WarnType DEF TypeOK
    <2>3. gen' \in Nat /\ born' \in Seq(Table) /\ key' \in [Procs -> Nat]
         BY <1>7, DrawType
    <2>4. acked' \in [Readers -> Versions]
         BY <1>7, AcknowledgeType
    <2>5. UNCHANGED <<rows, task, pages, count, lock, op, id, got, res, since>>
         BY <1>7
    <2> QED
        BY ONLY TypeOK, <2>1, <2>2, <2>3, <2>4, <2>5 DEF TypeOK
<1>8. ASSUME NEW p \in Procs, AcquireLock(p)
      PROVE  TypeOK'
    <2> USE DEF AcquireLock
    <2>1. pc' \in [Procs -> Labels]
         BY <1>8 DEF Labels
    <2>2. warned' \in [Procs -> SUBSET Readers]
        <3>1. UNCHANGED warned \/ Warn(p, {"count"})
              BY <1>8
        <3>2. {"count"} \in SUBSET Readers
              BY DEF Readers
        <3> QED
            BY ONLY <3>1, <3>2, TypeOK, WarnType DEF TypeOK
    <2>3. lock' \subseteq Procs
        <3>1. lock' = lock \/ lock' = {p}
              BY <1>8
        <3> QED
            BY ONLY <3>1, TypeOK, p \in Procs DEF TypeOK
    <2>4. acked' \in [Readers -> Versions]
         BY <1>8, AcknowledgeType
    <2>5. UNCHANGED <<rows, task, gen, pages, count, op, id, key, got, res,
                       gone, born, since>>
         BY <1>8
    <2> QED
        BY ONLY TypeOK, <2>1, <2>2, <2>3, <2>4, <2>5 DEF TypeOK
<1>9. ASSUME NEW p \in Procs, Invalidate(p)
      PROVE  TypeOK'
    <2> USE DEF Invalidate
    <2>1. pc' \in [Procs -> Labels]
         BY <1>9 DEF Labels
    <2>2. warned' \in [Procs -> SUBSET Readers]
        <3>1. UNCHANGED warned \/ Warn(p, {"count"})
              BY <1>9
        <3>2. {"count"} \in SUBSET Readers
              BY DEF Readers
        <3> QED
            BY ONLY <3>1, <3>2, TypeOK, WarnType DEF TypeOK
    <2>3. count' \subseteq Table
         BY <1>9
    <2>4. UNCHANGED <<rows, task, gen, pages, lock, op, id, key, got, res, gone,
                       born, acked, since>>
         BY <1>9
    <2> QED
        BY ONLY TypeOK, <2>1, <2>2, <2>3, <2>4 DEF TypeOK
<1>10. ASSUME NEW p \in Procs, Release(p)
       PROVE  TypeOK'
    <2> USE DEF Release, OwnTokenOnly
    <2>1. pc' \in [Procs -> Labels] /\ res' \in [Procs -> {"none", "ok", "err"}]
         BY <1>10 DEF Labels
    <2>2. lock' \subseteq Procs
         BY <1>10
    <2>3. acked' \in [Readers -> Versions]
         BY <1>10, AcknowledgeType
    <2>4. UNCHANGED <<rows, task, gen, pages, count, op, id, key, got, gone,
                       warned, born, since>>
         BY <1>10
    <2> QED
        BY ONLY TypeOK, <2>1, <2>2, <2>3, <2>4 DEF TypeOK
<1>11. ASSUME NEW p \in Procs, LoadTask(p)
       PROVE  TypeOK'
    <2> USE DEF LoadTask
    <2>1. pc' \in [Procs -> Labels] /\ res' \in [Procs -> {"none", "ok", "err"}]
         BY <1>11 DEF Labels
    <2>2. got' \in [Procs -> Table]
        <3>1. UNCHANGED got \/ \E e \in task[id[p]] : Fetch(p, Only(id[p], e.row))
              BY <1>11
        <3>2. \A e \in task[id[p]] : Only(id[p], e.row) \in Table
               BY EntryType
        <3> QED
             BY <3>1, <3>2
    <2>3. UNCHANGED <<rows, task, gen, pages, count, lock, op, id, key, gone,
                       warned, born, acked, since>>
         BY <1>11
    <2> QED
        BY ONLY TypeOK, <2>1, <2>2, <2>3 DEF TypeOK
<1>12. ASSUME NEW p \in Procs, ReadTask(p)
       PROVE  TypeOK'
    <2> USE DEF ReadTask
    <2>1. pc' \in [Procs -> Labels] /\ res' \in [Procs -> {"none", "ok", "err"}]
         BY <1>12 DEF Labels
    <2>2. got' \in [Procs -> Table]
        <3>1. UNCHANGED got \/ Fetch(p, Only(id[p], rows[id[p]]))
              BY <1>12
        <3>2. Only(id[p], rows[id[p]]) \in Table
               BY StatementTypes
        <3> QED
             BY <3>1, <3>2
    <2>3. UNCHANGED <<rows, task, gen, pages, count, lock, op, id, key, gone,
                       warned, born, acked, since>>
         BY <1>12
    <2> QED
        BY ONLY TypeOK, <2>1, <2>2, <2>3 DEF TypeOK
<1>13. ASSUME NEW p \in Procs, StoreTask(p)
       PROVE  TypeOK'
    <2> USE DEF StoreTask
    <2>1. pc' \in [Procs -> Labels]
         BY <1>13 DEF Labels
    <2>2. task' \in [Ids -> SUBSET Entry]
         BY <1>13, PutTypes
    <2>3. UNCHANGED <<rows, gen, pages, count, lock, op, id, key, got, res,
                       gone, warned, born, acked, since>>
         BY <1>13
    <2> QED
        BY ONLY TypeOK, <2>1, <2>2, <2>3 DEF TypeOK
<1>14. ASSUME NEW p \in Procs, ListKey(p)
       PROVE  TypeOK'
    <2> USE DEF ListKey
    <2>1. pc' \in [Procs -> Labels]
         BY <1>14 DEF Labels
    <2>2. gen' \in Nat /\ born' \in Seq(Table) /\ key' \in [Procs -> Nat]
        <3>1. gen' \in Nat /\ born' \in Seq(Table)
              BY <1>14, DrawType DEF SetGeneration
        <3>2. \/ key' = [key EXCEPT ![p] = gen]
              \/ key' = [key EXCEPT ![p] = gen']
              \/ key' = [key EXCEPT ![p] = 0]
              BY <1>14 DEF SetGeneration
        <3>3. key \in [Procs -> Nat] /\ gen \in Nat
              OBVIOUS
        <3>4. key' \in [Procs -> Nat]
              BY ONLY <3>1, <3>2, <3>3
        <3> QED
            BY <3>1, <3>4
    <2>3. UNCHANGED <<rows, task, pages, count, lock, op, id, got, res, gone,
                       warned, acked, since>>
         BY <1>14
    <2> QED
        BY ONLY TypeOK, <2>1, <2>2, <2>3 DEF TypeOK
<1>15. ASSUME NEW p \in Procs, LoadPage(p)
       PROVE  TypeOK'
    <2> USE DEF LoadPage
    <2>1. pc' \in [Procs -> Labels] /\ res' \in [Procs -> {"none", "ok", "err"}]
         BY <1>15 DEF Labels
    <2>2. got' \in [Procs -> Table]
         BY <1>15 DEF Hit, Page
    <2>3. UNCHANGED <<rows, task, gen, pages, count, lock, op, id, key, gone,
                       warned, born, acked, since>>
         BY <1>15
    <2> QED
        BY ONLY TypeOK, <2>1, <2>2, <2>3 DEF TypeOK
<1>16. ASSUME NEW p \in Procs, ReadPage(p)
       PROVE  TypeOK'
    <2> USE DEF ReadPage
    <2>1. pc' \in [Procs -> Labels] /\ res' \in [Procs -> {"none", "ok", "err"}]
         BY <1>16 DEF Labels
    <2>2. got' \in [Procs -> Table]
         BY <1>16
    <2>3. UNCHANGED <<rows, task, gen, pages, count, lock, op, id, key, gone,
                       warned, born, acked, since>>
         BY <1>16
    <2> QED
        BY ONLY TypeOK, <2>1, <2>2, <2>3 DEF TypeOK
<1>17. ASSUME NEW p \in Procs, StorePage(p)
       PROVE  TypeOK'
    <2> USE DEF StorePage
    <2>1. pc' \in [Procs -> Labels]
         BY <1>17 DEF Labels
    <2>2. pages' \subseteq Page
         BY <1>17, PutTypes
    <2>3. UNCHANGED <<rows, task, gen, count, lock, op, id, key, got, res, gone,
                       warned, born, acked, since>>
         BY <1>17
    <2> QED
        BY ONLY TypeOK, <2>1, <2>2, <2>3 DEF TypeOK
<1>18. ASSUME NEW p \in Procs, LoadCount(p)
       PROVE  TypeOK'
    <2> USE DEF LoadCount
    <2>1. pc' \in [Procs -> Labels] /\ res' \in [Procs -> {"none", "ok", "err"}]
         BY <1>18 DEF Labels
    <2>2. got' \in [Procs -> Table]
         BY <1>18
    <2>3. UNCHANGED <<rows, task, gen, pages, count, lock, op, id, key, gone,
                       warned, born, acked, since>>
         BY <1>18
    <2> QED
        BY ONLY TypeOK, <2>1, <2>2, <2>3 DEF TypeOK
<1>19. ASSUME NEW p \in Procs, RecheckCount(p)
       PROVE  TypeOK'
    <2> USE DEF RecheckCount
    <2>1. pc' \in [Procs -> Labels] /\ res' \in [Procs -> {"none", "ok", "err"}]
         BY <1>19 DEF Labels
    <2>2. got' \in [Procs -> Table]
         BY <1>19
    <2>3. UNCHANGED <<rows, task, gen, pages, count, lock, op, id, key, gone,
                       warned, born, acked, since>>
         BY <1>19
    <2> QED
        BY ONLY TypeOK, <2>1, <2>2, <2>3 DEF TypeOK
<1>20. ASSUME NEW p \in Procs, ReadCount(p)
       PROVE  TypeOK'
    <2> USE DEF ReadCount
    <2>1. pc' \in [Procs -> Labels] /\ res' \in [Procs -> {"none", "ok", "err"}]
         BY <1>20 DEF Labels
    <2>2. got' \in [Procs -> Table]
         BY <1>20
    <2>3. UNCHANGED <<rows, task, gen, pages, count, lock, op, id, key, gone,
                       warned, born, acked, since>>
         BY <1>20
    <2> QED
        BY ONLY TypeOK, <2>1, <2>2, <2>3 DEF TypeOK
<1>21. ASSUME NEW p \in Procs, SetCount(p)
       PROVE  TypeOK'
    <2> USE DEF SetCount
    <2>1. pc' \in [Procs -> Labels]
         BY <1>21 DEF Labels
    <2>2. count' \subseteq Table
         BY <1>21
    <2>3. UNCHANGED <<rows, task, gen, pages, lock, op, id, key, got, res, gone,
                       warned, born, acked, since>>
         BY <1>21
    <2> QED
        BY ONLY TypeOK, <2>1, <2>2, <2>3 DEF TypeOK
<1>22. ASSUME NEW p \in Procs, ContextEnds(p)
       PROVE  TypeOK'
    <2> USE DEF ContextEnds
    <2>1. gone' \in [Procs -> BOOLEAN]
         BY <1>22
    <2>2. UNCHANGED <<rows, task, gen, pages, count, lock, op, pc, id, key, got,
                       res, warned, born, acked, since>>
         BY <1>22
    <2> QED
        BY ONLY TypeOK, <2>1, <2>2 DEF TypeOK
<1>23. ASSUME NEW p \in Procs, Crash(p)
       PROVE  TypeOK'
    <2> USE DEF Crash
    <2>1. pc' \in [Procs -> Labels] /\ res' \in [Procs -> {"none", "ok", "err"}]
         BY <1>23 DEF Labels
    <2>2. got' \in [Procs -> Table]
         BY <1>23, EmptyTypes
    <2>3. UNCHANGED <<rows, task, gen, pages, count, lock, op, id, key, gone,
                       warned, born, acked, since>>
         BY <1>23
    <2> QED
        BY ONLY TypeOK, <2>1, <2>2, <2>3 DEF TypeOK
<1>24. ASSUME NEW i \in Ids, DropTask(i)
       PROVE  TypeOK'
       BY <1>24 DEF DropTask
<1>25. ASSUME DropPage
       PROVE  TypeOK'
       BY <1>25 DEF DropPage
<1>26. ASSUME DropGeneration
       PROVE  TypeOK'
       BY <1>26 DEF DropGeneration
<1>27. ASSUME DropCount \/ DropLock
       PROVE  TypeOK'
       BY <1>27 DEF DropCount, DropLock
<1>28. ASSUME UNCHANGED vars
       PROVE  TypeOK'
       BY <1>28 DEF vars
<1> QED
    BY <1>1, <1>2, <1>3, <1>4, <1>5, <1>6, <1>7, <1>8, <1>9, <1>10, <1>11, <1>12,
       <1>13, <1>14, <1>15, <1>16, <1>17, <1>18, <1>19, <1>20, <1>21, <1>22, <1>23, <1>24,
       <1>25, <1>26, <1>27, <1>28 DEF Next, Step, Expiry

\* Every variable has its type throughout, whatever fails, crashes or expires.
THEOREM TypeCorrect == Spec => []TypeOK
<1>1. Init => TypeOK
      BY TypeInit
<1>2. TypeOK /\ [Next]_vars => TypeOK'
      BY TypeStep
<1> QED
    BY <1>1, <1>2, PTL DEF Spec

-----------------------------------------------------------------------------
(* Tables and versions.                                                    *)

LEMMA OlderRefl == ASSUME NEW t \in Table PROVE Older(t, t)
BY DEF Older, Table, Row

LEMMA ReflectsOlder ==
    ASSUME NEW t \in Table, NEW u \in Table, NEW v \in Versions,
           Reflects(t, v), Older(t, u)
    PROVE  Reflects(u, v)
BY DEF Reflects, Older, Table, Row, Versions

LEMMA OlderTrans ==
    ASSUME NEW t \in Table, NEW u \in Table, NEW v \in Table, Older(t, u), Older(u, v)
    PROVE  Older(t, v)
BY DEF Older, Table, Row

\* A statement only adds to the versions of a table.
LEMMA StatementsAge ==
    ASSUME NEW t \in Table, NEW i \in Ids
    PROVE  /\ CanInsert(t, i) => Older(t, Inserted(t, i))
           /\ Older(t, Updated(t, i)) /\ Older(t, Deleted(t, i))
BY DEF Older, Inserted, Updated, Deleted, CanInsert, Absent, Table, Row

-----------------------------------------------------------------------------
(* What the rest of the system sees of a step: the table ages, and the     *)
(* generation stays, is lost, or is a new one drawn now.                   *)

Quiet  == UNCHANGED <<gen, born>>
Lost   == gen' = 0 /\ UNCHANGED born
Drawn  == NewGeneration /\ UNCHANGED rows
Ages   == Older(rows, rows') /\ (Quiet \/ Lost \/ Drawn)

\* The variables of goroutine q's call that the invariant is about.
CallUnchanged(q) ==
    /\ op'[q] = op[q] /\ pc'[q] = pc[q] /\ id'[q] = id[q] /\ key'[q] = key[q]
    /\ got'[q] = got[q] /\ res'[q] = res[q] /\ warned'[q] = warned[q]
    /\ since'[q] = since[q]

\* Drawing a generation leaves the earlier ones as they were.
LEMMA BornKept ==
    ASSUME TypeOK, Ages
    PROVE  /\ Len(born') \in Nat /\ Len(born) \in Nat /\ Len(born) <= Len(born')
           /\ \A g \in 1..Len(born) : g \in 1..Len(born') /\ born'[g] = born[g]
           /\ \A g \in 1..Len(born) : born[g] \in Table
           /\ Drawn => gen' = Len(born') /\ gen' # 0 /\ born'[gen'] = rows
           /\ \A g \in 1..Len(born') :
                  g \in 1..Len(born) \/ (Drawn /\ g = Len(born') /\ born'[g] = rows)
<1> USE DEF TypeOK
<1>1. CASE UNCHANGED born
      BY <1>1 DEF Drawn, NewGeneration
<1>2. CASE Drawn
      BY <1>2 DEF Drawn, NewGeneration
<1> QED
    BY <1>1, <1>2 DEF Ages, Quiet, Lost

\* While no page is added and nothing acknowledged, the store stays in order.
LEMMA StoreAges ==
    ASSUME TypeOK, TypeOK', ListStore, Ages, pages' \subseteq pages
    PROVE  /\ gen' \in {0, Len(born')}
           /\ \A g \in 1..Len(born') : Older(born'[g], rows')
           /\ Reflects(rows', acked["list"])
           /\ gen' # 0 => Reflects(born'[gen'], acked["list"])
           /\ \A e \in pages' : e.gen \in 1..Len(born') /\ Older(born'[e.gen], e.table)
<1> USE DEF ListStore
<1>0. "list" \in Readers
      BY DEF Readers
<1>1. /\ rows \in Table /\ rows' \in Table /\ acked["list"] \in Versions
      /\ \A e \in pages : e \in Page
      BY <1>0 DEF TypeOK
<1>2. gen' \in {0, Len(born')}
      BY BornKept DEF Ages, Quiet, Lost
<1>3. \A g \in 1..Len(born') : Older(born'[g], rows')
    <2>1. TAKE g \in 1..Len(born')
    <2>2. CASE g \in 1..Len(born)
          BY <2>2, <1>1, BornKept, OlderTrans DEF Ages
    <2>3. CASE Drawn /\ born'[g] = rows
          BY <2>3 DEF Ages
    <2> QED
        BY <2>2, <2>3, BornKept
<1>4. Reflects(rows', acked["list"])
      BY <1>1, ReflectsOlder DEF Ages
<1>5. gen' # 0 => Reflects(born'[gen'], acked["list"])
    <2>1. CASE Drawn
          BY <2>1, BornKept
    <2>2. CASE Quiet \/ Lost
          BY <2>2 DEF Quiet, Lost
    <2> QED
        BY <2>1, <2>2 DEF Ages
<1>6. \A e \in pages' : e.gen \in 1..Len(born') /\ Older(born'[e.gen], e.table)
      BY BornKept
<1> QED
    BY <1>2, <1>3, <1>4, <1>5, <1>6

LEMMA StoreKept ==
    ASSUME TypeOK, TypeOK', ListStore, Ages, pages' \subseteq pages,
           acked'["list"] = acked["list"]
    PROVE  ListStore'
BY StoreAges DEF ListStore

\* A write may be acknowledged to the lists once the generation in place was
\* drawn after it.
LEMMA StoreAcknowledges ==
    ASSUME TypeOK, TypeOK', ListStore, Ages, UNCHANGED <<rows, pages>>,
           NEW p \in Procs, NEW w, Acknowledge(p, w),
           got[p][id[p]].ver <= rows[id[p]].ver,
           "list" \notin w /\ gen' # 0 => got[p][id[p]].ver <= born'[gen'][id[p]].ver
    PROVE  ListStore'
<1> DEFINE v == got[p][id[p]].ver
           Raised == [acked["list"] EXCEPT ![id[p]] = IF @ < v THEN v ELSE @]
<1>1. acked'["list"] = acked["list"] \/ ("list" \notin w /\ acked'["list"] = Raised)
      BY DEF Acknowledge, Readers
<1>2. rows' = rows /\ id[p] \in Ids /\ acked["list"] \in [Ids -> Nat]
      BY DEF TypeOK, Readers, Versions
<1>3. v <= rows[id[p]].ver /\ ("list" \notin w /\ gen' # 0 => v <= born'[gen'][id[p]].ver)
      OBVIOUS
<1> HIDE DEF v
<1>4. \A i \in Ids : Raised[i] = acked["list"][i] \/ (i = id[p] /\ Raised[i] = v)
      BY <1>2
<1> HIDE DEF Raised
<1>5. Reflects(rows', acked'["list"])
      BY <1>1, <1>2, <1>3, <1>4, StoreAges DEF Reflects
<1>6. gen' # 0 => Reflects(born'[gen'], acked'["list"])
      BY <1>1, <1>3, <1>4, StoreAges DEF Reflects
<1> QED
    BY <1>5, <1>6, StoreAges DEF ListStore

\* A goroutine that does not step keeps its part of the invariant.
LEMMA CallKept ==
    ASSUME TypeOK, TypeOK', ListStore, Ages, NEW q \in Procs, ListCall(q), CallUnchanged(q)
    PROVE  ListCall(q)'
<1> USE DEF CallUnchanged
<1>1. /\ rows \in Table /\ rows' \in Table /\ got[q] \in Table /\ since[q] \in Versions
      /\ id[q] \in Ids
      BY DEF TypeOK
<1>2. CallControl(q)'
      BY DEF ListCall, CallControl
<1>3. WriteRetires(q)'
    <2> SUFFICES ASSUME op[q] \in Writers
                 PROVE  WriteRetires(q)'
        BY DEF WriteRetires
    <2>1. rows[id[q]].ver <= rows'[id[q]].ver
          BY <1>1 DEF Ages, Older
    <2>2. /\ got[q][id[q]].ver \in Nat /\ rows[id[q]].ver \in Nat
          /\ rows'[id[q]].ver \in Nat
          BY <1>1 DEF Table, Row
    <2>3. CASE Quiet \/ Lost
          BY <2>1, <2>2, <2>3 DEF ListCall, WriteRetires, Quiet, Lost
    <2>4. CASE Drawn
          BY <2>1, <2>2, <2>4, BornKept DEF ListCall, WriteRetires
    <2> QED
        BY <2>3, <2>4 DEF Ages
<1>4. ListKeeps(q)'
    <2> SUFFICES ASSUME op[q] = "list"
                 PROVE  ListKeeps(q)'
        BY DEF ListKeeps
    <2>1. Reflects(rows', since[q])
          BY <1>1, ReflectsOlder DEF ListCall, ListKeeps, Ages
    <2>2. pc[q] = "listKey" /\ gen' # 0 => Reflects(born'[gen'], since[q])
        <3>1. CASE Drawn
              BY <3>1, BornKept DEF ListCall, ListKeeps
        <3>2. CASE Quiet \/ Lost
              BY <3>2 DEF ListCall, ListKeeps, Quiet, Lost
        <3> QED
            BY <3>1, <3>2 DEF Ages
    <2> QED
        BY <2>1, <2>2, BornKept DEF ListCall, ListKeeps
<1> QED
    BY <1>2, <1>3, <1>4 DEF ListCall

\* What a step of p has to show.
LEMMA StepKeeps ==
    ASSUME TypeOK, TypeOK', ListInv, NEW p \in Procs, Ages, ListStore', ListCall(p)',
           \A q \in Procs \ {p} : CallUnchanged(q)
    PROVE  ListInv'
<1>1. \A q \in Procs : ListCall(q)'
    <2>1. TAKE q \in Procs
    <2>2. CASE q = p
          BY <2>2
    <2>3. CASE q # p
          BY <2>3, CallKept DEF ListInv
    <2> QED
        BY <2>2, <2>3
<1> QED
    BY <1>1 DEF ListInv

\* Only writes and lists have a part in the invariant beyond their control.
LEMMA OtherCalls ==
    ASSUME NEW p \in Procs, CallControl(p)', op'[p] \in {"get", "count"}
    PROVE  ListCall(p)'
BY DEF ListCall, WriteRetires, ListKeeps, Writers

LEMMA StillAges ==
    ASSUME TypeOK, UNCHANGED rows, Quiet \/ Lost \/ Drawn
    PROVE  Ages
BY OlderRefl DEF TypeOK, Ages

-----------------------------------------------------------------------------
(* One lemma per kind of step.                                             *)

LEMMA StartKeeps ==
    ASSUME TypeOK, TypeOK', ListInv, NEW p \in Procs, Start(p)
    PROVE  ListInv'
<1> USE DEF Start, redis, history, Goto, Result, Fetch
<1>1. Ages
      BY StillAges DEF Quiet
<1>2. ListStore'
      BY <1>1, StoreKept DEF ListInv
<1>3. \A q \in Procs \ {p} : CallUnchanged(q)
      BY DEF CallUnchanged, TypeOK
<1>4. ListCall(p)'
    <2>1. PICK o \in Ops : /\ op'[p] = o /\ pc'[p] = First(o) /\ key'[p] = 0
                           /\ since'[p] = IF o \in Readers THEN acked[o] ELSE None
          BY DEF TypeOK
    <2>2. CASE o \in Writers
          BY <2>1, <2>2 DEF First, Writers, ListCall, CallControl, WriteRetires, ListKeeps
    <2>3. CASE o = "list"
        <3>1. pc'[p] = "listKey" /\ since'[p] = acked["list"]
              BY <2>1, <2>3 DEF First, Readers, Writers
        <3>2. /\ Reflects(rows', since'[p])
              /\ gen' # 0 => Reflects(born'[gen'], since'[p])
              BY <3>1 DEF ListInv, ListStore
        <3> QED
            BY <2>1, <2>3, <3>1, <3>2
               DEF ListCall, CallControl, WriteRetires, ListKeeps, Writers
    <2>4. CASE o \in {"get", "count"}
        <3>1. pc'[p] = "load"
              BY <2>1, <2>4 DEF First, Writers
        <3> QED
            BY <2>1, <2>4, <3>1, OtherCalls DEF CallControl, Writers
    <2> QED
        BY <2>2, <2>3, <2>4, OpsAssumption DEF Readers
<1> QED
    BY <1>1, <1>2, <1>3, <1>4, StepKeeps

LEMMA CommitKeeps ==
    ASSUME TypeOK, TypeOK', ListInv, NEW p \in Procs, op[p] \in Writers, pc[p] = "next",
           NEW i \in Ids, NEW t \in Table, Older(rows, t), Commit(p, i, t),
           UNCHANGED <<redis, op, key, gone, warned, since, history>>
    PROVE  ListInv'
<1> USE DEF Commit, redis, history, Goto, Result, Fetch, Finish
<1>1. Ages
      BY DEF Ages, Quiet
<1>2. ListStore'
      BY <1>1, StoreKept DEF ListInv
<1>3. \A q \in Procs \ {p} : CallUnchanged(q)
      BY DEF CallUnchanged, TypeOK
<1>4. ListCall(p)'
    <2>1. /\ op'[p] \in Writers /\ pc'[p] \in {"idle", "evict", "retire"}
          /\ key'[p] = key[p] /\ id'[p] = i /\ got'[p] = Only(i, t[i]) /\ rows' = t
          BY DEF TypeOK, AfterCommit
    <2>2. key[p] = 0
          BY DEF ListInv, ListCall, CallControl
    <2>3. got'[p][i].ver = t[i].ver /\ t[i].ver \in Nat
          BY <2>1 DEF Only, Table, Row
    <2> QED
        BY <2>1, <2>2, <2>3 DEF ListCall, CallControl, WriteRetires, ListKeeps, Writers
<1> QED
    BY <1>1, <1>2, <1>3, <1>4, StepKeeps

LEMMA WriteKeeps ==
    ASSUME TypeOK, TypeOK', ListInv, NEW p \in Procs, Create(p) \/ Update(p) \/ Delete(p)
    PROVE  ListInv'
<1>1. /\ op[p] \in Writers /\ pc[p] = "next"
      /\ UNCHANGED <<redis, op, key, gone, warned, since, history>>
      BY DEF Create, Update, Delete, Writers
<1>2. CASE WriteFails(p)
    <2> USE DEF WriteFails, redis, history, Goto, Result, Finish
    <2>1. Ages
          BY <1>1, <1>2, StillAges DEF Quiet
    <2>2. ListStore'
          BY <1>1, <2>1, StoreKept DEF ListInv
    <2>3. \A q \in Procs \ {p} : CallUnchanged(q)
          BY <1>1, <1>2 DEF CallUnchanged, TypeOK
    <2>4. op'[p] \in Writers /\ pc'[p] = "idle"
          BY <1>1, <1>2 DEF TypeOK
    <2>5. ListCall(p)'
          BY <2>4 DEF ListCall, CallControl, WriteRetires, ListKeeps, Writers
    <2> QED
        BY <2>1, <2>2, <2>3, <2>5, StepKeeps
<1>3. CASE \E i \in Ids, t \in Table : Older(rows, t) /\ Commit(p, i, t)
      BY <1>1, <1>3, CommitKeeps
<1>4. WriteFails(p) \/ \E i \in Ids, t \in Table : Older(rows, t) /\ Commit(p, i, t)
    <2>1. rows \in Table /\ id[p] \in Ids
          BY DEF TypeOK
    <2>2. CASE Create(p)
          BY <2>1, <2>2, StatementTypes, StatementsAge DEF Create
    <2>3. CASE Update(p)
          BY <2>1, <2>3, StatementTypes, StatementsAge DEF Update
    <2>4. CASE Delete(p)
          BY <2>1, <2>4, StatementTypes, StatementsAge DEF Delete
    <2> QED
        BY <2>2, <2>3, <2>4
<1> QED
    BY <1>2, <1>3, <1>4

LEMMA EvictKeeps ==
    ASSUME TypeOK, TypeOK', ListInv, NEW p \in Procs, Evict(p)
    PROVE  ListInv'
<1> USE DEF Evict, history, Goto, Warn
<1>1. Ages
      BY StillAges DEF Quiet
<1>2. ListStore'
      BY <1>1, StoreKept DEF ListInv
<1>3. \A q \in Procs \ {p} : CallUnchanged(q)
      BY DEF CallUnchanged, TypeOK
<1>4. pc[p] = "evict" /\ pc'[p] = "retire" /\ UNCHANGED <<rows, op, id, key, got>>
      BY DEF TypeOK
<1>5. ListCall(p)'
      BY <1>4 DEF ListInv, ListCall, CallControl, WriteRetires, ListKeeps, Writers
<1> QED
    BY <1>1, <1>2, <1>3, <1>5, StepKeeps

LEMMA RetireKeeps ==
    ASSUME TypeOK, TypeOK', ListInv, NEW p \in Procs, Retire(p)
    PROVE  ListInv'
<1> DEFINE Fails == "list" \in warned'[p]
<1>1. /\ pc[p] = "retire" /\ op[p] \in Writers /\ key[p] = 0
      /\ got[p][id[p]].ver <= rows[id[p]].ver
      BY DEF Retire, ListInv, ListCall, CallControl, WriteRetires
<1>2. UNCHANGED <<rows, pages, op, id, got, res, since>>
      BY DEF Retire
<1>3. Drawn \/ (Quiet /\ Fails)
      BY <1>1, <1>2 DEF Retire, SetGeneration, Draw, Drawn, Quiet, Warn, TypeOK
<1>4. Ages
      BY <1>2, <1>3, StillAges
<1>5. ~Fails => gen' # 0 /\ got[p][id[p]].ver <= born'[gen'][id[p]].ver
      BY <1>1, <1>3, <1>4, BornKept
<1>6. \A q \in Procs \ {p} : CallUnchanged(q)
      BY DEF CallUnchanged, TypeOK, Retire, SetGeneration, Warn, Goto
<1>7. ListStore'
    <2>1. CASE acked' = acked
          BY <1>2, <1>4, <2>1, StoreKept DEF ListInv
    <2>2. CASE Acknowledge(p, warned'[p])
          BY <1>1, <1>2, <1>4, <1>5, <2>2, StoreAcknowledges DEF ListInv
    <2> QED
        BY <2>1, <2>2 DEF Retire
<1>8. pc'[p] \in {"idle", "lock"}
      BY DEF Retire, Goto, TypeOK
<1>9. ListCall(p)'
      BY <1>1, <1>2, <1>5, <1>8
         DEF ListCall, CallControl, WriteRetires, ListKeeps, Writers
<1> QED
    BY <1>4, <1>6, <1>7, <1>9, StepKeeps

\* A step that leaves the table, the generation and the pages alone.
LEMMA QuietKeeps ==
    ASSUME TypeOK, TypeOK', ListInv, NEW p \in Procs, UNCHANGED <<rows, gen, born, pages>>,
           acked'["list"] = acked["list"], ListCall(p)',
           \A q \in Procs \ {p} : CallUnchanged(q)
    PROVE  ListInv'
<1>1. Ages
      BY StillAges DEF Quiet
<1>2. ListStore'
      BY <1>1, StoreKept DEF ListInv
<1> QED
    BY <1>1, <1>2, StepKeeps

\* A write that is done with the lists may acknowledge itself and return.
LEMMA ReturnKeeps ==
    ASSUME TypeOK, TypeOK', ListInv, NEW p \in Procs, op[p] \in Writers,
           pc[p] \in {"lock", "invalidate", "release"}, pc'[p] = "idle", op'[p] = op[p],
           UNCHANGED <<rows, gen, born, pages>>, NEW w, Acknowledge(p, w),
           "list" \in warned[p] => "list" \in w,
           \A q \in Procs \ {p} : CallUnchanged(q)
    PROVE  ListInv'
<1>1. Ages
      BY StillAges DEF Quiet
<1>2. /\ got[p][id[p]].ver <= rows[id[p]].ver
      /\ "list" \notin w /\ gen' # 0 => got[p][id[p]].ver <= born'[gen'][id[p]].ver
      BY DEF ListInv, ListCall, WriteRetires
<1>3. ListStore'
      BY <1>1, <1>2, StoreAcknowledges DEF ListInv
<1>4. ListCall(p)'
      BY DEF ListCall, CallControl, WriteRetires, ListKeeps, Writers
<1> QED
    BY <1>1, <1>3, <1>4, StepKeeps

LEMMA AcquireLockKeeps ==
    ASSUME TypeOK, TypeOK', ListInv, NEW p \in Procs, AcquireLock(p)
    PROVE  ListInv'
<1> USE DEF AcquireLock, Goto, Warn
<1>1. /\ pc[p] = "lock" /\ op[p] \in Writers \cup {"count"} /\ op'[p] = op[p]
      /\ UNCHANGED <<rows, gen, born, pages, id, got>>
      BY DEF ListInv, ListCall, CallControl
<1>2. \A q \in Procs \ {p} : CallUnchanged(q)
      BY DEF CallUnchanged, TypeOK
<1>3. CASE op[p] = "count"
    <2>1. pc'[p] \in {"recheck", "bypass"} /\ acked' = acked
          BY <1>1, <1>3 DEF TypeOK
    <2>2. ListCall(p)'
          BY <1>1, <1>3, <2>1, OtherCalls DEF CallControl, Writers
    <2> QED
        BY <1>1, <1>2, <2>1, <2>2, QuietKeeps
<1>4. CASE op[p] \in Writers /\ pc'[p] = "invalidate" /\ UNCHANGED <<warned, acked>>
    <2>1. ListCall(p)'
          BY <1>1, <1>4 DEF ListInv, ListCall, CallControl, WriteRetires, ListKeeps, Writers
    <2> QED
        BY <1>1, <1>2, <1>4, <2>1, QuietKeeps
<1>5. CASE op[p] \in Writers /\ pc'[p] = "idle" /\ Warn(p, {"count"})
           /\ Acknowledge(p, warned'[p])
    <2>1. "list" \in warned[p] => "list" \in warned'[p]
          BY <1>5 DEF TypeOK
    <2> QED
        BY <1>1, <1>2, <1>5, <2>1, ReturnKeeps
<1> QED
    BY <1>1, <1>3, <1>4, <1>5 DEF TypeOK, Writers

LEMMA InvalidateKeeps ==
    ASSUME TypeOK, TypeOK', ListInv, NEW p \in Procs, Invalidate(p)
    PROVE  ListInv'
<1> USE DEF Invalidate, history, Goto, Warn
<1>1. /\ pc[p] = "invalidate" /\ pc'[p] = "release" /\ op'[p] = op[p] /\ op[p] \in Writers
      /\ "list" \in warned[p] => "list" \in warned'[p]
      /\ UNCHANGED <<rows, gen, born, pages, id, got>>
      BY DEF ListInv, ListCall, CallControl, TypeOK
<1>2. \A q \in Procs \ {p} : CallUnchanged(q)
      BY DEF CallUnchanged, TypeOK
<1>3. ListCall(p)'
      BY <1>1 DEF ListInv, ListCall, CallControl, WriteRetires, ListKeeps, Writers
<1> QED
    BY <1>1, <1>2, <1>3, QuietKeeps

LEMMA ReleaseKeeps ==
    ASSUME TypeOK, TypeOK', ListInv, NEW p \in Procs, Release(p)
    PROVE  ListInv'
<1> USE DEF Release, Goto
<1>1. /\ pc[p] = "release" /\ pc'[p] = "idle" /\ op'[p] = op[p]
      /\ op[p] \in Writers \cup {"count"} /\ UNCHANGED <<rows, gen, born, pages>>
      BY DEF ListInv, ListCall, CallControl, TypeOK
<1>2. \A q \in Procs \ {p} : CallUnchanged(q)
      BY DEF CallUnchanged, TypeOK
<1>3. CASE op[p] \in Writers
      BY <1>1, <1>2, <1>3, ReturnKeeps
<1>4. CASE op[p] = "count"
    <2>1. ListCall(p)'
          BY <1>1, <1>4, OtherCalls DEF CallControl, Writers
    <2> QED
        BY <1>1, <1>2, <1>4, <2>1, QuietKeeps DEF Writers
<1> QED
    BY <1>1, <1>3, <1>4

\* Reads of one task, and counts, do not touch what lists are read from.
LEMMA GetKeeps ==
    ASSUME TypeOK, TypeOK', ListInv, NEW p \in Procs,
           LoadTask(p) \/ ReadTask(p) \/ StoreTask(p)
    PROVE  ListInv'
<1> USE DEF LoadTask, ReadTask, StoreTask, redis, history, Goto, Result, Fetch, Finish
<1>1. /\ op'[p] = "get" /\ pc'[p] \in {"idle", "next", "store"}
      /\ UNCHANGED <<rows, gen, born, pages, acked>>
      BY DEF TypeOK
<1>2. \A q \in Procs \ {p} : CallUnchanged(q)
      BY DEF CallUnchanged, TypeOK
<1>3. ListCall(p)'
      BY <1>1, OtherCalls DEF CallControl, Writers
<1> QED
    BY <1>1, <1>2, <1>3, QuietKeeps

LEMMA CountKeeps ==
    ASSUME TypeOK, TypeOK', ListInv, NEW p \in Procs,
           LoadCount(p) \/ RecheckCount(p) \/ ReadCount(p) \/ SetCount(p)
    PROVE  ListInv'
<1> USE DEF LoadCount, RecheckCount, ReadCount, SetCount, redis, history, Goto, Result,
            Fetch, Finish
<1>1. /\ op[p] = "count" /\ op'[p] = op[p]
      /\ pc'[p] \notin {"evict", "retire", "invalidate", "listKey"}
      /\ UNCHANGED <<rows, gen, born, pages, acked>>
    <2>1. op[p] = "count"
          BY DEF ListInv, ListCall, CallControl
    <2>2. CASE LoadCount(p)
          BY <2>1, <2>2 DEF TypeOK
    <2>3. CASE RecheckCount(p)
          BY <2>1, <2>3 DEF TypeOK
    <2>4. CASE ReadCount(p)
          BY <2>1, <2>4 DEF TypeOK
    <2>5. CASE SetCount(p)
          BY <2>1, <2>5 DEF TypeOK
    <2> QED
        BY <2>2, <2>3, <2>4, <2>5
<1>2. \A q \in Procs \ {p} : CallUnchanged(q)
      BY DEF CallUnchanged, TypeOK
<1>3. ListCall(p)'
      BY <1>1, OtherCalls DEF CallControl, Writers
<1> QED
    BY <1>1, <1>2, <1>3, QuietKeeps

LEMMA ListKeyKeeps ==
    ASSUME TypeOK, TypeOK', ListInv, NEW p \in Procs, ListKey(p)
    PROVE  ListInv'
<1> USE DEF ListKey, Goto
<1>1. UNCHANGED <<rows, pages, acked, op, since, got>> /\ key[p] = 0
      BY DEF ListInv, ListCall, CallControl
<1>2. Drawn \/ Quiet
      BY <1>1 DEF SetGeneration, Draw, Drawn, Quiet
<1>3. Ages
      BY <1>1, <1>2, StillAges
<1>4. ListStore'
      BY <1>1, <1>3, StoreKept DEF ListInv
<1>5. \A q \in Procs \ {p} : CallUnchanged(q)
      BY DEF CallUnchanged, TypeOK, SetGeneration
<1>6. ListCall(p)'
    <2>1. /\ pc[p] = "listKey" /\ op'[p] = "list" /\ pc'[p] \in {"load", "next"}
          /\ Reflects(rows, since[p])
          /\ gen # 0 => Reflects(born[gen], since[p])
          BY DEF ListInv, ListCall, CallControl, ListKeeps, TypeOK
    <2>2. key'[p] # 0 => key'[p] = gen' /\ gen' # 0 /\ (Drawn \/ Quiet)
          BY <1>1, <1>2 DEF SetGeneration, Draw, NewGeneration, TypeOK
    <2>3. key'[p] # 0 => key'[p] \in 1..Len(born') /\ Reflects(born'[key'[p]], since[p])
        <3>1. CASE Drawn
              BY <1>3, <2>1, <2>2, <3>1, BornKept
        <3>2. CASE Quiet
              BY <2>1, <2>2, <3>2 DEF Quiet, ListInv, ListStore, TypeOK
        <3> QED
            BY <1>2, <3>1, <3>2
    <2> QED
        BY <1>1, <2>1, <2>3 DEF ListCall, CallControl, WriteRetires, ListKeeps, Writers
<1> QED
    BY <1>3, <1>4, <1>5, <1>6, StepKeeps

LEMMA LoadPageKeeps ==
    ASSUME TypeOK, TypeOK', ListInv, NEW p \in Procs, LoadPage(p)
    PROVE  ListInv'
<1> USE DEF LoadPage, redis, history, Goto, Result, Fetch, Finish
<1>1. /\ pc[p] = "load" /\ op[p] = "list" /\ op'[p] = "list" /\ key'[p] = key[p]
      /\ UNCHANGED <<rows, gen, born, pages, acked, since>>
      BY DEF TypeOK
<1>2. \A q \in Procs \ {p} : CallUnchanged(q)
      BY DEF CallUnchanged, TypeOK
<1>3. CASE pc'[p] = "next"
    <2>1. ListCall(p)'
          BY <1>1, <1>3 DEF ListInv, ListCall, CallControl, WriteRetires, ListKeeps, Writers
    <2> QED
        BY <1>1, <1>2, <2>1, QuietKeeps
<1>4. CASE pc'[p] = "idle" /\ \E e \in Hit(p) : got'[p] = e.table
    <2>1. PICK e \in pages : e.gen = key[p] /\ got'[p] = e.table
          BY <1>4 DEF Hit
    <2>2. /\ key[p] \in 1..Len(born) /\ Older(born[key[p]], got'[p])
          /\ Reflects(born[key[p]], since[p])
          BY <1>1, <2>1 DEF ListInv, ListStore, ListCall, ListKeeps
    <2>3. born[key[p]] \in Table /\ got'[p] \in Table /\ since[p] \in Versions
          BY <2>2 DEF TypeOK
    <2>4. Reflects(got'[p], since'[p])
          BY <1>1, <2>2, <2>3, ReflectsOlder
    <2>5. ListCall(p)'
          BY <1>1, <1>4, <2>4
             DEF ListInv, ListCall, CallControl, WriteRetires, ListKeeps, Writers
    <2> QED
        BY <1>1, <1>2, <2>5, QuietKeeps
<1> QED
    BY <1>3, <1>4 DEF TypeOK

LEMMA ReadPageKeeps ==
    ASSUME TypeOK, TypeOK', ListInv, NEW p \in Procs, ReadPage(p)
    PROVE  ListInv'
<1> USE DEF ReadPage, redis, history, Goto, Result, Fetch, Finish
<1>1. /\ pc[p] = "next" /\ op[p] = "list" /\ op'[p] = "list" /\ key'[p] = key[p]
      /\ UNCHANGED <<rows, gen, born, pages, acked, since>>
      BY DEF TypeOK
<1>2. \A q \in Procs \ {p} : CallUnchanged(q)
      BY DEF CallUnchanged, TypeOK
<1>3. \/ pc'[p] = "idle" /\ res'[p] = "err"
      \/ pc'[p] = "idle" /\ got'[p] = rows
      \/ pc'[p] = "store" /\ got'[p] = rows /\ key[p] # 0
      BY DEF TypeOK
<1>4. Reflects(rows, since[p])
      BY <1>1 DEF ListInv, ListCall, ListKeeps
<1>5. key[p] # 0 => key[p] \in 1..Len(born) /\ Older(born[key[p]], rows)
                    /\ Reflects(born[key[p]], since[p])
      BY <1>1 DEF ListInv, ListStore, ListCall, ListKeeps
<1>6. ListCall(p)'
      BY <1>1, <1>3, <1>4, <1>5 DEF ListCall, CallControl, WriteRetires, ListKeeps, Writers
<1> QED
    BY <1>1, <1>2, <1>6, QuietKeeps

LEMMA StorePageKeeps ==
    ASSUME TypeOK, TypeOK', ListInv, NEW p \in Procs, StorePage(p)
    PROVE  ListInv'
<1> USE DEF StorePage, history, Goto
<1> DEFINE stored == [gen |-> key[p], table |-> got[p]]
<1>1. /\ pc[p] = "store" /\ op[p] = "list" /\ op'[p] = "list" /\ pc'[p] = "idle"
      /\ UNCHANGED <<rows, gen, born, acked, since, got>>
      BY DEF TypeOK
<1>2. \A q \in Procs \ {p} : CallUnchanged(q)
      BY DEF CallUnchanged, TypeOK
<1>3. /\ key[p] \in 1..Len(born) /\ Older(born[key[p]], got[p])
      /\ Reflects(rows, since[p]) /\ Reflects(got[p], since[p])
      BY <1>1 DEF ListInv, ListCall, ListKeeps
<1>4. ListStore'
    <2>1. \A e \in pages' : e \in pages \/ e = stored
          BY DEF PutPage, Hit
    <2> QED
        BY <1>1, <1>3, <2>1 DEF ListInv, ListStore
<1>5. ListCall(p)'
      BY <1>1, <1>3 DEF ListCall, CallControl, WriteRetires, ListKeeps, Writers
<1>6. Ages
      BY <1>1, StillAges DEF Quiet
<1> QED
    BY <1>2, <1>4, <1>5, <1>6, StepKeeps

LEMMA ContextEndsKeeps ==
    ASSUME TypeOK, TypeOK', ListInv, NEW p \in Procs, ContextEnds(p)
    PROVE  ListInv'
<1>1. UNCHANGED <<rows, redis, op, pc, id, key, got, res, warned, since, history>>
      BY DEF ContextEnds
<1>2. \A q \in Procs : CallUnchanged(q)
      BY <1>1 DEF CallUnchanged
<1>3. Ages
      BY <1>1, StillAges DEF Quiet, redis, history
<1>4. ListCall(p)'
      BY <1>2, <1>3, CallKept DEF ListInv
<1> QED
    BY <1>1, <1>2, <1>4, QuietKeeps DEF redis, history

LEMMA CrashKeeps ==
    ASSUME TypeOK, TypeOK', ListInv, NEW p \in Procs, Crash(p)
    PROVE  ListInv'
<1> USE DEF Crash, redis, history, Goto, Result, Fetch, Finish
<1>1. /\ op'[p] = op[p] /\ pc'[p] = "idle" /\ res'[p] = "none" /\ since'[p] = since[p]
      /\ UNCHANGED <<rows, gen, born, pages, acked>>
      BY DEF TypeOK
<1>2. \A q \in Procs \ {p} : CallUnchanged(q)
      BY DEF CallUnchanged, TypeOK
<1>3. ListCall(p)'
      BY <1>1 DEF ListInv, ListCall, CallControl, WriteRetires, ListKeeps
<1> QED
    BY <1>1, <1>2, <1>3, QuietKeeps

LEMMA ExpiryKeeps ==
    ASSUME TypeOK, TypeOK', ListInv, Expiry \/ UNCHANGED vars
    PROVE  ListInv'
<1>1. /\ UNCHANGED <<rows, op, pc, id, key, got, res, warned, since, acked>>
      /\ Quiet \/ Lost
      /\ pages' \subseteq pages
      BY DEF Expiry, DropTask, DropPage, DropGeneration, DropCount, DropLock, vars,
             redis, history, Quiet, Lost
<1>2. Ages
      BY <1>1, StillAges
<1>3. ListStore'
      BY <1>1, <1>2, StoreKept DEF ListInv
<1>4. \A q \in Procs : CallUnchanged(q)
      BY <1>1 DEF CallUnchanged
<1> QED
    BY <1>2, <1>3, <1>4, CallKept DEF ListInv

-----------------------------------------------------------------------------
(* The invariant.                                                          *)

LEMMA ListInit == Init => ListInv
<1> SUFFICES ASSUME Init
             PROVE  ListInv
    OBVIOUS
<1>1. ListStore
    <2>1. Len(born) = 0
          BY DEF Init
    <2>2. \A i \in Ids : acked["list"][i] = 0 /\ 0 <= rows[i].ver
          BY DEF Init, Readers, None, Absent
    <2> QED
        BY <2>1, <2>2 DEF Init, ListStore, Reflects
<1>2. ASSUME NEW p \in Procs
      PROVE  ListCall(p)
    <2>1. /\ pc[p] = "idle" /\ op[p] = "list" /\ res[p] = "none"
          BY DEF Init
    <2>2. Reflects(rows, since[p])
          BY DEF Init, Reflects, None, Absent
    <2> QED
        BY <2>1, <2>2 DEF ListCall, CallControl, WriteRetires, ListKeeps, Writers
<1> QED
    BY <1>1, <1>2 DEF ListInv

LEMMA ListStep ==
    ASSUME ~Resends
    PROVE  TypeOK /\ TypeOK' /\ ListInv /\ [Next]_vars => ListInv'
<1> SUFFICES ASSUME TypeOK, TypeOK', ListInv, [Next]_vars
             PROVE  ListInv'
    OBVIOUS
<1>1. ASSUME NEW p \in Procs, Step(p)
      PROVE  ListInv'
      BY <1>1, WriteKeeps, EvictKeeps, RetireKeeps, AcquireLockKeeps, InvalidateKeeps,
         ReleaseKeeps, GetKeeps, CountKeeps, ListKeyKeeps, LoadPageKeeps, ReadPageKeeps,
         StorePageKeeps
         DEF Step
<1>2. ASSUME NEW p \in Procs, Start(p) \/ ContextEnds(p) \/ Crash(p)
      PROVE  ListInv'
      BY <1>2, StartKeeps, ContextEndsKeeps, CrashKeeps
<1> QED
    BY <1>1, <1>2, ExpiryKeeps DEF Next, AnswerLost

\* ListInv holds throughout, however Redis and the goroutines fail.
THEOREM ListInvariant == ASSUME ~Resends PROVE Spec => []ListInv
<1>1. Init => ListInv
      BY ListInit
<1>2. TypeOK /\ TypeOK' /\ ListInv /\ [Next]_vars => ListInv'
      BY ListStep
<1> QED
    BY <1>1, <1>2, TypeCorrect, PTL DEF Spec

\* A list never misses a write that was acknowledged, without a warning about
\* the lists, before the list began.
THEOREM ListsCorrect == ASSUME ~Resends PROVE Spec => []ListsSeeAckedWrites
<1>1. ListInv => ListsSeeAckedWrites
      BY DEF ListInv, ListCall, ListKeeps, ListsSeeAckedWrites, Returned
<1> QED
    BY <1>1, ListInvariant, PTL

=============================================================================
