------------------------ MODULE RedisTaskReadProofs ------------------------
(***************************************************************************)
(* Lists and counts keep the contract of FreshReads: every step of the     *)
(* decorator is a step of the abstract specification, or none.             *)
(*                                                                         *)
(* The lower bound of an answer, what was acknowledged when the read       *)
(* began, is what ListsCorrect and CountsCorrect prove, each under its own *)
(* assumption.  The upper one is ReadPast: nothing that a read was given,  *)
(* and nothing that is cached for reads of its kind, is from after the     *)
(* table as it is now.  The rest is the same for both kinds.               *)
(***************************************************************************)
EXTENDS RedisTaskCountProofs

Kinds == {"list", "count"}

\* The tables in the cache that serves reads of kind o.
Cached(o) == IF o = "list" THEN {e.table : e \in pages} ELSE count

ReadPast(o) ==
    /\ \A t \in Cached(o) : Older(t, rows)
    /\ \A p \in Procs : op[p] = o => Older(got[p], rows)

ReadFresh(o) == \A p \in Procs : Returned(p, o) => Reflects(got[p], since[p])

ReadInv(o) == TypeOK /\ WriteInv /\ ReadPast(o)

AbstractStep(o) == [Reads(o)!Next]_(Reads(o)!vars)

-----------------------------------------------------------------------------
(* The view of the abstract specification.                                 *)

\* What the abstract specification sees of a goroutine that does not step.
LEMMA OthersView ==
    ASSUME NEW o, NEW p \in Procs, \A q \in Procs \ {p} : CallUnchanged(q)
    PROVE  /\ CallSince(o)' = [CallSince(o) EXCEPT ![p] = CallSince(o)'[p]]
           /\ CallAnswer(o)' = [CallAnswer(o) EXCEPT ![p] = CallAnswer(o)'[p]]
<1>1. \A q \in Procs \ {p} : CallSince(o)'[q] = CallSince(o)[q] /\ CallAnswer(o)'[q] = CallAnswer(o)[q]
      BY DEF CallUnchanged, CallSince, CallAnswer, Returned
<1> QED
    BY <1>1 DEF CallSince, CallAnswer

\* A goroutine whose step neither begins nor ends a read of kind o.
LEMMA SilentView ==
    ASSUME NEW o, NEW p \in Procs, \A q \in Procs \ {p} : CallUnchanged(q),
           op'[p] = op[p], since'[p] = since[p], ~Returned(p, o), ~Returned(p, o)'
    PROVE  UNCHANGED <<CallSince(o), CallAnswer(o)>>
<1>1. CallSince(o)'[p] = CallSince(o)[p] /\ CallAnswer(o)'[p] = CallAnswer(o)[p]
      BY DEF CallSince, CallAnswer
<1>2. \A q \in Procs : CallSince(o)'[q] = CallSince(o)[q] /\ CallAnswer(o)'[q] = CallAnswer(o)[q]
      BY <1>1 DEF CallUnchanged, CallSince, CallAnswer, Returned
<1> QED
    BY <1>2 DEF CallSince, CallAnswer

\* A step that changes nothing in the view is a stuttering step.
LEMMA Stutter ==
    ASSUME NEW o, UNCHANGED <<rows, CallSince(o), CallAnswer(o)>>, acked'[o] = acked[o]
    PROVE  AbstractStep(o)
BY DEF AbstractStep, Reads!vars, RowVersions

-----------------------------------------------------------------------------
(* Steps that are neither a call nor the statement of a write.             *)

\* What such a step of p does to what readers see.
Within(p) ==
    /\ pc[p] # "idle" /\ op' = op /\ since' = since /\ rows' = rows
    /\ \A e \in pages' : e \in pages \/ (op[p] = "list" /\ e.table = got[p])
    /\ \A t \in count' : t \in count \/ (op[p] = "count" /\ t = got[p])
    /\ \/ got'[p] \in {got[p], rows, NoRows} \/ op[p] = "get"
       \/ op[p] = "list" /\ \E e \in pages : got'[p] = e.table
       \/ op[p] = "count" /\ got'[p] \in count

LEMMA WithinCalls ==
    ASSUME TypeOK, NEW p \in Procs, Control(p), Acts(p), ~Start(p), ~Writing(p)
    PROVE  Within(p)
<1> USE DEF Within, TypeOK, Control, redis, history, Goto, Fetch, Finish
<1>1. CASE Evict(p) \/ Retire(p) \/ Invalidate(p)
      BY <1>1 DEF Evict, Retire, Invalidate
<1>2. CASE AcquireLock(p) \/ Release(p)
      BY <1>2 DEF AcquireLock, Release
<1>3. CASE LoadTask(p) \/ ReadTask(p) \/ StoreTask(p)
      BY <1>3 DEF LoadTask, ReadTask, StoreTask
<1>4. CASE ListKey(p) \/ LoadPage(p)
      BY <1>4 DEF ListKey, LoadPage, Hit
<1>5. CASE ReadPage(p) \/ StorePage(p)
      BY <1>5 DEF ReadPage, StorePage, PutPage
<1>6. CASE LoadCount(p) \/ RecheckCount(p)
      BY <1>6 DEF LoadCount, RecheckCount
<1>7. CASE ReadCount(p) \/ SetCount(p)
      BY <1>7 DEF ReadCount, SetCount
<1>8. CASE AnswerLost(p)
      BY <1>8 DEF AnswerLost, ResentGeneration, ResentLock, ResentValue, PutPage
<1>9. CASE ContextEnds(p) \/ Crash(p)
      BY <1>9 DEF ContextEnds, Crash
<1> QED
    BY <1>1, <1>2, <1>3, <1>4, <1>5, <1>6, <1>7, <1>8, <1>9 DEF Acts, Step, Writing

LEMMA EmptyIsOlder ==
    ASSUME TypeOK
    PROVE  Older(NoRows, rows) /\ Older(rows, rows)
BY OlderRefl DEF Older, NoRows, Absent, TypeOK, Table, Row

LEMMA WithinPast ==
    ASSUME NEW o \in Kinds, ReadInv(o), NEW p \in Procs, Within(p),
           \A q \in Procs \ {p} : CallUnchanged(q)
    PROVE  ReadPast(o)' /\ (op[p] = o => Older(got'[p], rows))
<1>1. \A t \in Cached(o) : Older(t, rows)
      BY DEF ReadInv, ReadPast
<1>2. op[p] = o => Older(got[p], rows)
      BY DEF ReadInv, ReadPast
<1>3. \A t \in Cached(o)' : t \in Cached(o) \/ (op[p] = o /\ t = got[p])
      BY DEF Within, Cached, Kinds
<1>4. ASSUME op[p] = o
      PROVE  Older(got'[p], rows)
    <2>1. got'[p] \in {got[p], rows, NoRows} \/ got'[p] \in Cached(o)
          BY <1>4 DEF Within, Cached, Kinds
    <2> QED
        BY <1>1, <1>2, <1>4, <2>1, EmptyIsOlder DEF ReadInv
<1>5. \A t \in Cached(o)' : Older(t, rows')
      BY <1>1, <1>2, <1>3 DEF Within
<1>6. ASSUME NEW q \in Procs, op'[q] = o
      PROVE  Older(got'[q], rows')
    <2>1. CASE q = p
          BY <1>4, <1>6, <2>1 DEF Within
    <2>2. CASE q # p
          BY <1>6, <2>2 DEF CallUnchanged, Within, ReadInv, ReadPast
    <2> QED
        BY <2>1, <2>2
<1> QED
    BY <1>4, <1>5, <1>6 DEF ReadPast

\* A write that returns acknowledges itself to reads of kind o, or not.
LEMMA AcknowledgeView ==
    ASSUME NEW o \in Kinds, TypeOK, TypeOK', WriteInv', NEW p \in Procs, Acknowledges(p),
           UNCHANGED <<CallSince(o), CallAnswer(o)>>
    PROVE  Reads(o)!Acknowledge \/ acked'[o] = acked[o]
<1>1. o \in Readers /\ acked[o] \in Versions /\ acked'[o] \in Versions /\ rows' = rows
      BY DEF Kinds, Readers, TypeOK, Acknowledges
<1>2. \A i \in Ids : acked[o][i] <= acked'[o][i]
      BY <1>1, Raised DEF Acknowledges
<1>3. \A i \in Ids : acked'[o][i] <= rows[i].ver
      BY <1>1 DEF WriteInv, Reflects
<1>4. acked'[o] \in Reads(o)!Vectors
      BY <1>1 DEF Versions, Reads!Vectors
<1>5. RowVersions' = RowVersions
      BY <1>1 DEF RowVersions
<1> QED
    BY <1>2, <1>3, <1>4, <1>5 DEF Reads!Acknowledge, Reads!Upto, RowVersions

LEMMA AnswerView ==
    ASSUME NEW o \in Kinds, TypeOK, TypeOK', NEW p \in Procs, Within(p), op[p] = o,
           \A q \in Procs \ {p} : CallUnchanged(q), acked'[o] = acked[o],
           Older(got'[p], rows), ReadFresh(o)', Returned(p, o)'
    PROVE  AbstractStep(o)
<1> DEFINE v == [i \in Ids |-> got'[p][i].ver]
<1>1. CallAnswer(o)[p] = {} /\ CallAnswer(o)'[p] = {v}
      BY DEF CallAnswer, Returned, Within
<1>2. v \in Reads(o)!Vectors
      BY DEF Reads!Vectors, TypeOK, Table, Row
<1>3. Reads(o)!Upto(CallSince(o)[p], v)
    <2>1. Reflects(got'[p], since[p])
          BY DEF ReadFresh, Within
    <2> QED
        BY <2>1 DEF Reads!Upto, CallSince, Reflects
<1>4. Reads(o)!Upto(v, RowVersions)
      BY DEF Reads!Upto, RowVersions, Older
<1>5. CallAnswer(o)' = [CallAnswer(o) EXCEPT ![p] = {v}]
      BY <1>1, OthersView
<1>6. CallSince(o)' = CallSince(o) /\ RowVersions' = RowVersions
    <2>1. CallSince(o)'[p] = CallSince(o)[p]
          BY DEF CallSince, Within
    <2>2. CallSince(o)' = [CallSince(o) EXCEPT ![p] = CallSince(o)[p]]
          BY <2>1, OthersView
    <2> QED
        BY <2>2 DEF CallSince, RowVersions, Within
<1> HIDE DEF v
<1>7. Reads(o)!Answer(p)
      BY <1>1, <1>2, <1>3, <1>4, <1>5, <1>6 DEF Reads!Answer
<1> QED
    BY <1>7 DEF AbstractStep, Reads!Next

LEMMA WithinReads ==
    ASSUME NEW o \in Kinds, ReadInv(o), TypeOK', WriteInv', ReadFresh(o)', NEW p \in Procs,
           Acts(p), ~Start(p), ~Writing(p)
    PROVE  ReadPast(o)' /\ AbstractStep(o)
<1>1. Within(p) /\ \A q \in Procs \ {p} : CallUnchanged(q)
      BY WithinCalls, OthersIdle DEF ReadInv, WriteInv, Idles
<1>2. ReadPast(o)' /\ (op[p] = o => Older(got'[p], rows))
      BY <1>1, WithinPast
<1>3. acked' = acked \/ Acknowledges(p)
      BY Acknowledgments DEF ReadInv, WriteInv
<1>4. ~Returned(p, o)
      BY <1>1 DEF Returned, Within
<1>5. CASE Returned(p, o)'
    <2>1. op[p] = o
          BY <1>1, <1>5 DEF Returned, Within
    <2>2. acked' = acked
          BY <1>3, <2>1 DEF Acknowledges, Kinds, Writers
    <2> QED
        BY <1>1, <1>2, <1>5, <2>1, <2>2, AnswerView DEF ReadInv
<1>6. CASE ~Returned(p, o)'
    <2>1. UNCHANGED <<CallSince(o), CallAnswer(o)>>
          BY <1>1, <1>4, <1>6, SilentView DEF Within
    <2>2. CASE acked'[o] = acked[o]
          BY <1>1, <1>2, <2>1, <2>2, Stutter DEF Within
    <2>3. CASE Acknowledges(p)
        <3>1. Reads(o)!Acknowledge \/ acked'[o] = acked[o]
              BY <2>1, <2>3, AcknowledgeView DEF ReadInv
        <3> QED
            BY <1>2, <2>2, <3>1 DEF AbstractStep, Reads!Next
    <2> QED
        BY <1>3, <2>2, <2>3
<1> QED
    BY <1>5, <1>6

-----------------------------------------------------------------------------
(* Statements, calls that begin, and expiry.                               *)

\* The statement of a write has turned the table into this one.
RowWritten(i) ==
    Older(rows, rows') /\ RowVersions' = [RowVersions EXCEPT ![i] = @ + 1]

LEMMA WrittenRow ==
    ASSUME rows \in Table, NEW i \in Ids, NEW r \in Row, r.ver = rows[i].ver + 1,
           rows' = [rows EXCEPT ![i] = r]
    PROVE  RowWritten(i)
<1>1. \A j \in Ids : rows'[j].ver = IF j = i THEN rows[j].ver + 1 ELSE rows[j].ver
      BY DEF Table
<1>2. \A j \in Ids : rows[j].ver \in Nat
      BY DEF Table, Row
<1>3. Older(rows, rows')
      BY <1>1, <1>2 DEF Older
<1>4. RowVersions' = [RowVersions EXCEPT ![i] = @ + 1]
      BY <1>1 DEF RowVersions
<1> QED
    BY <1>3, <1>4 DEF RowWritten

LEMMA StatementsWrite ==
    ASSUME rows \in Table, NEW i \in Ids
    PROVE  /\ CanInsert(rows, i) /\ rows' = Inserted(rows, i) => RowWritten(i)
           /\ rows' = Updated(rows, i) => RowWritten(i)
           /\ rows' = Deleted(rows, i) => RowWritten(i)
<1>1. rows[i].ver \in Nat
      BY DEF Table, Row
<1> DEFINE r == [ver |-> rows[i].ver + 1, live |-> TRUE]
           s == [ver |-> rows[i].ver + 1, live |-> FALSE]
<1>2. r \in Row /\ r.ver = rows[i].ver + 1 /\ s \in Row /\ s.ver = rows[i].ver + 1
      BY <1>1 DEF Row
<1>3. CanInsert(rows, i) => Inserted(rows, i) = [rows EXCEPT ![i] = r]
      BY DEF CanInsert, Inserted, Absent
<1>4. Updated(rows, i) = [rows EXCEPT ![i] = r] /\ Deleted(rows, i) = [rows EXCEPT ![i] = s]
      BY DEF Updated, Deleted
<1> HIDE DEF r, s
<1> QED
    BY <1>2, <1>3, <1>4, WrittenRow

\* The table only ages, and with it all that was read from it.
LEMMA PastKept ==
    ASSUME NEW o \in Kinds, TypeOK, TypeOK', ReadPast(o), Older(rows, rows'),
           pages' = pages, count' = count,
           NEW p \in Procs, \A q \in Procs \ {p} : CallUnchanged(q),
           op'[p] = o => Older(got'[p], rows')
    PROVE  ReadPast(o)'
<1>1. Cached(o)' = Cached(o) /\ \A t \in Cached(o) : t \in Table
      BY DEF Cached, TypeOK, Page
<1>2. \A t \in Cached(o)' : Older(t, rows')
      BY <1>1, OlderTrans DEF TypeOK, ReadPast
<1>3. ASSUME NEW q \in Procs \ {p}, op'[q] = o
      PROVE  Older(got'[q], rows')
      BY <1>3, OlderTrans DEF TypeOK, ReadPast, CallUnchanged
<1> QED
    BY <1>2, <1>3 DEF ReadPast

\* A statement adds one to the writes of a row, or changes nothing.
LEMMA StatementReads ==
    ASSUME NEW o \in Kinds, ReadInv(o), TypeOK', NEW p \in Procs, Writing(p)
    PROVE  ReadPast(o)' /\ AbstractStep(o)
<1> USE DEF ReadInv
<1>1. /\ op[p] # o /\ pages' = pages /\ count' = count
      /\ op' = op /\ since' = since /\ acked' = acked
      BY DEF Writing, Create, Update, Delete, Writers, Kinds, redis, history
<1>2. \A q \in Procs \ {p} : CallUnchanged(q)
      BY OthersIdle DEF Acts, Step, Writing, Idles
<1>3. rows' = rows \/ \E i \in Ids : RowWritten(i)
    <2>1. rows \in Table /\ id[p] \in Ids
          BY DEF TypeOK
    <2>2. CASE Create(p)
          BY <2>1, <2>2, StatementsWrite DEF Create, Commit, WriteFails
    <2>3. CASE Update(p)
          BY <2>1, <2>3, StatementsWrite DEF Update, Commit, WriteFails
    <2>4. CASE Delete(p)
          BY <2>1, <2>4, StatementsWrite DEF Delete, Commit, WriteFails
    <2> QED
        BY <2>2, <2>3, <2>4 DEF Writing
<1>4. Older(rows, rows')
      BY <1>3, EmptyIsOlder DEF RowWritten
<1>5. UNCHANGED <<CallSince(o), CallAnswer(o)>>
      BY <1>1, <1>2, SilentView DEF Returned
<1>6. ReadPast(o)'
      BY <1>1, <1>2, <1>4, PastKept
<1>7. ASSUME NEW i \in Ids, RowWritten(i)
      PROVE  Reads(o)!Write(i)
      BY <1>1, <1>5, <1>7 DEF Reads!Write, RowWritten
<1> QED
    BY <1>1, <1>3, <1>5, <1>6, <1>7, Stutter DEF AbstractStep, Reads!Next

\* A call begins: a read of kind o, or one that is not.
LEMMA StartReads ==
    ASSUME NEW o \in Kinds, ReadInv(o), TypeOK', NEW p \in Procs, Start(p)
    PROVE  ReadPast(o)' /\ AbstractStep(o)
<1> USE DEF ReadInv
<1>1. rows' = rows /\ pages' = pages /\ count' = count /\ acked' = acked
      BY DEF Start, redis, history
<1>2. \A q \in Procs \ {p} : CallUnchanged(q)
      BY OthersIdle DEF Acts, Idles
<1>3. /\ got'[p] = NoRows /\ res'[p] = "none"
      /\ op'[p] = o => since'[p] = acked[o]
      BY DEF Start, Fetch, Result, TypeOK, Readers, Kinds
<1>4. ReadPast(o)'
      BY <1>1, <1>2, <1>3, EmptyIsOlder, PastKept
<1>5. /\ CallAnswer(o)'[p] = {}
      /\ CallSince(o)'[p] = IF op'[p] = o THEN acked[o] ELSE None
      BY <1>3 DEF CallAnswer, CallSince, Returned
<1>6. Reads(o)!Begin(p) \/ Reads(o)!Leave(p)
    <2>1. /\ CallSince(o)' = [CallSince(o) EXCEPT ![p] = CallSince(o)'[p]]
          /\ CallAnswer(o)' = [CallAnswer(o) EXCEPT ![p] = CallAnswer(o)'[p]]
          BY <1>2, OthersView
    <2> QED
        BY <1>1, <1>5, <2>1 DEF Reads!Begin, Reads!Leave, Reads!Nothing, None, RowVersions
<1> QED
    BY <1>4, <1>6 DEF AbstractStep, Reads!Next

LEMMA ExpiryReads ==
    ASSUME NEW o \in Kinds, ReadInv(o), TypeOK', Expiry \/ UNCHANGED vars
    PROVE  ReadPast(o)' /\ AbstractStep(o)
<1>1. /\ UNCHANGED <<rows, op, pc, got, res, since, acked>>
      /\ pages' \subseteq pages /\ count' \subseteq count
      BY DEF Expiry, DropTask, DropPage, DropGeneration, DropCount, DropLock, vars, redis,
             history
<1>2. UNCHANGED <<CallSince(o), CallAnswer(o)>>
      BY <1>1 DEF CallSince, CallAnswer, Returned
<1>3. ReadPast(o)'
    <2>1. \A t \in Cached(o)' : t \in Cached(o)
          BY <1>1 DEF Cached
    <2> QED
        BY <1>1, <2>1 DEF ReadInv, ReadPast
<1> QED
    BY <1>1, <1>2, <1>3, Stutter

-----------------------------------------------------------------------------
(* The refinement.                                                         *)

LEMMA ReadInit == ASSUME NEW o \in Kinds PROVE Init => ReadPast(o) /\ Reads(o)!Init
<1> SUFFICES ASSUME Init
             PROVE  ReadPast(o) /\ Reads(o)!Init
    OBVIOUS
<1>1. TypeOK
      BY TypeInit
<1>2. ReadPast(o)
      BY <1>1, EmptyIsOlder DEF Init, ReadPast, Cached
<1>3. RowVersions \in Reads(o)!Vectors /\ acked[o] \in Reads(o)!Vectors
      BY <1>1, EmptyTypes DEF TypeOK, Kinds, RowVersions, Reads!Vectors, Table, Row, Versions, Readers
<1>4. Reads(o)!Upto(acked[o], RowVersions)
      BY InitCorrect DEF WriteInv, Kinds, Readers, Reflects, Reads!Upto, RowVersions
<1>5. CallSince(o) = [p \in Procs |-> Reads(o)!Nothing]
      BY DEF Init, CallSince, Reads!Nothing, None
<1>6. CallAnswer(o) = [p \in Procs |-> {}]
      BY DEF Init, CallAnswer, Returned
<1> QED
    BY <1>2, <1>3, <1>4, <1>5, <1>6 DEF Reads!Init

LEMMA ReadStep ==
    ASSUME NEW o \in Kinds
    PROVE  TypeOK /\ WriteInv /\ ReadPast(o) /\ TypeOK' /\ WriteInv' /\ ReadFresh(o)' /\ [Next]_vars
           => ReadPast(o)' /\ [Reads(o)!Next]_(Reads(o)!vars)
<1> SUFFICES ASSUME ReadInv(o), TypeOK', WriteInv', ReadFresh(o)', [Next]_vars
             PROVE  ReadPast(o)' /\ AbstractStep(o)
    BY DEF AbstractStep, ReadInv
<1>1. ASSUME NEW p \in Procs, Acts(p)
      PROVE  ReadPast(o)' /\ AbstractStep(o)
      BY <1>1, StartReads, StatementReads, WithinReads
<1>2. (\E p \in Procs : Acts(p)) \/ Expiry \/ UNCHANGED vars
      BY DEF Next, Acts
<1> QED
    BY <1>1, <1>2, ExpiryReads

\* What lists do, with the cache in between, is what FreshReads allows: an
\* answer lacks no write acknowledged before the call and holds nothing that
\* was not committed, for any number of tasks and goroutines.
THEOREM ListsImplement == ASSUME ~Resends PROVE Spec => ListsAreFresh
<1>1. ListsSeeAckedWrites => ReadFresh("list")
      BY DEF ListsSeeAckedWrites, ReadFresh
<1>2. Init => ReadPast("list") /\ Reads("list")!Init
      BY ReadInit DEF Kinds
<1>3. TypeOK /\ WriteInv /\ ReadPast("list") /\ TypeOK' /\ WriteInv' /\ ReadFresh("list")' /\ [Next]_vars
      => ReadPast("list")' /\ [Reads("list")!Next]_(Reads("list")!vars)
      BY ReadStep DEF Kinds
<1> QED
    BY <1>1, <1>2, <1>3, TypeCorrect, TasksInvariant, ListsCorrect, PTL DEF Spec, ListsAreFresh

\* The same of counts, as long as Redis keeps the lock key for its TTL: an
\* answer lacks no create or delete acknowledged before the call and counts
\* nothing that was not committed, whichever commands are sent twice.
THEOREM CountsImplement == ASSUME ~LockEvictable PROVE Spec => CountsAreFresh
<1>1. CountsSeeAckedWrites => ReadFresh("count")
      BY DEF CountsSeeAckedWrites, ReadFresh
<1>2. Init => ReadPast("count") /\ Reads("count")!Init
      BY ReadInit DEF Kinds
<1>3. TypeOK /\ WriteInv /\ ReadPast("count") /\ TypeOK' /\ WriteInv' /\ ReadFresh("count")' /\ [Next]_vars
      => ReadPast("count")' /\ [Reads("count")!Next]_(Reads("count")!vars)
      BY ReadStep DEF Kinds
<1> QED
    BY <1>1, <1>2, <1>3, TypeCorrect, TasksInvariant, CountsCorrect, PTL DEF Spec, CountsAreFresh

=============================================================================
