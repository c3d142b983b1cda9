----------------------------- MODULE TimedCount -----------------------------
(***************************************************************************)
(* The cached task count in time: the lock with its TTL, the deadlines of  *)
(* the calls that take it, commands that take effect late, and the gauge   *)
(* each API process refreshes from the count.                              *)
(*                                                                         *)
(* RedisTask says that the TTL of the lock never takes it from a count in  *)
(* time (its DropLock) and that the cached count goes away (its            *)
(* fairness); here both follow from the durations.  Time passes in ticks,  *)
(* every timer counts down.  A command takes effect at most MaxDelay after *)
(* it was sent, so at most MaxDelay after the deadline of its call: the    *)
(* client does not send on a context that is over, but does not recall     *)
(* what it has sent.                                                       *)
(***************************************************************************)
EXTENDS Integers, Sequences

CONSTANTS
    Refreshers,     \* one per API process
    Writers,        \* goroutines that create or delete tasks
    LockTTL, CountTTL,              \* countLockTTL, REDIS_TTL
    CountTimeout,                   \* taskCountRefreshTimeout
    InvalidationTimeout,            \* countInvalidationLimit
    Interval,                       \* taskCountRefreshInterval
    MaxDelay,       \* the longest a command is on its way
    MaxWrites       \* bound on the writes

Procs == Refreshers \cup Writers

ASSUME DurationAssumption ==
    /\ {LockTTL, CountTTL, CountTimeout, InvalidationTimeout, Interval} \subseteq Nat \ {0}
    /\ MaxDelay \in Nat /\ MaxWrites \in Nat
\* A SET sent within the deadline lands while the lock is there.
ASSUME LockAssumption == CountTimeout + MaxDelay <= LockTTL
\* A refresh, its release included, is over before the ticker fires again.
ASSUME IntervalAssumption == CountTimeout + 2 * MaxDelay <= Interval
ASSUME PartyAssumption == Refreshers \cap Writers = {}

VARIABLES
    log,        \* the committed creates and deletes: [age, acked], two ages
    count,      \* Redis tasks:count: [ver, ttl, how], of at most one
    lock,       \* Redis tasks:count:lock: [owner, ttl], of at most one
    sets,       \* SETs of the count whose client is not waiting for them
    pc,         \* per goroutine: where it is
    left,       \* per goroutine: ticks until its deadline, negative after it
    write,      \* per writer: its write, as an index of log, 0 when it warned
    got,        \* per refresher: the count it was given: [ver, sound]
    robbed,     \* refreshers whose lock Redis dropped before its TTL
    due,        \* per refresher: ticks until its ticker fires
    gauge,      \* per refresher: the metric, of at most one [ver, sound]
    fresh       \* refreshers whose latest refresh succeeded

store == <<count, lock, sets>>
calls == <<pc, left, write, got, robbed>>
metric == <<due, gauge, fresh>>
vars  == <<log, store, calls, metric>>

\* How long a gauge may lag an acknowledged write, and any write.
Lag      == Interval + CountTimeout + 2 * MaxDelay
StaleLag == CountTimeout + MaxDelay + CountTTL + Lag

Never   == -1       \* not acknowledged
Values  == [ver : 0..MaxWrites, sound : BOOLEAN]
Causes  == {"held", "evicted", "stray", "late"}
Labels  == {"idle", "down", "load", "lock", "recheck", "read", "set", "bypass",
            "bypassLocked", "release", "retire", "invalidate"}

TypeOK ==
    /\ log \in Seq([age : 0..(StaleLag + 1), acked : 0..(Lag + 1) \cup {Never}])
    /\ Len(log) <= MaxWrites
    /\ count \subseteq [ver : 0..MaxWrites, ttl : 1..CountTTL, how : Causes]
    /\ lock \subseteq [owner : Procs, ttl : 1..LockTTL]
    /\ sets \subseteq [ver : 0..MaxWrites, ttl : 0..(CountTimeout + MaxDelay)]
    /\ pc \in [Procs -> Labels]
    /\ left \in [Procs -> (-2 * MaxDelay)..(CountTimeout + InvalidationTimeout)]
    /\ write \in [Writers -> 0..MaxWrites]
    /\ got \in [Refreshers -> SUBSET Values] /\ gauge \in [Refreshers -> SUBSET Values]
    /\ robbed \subseteq Refreshers /\ fresh \subseteq Refreshers
    /\ due \in [Refreshers -> 0..Interval]

-----------------------------------------------------------------------------
(* Commands and contexts.                                                  *)

\* The context is over.
Over(p) == left[p] <= 0
\* A command of the call can still take effect.
InTime(p) == left[p] + MaxDelay > 0

\* Any command may fail, over or not.
Goto(p, l) == pc' = [pc EXCEPT ![p] = l]

\* Writes acknowledged, and writes of any kind, that a count of v misses and
\* that are older than a.
MissesAcked(v, a)     == \E w \in (v + 1)..Len(log) : log[w].acked > a
MissesCommitted(v, a) == \E w \in (v + 1)..Len(log) : log[w].age > a

LeaseAsLongAsTheCount == CountTimeout
Lease == LockTTL
Taken(p) == {[owner |-> p, ttl |-> Lease]}

\* The count as SET puts it there.
LongLived(v, h) == {[ver |-> v, ttl |-> 2 * CountTTL, how |-> h]}
Cached(v, h)    == {[ver |-> v, ttl |-> CountTTL, how |-> h]}

Owns(p) == \E l \in lock : l.owner = p

-----------------------------------------------------------------------------
(* The refresher.                                                          *)

\* The ticker fires: RefreshTaskGauge under a deadline of its own.
RefreshBegins(p) ==
    /\ pc[p] = "idle" /\ due[p] = 0
    /\ Goto(p, "load")
    /\ left' = [left EXCEPT ![p] = CountTimeout]
    /\ due' = [due EXCEPT ![p] = Interval]
    /\ got' = [got EXCEPT ![p] = {}]
    /\ UNCHANGED <<log, store, write, robbed, gauge, fresh>>

\* Count has returned to RefreshTaskGauge: the gauge takes its answer, or
\* keeps its value when there is none.
Return(p, answer) ==
    /\ Goto(p, "idle") /\ left' = [left EXCEPT ![p] = 0]
    /\ got' = [got EXCEPT ![p] = {}] /\ robbed' = robbed \ {p}
    /\ IF answer = {}
       THEN fresh' = fresh \ {p} /\ UNCHANGED gauge
       ELSE fresh' = fresh \cup {p} /\ gauge' = [gauge EXCEPT ![p] = answer]

Answer(c) == {[ver |-> c.ver, sound |-> c.how = "held"]}

\* GET tasks:count.
LoadCount(p) ==
    /\ pc[p] = "load"
    /\ \/ InTime(p) /\ \E c \in count : Return(p, Answer(c))
       \/ /\ \/ InTime(p) /\ count = {} /\ Goto(p, "lock")
             \/ Goto(p, "bypass")
          /\ UNCHANGED <<left, got, robbed, gauge, fresh>>
    /\ UNCHANGED <<log, store, write, due>>

\* The same GET under the lock.
RecheckCount(p) ==
    /\ pc[p] = "recheck"
    /\ \/ /\ InTime(p) /\ Goto(p, "release")
          /\ \E c \in count : got' = [got EXCEPT ![p] = Answer(c)]
       \/ /\ (InTime(p) /\ count = {} /\ Goto(p, "read")) \/ Goto(p, "bypassLocked")
          /\ UNCHANGED got
    /\ UNCHANGED <<log, store, left, write, robbed, metric>>

\* SELECT count(*): the context decides, pgx gives up with it.
ReadCount(p) ==
    /\ pc[p] \in {"read", "bypass", "bypassLocked"}
    /\ LET answer == {[ver |-> Len(log), sound |-> TRUE]}
       IN  \/ ~Over(p) /\ pc[p] = "bypass" /\ Return(p, answer)
           \/ pc[p] = "bypass" /\ Return(p, {})
           \/ /\ ~Over(p) /\ pc[p] # "bypass"
              /\ got' = [got EXCEPT ![p] = answer]
              /\ Goto(p, IF pc[p] = "read" THEN "set" ELSE "release")
              /\ UNCHANGED <<left, robbed, gauge, fresh>>
           \/ /\ pc[p] # "bypass" /\ Goto(p, "release")
              /\ UNCHANGED <<left, got, robbed, gauge, fresh>>
    /\ UNCHANGED <<log, store, write, due>>

\* What the SET of p's count relies on as it lands.
Standing(p) ==
    IF Owns(p) THEN "held" ELSE IF p \in robbed THEN "evicted" ELSE "late"

\* A SET on its way when nobody waits for it any more.
Strayed(p) == {[ver |-> a.ver, ttl |-> left[p] + MaxDelay] : a \in got[p]}

\* SET tasks:count.  When it fails it may still be on its way.
SetCount(p) ==
    /\ pc[p] = "set"
    /\ \/ /\ InTime(p) /\ \E a \in got[p] : count' = Cached(a.ver, Standing(p))
          /\ UNCHANGED sets
       \/ /\ UNCHANGED count
          /\ UNCHANGED sets \/ (InTime(p) /\ sets' = sets \cup Strayed(p))
    /\ Goto(p, "release")
    /\ UNCHANGED <<log, lock, left, write, got, robbed, metric>>

StraySetLands ==
    /\ \E s \in sets : count' = Cached(s.ver, "stray") /\ sets' = sets \ {s}
    /\ UNCHANGED <<log, lock, calls, metric>>

-----------------------------------------------------------------------------
(* The lock, for counts and invalidations.                                 *)

AcquireLock(p) ==
    /\ pc[p] = "lock" /\ InTime(p)
    /\ lock = {} /\ lock' = Taken(p)
    /\ Goto(p, IF p \in Refreshers THEN "recheck" ELSE "invalidate")
    /\ UNCHANGED <<log, count, sets, left, write, got, robbed, metric>>

\* The deadline passes, or SET NX fails, which may have taken the lock.
LockFails(p) ==
    /\ pc[p] = "lock"
    /\ UNCHANGED lock \/ (InTime(p) /\ lock = {} /\ lock' = Taken(p))
    /\ IF p \in Refreshers
       THEN Goto(p, "bypass") /\ UNCHANGED left
       ELSE Goto(p, "idle") /\ left' = [left EXCEPT ![p] = 0]
    /\ UNCHANGED <<log, count, sets, write, got, robbed, metric>>

\* The script that deletes the lock if it holds this call's token; a failing
\* one leaves it to its TTL.
OwnTokenOnly(p) == {l \in lock : l.owner # p}
Release(p) ==
    /\ pc[p] = "release" /\ lock' \in {OwnTokenOnly(p), lock}
    /\ IF p \in Refreshers
       THEN Return(p, got[p]) /\ UNCHANGED log
       ELSE /\ Goto(p, "idle") /\ left' = [left EXCEPT ![p] = 0]
            /\ log' = IF write[p] = 0 THEN log ELSE [log EXCEPT ![write[p]].acked = 0]
            /\ UNCHANGED <<got, robbed, gauge, fresh>>
    /\ UNCHANGED <<count, sets, write, due>>

-----------------------------------------------------------------------------
(* Writers.                                                                *)

\* A create or a delete commits; its evict and retireLists follow.
Commit(p) ==
    /\ pc[p] = "idle" /\ p \in Writers /\ Len(log) < MaxWrites
    /\ log' = Append(log, [age |-> 0, acked |-> Never])
    /\ write' = [write EXCEPT ![p] = Len(log')]
    /\ Goto(p, "retire")
    /\ UNCHANGED <<store, left, got, robbed, metric>>

\* invalidateCount, with a deadline of its own.
InvalidationBegins(p) ==
    /\ pc[p] = "retire"
    /\ Goto(p, "lock") /\ left' = [left EXCEPT ![p] = InvalidationTimeout]
    /\ UNCHANGED <<log, store, write, got, robbed, metric>>

\* DEL tasks:count.  When it fails there is a warning, and the model does not
\* take the write for acknowledged.
NothingDeleted == count
Emptied == {}
Invalidate(p) ==
    /\ pc[p] = "invalidate" /\ Goto(p, "release")
    /\ \/ InTime(p) /\ count' = Emptied /\ UNCHANGED write
       \/ /\ UNCHANGED count \/ (InTime(p) /\ count' = Emptied)
          /\ write' = [write EXCEPT ![p] = 0]
    /\ UNCHANGED <<log, lock, sets, left, got, robbed, metric>>

-----------------------------------------------------------------------------
(* Processes and Redis.                                                    *)

\* A process dies: its gauge is lost, its SET may be on its way.
Crash(p) ==
    /\ pc[p] \notin {"idle", "down"}
    /\ left' = [left EXCEPT ![p] = 0] /\ robbed' = robbed \ {p}
    /\ IF p \in Refreshers
       THEN /\ Goto(p, "down") /\ got' = [got EXCEPT ![p] = {}]
            /\ gauge' = [gauge EXCEPT ![p] = {}] /\ fresh' = fresh \ {p}
            /\ due' = [due EXCEPT ![p] = 0]
            /\ UNCHANGED sets
               \/ (pc[p] = "set" /\ InTime(p) /\ sets' = sets \cup Strayed(p))
       ELSE Goto(p, "idle") /\ UNCHANGED <<sets, got, metric>>
    /\ UNCHANGED <<log, count, lock, write>>

\* The first refresh comes before the first tick.
Restart(p) ==
    /\ pc[p] = "down" /\ Goto(p, "idle")
    /\ UNCHANGED <<log, store, left, write, got, robbed, metric>>

\* Redis drops a key before its TTL: allkeys-lru, or a restart.
EvictCount ==
    /\ count # {} /\ count' = {}
    /\ UNCHANGED <<log, lock, sets, calls, metric>>

EvictLock ==
    /\ lock # {} /\ lock' = {}
    /\ robbed' = robbed \cup
           {p \in Refreshers : Owns(p) /\ pc[p] \in {"recheck", "read", "set"}}
    /\ UNCHANGED <<log, count, sets, pc, left, write, got, metric>>

\* Keys one tick nearer to their TTL, those that reach it gone.
Aged(keys) == {[k EXCEPT !.ttl = @ - 1] : k \in {x \in keys : x.ttl > 1}}

\* Bound: an age past what any property asks for is not told from a larger one.
Older(a, most) == IF a \in 0..most THEN a + 1 ELSE a

\* What a goroutine must do before time passes: leave a command whose effect
\* and answer are due, and begin the refresh that is.
Patient(p) ==
    /\ pc[p] \in {"idle", "down", "retire"} \/
       left[p] > IF pc[p] = "release" THEN -2 * MaxDelay ELSE -MaxDelay
    /\ ~(p \in Refreshers /\ pc[p] = "idle" /\ due[p] = 0)

Tick ==
    /\ \A p \in Procs : Patient(p)
    /\ left' = [p \in Procs |->
           IF pc[p] \in {"idle", "down", "retire"} THEN left[p] ELSE left[p] - 1]
    /\ due' = [p \in Refreshers |-> IF pc[p] = "down" THEN 0 ELSE due[p] - 1]
    /\ count' = Aged(count) /\ lock' = Aged(lock)
    /\ sets' = {[s EXCEPT !.ttl = @ - 1] : s \in {x \in sets : x.ttl > 0}}
    /\ log' = [w \in 1..Len(log) |->
           [age |-> Older(log[w].age, StaleLag), acked |-> Older(log[w].acked, Lag)]]
    /\ UNCHANGED <<pc, write, got, robbed, gauge, fresh>>

-----------------------------------------------------------------------------
Init ==
    /\ log = <<>>
    /\ count = {} /\ lock = {} /\ sets = {}
    /\ pc = [p \in Procs |-> IF p \in Refreshers THEN "down" ELSE "idle"]
    /\ left = [p \in Procs |-> 0]
    /\ write = [p \in Writers |-> 0]
    /\ got = [p \in Refreshers |-> {}]
    /\ robbed = {} /\ fresh = {}
    /\ due = [p \in Refreshers |-> 0]
    /\ gauge = [p \in Refreshers |-> {}]

Refresh(p) ==
    RefreshBegins(p) \/ LoadCount(p) \/ RecheckCount(p) \/ ReadCount(p) \/ SetCount(p)
    \/ Restart(p)

Change(p) == Commit(p) \/ InvalidationBegins(p) \/ Invalidate(p)

Next ==
    \/ \E p \in Refreshers : Refresh(p)
    \/ \E p \in Writers : Change(p)
    \/ \E p \in Procs : AcquireLock(p) \/ LockFails(p) \/ Release(p) \/ Crash(p)
    \/ StraySetLands \/ EvictCount \/ EvictLock \/ Tick

Spec == Init /\ [][Next]_vars

-----------------------------------------------------------------------------
(* Properties.                                                             *)

\* A SET that was sent in time lands while its lock is there, however late:
\* only Redis itself, dropping the lock before its TTL, or a client that gave
\* up waiting, or died, lets a count be cached outside the lock.
LockOutlivesCount == \A c \in count : c.how # "late"

\* A count cached under its lock never misses a write that was acknowledged,
\* neither when the lock of the write expired before its DEL landed nor when
\* counts of dead processes are still on their way.
LockedCountIsCurrent ==
    \A c \in count : c.how = "held" => ~MissesAcked(c.ver, -1)

\* The gauge lags an acknowledged write by an interval and the time a refresh
\* takes, no more, while refreshes succeed: unless its value came from a count
\* that was cached outside the lock.
GaugeLagsByAnInterval ==
    \A p \in fresh : \A g \in gauge[p] :
        g.sound => ~MissesAcked(g.ver, Lag)

\* Whatever happened to locks and invalidations, the gauge lags a committed
\* write by no more than the TTL on top of that, while refreshes succeed.
GaugeLagsByTTL ==
    \A p \in fresh : \A g \in gauge[p] :
        ~MissesCommitted(g.ver, StaleLag)

=============================================================================
