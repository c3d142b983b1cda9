-------------------------- MODULE TimedCountProofs --------------------------
(***************************************************************************)
(* What the durations of the count give, for every number of processes and *)
(* writers and every choice of durations that meets the assumptions of     *)
(* TimedCount: its types, that no SET of the count outlives its lock, that *)
(* a count cached under its lock misses no acknowledged write, and that    *)
(* the gauge lags by no more than Lag and StaleLag.                        *)
(***************************************************************************)
EXTENDS TimedCount, TLAPS

\* p is in a refresh.
Busy(p) == pc[p] \notin {"idle", "down"}

\* A refresh has used as much of its deadline as of the interval, and goes
\* nowhere a write goes; a process that is down has not refreshed.
ClockInv ==
    \A p \in Refreshers :
        /\ pc[p] \notin {"retire", "invalidate"}
        /\ Busy(p) => left[p] <= CountTimeout /\ due[p] = left[p] + Interval - CountTimeout
        /\ pc[p] = "down" => p \notin fresh

\* A writer's write is in the log.
Logged == \A q \in Writers : write[q] <= Len(log)

\* p counts to cache the count.
Counting(p) == pc[p] \in {"recheck", "read", "set"}

\* p's lock lasts for as long as its SET can land, unless Redis drops it.
Holds(p) ==
    p \in robbed \/ ~InTime(p) \/ \E l \in lock : l.owner = p /\ left[p] + MaxDelay <= l.ttl

HoldInv ==
    /\ \A p \in Refreshers : Counting(p) => Holds(p)
    /\ \A c \in count : c.how # "late"

\* What a count of v misses of the log l was acknowledged, or committed, at most
\* a ticks ago.
AckedWithin(l, v, a)     == \A w \in (v + 1)..Len(l) : l[w].acked <= a
CommittedWithin(l, v, a) == \A w \in (v + 1)..Len(l) : l[w].age <= a

\* p will cache its count, under its lock.
Caching(p) == pc[p] = "set" /\ Owns(p)

\* What is cached under a lock, or will be, misses no acknowledged write; nor,
\* once a write has had the lock, does it miss that one.
AckInv ==
    /\ \A c \in count : c.how = "held" => AckedWithin(log, c.ver, -1)
    /\ \A p \in Refreshers : Caching(p) => \A a \in got[p] : AckedWithin(log, a.ver, -1)
    /\ \A q \in Writers, p \in Refreshers :
           pc[q] \in {"invalidate", "release"} /\ Caching(p) =>
               \A a \in got[p] : write[q] <= a.ver
    /\ \A q \in Writers : pc[q] = "release" =>
           \A c \in count : c.how = "held" => write[q] <= c.ver

\* How long ago the refresh began that gave p's gauge its value.
GaugeAge(p) == IF Busy(p) THEN Interval + CountTimeout - left[p] ELSE Interval - due[p]

\* What a refresh was given missed nothing when it began; what the gauge shows
\* missed nothing when the refresh that set it began.
LagInv ==
    \A p \in Refreshers :
        /\ Busy(p) => \A a \in got[p] :
               a.sound => AckedWithin(log, a.ver, CountTimeout - left[p])
        /\ p \in fresh => \A g \in gauge[p] :
               g.sound => AckedWithin(log, g.ver, GaugeAge(p))

\* How long a count can be behind the table while its key is there.
CountAge == CountTimeout + MaxDelay + CountTTL

StaleInv ==
    /\ \A s \in sets : CommittedWithin(log, s.ver, CountTimeout + MaxDelay - s.ttl)
    /\ \A c \in count : CommittedWithin(log, c.ver, CountAge - c.ttl)
    /\ \A p \in Refreshers :
        /\ pc[p] = "set" => \A a \in got[p] : CommittedWithin(log, a.ver, CountTimeout - left[p])
        /\ Busy(p) => \A a \in got[p] :
               CommittedWithin(log, a.ver, CountAge + CountTimeout - left[p])
        /\ p \in fresh => \A g \in gauge[p] : CommittedWithin(log, g.ver, CountAge + GaugeAge(p))

-----------------------------------------------------------------------------
(* Types and clocks.                                                       *)

LEMMA Durations ==
    /\ LockTTL \in Nat \ {0} /\ CountTTL \in Nat \ {0} /\ CountTimeout \in Nat \ {0}
    /\ InvalidationTimeout \in Nat \ {0} /\ Interval \in Nat \ {0}
    /\ MaxDelay \in Nat /\ MaxWrites \in Nat
    /\ CountTimeout + MaxDelay <= LockTTL
    /\ CountTimeout + 2 * MaxDelay <= Interval
BY DurationAssumption, LockAssumption, IntervalAssumption

\* One goroutine's move leaves the others where they are.
LEMMA Moves ==
    ASSUME pc \in [Procs -> Labels], NEW p \in Procs, NEW l \in Labels, Goto(p, l)
    PROVE  pc' \in [Procs -> Labels] /\ pc'[p] = l /\ \A q \in Procs \ {p} : pc'[q] = pc[q]
BY DEF Goto

\* What a refresh gives the gauge is a value.
LEMMA AnswerType ==
    ASSUME TypeOK, NEW c \in count
    PROVE  Answer(c) \subseteq Values
BY DEF Answer, Values, TypeOK

LEMMA StrayType ==
    ASSUME TypeOK, ClockInv, NEW p \in Refreshers, Busy(p), InTime(p)
    PROVE  Strayed(p) \subseteq [ver : 0..MaxWrites, ttl : 0..(CountTimeout + MaxDelay)]
<1>1. left[p] <= CountTimeout /\ left[p] \in Int /\ left[p] + MaxDelay > 0
    BY Durations DEF ClockInv, InTime, TypeOK, Procs
<1>2. left[p] + MaxDelay \in 0..(CountTimeout + MaxDelay)
    BY <1>1, Durations
<1>3. \A a \in got[p] : a.ver \in 0..MaxWrites
    BY DEF TypeOK, Values
<1> QED
    BY <1>2, <1>3 DEF Strayed

LEMMA ReturnType ==
    ASSUME TypeOK, NEW p \in Refreshers, NEW answer \in SUBSET Values, Return(p, answer)
    PROVE  /\ pc' \in [Procs -> Labels] /\ robbed' \subseteq Refreshers /\ fresh' \subseteq Refreshers
           /\ left' \in [Procs -> (-2 * MaxDelay)..(CountTimeout + InvalidationTimeout)]
           /\ got' \in [Refreshers -> SUBSET Values] /\ gauge' \in [Refreshers -> SUBSET Values]
<1>1. 0 \in (-2 * MaxDelay)..(CountTimeout + InvalidationTimeout)
    BY Durations
<1>2. "idle" \in Labels /\ p \in Procs
    BY DEF Labels, Procs
<1> QED
    BY <1>1, <1>2, Moves DEF Return, TypeOK

\* The log keeps its type when a write commits and when time passes.
LEMMA CommitType ==
    ASSUME TypeOK, NEW p \in Writers, Commit(p)
    PROVE  /\ log' \in Seq([age : 0..(StaleLag + 1), acked : 0..(Lag + 1) \cup {Never}])
           /\ Len(log') = Len(log) + 1 /\ Len(log') <= MaxWrites
<1>1. [age |-> 0, acked |-> Never] \in [age : 0..(StaleLag + 1), acked : 0..(Lag + 1) \cup {Never}]
    BY Durations DEF StaleLag, Lag
<1> QED
    BY <1>1, Durations DEF Commit, TypeOK

LEMMA OlderType ==
    ASSUME NEW most \in Nat
    PROVE  /\ \A a \in 0..(most + 1) : Older(a, most) \in 0..(most + 1)
           /\ Older(Never, most) = Never
BY DEF Older, Never

LEMMA TickLog ==
    ASSUME TypeOK, Tick
    PROVE  /\ log' \in Seq([age : 0..(StaleLag + 1), acked : 0..(Lag + 1) \cup {Never}])
           /\ Len(log') = Len(log)
           /\ \A w \in 1..Len(log) : log'[w].age = Older(log[w].age, StaleLag)
                                  /\ log'[w].acked = Older(log[w].acked, Lag)
<1> DEFINE Write == [age : 0..(StaleLag + 1), acked : 0..(Lag + 1) \cup {Never}]
           n == Len(log)
<1>1. StaleLag \in Nat /\ Lag \in Nat
    BY Durations DEF StaleLag, Lag
<1>2. n \in Nat /\ \A w \in 1..n : log[w] \in Write
    <2>1. log \in Seq(Write)
        BY DEF TypeOK
    <2> HIDE DEF Write
    <2> QED
        BY <2>1
<1>3. \A w \in 1..n : [age |-> Older(log[w].age, StaleLag), acked |-> Older(log[w].acked, Lag)] \in Write
    <2>1. \A a \in 0..(StaleLag + 1) : Older(a, StaleLag) \in 0..(StaleLag + 1)
        BY <1>1, OlderType
    <2>2. \A a \in 0..(Lag + 1) \cup {Never} : Older(a, Lag) \in 0..(Lag + 1) \cup {Never}
        BY <1>1, OlderType
    <2> QED
        BY <1>2, <2>1, <2>2
<1>4. log' = [w \in 1..n |-> [age |-> Older(log[w].age, StaleLag), acked |-> Older(log[w].acked, Lag)]]
    BY Zenon DEF Tick
<1>5. log' \in [1..n -> Write]
    BY <1>3, <1>4
<1>6. log' \in Seq(Write) /\ Len(log') = n
    <2> HIDE DEF Write, n
    <2> QED
        BY <1>2, <1>5
<1> QED
    BY <1>4, <1>6

\* What time leaves of the keys and of the SETs on their way.
LEMMA AgedCount ==
    ASSUME TypeOK, NEW c \in Aged(count)
    PROVE  /\ c \in [ver : 0..MaxWrites, ttl : 1..CountTTL, how : Causes]
           /\ \E k \in count : c.ver = k.ver /\ c.how = k.how /\ c.ttl = k.ttl - 1
<1>1. PICK k \in count : k.ttl > 1 /\ c = [k EXCEPT !.ttl = @ - 1]
    BY DEF Aged
<1>2. k \in [ver : 0..MaxWrites, ttl : 1..CountTTL, how : Causes]
    BY DEF TypeOK
<1>3. c \in [ver : 0..MaxWrites, ttl : 1..CountTTL, how : Causes]
    BY <1>1, <1>2, Durations
<1>4. c.ver = k.ver /\ c.how = k.how /\ c.ttl = k.ttl - 1
    BY <1>1, <1>2
<1> QED
    BY <1>3, <1>4

LEMMA AgedLock ==
    ASSUME TypeOK
    PROVE  /\ Aged(lock) \subseteq [owner : Procs, ttl : 1..LockTTL]
           /\ \A m \in Aged(lock) : \E l \in lock : l.owner = m.owner
           /\ \A l \in lock : l.ttl > 1 =>
                  \E m \in Aged(lock) : m.owner = l.owner /\ m.ttl = l.ttl - 1
<1> DEFINE Sooner(k) == [k EXCEPT !.ttl = @ - 1]
<1>1. ASSUME NEW l \in lock, l.ttl > 1
      PROVE  /\ Sooner(l) \in [owner : Procs, ttl : 1..LockTTL]
             /\ Sooner(l).owner = l.owner
             /\ Sooner(l).ttl = l.ttl - 1
    <2>1. l \in [owner : Procs, ttl : 1..LockTTL]
        BY DEF TypeOK
    <2> QED
        BY <1>1, <2>1, Durations
<1>2. \A m : m \in Aged(lock) <=> \E l \in lock : l.ttl > 1 /\ m = Sooner(l)
    BY DEF Aged
<1> HIDE DEF Sooner
<1> QED
    BY <1>1, <1>2

LEMMA AgedSets ==
    ASSUME TypeOK, Tick, NEW s \in sets'
    PROVE  /\ s \in [ver : 0..MaxWrites, ttl : 0..(CountTimeout + MaxDelay)]
           /\ \E k \in sets : s.ver = k.ver /\ s.ttl = k.ttl - 1
<1>1. PICK k \in sets : k.ttl > 0 /\ s = [k EXCEPT !.ttl = @ - 1]
    BY DEF Tick
<1>2. k \in [ver : 0..MaxWrites, ttl : 0..(CountTimeout + MaxDelay)]
    BY DEF TypeOK
<1>3. s \in [ver : 0..MaxWrites, ttl : 0..(CountTimeout + MaxDelay)]
    BY <1>1, <1>2, Durations
<1>4. s.ver = k.ver /\ s.ttl = k.ttl - 1
    BY <1>1, <1>2
<1> QED
    BY <1>3, <1>4

\* The clocks of the goroutines after a tick.
LEMMA TickClocks ==
    ASSUME TypeOK, ClockInv, Tick
    PROVE  /\ \A p \in Procs : left'[p] = IF pc[p] \in {"idle", "down", "retire"}
                                          THEN left[p] ELSE left[p] - 1
           /\ left' \in [Procs -> (-2 * MaxDelay)..(CountTimeout + InvalidationTimeout)]
           /\ \A p \in Refreshers : due'[p] = IF pc[p] = "down" THEN 0 ELSE due[p] - 1
           /\ due' \in [Refreshers -> 0..Interval]
<1>1. left' = [p \in Procs |-> IF pc[p] \in {"idle", "down", "retire"} THEN left[p] ELSE left[p] - 1]
    BY Zenon DEF Tick
<1>2. due' = [p \in Refreshers |-> IF pc[p] = "down" THEN 0 ELSE due[p] - 1]
    BY Zenon DEF Tick
<1>3. \A p \in Procs : Patient(p)
    BY Zenon DEF Tick
<1>4. ASSUME NEW p \in Procs, pc[p] \notin {"idle", "down", "retire"}
      PROVE  left[p] \in Int /\ left[p] > -2 * MaxDelay
    <2>1. left[p] \in (-2 * MaxDelay)..(CountTimeout + InvalidationTimeout)
        BY DEF TypeOK
    <2> QED
        BY <1>3, <1>4, <2>1, Durations DEF Patient
<1>5. left' \in [Procs -> (-2 * MaxDelay)..(CountTimeout + InvalidationTimeout)]
    BY <1>1, <1>4, Durations DEF TypeOK
<1>6. ASSUME NEW p \in Refreshers, pc[p] # "down"
      PROVE  due[p] - 1 \in 0..Interval
    <2>1. due[p] \in 0..Interval /\ p \in Procs
        BY DEF TypeOK, Procs
    <2>2. CASE pc[p] = "idle"
        BY <1>3, <2>1, <2>2, Durations DEF Patient
    <2>3. CASE Busy(p)
        <3>1. pc[p] \notin {"idle", "down", "retire"} /\ due[p] = left[p] + Interval - CountTimeout
            BY <2>3 DEF Busy, ClockInv
        <3>2. left[p] \in Int /\ left[p] > -2 * MaxDelay
            BY <1>4, <2>1, <3>1
        <3> QED
            BY <2>1, <3>1, <3>2, Durations
    <2> QED
        BY <1>6, <2>2, <2>3 DEF Busy
<1>7. due' \in [Refreshers -> 0..Interval]
    BY <1>2, <1>6, Durations
<1> QED
    BY <1>1, <1>2, <1>5, <1>7

\* A write is acknowledged.
LEMMA AcknowledgeLog ==
    ASSUME TypeOK, NEW k \in 1..Len(log), log' = [log EXCEPT ![k].acked = 0]
    PROVE  /\ log' \in Seq([age : 0..(StaleLag + 1), acked : 0..(Lag + 1) \cup {Never}])
           /\ Len(log') = Len(log)
           /\ \A w \in 1..Len(log) : /\ log'[w].age = log[w].age
                                    /\ log'[w].acked = IF w = k THEN 0 ELSE log[w].acked
<1> DEFINE Write == [age : 0..(StaleLag + 1), acked : 0..(Lag + 1) \cup {Never}]
           e == [log[k] EXCEPT !.acked = 0]
<1>1. log \in Seq(Write)
    BY DEF TypeOK
<1>2. e \in Write /\ e.age = log[k].age /\ e.acked = 0
    <2>1. log[k] \in Write
        <3> HIDE DEF Write, e
        <3> QED
            BY <1>1
    <2>2. 0 \in 0..(Lag + 1)
        BY Durations DEF Lag
    <2> QED
        BY <2>1, <2>2
<1>3. log' = [log EXCEPT ![k] = e]
    OBVIOUS
<1> HIDE DEF Write, e
<1>4. log' \in Seq(Write) /\ Len(log') = Len(log)
    BY <1>1, <1>2, <1>3
<1>5. \A w \in 1..Len(log) : log'[w] = IF w = k THEN e ELSE log[w]
    BY <1>1, <1>3
<1> QED
    BY <1>2, <1>4, <1>5 DEF Write

LEMMA TakenType ==
    ASSUME NEW p \in Procs
    PROVE  Taken(p) \subseteq [owner : Procs, ttl : 1..LockTTL]
BY Durations DEF Taken, Lease

LEMMA CachedType ==
    ASSUME NEW v \in 0..MaxWrites, NEW h \in Causes
    PROVE  Cached(v, h) \subseteq [ver : 0..MaxWrites, ttl : 1..CountTTL, how : Causes]
BY Durations DEF Cached

LEMMA TypeStep ==
    ASSUME TypeOK, ClockInv, Logged, [Next]_vars
    PROVE  TypeOK'
<1> DEFINE Clocks == (-2 * MaxDelay)..(CountTimeout + InvalidationTimeout)
<1>0. /\ \A p \in Refreshers : p \in Procs
      /\ \A p \in Writers : p \in Procs /\ p \notin Refreshers
      /\ 0 \in Clocks /\ CountTimeout \in Clocks /\ InvalidationTimeout \in Clocks
    BY PartyAssumption, Durations DEF Procs
<1> USE DEF store, calls, metric
<1>1. ASSUME NEW p \in Refreshers, RefreshBegins(p)
      PROVE  TypeOK'
    BY <1>0, <1>1, Durations DEF RefreshBegins, Goto, TypeOK, Labels
<1>2. ASSUME NEW p \in Refreshers, LoadCount(p)
      PROVE  TypeOK'
    <2>1. CASE \E c \in count : Return(p, Answer(c))
        BY <1>2, <2>1, AnswerType, ReturnType DEF LoadCount, TypeOK
    <2>2. CASE Goto(p, "lock") \/ Goto(p, "bypass")
        BY <1>0, <1>2, <2>2 DEF LoadCount, Return, Goto, TypeOK, Labels
    <2> QED
        BY <1>2, <2>1, <2>2 DEF LoadCount
<1>3. ASSUME NEW p \in Refreshers, RecheckCount(p)
      PROVE  TypeOK'
    <2>1. got' \in [Refreshers -> SUBSET Values]
        BY <1>3, AnswerType DEF RecheckCount, TypeOK
    <2>2. pc' \in [Procs -> Labels]
        BY <1>0, <1>3 DEF RecheckCount, Goto, TypeOK, Labels
    <2> QED
        BY <1>3, <2>1, <2>2 DEF RecheckCount, TypeOK
<1>4. ASSUME NEW p \in Refreshers, ReadCount(p)
      PROVE  TypeOK'
    <2> DEFINE answer == {[ver |-> Len(log), sound |-> TRUE]}
    <2>1. answer \in SUBSET Values /\ {} \in SUBSET Values
        BY Durations DEF TypeOK, Values
    <2>2. CASE Return(p, answer) \/ Return(p, {})
        BY <1>4, <2>1, <2>2, ReturnType DEF ReadCount, TypeOK
    <2>3. CASE ~(Return(p, answer) \/ Return(p, {}))
        BY <1>0, <1>4, <2>1, <2>3 DEF ReadCount, Goto, TypeOK, Labels
    <2> QED
        BY <2>2, <2>3
<1>5. ASSUME NEW p \in Refreshers, SetCount(p)
      PROVE  TypeOK'
    <2>1. Busy(p) /\ Standing(p) \in Causes /\ \A a \in got[p] : a.ver \in 0..MaxWrites
        BY <1>5 DEF SetCount, Busy, Standing, Causes, TypeOK, Values
    <2>2. count' \subseteq [ver : 0..MaxWrites, ttl : 1..CountTTL, how : Causes]
        BY <1>5, <2>1, CachedType DEF SetCount, TypeOK
    <2>3. sets' \subseteq [ver : 0..MaxWrites, ttl : 0..(CountTimeout + MaxDelay)]
        BY <1>5, <2>1, StrayType DEF SetCount, TypeOK
    <2> QED
        BY <1>0, <1>5, <2>2, <2>3 DEF SetCount, Goto, TypeOK, Labels
<1>6. ASSUME NEW p \in Refreshers, Restart(p)
      PROVE  TypeOK'
    BY <1>0, <1>6 DEF Restart, Goto, TypeOK, Labels
<1>7. ASSUME NEW p \in Writers, Commit(p)
      PROVE  TypeOK'
    <2>1. write' \in [Writers -> 0..MaxWrites]
        BY <1>7, CommitType, Durations DEF Commit, TypeOK
    <2> QED
        BY <1>0, <1>7, <2>1, CommitType DEF Commit, Goto, TypeOK, Labels
<1>8. ASSUME NEW p \in Writers, InvalidationBegins(p)
      PROVE  TypeOK'
    BY <1>0, <1>8 DEF InvalidationBegins, Goto, TypeOK, Labels
<1>9. ASSUME NEW p \in Writers, Invalidate(p)
      PROVE  TypeOK'
    BY <1>0, <1>9, Durations DEF Invalidate, Emptied, Goto, TypeOK, Labels
<1>10. ASSUME NEW p \in Procs, AcquireLock(p)
       PROVE  TypeOK'
    BY <1>10, TakenType DEF AcquireLock, Goto, TypeOK, Labels
<1>11. ASSUME NEW p \in Procs, LockFails(p)
       PROVE  TypeOK'
    BY <1>0, <1>11, TakenType DEF LockFails, Goto, TypeOK, Labels
<1>12. ASSUME NEW p \in Procs, Release(p)
       PROVE  TypeOK'
    <2>1. lock' \subseteq [owner : Procs, ttl : 1..LockTTL]
        BY <1>12 DEF Release, OwnTokenOnly, TypeOK
    <2>2. CASE p \in Refreshers
        BY <1>12, <2>1, <2>2, ReturnType DEF Release, TypeOK
    <2>3. CASE p \notin Refreshers
        <3>1. /\ log' \in Seq([age : 0..(StaleLag + 1), acked : 0..(Lag + 1) \cup {Never}])
              /\ Len(log') = Len(log)
            <4>1. write[p] \in 0..Len(log)
                BY <1>0, <1>12, <2>3, Durations DEF TypeOK, Logged, Procs
            <4>2. CASE write[p] = 0
                BY <1>12, <2>3, <4>2 DEF Release, TypeOK
            <4>3. CASE write[p] # 0
                <5>1. log' = [log EXCEPT ![write[p]].acked = 0]
                    BY <1>12, <2>3, <4>3, Zenon DEF Release
                <5>2. write[p] \in 1..Len(log)
                    BY <4>1, <4>3
                <5> QED
                    BY <5>1, <5>2, AcknowledgeLog
            <4> QED
                BY <4>2, <4>3
        <3>2. pc' = [pc EXCEPT ![p] = "idle"] /\ left' = [left EXCEPT ![p] = 0]
            BY <1>12, <2>3, Zenon DEF Release, Goto
        <3>3. pc' \in [Procs -> Labels] /\ left' \in [Procs -> Clocks]
            BY <1>0, <3>2 DEF TypeOK, Labels
        <3>4. UNCHANGED <<count, sets, write, due, got, robbed, gauge, fresh>>
            BY <1>12, <2>3, Zenon DEF Release
        <3> QED
            BY <2>1, <3>1, <3>3, <3>4 DEF TypeOK
    <2> QED
        BY <2>2, <2>3
<1>13. ASSUME NEW p \in Procs, Crash(p)
       PROVE  TypeOK'
    <2>1. sets' \subseteq [ver : 0..MaxWrites, ttl : 0..(CountTimeout + MaxDelay)]
        BY <1>13, StrayType DEF Crash, TypeOK, Busy
    <2>2. pc' \in [Procs -> Labels] /\ left' \in [Procs -> Clocks]
        BY <1>0, <1>13 DEF Crash, Goto, TypeOK, Labels
    <2>3. got' \in [Refreshers -> SUBSET Values] /\ gauge' \in [Refreshers -> SUBSET Values]
        BY <1>13 DEF Crash, TypeOK
    <2>4. due' \in [Refreshers -> 0..Interval] /\ fresh' \subseteq Refreshers
        <3>1. CASE p \in Refreshers
            <4>1. due' = [due EXCEPT ![p] = 0] /\ fresh' = fresh \ {p}
                BY <1>13, <3>1, Zenon DEF Crash
            <4>2. due \in [Refreshers -> 0..Interval] /\ fresh \subseteq Refreshers
                BY Zenon DEF TypeOK
            <4>3. 0 \in 0..Interval
                BY Durations
            <4> QED
                BY <4>1, <4>2, <4>3, Zenon
        <3>2. CASE p \notin Refreshers
            BY <1>13, <3>2 DEF Crash, TypeOK
        <3> QED
            BY <3>1, <3>2
    <2> QED
        BY <1>13, <2>1, <2>2, <2>3, <2>4 DEF Crash, TypeOK
<1>14. CASE StraySetLands
    BY <1>14, CachedType DEF StraySetLands, TypeOK, Causes
<1>15. CASE EvictCount \/ EvictLock
    BY <1>15 DEF EvictCount, EvictLock, TypeOK
<1>16. CASE Tick
    <2>1. count' \subseteq [ver : 0..MaxWrites, ttl : 1..CountTTL, how : Causes]
        BY <1>16, AgedCount DEF Tick
    <2>2. lock' \subseteq [owner : Procs, ttl : 1..LockTTL]
        BY <1>16, AgedLock DEF Tick
    <2>3. sets' \subseteq [ver : 0..MaxWrites, ttl : 0..(CountTimeout + MaxDelay)]
        BY <1>16, AgedSets
    <2>4. UNCHANGED <<pc, write, got, robbed, gauge, fresh>>
        BY <1>16, Zenon DEF Tick
    <2> QED
        BY <1>16, <2>1, <2>2, <2>3, <2>4, TickLog, TickClocks DEF TypeOK
<1>17. CASE UNCHANGED vars
    BY <1>17 DEF vars, TypeOK
<1> QED
    BY <1>1, <1>2, <1>3, <1>4, <1>5, <1>6, <1>7, <1>8, <1>9, <1>10, <1>11, <1>12, <1>13, <1>14,
       <1>15, <1>16, <1>17 DEF Next, Refresh, Change

-----------------------------------------------------------------------------
(* What the rest of the system sees of a step.                             *)

Acts(q) ==
    \/ q \in Refreshers /\ Refresh(q)
    \/ q \in Writers /\ Change(q)
    \/ AcquireLock(q) \/ LockFails(q) \/ Release(q) \/ Crash(q)

LEMMA NextCases ==
    ASSUME [Next]_vars
    PROVE  \/ \E q \in Procs : Acts(q)
           \/ Tick
           \/ StraySetLands \/ EvictCount \/ EvictLock \/ UNCHANGED vars
<1>1. ASSUME NEW p \in Refreshers, Refresh(p)
      PROVE  \E q \in Procs : Acts(q)
    BY <1>1 DEF Acts, Procs
<1>2. ASSUME NEW p \in Writers, Change(p)
      PROVE  \E q \in Procs : Acts(q)
    BY <1>2 DEF Acts, Procs
<1> QED
    BY <1>1, <1>2 DEF Next, Acts

\* The call of p goes nowhere.
Idles(p) ==
    /\ pc'[p] = pc[p]
    /\ p \in Writers => write'[p] = write[p]
    /\ p \in Refreshers =>
        /\ left'[p] = left[p] /\ due'[p] = due[p] /\ got'[p] = got[p]
        /\ gauge'[p] = gauge[p]
        /\ p \in robbed' <=> p \in robbed
        /\ p \in fresh' <=> p \in fresh

LEMMA OthersIdle ==
    ASSUME TypeOK, NEW q \in Procs, Acts(q), NEW p \in Procs \ {q}
    PROVE  Idles(p)
<1> USE DEF Idles, Goto, TypeOK, store, calls, metric
<1>1. CASE q \in Refreshers /\ (RefreshBegins(q) \/ Restart(q))
    BY <1>1 DEF RefreshBegins, Restart
<1>2. CASE q \in Refreshers /\ LoadCount(q)
    BY <1>2 DEF LoadCount, Return
<1>3. CASE q \in Refreshers /\ RecheckCount(q)
    BY <1>3 DEF RecheckCount
<1>4. CASE q \in Refreshers /\ ReadCount(q)
    BY <1>4 DEF ReadCount, Return
<1>5. CASE q \in Refreshers /\ SetCount(q)
    BY <1>5 DEF SetCount
<1>6. CASE q \in Writers /\ Change(q)
    BY <1>6 DEF Change, Commit, InvalidationBegins, Invalidate
<1>7. CASE AcquireLock(q) \/ LockFails(q)
    BY <1>7 DEF AcquireLock, LockFails
<1>8. CASE Release(q)
    BY <1>8 DEF Release, Return
<1>9. CASE Crash(q)
    BY <1>9 DEF Crash
<1> QED
    BY <1>1, <1>2, <1>3, <1>4, <1>5, <1>6, <1>7, <1>8, <1>9 DEF Acts, Refresh

\* A lock is lost to nobody but its owner and Redis.
LEMMA LocksStay ==
    ASSUME NEW q \in Procs, Acts(q), NEW p \in Procs \ {q}
    PROVE  /\ \A l \in lock : l.owner = p => l \in lock'
           /\ Owns(p)' => Owns(p)
<1>1. lock' = lock \/ (lock = {} /\ lock' = Taken(q)) \/ lock' = OwnTokenOnly(q)
    BY DEF Acts, Refresh, Change, RefreshBegins, LoadCount, RecheckCount, ReadCount, SetCount,
           Restart, Commit, InvalidationBegins, Invalidate, AcquireLock, LockFails, Release,
           Crash, store
<1> QED
    BY <1>1 DEF Owns, Taken, OwnTokenOnly

\* The count is set by a refresh in time.
LEMMA CountSet ==
    ASSUME NEW q \in Procs, Acts(q)
    PROVE  \/ count' \subseteq count
           \/ /\ q \in Refreshers /\ pc[q] = "set" /\ InTime(q)
              /\ \E a \in got[q] : count' = Cached(a.ver, Standing(q))
<1>1. CASE q \in Refreshers /\ Refresh(q)
    BY <1>1 DEF Refresh, RefreshBegins, LoadCount, RecheckCount, ReadCount, SetCount, Restart, store
<1>2. CASE q \in Writers /\ Change(q)
    BY <1>2 DEF Change, Commit, InvalidationBegins, Invalidate, Emptied, store
<1>3. CASE AcquireLock(q) \/ LockFails(q) \/ Release(q) \/ Crash(q)
    BY <1>3 DEF AcquireLock, LockFails, Release, Crash
<1> QED
    BY <1>1, <1>2, <1>3 DEF Acts

\* A SET is left on its way by a refresh in time.
LEMMA SetStrays ==
    ASSUME NEW q \in Procs, Acts(q)
    PROVE  \/ sets' = sets
           \/ /\ q \in Refreshers /\ pc[q] = "set" /\ InTime(q)
              /\ sets' = sets \cup Strayed(q)
<1>1. CASE q \in Refreshers /\ Refresh(q)
    BY <1>1 DEF Refresh, RefreshBegins, LoadCount, RecheckCount, ReadCount, SetCount, Restart, store
<1>2. CASE q \in Writers /\ Change(q)
    BY <1>2 DEF Change, Commit, InvalidationBegins, Invalidate, store
<1>3. CASE AcquireLock(q) \/ LockFails(q) \/ Release(q) \/ Crash(q)
    BY <1>3 DEF AcquireLock, LockFails, Release, Crash
<1> QED
    BY <1>1, <1>2, <1>3 DEF Acts

-----------------------------------------------------------------------------
(* The steps of a refresh.                                                 *)

\* What a refresh can be given: what it has, the table as it is, the count.
Whole == [ver |-> Len(log), sound |-> TRUE]
Given(p, a) == a \in got[p] \/ a = Whole \/ \E c \in count : a \in Answer(c)

ShowsOn(p) == gauge'[p] = gauge[p] /\ (p \in fresh' <=> p \in fresh)

Begins(p) ==
    /\ pc[p] = "idle" /\ due[p] = 0 /\ pc'[p] = "load"
    /\ left'[p] = CountTimeout /\ due'[p] = Interval /\ got'[p] = {} /\ ShowsOn(p)

GoesOn(p) ==
    /\ Busy(p) /\ Busy(p)' /\ pc'[p] \notin {"retire", "invalidate"}
    /\ left'[p] = left[p] /\ due'[p] = due[p] /\ ShowsOn(p)
    /\ \A a \in got'[p] : Given(p, a)
    /\ pc'[p] = "set" => pc[p] = "read" /\ got'[p] = {Whole}

Returns(p) ==
    /\ Busy(p) /\ pc'[p] = "idle" /\ due'[p] = due[p]
    /\ p \in fresh' => \A g \in gauge'[p] : Given(p, g)

Stops(p) == pc'[p] = "down" /\ p \notin fresh'

Restarts(p) == pc[p] = "down" /\ pc'[p] = "idle" /\ ShowsOn(p)

LEMMA RefreshStep ==
    ASSUME TypeOK, ClockInv, NEW p \in Refreshers, Acts(p)
    PROVE  /\ Begins(p) \/ GoesOn(p) \/ Returns(p) \/ Stops(p) \/ Restarts(p)
           /\ log' = log
<1>0. p \in Procs /\ p \notin Writers
    BY PartyAssumption DEF Procs
<1> USE <1>0 DEF Goto, TypeOK, Busy, ShowsOn, metric, store, calls
<1>1. RefreshBegins(p) => Begins(p) /\ log' = log
    BY DEF RefreshBegins, Begins
<1>2. ASSUME LoadCount(p)
      PROVE  (GoesOn(p) \/ Returns(p)) /\ log' = log
    <2>1. CASE \E c \in count : Return(p, Answer(c))
        BY <1>2, <2>1 DEF LoadCount, Return, Returns, Given
    <2>2. CASE ~\E c \in count : Return(p, Answer(c))
        BY <1>2, <2>2 DEF LoadCount, GoesOn, Given
    <2> QED
        BY <2>1, <2>2
<1>3. RecheckCount(p) => GoesOn(p) /\ log' = log
    BY DEF RecheckCount, GoesOn, Given
<1>4. ASSUME ReadCount(p)
      PROVE  (GoesOn(p) \/ Returns(p)) /\ log' = log
    <2>1. CASE Return(p, {Whole}) \/ Return(p, {})
        BY <1>4, <2>1 DEF ReadCount, Return, Returns, Given, Whole
    <2>2. CASE ~(Return(p, {Whole}) \/ Return(p, {}))
        BY <1>4, <2>2 DEF ReadCount, GoesOn, Given, Whole
    <2> QED
        BY <2>1, <2>2
<1>5. SetCount(p) => GoesOn(p) /\ log' = log
    BY DEF SetCount, GoesOn, Given
<1>6. Restart(p) => Restarts(p) /\ log' = log
    BY DEF Restart, Restarts
<1>7. AcquireLock(p) \/ LockFails(p) => GoesOn(p) /\ log' = log
    BY DEF AcquireLock, LockFails, GoesOn, Given
<1>8. Release(p) => Returns(p) /\ log' = log
    BY DEF Release, Return, Returns, Given
<1>9. Crash(p) => Stops(p) /\ log' = log
    BY DEF Crash, Stops
<1> QED
    BY <1>1, <1>2, <1>3, <1>4, <1>5, <1>6, <1>7, <1>8, <1>9 DEF Acts, Refresh

\* The steps of a write that has the lock, or gets it.
LEMMA WriteStep ==
    ASSUME TypeOK, NEW q \in Writers, Acts(q), pc'[q] \in {"invalidate", "release"}
    PROVE  \/ /\ pc[q] = "lock" /\ pc'[q] = "invalidate" /\ write'[q] = write[q]
              /\ lock = {} /\ lock' = Taken(q)
           \/ /\ pc[q] = "invalidate" /\ pc'[q] = "release"
              /\ write'[q] = 0 \/ (write'[q] = write[q] /\ count' = {})
<1>0. q \in Procs /\ q \notin Refreshers
    BY PartyAssumption DEF Procs
<1> USE <1>0 DEF Goto, TypeOK, calls
<1>1. CASE Change(q)
    BY <1>1 DEF Change, Commit, InvalidationBegins, Invalidate, Emptied
<1>2. CASE AcquireLock(q) \/ LockFails(q)
    BY <1>2 DEF AcquireLock, LockFails
<1>3. CASE Release(q) \/ Crash(q)
    BY <1>3 DEF Release, Crash
<1> QED
    BY <1>1, <1>2, <1>3 DEF Acts

-----------------------------------------------------------------------------
(* The log.                                                                *)

LEMMA LogTypes ==
    ASSUME TypeOK
    PROVE  /\ Len(log) \in Nat
           /\ \A w \in 1..Len(log) : log[w].age \in Nat /\ log[w].acked \in Int
           /\ \A w \in 1..Len(log) : log[w].acked >= -1
<1>1. \A w \in 1..Len(log) :
          log[w] \in [age : 0..(StaleLag + 1), acked : 0..(Lag + 1) \cup {Never}]
    <2> DEFINE Write == [age : 0..(StaleLag + 1), acked : 0..(Lag + 1) \cup {Never}]
    <2>1. log \in Seq(Write)
        BY DEF TypeOK
    <2> HIDE DEF Write
    <2>2. \A w \in 1..Len(log) : log[w] \in Write
        BY <2>1
    <2> QED
        BY <2>2 DEF Write
<1>2. Len(log) \in Nat
    BY DEF TypeOK
<1> QED
    BY <1>1, <1>2 DEF Never

\* A write is acknowledged by its release, all the rest of the log is new.
LEMMA LogStep ==
    ASSUME TypeOK, Logged, NEW q \in Procs, Acts(q)
    PROVE  /\ Len(log') \in Nat /\ Len(log) <= Len(log')
           /\ \A w \in 1..Len(log) :
                /\ log'[w].age = log[w].age
                /\ \/ log'[w].acked = log[w].acked
                   \/ q \in Writers /\ pc[q] = "release" /\ w = write[q] /\ log'[w].acked = 0
           /\ \A w \in (Len(log) + 1)..Len(log') : log'[w].age = 0 /\ log'[w].acked = -1
<1>0. Len(log) \in Nat
    BY LogTypes
<1>1. CASE log' = log
    BY <1>0, <1>1
<1>2. CASE q \in Writers /\ Commit(q)
    <2>1. log' = Append(log, [age |-> 0, acked |-> Never])
        BY <1>2 DEF Commit
    <2>2. Len(log') = Len(log) + 1 /\ log'[Len(log) + 1] = [age |-> 0, acked |-> Never]
          /\ \A w \in 1..Len(log) : log'[w] = log[w]
        BY <2>1 DEF TypeOK
    <2> QED
        BY <1>0, <2>2 DEF Never
<1>3. CASE Release(q) /\ q \in Writers /\ write[q] # 0
    <2>0. q \notin Refreshers
        BY <1>3, PartyAssumption
    <2>1. log' = [log EXCEPT ![write[q]].acked = 0] /\ pc[q] = "release"
        BY <1>3, <2>0, Zenon DEF Release
    <2>2. write[q] \in 1..Len(log)
        BY <1>0, <1>3, Durations DEF Logged, TypeOK
    <2>3. /\ Len(log') = Len(log)
          /\ \A w \in 1..Len(log) : /\ log'[w].age = log[w].age
                                    /\ log'[w].acked = IF w = write[q] THEN 0 ELSE log[w].acked
        BY <2>1, <2>2, AcknowledgeLog
    <2> QED
        BY <1>0, <1>3, <2>1, <2>3
<1> QED
    <2>1. CASE q \in Refreshers /\ Refresh(q)
        BY <1>1, <2>1 DEF Refresh, RefreshBegins, LoadCount, RecheckCount, ReadCount, SetCount,
               Restart
    <2>2. CASE q \in Writers /\ Change(q)
        BY <1>1, <1>2, <2>2 DEF Change, InvalidationBegins, Invalidate
    <2>3. CASE AcquireLock(q) \/ LockFails(q) \/ Crash(q)
        BY <1>1, <2>3 DEF AcquireLock, LockFails, Crash
    <2>4. CASE Release(q)
        <3>1. log' = log \/ (q \in Writers /\ write[q] # 0)
            BY <2>4, Zenon DEF Release, Procs
        <3> QED
            BY <1>1, <1>3, <2>4, <3>1
    <2> QED
        BY <2>1, <2>2, <2>3, <2>4 DEF Acts

\* What a count misses: nothing when it is the whole table, and what it missed
\* within a time it misses within a longer one.
LEMMA WholeMissesNothing ==
    ASSUME TypeOK, NEW a \in Int
    PROVE  AckedWithin(log, Len(log), a) /\ CommittedWithin(log, Len(log), a)
BY LogTypes DEF AckedWithin, CommittedWithin

LEMMA WithinMore ==
    ASSUME TypeOK, NEW v \in Nat, NEW a \in Int, NEW b \in Int, a <= b
    PROVE  /\ AckedWithin(log, v, a) => AckedWithin(log, v, b)
           /\ CommittedWithin(log, v, a) => CommittedWithin(log, v, b)
BY LogTypes DEF AckedWithin, CommittedWithin

LEMMA StillAcked ==
    ASSUME TypeOK, Logged, NEW q \in Procs, Acts(q), NEW v \in Nat, NEW a \in Int,
           AckedWithin(log, v, a), a >= -1,
           a >= 0 \/ (q \in Writers /\ pc[q] = "release" => write[q] <= v)
    PROVE  AckedWithin(log', v, a)
<1> SUFFICES ASSUME NEW w \in (v + 1)..Len(log')
             PROVE  log'[w].acked <= a
    BY DEF AckedWithin
<1>1. Len(log) \in Nat /\ Len(log') \in Nat /\ w \in Nat /\ w > v /\ w <= Len(log')
    BY LogTypes, LogStep
<1>2. CASE w <= Len(log)
    <2>1. w \in 1..Len(log) /\ w \in (v + 1)..Len(log)
        BY <1>1, <1>2
    <2>2. log[w].acked <= a /\ log[w].acked \in Int
        BY <2>1, LogTypes DEF AckedWithin
    <2>3. \/ log'[w].acked = log[w].acked
          \/ q \in Writers /\ pc[q] = "release" /\ w = write[q] /\ log'[w].acked = 0
        BY <2>1, LogStep
    <2> QED
        BY <1>1, <2>2, <2>3
<1>3. CASE w > Len(log)
    <2>1. w \in (Len(log) + 1)..Len(log')
        BY <1>1, <1>3
    <2> QED
        BY <2>1, LogStep
<1> QED
    BY <1>1, <1>2, <1>3

LEMMA StillCommitted ==
    ASSUME TypeOK, Logged, NEW q \in Procs, Acts(q), NEW v \in Nat, NEW a \in Nat,
           CommittedWithin(log, v, a)
    PROVE  CommittedWithin(log', v, a)
<1> SUFFICES ASSUME NEW w \in (v + 1)..Len(log')
             PROVE  log'[w].age <= a
    BY DEF CommittedWithin
<1>1. Len(log) \in Nat /\ Len(log') \in Nat /\ w \in Nat /\ w > v /\ w <= Len(log')
    BY LogTypes, LogStep
<1>2. CASE w <= Len(log)
    <2>1. w \in 1..Len(log) /\ w \in (v + 1)..Len(log)
        BY <1>1, <1>2
    <2> QED
        BY <2>1, LogStep DEF CommittedWithin
<1>3. CASE w > Len(log)
    <2>1. w \in (Len(log) + 1)..Len(log')
        BY <1>1, <1>3
    <2> QED
        BY <2>1, LogStep
<1> QED
    BY <1>1, <1>2, <1>3

\* Time makes the writes a tick older.
LEMMA TickWithin ==
    ASSUME TypeOK, Tick, NEW v \in Nat, NEW a \in Int
    PROVE  /\ AckedWithin(log, v, a) => AckedWithin(log', v, a + 1)
           /\ AckedWithin(log, v, -1) => AckedWithin(log', v, -1)
           /\ CommittedWithin(log, v, a) => CommittedWithin(log', v, a + 1)
<1>1. \A x \in Int, most \in Int : Older(x, most) <= x + 1 /\ Older(x, most) \in Int
    BY DEF Older
<1>2. Lag \in Int /\ StaleLag \in Int
    BY Durations DEF Lag, StaleLag
<1>3. Len(log') = Len(log) /\ Len(log) \in Nat
    BY TickLog, LogTypes
<1>4. ASSUME NEW w \in (v + 1)..Len(log)
      PROVE  /\ log'[w].age <= log[w].age + 1 /\ log[w].age \in Int
             /\ log'[w].acked <= log[w].acked + 1 /\ log[w].acked \in Int
             /\ log[w].acked <= -1 => log'[w].acked <= -1
             /\ log'[w].age \in Int /\ log'[w].acked \in Int
    <2>1. w \in 1..Len(log)
        BY <1>3
    <2>2. /\ log[w].age \in Int /\ log[w].acked \in Int /\ log[w].acked >= -1
          /\ log'[w].age = Older(log[w].age, StaleLag)
          /\ log'[w].acked = Older(log[w].acked, Lag)
        BY <2>1, LogTypes, TickLog
    <2>3. Older(-1, Lag) = -1
        BY DEF Older
    <2>4. /\ log'[w].age <= log[w].age + 1 /\ log'[w].age \in Int
          /\ log'[w].acked <= log[w].acked + 1 /\ log'[w].acked \in Int
        BY <1>1, <1>2, <2>2
    <2>5. log[w].acked <= -1 => log'[w].acked <= -1
        <3>1. log[w].acked <= -1 => log[w].acked = -1
            BY <2>2
        <3> QED
            BY <2>2, <2>3, <3>1
    <2> QED
        BY <2>2, <2>4, <2>5
<1>5. ASSUME AckedWithin(log, v, a), NEW w \in (v + 1)..Len(log)
      PROVE  log'[w].acked <= a + 1
    BY <1>4, <1>5 DEF AckedWithin
<1>6. ASSUME CommittedWithin(log, v, a), NEW w \in (v + 1)..Len(log)
      PROVE  log'[w].age <= a + 1
    BY <1>4, <1>6 DEF CommittedWithin
<1>7. ASSUME AckedWithin(log, v, -1), NEW w \in (v + 1)..Len(log)
      PROVE  log'[w].acked <= -1
    BY <1>4, <1>7 DEF AckedWithin
<1> QED
    BY <1>3, <1>5, <1>6, <1>7 DEF AckedWithin, CommittedWithin

-----------------------------------------------------------------------------
(* ClockInv.                                                               *)

LEMMA EnvironmentWaits ==
    ASSUME StraySetLands \/ EvictCount \/ EvictLock \/ UNCHANGED vars
    PROVE  /\ UNCHANGED <<log, pc, left, write, got, due, gauge, fresh>>
BY DEF StraySetLands, EvictCount, EvictLock, vars, calls, metric, store

LEMMA ClockStep ==
    ASSUME TypeOK, ClockInv, Logged, [Next]_vars
    PROVE  ClockInv' /\ Logged'
<1>1. ASSUME NEW q \in Procs, Acts(q)
      PROVE  ClockInv' /\ Logged'
    <2>1. ASSUME NEW p \in Refreshers
          PROVE  /\ pc'[p] \notin {"retire", "invalidate"}
                 /\ Busy(p)' => /\ left'[p] <= CountTimeout
                                /\ due'[p] = left'[p] + Interval - CountTimeout
                 /\ pc'[p] = "down" => p \notin fresh'
        <3>1. CASE p = q
            BY <1>1, <3>1, RefreshStep, Durations
               DEF ClockInv, Begins, GoesOn, Returns, Stops, Restarts, Busy
        <3>2. CASE p # q
            BY <1>1, <3>2, OthersIdle DEF ClockInv, Idles, Procs, Busy
        <3> QED
            BY <3>1, <3>2
    <2>2. ASSUME NEW w \in Writers
          PROVE  write'[w] <= Len(log')
        <3>1. Len(log) \in Nat /\ Len(log') \in Nat /\ Len(log) <= Len(log')
            BY <1>1, LogTypes, LogStep
        <3>2. write[w] <= Len(log) /\ write[w] \in Nat
            BY Durations DEF Logged, TypeOK
        <3>3. CASE write'[w] = write[w] \/ write'[w] = 0 \/ write'[w] = Len(log')
            BY <3>1, <3>2, <3>3
        <3>4. write'[w] = write[w] \/ write'[w] = 0 \/ write'[w] = Len(log')
            BY <1>1 DEF TypeOK, calls, Acts, Refresh, Change, RefreshBegins, LoadCount,
               RecheckCount, ReadCount, SetCount, Restart, Commit, InvalidationBegins,
               Invalidate, AcquireLock, LockFails, Release, Crash
        <3> QED
            BY <3>3, <3>4
    <2> QED
        BY <2>1, <2>2 DEF ClockInv, Logged
<1>2. CASE Tick
    <2>1. UNCHANGED <<pc, write, fresh>>
        BY <1>2, Zenon DEF Tick
    <2>2. ASSUME NEW p \in Refreshers, Busy(p)
          PROVE  left'[p] <= CountTimeout /\ due'[p] = left'[p] + Interval - CountTimeout
        <3>1. pc[p] \notin {"idle", "down", "retire"} /\ p \in Procs
            BY <2>2 DEF Busy, ClockInv, Procs
        <3>2. left[p] <= CountTimeout /\ due[p] = left[p] + Interval - CountTimeout
            BY <2>2 DEF ClockInv
        <3>3. left'[p] = left[p] - 1 /\ due'[p] = due[p] - 1
            BY <1>2, <3>1, TickClocks
        <3>4. left[p] \in Int
            BY <3>1 DEF TypeOK
        <3> QED
            BY <3>2, <3>3, <3>4, Durations
    <2>3. Len(log') = Len(log)
        BY <1>2, TickLog
    <2>4. Logged'
        BY <2>1, <2>3 DEF Logged
    <2>5. \A p \in Refreshers : Busy(p)' <=> Busy(p)
        BY <2>1 DEF Busy
    <2> QED
        BY <2>1, <2>2, <2>4, <2>5 DEF ClockInv
<1>3. CASE StraySetLands \/ EvictCount \/ EvictLock \/ UNCHANGED vars
    BY <1>3, EnvironmentWaits DEF ClockInv, Logged, Busy
<1> QED
    BY <1>1, <1>2, <1>3, NextCases

-----------------------------------------------------------------------------
(* HoldInv.                                                                *)

\* Who counts has just taken the lock, or goes on without touching it.
LEMMA CountingBegins ==
    ASSUME TypeOK, ClockInv, NEW p \in Refreshers, Acts(p), Counting(p)'
    PROVE  /\ left' = left
           /\ \/ Counting(p) /\ lock' = lock /\ robbed' = robbed
              \/ Busy(p) /\ lock' = Taken(p)
<1>0. p \in Procs /\ p \notin Writers
    BY PartyAssumption DEF Procs
<1> USE <1>0 DEF Goto, TypeOK, Counting, Busy, store, calls
<1>1. CASE RefreshBegins(p) \/ Restart(p)
    BY <1>1 DEF RefreshBegins, Restart
<1>2. CASE LoadCount(p)
    BY <1>2 DEF LoadCount, Return
<1>3. CASE RecheckCount(p) \/ SetCount(p)
    BY <1>3 DEF RecheckCount, SetCount
<1>4. CASE ReadCount(p)
    BY <1>4 DEF ReadCount, Return
<1>5. CASE AcquireLock(p) \/ LockFails(p)
    BY <1>5 DEF AcquireLock, LockFails
<1>6. CASE Release(p) \/ Crash(p)
    BY <1>6 DEF Release, Return, Crash
<1> QED
    BY <1>1, <1>2, <1>3, <1>4, <1>5, <1>6 DEF Acts, Refresh

LEMMA TickHolds ==
    ASSUME TypeOK, ClockInv, Tick, NEW p \in Refreshers, Counting(p), Holds(p)
    PROVE  Holds(p)'
<1>1. robbed' = robbed /\ lock' = Aged(lock)
    BY Zenon DEF Tick
<1>2. left'[p] = left[p] - 1 /\ left[p] \in Int
    <2>1. p \in Procs /\ pc[p] \notin {"idle", "down", "retire"}
        BY DEF Counting, Procs
    <2>2. left[p] \in Int
        BY <2>1 DEF TypeOK
    <2> QED
        BY <2>1, <2>2, TickClocks
<1>3. CASE p \in robbed \/ ~InTime(p)
    BY <1>1, <1>2, <1>3, Durations DEF Holds, InTime
<1>4. CASE \E l \in lock : l.owner = p /\ left[p] + MaxDelay <= l.ttl
    <2>1. PICK l \in lock : l.owner = p /\ left[p] + MaxDelay <= l.ttl
        BY <1>4
    <2>2. l.ttl \in Nat
        BY DEF TypeOK
    <2>3. CASE l.ttl > 1
        <3>1. PICK m \in lock' : m.owner = l.owner /\ m.ttl = l.ttl - 1
            BY <1>1, <2>3, AgedLock
        <3>2. left'[p] + MaxDelay <= m.ttl
            BY <1>2, <2>1, <2>2, <3>1, Durations
        <3> QED
            BY <2>1, <3>1, <3>2 DEF Holds
    <2>4. CASE ~(l.ttl > 1)
        <3>1. ~(left'[p] + MaxDelay > 0)
            BY <1>2, <2>1, <2>2, <2>4, Durations
        <3> QED
            BY <3>1 DEF Holds, InTime
    <2> QED
        BY <2>3, <2>4
<1> QED
    BY <1>3, <1>4 DEF Holds

LEMMA HoldStep ==
    ASSUME TypeOK, ClockInv, HoldInv, [Next]_vars
    PROVE  HoldInv'
<1>0. \A p \in Refreshers : Counting(p) => Holds(p)
    BY DEF HoldInv
<1>1. ASSUME NEW p \in Refreshers, Counting(p)'
      PROVE  Holds(p)'
    <2>0. p \in Procs
        BY DEF Procs
    <2>1. ASSUME Acts(p)
          PROVE  Holds(p)'
        <3>1. CASE Counting(p) /\ lock' = lock /\ robbed' = robbed /\ left' = left
            BY <1>0, <3>1 DEF Holds, InTime
        <3>2. CASE Busy(p) /\ lock' = Taken(p) /\ left' = left
            <4>1. left[p] <= CountTimeout /\ left[p] \in Int
                BY <2>0, <3>2 DEF ClockInv, TypeOK
            <4>2. left[p] + MaxDelay <= LockTTL
                BY <4>1, Durations
            <4> QED
                BY <3>2, <4>2 DEF Holds, Taken, Lease
        <3> QED
            BY <1>1, <2>1, <3>1, <3>2, CountingBegins
    <2>2. ASSUME NEW q \in Procs, Acts(q), q # p
          PROVE  Holds(p)'
        <3>1. Idles(p) /\ \A l \in lock : l.owner = p => l \in lock'
            BY <2>0, <2>2, OthersIdle, LocksStay
        <3>2. Counting(p) /\ left'[p] = left[p] /\ (p \in robbed' <=> p \in robbed)
            BY <1>1, <3>1 DEF Idles, Counting
        <3> QED
            BY <1>0, <3>1, <3>2 DEF Holds, InTime
    <2>3. ASSUME Tick
          PROVE  Holds(p)'
        <3>1. Counting(p)
            BY <1>1, <2>3 DEF Tick, Counting
        <3> QED
            BY <1>0, <2>3, <3>1, TickHolds
    <2>4. ASSUME EvictLock
          PROVE  Holds(p)'
        <3>1. Counting(p) /\ left' = left
            BY <1>1, <2>4 DEF EvictLock, Counting
        <3>2. p \in robbed => p \in robbed'
            BY <2>4 DEF EvictLock
        <3>3. Owns(p) => p \in robbed'
            BY <2>4, <3>1 DEF EvictLock, Counting
        <3> QED
            BY <1>0, <3>1, <3>2, <3>3 DEF Holds, InTime, Owns
    <2>5. ASSUME StraySetLands \/ EvictCount \/ UNCHANGED vars
          PROVE  Holds(p)'
        <3>1. pc' = pc /\ left' = left /\ lock' = lock /\ robbed' = robbed
            BY <2>5 DEF StraySetLands, EvictCount, vars, calls, store
        <3>2. Counting(p)
            BY <1>1, <3>1 DEF Counting
        <3> QED
            BY <1>0, <3>1, <3>2 DEF Holds, InTime
    <2> QED
        BY <2>1, <2>2, <2>3, <2>4, <2>5, NextCases
<1>2. ASSUME NEW c \in count'
      PROVE  c.how # "late"
    <2>1. CASE c \in count
        BY <2>1 DEF HoldInv
    <2>2. ASSUME NEW q \in Procs, Acts(q), c \notin count
          PROVE  c.how # "late"
        <3>1. /\ q \in Refreshers /\ pc[q] = "set" /\ InTime(q)
              /\ c.how = Standing(q)
            BY <1>2, <2>2, CountSet DEF Cached
        <3>2. Holds(q)
            BY <1>0, <3>1 DEF Counting
        <3> QED
            BY <3>1, <3>2 DEF Holds, Standing, Owns
    <2>3. ASSUME Tick
          PROVE  c.how # "late"
        <3>1. c \in Aged(count)
            BY <1>2, <2>3, Zenon DEF Tick
        <3> QED
            BY <3>1, AgedCount DEF HoldInv
    <2>4. CASE StraySetLands
        BY <1>2, <2>4 DEF StraySetLands, Cached
    <2>5. CASE EvictCount \/ EvictLock \/ UNCHANGED vars
        BY <1>2, <2>1, <2>5 DEF EvictCount, EvictLock, vars, store
    <2> QED
        BY <2>1, <2>2, <2>3, <2>4, <2>5, NextCases
<1> QED
    BY <1>1, <1>2 DEF HoldInv

-----------------------------------------------------------------------------
(* AckInv.                                                                 *)

LEMMA VersTypes ==
    ASSUME TypeOK
    PROVE  /\ \A c \in count : c.ver \in Nat /\ c.ttl \in Nat /\ c.ttl >= 1
           /\ \A s \in sets : s.ver \in Nat /\ s.ttl \in Nat /\ s.ttl <= CountTimeout + MaxDelay
           /\ \A p \in Refreshers : \A a \in got[p] : a.ver \in Nat
           /\ \A p \in Refreshers : \A g \in gauge[p] : g.ver \in Nat
           /\ \A q \in Writers : write[q] \in Nat
           /\ \A p \in Refreshers : left[p] \in Int /\ due[p] \in Nat /\ due[p] <= Interval
           /\ \A c \in count : c.ttl <= CountTTL
BY Durations DEF TypeOK, Values, Procs

\* A refresh that is about to cache has just read the table, or was about to.
LEMMA CachingBegins ==
    ASSUME TypeOK, ClockInv, NEW q \in Procs, Acts(q), NEW p \in Refreshers, Caching(p)'
    PROVE  \/ p = q /\ got'[p] = {Whole} /\ log' = log
           \/ p # q /\ Caching(p) /\ got'[p] = got[p]
<1>1. CASE p = q
    <2>1. GoesOn(p) /\ log' = log
        BY <1>1, RefreshStep DEF Caching, Begins, Returns, Stops, Restarts
    <2> QED
        BY <1>1, <2>1 DEF GoesOn, Caching
<1>2. CASE p # q
    BY <1>2, OthersIdle, LocksStay DEF Idles, Caching, Procs
<1> QED
    BY <1>1, <1>2

\* A count that is new in the cache, under its lock, was about to be cached.
LEMMA HeldCount ==
    ASSUME NEW q \in Procs, Acts(q), NEW c \in count', c \notin count, c.how = "held"
    PROVE  /\ q \in Refreshers /\ Caching(q)
           /\ \E a \in got[q] : c.ver = a.ver
BY CountSet DEF Cached, Standing, Caching

LEMMA AckActs ==
    ASSUME TypeOK, ClockInv, Logged, AckInv, NEW q \in Procs, Acts(q)
    PROVE  AckInv'
<1> USE VersTypes
<1>1. ASSUME NEW c \in count', c.how = "held"
      PROVE  AckedWithin(log', c.ver, -1)
    <2>1. CASE c \in count
        <3>1. AckedWithin(log, c.ver, -1) /\ c.ver \in Nat
            BY <1>1, <2>1 DEF AckInv
        <3>2. q \in Writers /\ pc[q] = "release" => write[q] <= c.ver
            BY <1>1, <2>1 DEF AckInv
        <3> QED
            BY <3>1, <3>2, StillAcked
    <2>2. CASE c \notin count
        <3>1. PICK a \in got[q] : c.ver = a.ver
            BY <1>1, <2>2, HeldCount
        <3>2. q \in Refreshers /\ Caching(q) /\ q \notin Writers
            BY <1>1, <2>2, HeldCount, PartyAssumption
        <3>3. AckedWithin(log, a.ver, -1) /\ log' = log
            BY <3>2, RefreshStep DEF AckInv
        <3> QED
            BY <3>1, <3>3
    <2> QED
        BY <2>1, <2>2
<1>2. ASSUME NEW p \in Refreshers, Caching(p)', NEW a \in got'[p]
      PROVE  AckedWithin(log', a.ver, -1)
    <2>1. CASE got'[p] = {Whole} /\ log' = log
        BY <1>2, <2>1, WholeMissesNothing DEF Whole
    <2>2. CASE Caching(p) /\ got'[p] = got[p]
        <3>1. AckedWithin(log, a.ver, -1) /\ a.ver \in Nat
            BY <1>2, <2>2 DEF AckInv
        <3>2. q \in Writers /\ pc[q] = "release" => write[q] <= a.ver
            BY <1>2, <2>2 DEF AckInv
        <3> QED
            BY <3>1, <3>2, StillAcked
    <2> QED
        BY <1>2, <2>1, <2>2, CachingBegins
<1>3. ASSUME NEW w \in Writers, NEW p \in Refreshers, pc'[w] \in {"invalidate", "release"},
             Caching(p)', NEW a \in got'[p]
      PROVE  write'[w] <= a.ver
    <2>0. w \in Procs /\ p \in Procs /\ w # p /\ w \notin Refreshers
        BY PartyAssumption DEF Procs
    <2>1. CASE p = q
        <3>1. a.ver = Len(log) /\ write'[w] = write[w]
            BY <1>3, <2>0, <2>1, CachingBegins, OthersIdle DEF Idles, Whole
        <3> QED
            BY <3>1 DEF Logged
    <2>2. CASE p # q
        <3>1. Caching(p) /\ got'[p] = got[p]
            BY <1>3, <2>2, CachingBegins
        <3>2. CASE w = q
            <4>1. lock # {}
                BY <3>1 DEF Caching, Owns
            <4>2. pc[w] = "invalidate" /\ (write'[w] = 0 \/ write'[w] = write[w])
                BY <1>3, <3>2, <4>1, WriteStep
            <4>3. write[w] <= a.ver /\ a.ver \in Nat
                BY <1>3, <3>1, <4>2 DEF AckInv
            <4> QED
                BY <4>2, <4>3
        <3>3. CASE w # q
            BY <1>3, <2>0, <3>1, <3>3, OthersIdle DEF Idles, AckInv
        <3> QED
            BY <3>2, <3>3
    <2> QED
        BY <2>1, <2>2
<1>4. ASSUME NEW w \in Writers, pc'[w] = "release", NEW c \in count', c.how = "held"
      PROVE  write'[w] <= c.ver
    <2>0. w \in Procs /\ w \notin Refreshers
        BY PartyAssumption DEF Procs
    <2>1. CASE w = q
        <3>1. write'[w] = 0
            BY <1>4, <2>1, WriteStep
        <3>2. c \in count
            BY <1>4, <2>0, <2>1, CountSet
        <3> QED
            BY <3>1, <3>2
    <2>2. CASE w # q
        <3>1. pc[w] = "release" /\ write'[w] = write[w]
            BY <1>4, <2>0, <2>2, OthersIdle DEF Idles
        <3>2. CASE c \in count
            BY <1>4, <3>1, <3>2 DEF AckInv
        <3>3. CASE c \notin count
            BY <1>4, <3>1, <3>3, HeldCount DEF AckInv
        <3> QED
            BY <3>2, <3>3
    <2> QED
        BY <2>1, <2>2
<1> QED
    BY <1>1, <1>2, <1>3, <1>4 DEF AckInv

LEMMA AckStep ==
    ASSUME TypeOK, ClockInv, Logged, AckInv, [Next]_vars
    PROVE  AckInv'
<1> USE VersTypes
<1>1. CASE Tick
    <2>1. UNCHANGED <<pc, write, got>> /\ lock' = Aged(lock) /\ count' = Aged(count)
        BY <1>1, Zenon DEF Tick
    <2>2. \A p \in Refreshers : Caching(p)' => Caching(p)
        BY <2>1, AgedLock DEF Caching, Owns
    <2>3. ASSUME NEW c \in count', c.how = "held"
          PROVE  \E k \in count : k.how = "held" /\ k.ver = c.ver
        BY <2>1, <2>3, AgedCount
    <2>4. ASSUME NEW v \in Nat, AckedWithin(log, v, -1)
          PROVE  AckedWithin(log', v, -1)
        BY <1>1, <2>4, TickWithin
    <2>5. \A c \in count' : c.how = "held" => AckedWithin(log', c.ver, -1)
        BY <2>3, <2>4 DEF AckInv
    <2>6. \A p \in Refreshers : Caching(p)' => \A a \in got'[p] : AckedWithin(log', a.ver, -1)
        BY <2>1, <2>2, <2>4 DEF AckInv
    <2> QED
        BY <2>1, <2>2, <2>3, <2>5, <2>6 DEF AckInv
<1>2. CASE StraySetLands \/ EvictCount \/ EvictLock \/ UNCHANGED vars
    <2>1. UNCHANGED <<log, pc, write, got>>
        BY <1>2, EnvironmentWaits
    <2>2. \A p \in Refreshers : Caching(p)' => Caching(p)
        BY <1>2 DEF Caching, Owns, StraySetLands, EvictCount, EvictLock, vars, calls, store
    <2>3. \A c \in count' : c.how = "held" => c \in count
        BY <1>2 DEF StraySetLands, Cached, EvictCount, EvictLock, vars, store
    <2> QED
        BY <2>1, <2>2, <2>3 DEF AckInv
<1> QED
    BY <1>1, <1>2, AckActs, NextCases

-----------------------------------------------------------------------------
(* LagInv and StaleInv.                                                    *)

LEMMA Ages ==
    ASSUME TypeOK, ClockInv, NEW p \in Refreshers
    PROVE  /\ Busy(p) => CountTimeout - left[p] \in Nat /\ due[p] = left[p] + Interval - CountTimeout
           /\ GaugeAge(p) \in Nat
           /\ CountAge \in Nat /\ CountTimeout \in Nat /\ Interval \in Nat
BY VersTypes, Durations DEF ClockInv, GaugeAge, CountAge

\* The age of a gauge through a step of its refresher.
LEMMA AgeStep ==
    ASSUME TypeOK, ClockInv, ClockInv', NEW p \in Refreshers
    PROVE  /\ Begins(p) => GaugeAge(p)' = GaugeAge(p)
           /\ GoesOn(p) => GaugeAge(p)' = GaugeAge(p)
           /\ Returns(p) => GaugeAge(p)' = CountTimeout - left[p]
<1> USE Ages, VersTypes
<1>1. Begins(p) => GaugeAge(p)' = GaugeAge(p)
    BY DEF Begins, GaugeAge, Busy
<1>2. GoesOn(p) => GaugeAge(p)' = GaugeAge(p)
    BY DEF GoesOn, GaugeAge
<1>3. ASSUME Returns(p)
      PROVE  GaugeAge(p)' = CountTimeout - left[p]
    <2>1. Busy(p) /\ ~Busy(p)' /\ due'[p] = due[p]
        BY <1>3 DEF Returns, Busy
    <2>2. due[p] = left[p] + Interval - CountTimeout
        BY <2>1
    <2> QED
        BY <2>1, <2>2 DEF GaugeAge
<1> QED
    BY <1>1, <1>2, <1>3

\* The same through a tick, unless the process is down.
LEMMA AgeTicks ==
    ASSUME TypeOK, ClockInv, Tick, NEW p \in Refreshers
    PROVE  /\ Busy(p)' <=> Busy(p)
           /\ Busy(p) => left'[p] = left[p] - 1
           /\ pc[p] # "down" => GaugeAge(p)' = GaugeAge(p) + 1
<1>0. p \in Procs /\ pc[p] \notin {"retire", "invalidate"} /\ pc' = pc
    BY Zenon DEF Procs, ClockInv, Tick
<1>1. Busy(p)' <=> Busy(p)
    BY <1>0 DEF Busy
<1>2. Busy(p) => left'[p] = left[p] - 1
    BY <1>0, TickClocks DEF Busy
<1>3. pc[p] # "down" => due'[p] = due[p] - 1
    BY TickClocks
<1>4. pc[p] # "down" => GaugeAge(p)' = GaugeAge(p) + 1
    BY <1>1, <1>2, <1>3, VersTypes, Ages DEF GaugeAge
<1> QED
    BY <1>1, <1>2, <1>4

\* What a refresh is given missed nothing when the refresh began.
LEMMA GivenLags ==
    ASSUME TypeOK, ClockInv, AckInv, LagInv, NEW p \in Refreshers, Busy(p),
           NEW a, Given(p, a), a.sound
    PROVE  AckedWithin(log, a.ver, CountTimeout - left[p])
<1> USE Ages, VersTypes
<1>1. CASE a \in got[p]
    BY <1>1 DEF LagInv
<1>2. CASE a = Whole
    BY <1>2, WholeMissesNothing DEF Whole
<1>3. CASE \E c \in count : a \in Answer(c)
    <2>1. PICK c \in count : a.ver = c.ver /\ c.how = "held"
        <3>1. PICK c \in count : a = [ver |-> c.ver, sound |-> c.how = "held"]
            BY <1>3, Zenon DEF Answer
        <3>2. a.sound = (c.how = "held") /\ a.ver = c.ver
            BY <3>1, Zenon
        <3>3. c.how = "held"
            BY <3>2, Zenon
        <3> QED
            BY <3>2, <3>3, Zenon
    <2>2. AckedWithin(log, c.ver, -1) /\ c.ver \in Nat
        BY <2>1 DEF AckInv
    <2> QED
        BY <2>1, <2>2, WithinMore
<1> QED
    BY <1>1, <1>2, <1>3 DEF Given

LEMMA LagStep ==
    ASSUME TypeOK, ClockInv, ClockInv', Logged, AckInv, LagInv, [Next]_vars
    PROVE  LagInv'
<1> USE Ages, VersTypes
<1>1. ASSUME NEW p \in Refreshers, Acts(p)
      PROVE  /\ Busy(p)' => \A a \in got'[p] :
                    a.sound => AckedWithin(log', a.ver, CountTimeout - left'[p])
             /\ p \in fresh' => \A g \in gauge'[p] :
                    g.sound => AckedWithin(log', g.ver, GaugeAge(p)')
    <2>0. log' = log
        BY <1>1, RefreshStep
    <2>1. CASE Begins(p)
        BY <2>0, <2>1, AgeStep DEF Begins, ShowsOn, LagInv
    <2>2. CASE GoesOn(p)
        BY <2>0, <2>2, AgeStep, GivenLags DEF GoesOn, ShowsOn, LagInv
    <2>3. CASE Returns(p)
        BY <2>0, <2>3, AgeStep, GivenLags DEF Returns, Busy
    <2>4. CASE Stops(p)
        BY <2>4 DEF Stops, Busy
    <2>5. CASE Restarts(p)
        BY <2>5 DEF Restarts, ShowsOn, Busy, ClockInv
    <2> QED
        BY <1>1, <2>1, <2>2, <2>3, <2>4, <2>5, RefreshStep
<1>2. ASSUME NEW p \in Refreshers, NEW q \in Procs, Acts(q), q # p
      PROVE  /\ Busy(p)' => \A a \in got'[p] :
                    a.sound => AckedWithin(log', a.ver, CountTimeout - left'[p])
             /\ p \in fresh' => \A g \in gauge'[p] :
                    g.sound => AckedWithin(log', g.ver, GaugeAge(p)')
    <2>1. Idles(p)
        BY <1>2, OthersIdle DEF Procs
    <2>2. (Busy(p)' <=> Busy(p)) /\ GaugeAge(p)' = GaugeAge(p)
        BY <2>1 DEF Idles, Busy, GaugeAge
    <2>3. ASSUME NEW v \in Nat, NEW a \in Nat, AckedWithin(log, v, a)
          PROVE  AckedWithin(log', v, a)
        BY <1>2, <2>3, StillAcked
    <2> QED
        BY <2>1, <2>2, <2>3 DEF Idles, LagInv
<1>3. CASE Tick
    <2>0. UNCHANGED <<pc, got, gauge, fresh>>
        BY <1>3, Zenon DEF Tick
    <2>1. ASSUME NEW p \in Refreshers, Busy(p), NEW a \in got[p], a.sound
          PROVE  AckedWithin(log', a.ver, CountTimeout - left'[p])
        <3>1. AckedWithin(log, a.ver, CountTimeout - left[p])
            BY <2>1 DEF LagInv
        <3>2. CountTimeout - left'[p] = (CountTimeout - left[p]) + 1
            BY <1>3, <2>1, AgeTicks
        <3> QED
            BY <1>3, <2>1, <3>1, <3>2, TickWithin
    <2>2. ASSUME NEW p \in Refreshers, p \in fresh, NEW g \in gauge[p], g.sound
          PROVE  AckedWithin(log', g.ver, GaugeAge(p)')
        <3>1. AckedWithin(log, g.ver, GaugeAge(p)) /\ pc[p] # "down"
            BY <2>2 DEF LagInv, ClockInv
        <3>2. GaugeAge(p)' = GaugeAge(p) + 1
            BY <1>3, <3>1, AgeTicks
        <3> QED
            BY <1>3, <3>1, <3>2, TickWithin
    <2>3. \A p \in Refreshers : Busy(p)' <=> Busy(p)
        BY <1>3, AgeTicks
    <2> QED
        BY <2>0, <2>1, <2>2, <2>3 DEF LagInv
<1>4. CASE StraySetLands \/ EvictCount \/ EvictLock \/ UNCHANGED vars
    BY <1>4, EnvironmentWaits DEF LagInv, Busy, GaugeAge
<1>5. ASSUME NEW q \in Procs, Acts(q)
      PROVE  LagInv'
    BY <1>1, <1>2, <1>5 DEF LagInv
<1> QED
    BY <1>3, <1>4, <1>5, NextCases

LEMMA GivenStale ==
    ASSUME TypeOK, ClockInv, StaleInv, NEW p \in Refreshers, Busy(p), NEW a, Given(p, a)
    PROVE  CommittedWithin(log, a.ver, CountAge + CountTimeout - left[p])
<1> USE Ages, VersTypes
<1>1. CASE a \in got[p]
    BY <1>1 DEF StaleInv
<1>2. CASE a = Whole
    BY <1>2, WholeMissesNothing DEF Whole
<1>3. CASE \E c \in count : a \in Answer(c)
    <2>1. PICK c \in count : a.ver = c.ver
        BY <1>3 DEF Answer
    <2>2. CommittedWithin(log, c.ver, CountAge - c.ttl) /\ c.ver \in Nat
        BY DEF StaleInv
    <2>3. CountAge - c.ttl <= CountAge + CountTimeout - left[p]
        OBVIOUS
    <2> QED
        BY <2>1, <2>2, <2>3, WithinMore
<1> QED
    BY <1>1, <1>2, <1>3 DEF Given

\* A count that is set, or sent to be, has been on its way no longer than a
\* refresh and a delay take.
LEMMA SentInTime ==
    ASSUME TypeOK, ClockInv, StaleInv, NEW q \in Refreshers, pc[q] = "set", InTime(q),
           NEW a \in got[q]
    PROVE  /\ CommittedWithin(log, a.ver, CountTimeout - left[q])
           /\ CommittedWithin(log, a.ver, CountAge - CountTTL)
<1>1. CommittedWithin(log, a.ver, CountTimeout - left[q])
    BY DEF StaleInv
<1>2. CountTimeout - left[q] <= CountAge - CountTTL
    BY VersTypes, Durations DEF InTime, CountAge
<1> QED
    BY <1>1, <1>2, VersTypes, Ages, Durations, WithinMore

LEMMA StaleActs ==
    ASSUME TypeOK, ClockInv, ClockInv', Logged, StaleInv, NEW q \in Procs, Acts(q)
    PROVE  StaleInv'
<1> USE Ages, VersTypes
<1>0. ASSUME NEW v \in Nat, NEW a \in Nat, CommittedWithin(log, v, a)
      PROVE  CommittedWithin(log', v, a)
    BY <1>0, StillCommitted
<1>1. ASSUME NEW s \in sets'
      PROVE  CommittedWithin(log', s.ver, CountTimeout + MaxDelay - s.ttl)
    <2>1. CASE s \in sets
        <3>1. CountTimeout + MaxDelay - s.ttl \in Nat
            BY <2>1, Durations
        <3> QED
            BY <1>0, <2>1, <3>1 DEF StaleInv
    <2>2. CASE s \notin sets
        <3>1. q \in Refreshers /\ pc[q] = "set" /\ InTime(q) /\ s \in Strayed(q)
            BY <1>1, <2>2, SetStrays
        <3>2. PICK a \in got[q] : s.ver = a.ver /\ s.ttl = left[q] + MaxDelay
            BY <3>1 DEF Strayed
        <3>3. CommittedWithin(log, a.ver, CountTimeout - left[q]) /\ log' = log
            BY <3>1, SentInTime, RefreshStep
        <3>4. CountTimeout + MaxDelay - s.ttl = CountTimeout - left[q]
            BY <3>1, <3>2, Durations
        <3> QED
            BY <3>2, <3>3, <3>4
    <2> QED
        BY <2>1, <2>2
<1>2. ASSUME NEW c \in count'
      PROVE  CommittedWithin(log', c.ver, CountAge - c.ttl)
    <2>1. CASE c \in count
        <3>1. CountAge - c.ttl \in Nat
            BY <2>1, Durations DEF CountAge
        <3> QED
            BY <1>0, <2>1, <3>1 DEF StaleInv
    <2>2. CASE c \notin count
        <3>1. q \in Refreshers /\ pc[q] = "set" /\ InTime(q)
            BY <1>2, <2>2, CountSet
        <3>2. PICK a \in got[q] : c.ver = a.ver /\ c.ttl = CountTTL
            BY <1>2, <2>2, CountSet DEF Cached
        <3>3. CommittedWithin(log, a.ver, CountAge - CountTTL) /\ log' = log
            BY <3>1, SentInTime, RefreshStep
        <3> QED
            BY <3>2, <3>3
    <2> QED
        BY <2>1, <2>2
<1> DEFINE RefreshOK(p) ==
        /\ pc'[p] = "set" => \A a \in got'[p] : CommittedWithin(log', a.ver, CountTimeout - left'[p])
        /\ Busy(p)' => \A a \in got'[p] :
               CommittedWithin(log', a.ver, CountAge + CountTimeout - left'[p])
        /\ p \in fresh' => \A g \in gauge'[p] :
               CommittedWithin(log', g.ver, CountAge + GaugeAge(p)')
<1>3. ASSUME q \in Refreshers
      PROVE  RefreshOK(q)
    <2>0. log' = log
        BY <1>3, RefreshStep
    <2>1. CASE Begins(q)
        BY <1>3, <2>0, <2>1, AgeStep DEF Begins, ShowsOn, StaleInv
    <2>2. CASE GoesOn(q)
        <3>1. pc'[q] = "set" => \A a \in got'[q] : a.ver = Len(log)
            BY <2>2 DEF GoesOn, Whole
        <3>2. CountTimeout - left'[q] \in Int /\ left'[q] = left[q] /\ Busy(q)
            BY <1>3, <2>2 DEF GoesOn
        <3>3. pc'[q] = "set" => \A a \in got'[q] :
                  CommittedWithin(log', a.ver, CountTimeout - left'[q])
            BY <2>0, <3>1, <3>2, WholeMissesNothing
        <3>4. \A a \in got'[q] : CommittedWithin(log', a.ver, CountAge + CountTimeout - left'[q])
            BY <1>3, <2>0, <2>2, <3>2, GivenStale DEF GoesOn
        <3>5. q \in fresh' => \A g \in gauge'[q] :
                  CommittedWithin(log', g.ver, CountAge + GaugeAge(q)')
            BY <1>3, <2>0, <2>2, AgeStep DEF GoesOn, ShowsOn, StaleInv
        <3> QED
            BY <3>3, <3>4, <3>5
    <2>3. CASE Returns(q)
        <3>1. CountAge + GaugeAge(q)' = CountAge + CountTimeout - left[q]
            BY <1>3, <2>3, AgeStep
        <3> QED
            BY <1>3, <2>0, <2>3, <3>1, GivenStale DEF Returns, Busy
    <2>4. CASE Stops(q)
        BY <2>4 DEF Stops, Busy
    <2>5. CASE Restarts(q)
        BY <1>3, <2>5 DEF Restarts, ShowsOn, Busy, ClockInv
    <2> QED
        BY <1>3, <2>1, <2>2, <2>3, <2>4, <2>5, RefreshStep
<1>4. ASSUME NEW p \in Refreshers, q # p
      PROVE  RefreshOK(p)
    <2>1. Idles(p)
        BY <1>4, OthersIdle DEF Procs
    <2>2. (Busy(p)' <=> Busy(p)) /\ GaugeAge(p)' = GaugeAge(p)
        BY <2>1 DEF Idles, Busy, GaugeAge
    <2>3. pc[p] = "set" => Busy(p)
        BY DEF Busy
    <2>4. Busy(p) => CountTimeout - left[p] \in Nat /\ CountAge + CountTimeout - left[p] \in Nat
        OBVIOUS
    <2>5. CountAge + GaugeAge(p) \in Nat
        OBVIOUS
    <2> QED
        BY <1>0, <2>1, <2>2, <2>3, <2>4, <2>5 DEF Idles, StaleInv
<1>5. \A p \in Refreshers : RefreshOK(p)
    BY <1>3, <1>4
<1> QED
    BY <1>1, <1>2, <1>5 DEF StaleInv

LEMMA StaleStep ==
    ASSUME TypeOK, ClockInv, ClockInv', Logged, StaleInv, [Next]_vars
    PROVE  StaleInv'
<1> USE Ages, VersTypes
<1>1. CASE Tick
    <2>0. UNCHANGED <<pc, got, gauge, fresh>> /\ count' = Aged(count)
        BY <1>1, Zenon DEF Tick
    <2>1. ASSUME NEW s \in sets'
          PROVE  CommittedWithin(log', s.ver, CountTimeout + MaxDelay - s.ttl)
        <3>1. PICK k \in sets : s.ver = k.ver /\ s.ttl = k.ttl - 1
            BY <1>1, <2>1, AgedSets
        <3>2. CommittedWithin(log, k.ver, CountTimeout + MaxDelay - k.ttl) /\ k.ver \in Nat
            BY DEF StaleInv
        <3>3. CountTimeout + MaxDelay - s.ttl = (CountTimeout + MaxDelay - k.ttl) + 1
              /\ CountTimeout + MaxDelay - k.ttl \in Int
            BY <3>1, Durations
        <3> QED
            BY <1>1, <3>1, <3>2, <3>3, TickWithin
    <2>2. ASSUME NEW c \in count'
          PROVE  CommittedWithin(log', c.ver, CountAge - c.ttl)
        <3>1. PICK k \in count : c.ver = k.ver /\ c.ttl = k.ttl - 1
            BY <2>0, <2>2, AgedCount
        <3>2. CommittedWithin(log, k.ver, CountAge - k.ttl) /\ k.ver \in Nat
            BY DEF StaleInv
        <3>3. CountAge - c.ttl = (CountAge - k.ttl) + 1 /\ CountAge - k.ttl \in Int
            BY <3>1, Durations DEF CountAge
        <3> QED
            BY <1>1, <3>1, <3>2, <3>3, TickWithin
    <2>3. ASSUME NEW p \in Refreshers, Busy(p), NEW a \in got[p]
          PROVE  /\ pc[p] = "set" => CommittedWithin(log', a.ver, CountTimeout - left'[p])
                 /\ CommittedWithin(log', a.ver, CountAge + CountTimeout - left'[p])
        <3>1. left'[p] = left[p] - 1
            BY <1>1, <2>3, AgeTicks
        <3>2. /\ CountTimeout - left'[p] = (CountTimeout - left[p]) + 1
              /\ CountAge + CountTimeout - left'[p] = (CountAge + CountTimeout - left[p]) + 1
              /\ CountTimeout - left[p] \in Int /\ CountAge + CountTimeout - left[p] \in Int
            BY <2>3, <3>1
        <3>3. a.ver \in Nat /\ CommittedWithin(log, a.ver, CountAge + CountTimeout - left[p])
            BY <2>3 DEF StaleInv
        <3>4. pc[p] = "set" => CommittedWithin(log, a.ver, CountTimeout - left[p])
            BY <2>3 DEF StaleInv
        <3> QED
            BY <1>1, <3>2, <3>3, <3>4, TickWithin
    <2>4. ASSUME NEW p \in Refreshers, p \in fresh, NEW g \in gauge[p]
          PROVE  CommittedWithin(log', g.ver, CountAge + GaugeAge(p)')
        <3>1. CommittedWithin(log, g.ver, CountAge + GaugeAge(p)) /\ pc[p] # "down" /\ g.ver \in Nat
            BY <2>4 DEF StaleInv, ClockInv
        <3>2. CountAge + GaugeAge(p)' = (CountAge + GaugeAge(p)) + 1
              /\ CountAge + GaugeAge(p) \in Int
            BY <1>1, <3>1, AgeTicks
        <3> QED
            BY <1>1, <3>1, <3>2, TickWithin
    <2>5. \A p \in Refreshers : (Busy(p)' <=> Busy(p)) /\ (pc'[p] = "set" => Busy(p))
        BY <1>1, <2>0, AgeTicks DEF Busy
    <2> QED
        BY <2>0, <2>1, <2>2, <2>3, <2>4, <2>5 DEF StaleInv
<1>2. CASE StraySetLands
    <2>1. UNCHANGED <<log, pc, left, got, due, gauge, fresh>> /\ sets' \subseteq sets
        BY <1>2, EnvironmentWaits DEF StraySetLands
    <2>2. ASSUME NEW c \in count'
          PROVE  CommittedWithin(log, c.ver, CountAge - c.ttl)
        <3>1. PICK s \in sets : c.ver = s.ver /\ c.ttl = CountTTL
            BY <1>2, <2>2 DEF StraySetLands, Cached
        <3>2. CommittedWithin(log, s.ver, CountTimeout + MaxDelay - s.ttl) /\ s.ver \in Nat
            BY DEF StaleInv
        <3>3. CountTimeout + MaxDelay - s.ttl <= CountAge - c.ttl
              /\ CountTimeout + MaxDelay - s.ttl \in Int /\ CountAge - c.ttl \in Int
            BY <3>1, Durations DEF CountAge
        <3> QED
            BY <3>1, <3>2, <3>3, WithinMore
    <2> QED
        BY <2>1, <2>2 DEF StaleInv, Busy, GaugeAge
<1>3. CASE EvictCount \/ EvictLock \/ UNCHANGED vars
    <2>1. UNCHANGED <<log, pc, left, got, due, gauge, fresh, sets>> /\ count' \subseteq count
        BY <1>3, EnvironmentWaits DEF EvictCount, EvictLock, vars, store
    <2> QED
        BY <2>1 DEF StaleInv, Busy, GaugeAge
<1> QED
    BY <1>1, <1>2, <1>3, StaleActs, NextCases

-----------------------------------------------------------------------------
(* The theorems.                                                           *)

LEMMA InitCorrect ==
    Init => TypeOK /\ ClockInv /\ Logged /\ HoldInv /\ AckInv /\ LagInv /\ StaleInv
<1> SUFFICES ASSUME Init
             PROVE  TypeOK /\ ClockInv /\ Logged /\ HoldInv /\ AckInv /\ LagInv /\ StaleInv
    OBVIOUS
<1>1. TypeOK
    <2>1. log \in Seq([age : 0..(StaleLag + 1), acked : 0..(Lag + 1) \cup {Never}]) /\ Len(log) = 0
        BY DEF Init
    <2>2. left \in [Procs -> (-2 * MaxDelay)..(CountTimeout + InvalidationTimeout)]
        BY Durations DEF Init
    <2>3. /\ write \in [Writers -> 0..MaxWrites] /\ due \in [Refreshers -> 0..Interval]
          /\ got \in [Refreshers -> SUBSET Values] /\ gauge \in [Refreshers -> SUBSET Values]
        BY Durations DEF Init
    <2>4. pc \in [Procs -> Labels]
        BY DEF Init, Labels
    <2> QED
        BY <2>1, <2>2, <2>3, <2>4, Durations DEF Init, TypeOK
<1>2. \A p \in Refreshers : pc[p] = "down" /\ ~Busy(p) /\ ~Counting(p) /\ ~Caching(p)
    <2>1. \A p \in Refreshers : pc[p] = "down"
        BY DEF Init, Procs
    <2> QED
        BY <2>1 DEF Busy, Counting, Caching
<1>3. \A p \in Writers : pc[p] = "idle" /\ write[p] = 0
    BY PartyAssumption DEF Init, Procs
<1>4. ClockInv /\ Logged
    <2>1. fresh = {} /\ Len(log) = 0
        BY DEF Init
    <2>2. ClockInv
        BY <1>2, <2>1 DEF ClockInv
    <2>3. Logged
        BY <1>3, <2>1 DEF Logged
    <2> QED
        BY <2>2, <2>3
<1>5. HoldInv
    BY <1>2 DEF Init, HoldInv
<1>6. AckInv
    BY <1>2, <1>3 DEF Init, AckInv
<1>7. LagInv /\ StaleInv
    BY <1>2 DEF Init, LagInv, StaleInv
<1> QED
    BY <1>1, <1>4, <1>5, <1>6, <1>7

\* Every variable keeps its type: the clocks stay within the durations.
LEMMA ClocksInvariant == Spec => [](TypeOK /\ ClockInv /\ Logged)
<1>1. TypeOK /\ ClockInv /\ Logged /\ [Next]_vars => (TypeOK /\ ClockInv /\ Logged)'
    BY TypeStep, ClockStep
<1> QED
    BY <1>1, InitCorrect, PTL DEF Spec

\* The durations in the model are those of the code: no clock runs past what
\* its deadline, its TTL and the delay of a command allow.
THEOREM TimedTypes == Spec => []TypeOK
BY ClocksInvariant, PTL

\* A SET of the count that was sent before its deadline lands while its lock
\* is there: three seconds of lock outlive two of deadline and the delay.
THEOREM LockOutlives == Spec => []LockOutlivesCount
<1>1. TypeOK /\ ClockInv /\ HoldInv /\ [Next]_vars => HoldInv'
    BY HoldStep
<1>2. HoldInv => LockOutlivesCount
    BY DEF HoldInv, LockOutlivesCount
<1> QED
    BY <1>1, <1>2, InitCorrect, ClocksInvariant, PTL DEF Spec

LEMMA AckInvariant == Spec => []AckInv
<1>1. TypeOK /\ ClockInv /\ Logged /\ AckInv /\ [Next]_vars => AckInv'
    BY AckStep
<1> QED
    BY <1>1, InitCorrect, ClocksInvariant, PTL DEF Spec

\* A count that was cached under its lock misses no create or delete that was
\* acknowledged, even when the lock of the write expired before its DEL landed.
THEOREM LockedIsCurrent == Spec => []LockedCountIsCurrent
<1>1. ASSUME TypeOK, AckInv
      PROVE  LockedCountIsCurrent
    <2> SUFFICES ASSUME NEW c \in count, c.how = "held", NEW w \in (c.ver + 1)..Len(log),
                        log[w].acked > -1
                 PROVE  FALSE
        BY DEF LockedCountIsCurrent, MissesAcked
    <2>1. log[w].acked <= -1
        BY <1>1 DEF AckInv, AckedWithin
    <2>2. w \in 1..Len(log)
        BY <1>1, VersTypes, LogTypes
    <2> QED
        BY <1>1, <2>1, <2>2, LogTypes
<1> QED
    BY <1>1, AckInvariant, ClocksInvariant, PTL

\* No gauge is older than an interval and the time a refresh takes.
LEMMA AgeBounded ==
    ASSUME TypeOK, ClockInv, NEW p \in Refreshers
    PROVE  GaugeAge(p) <= Lag /\ CountAge + GaugeAge(p) <= StaleLag
<1>1. -2 * MaxDelay <= left[p] /\ left[p] \in Int /\ due[p] \in Nat
    BY Durations DEF TypeOK, Procs
<1> QED
    BY <1>1, Durations DEF GaugeAge, Lag, StaleLag, CountAge

\* While refreshes succeed, the gauge lags an acknowledged create or delete by
\* an interval and the time a refresh takes, no more, unless its value came
\* from a count that was cached outside the lock.
THEOREM GaugeLags == Spec => []GaugeLagsByAnInterval
<1>1. TypeOK /\ ClockInv /\ TypeOK' /\ ClockInv' /\ Logged /\ AckInv /\ LagInv /\ [Next]_vars
          => LagInv'
    BY LagStep
<1>2. ASSUME TypeOK, ClockInv, LagInv
      PROVE  GaugeLagsByAnInterval
    <2> SUFFICES ASSUME NEW p \in Refreshers, p \in fresh, NEW g \in gauge[p], g.sound,
                        NEW w \in (g.ver + 1)..Len(log), log[w].acked > Lag
                 PROVE  FALSE
        BY <1>2 DEF GaugeLagsByAnInterval, MissesAcked, TypeOK
    <2>1. log[w].acked <= GaugeAge(p)
        BY <1>2 DEF LagInv, AckedWithin
    <2>2. w \in 1..Len(log)
        BY <1>2, VersTypes, LogTypes
    <2>3. GaugeAge(p) <= Lag /\ GaugeAge(p) \in Int /\ Lag \in Int
        BY <1>2, AgeBounded, Ages, Durations DEF Lag
    <2> QED
        BY <1>2, <2>1, <2>2, <2>3, LogTypes
<1> QED
    BY <1>1, <1>2, InitCorrect, AckInvariant, ClocksInvariant, PTL DEF Spec

\* Whatever happened to locks and invalidations, and whether a write was
\* acknowledged or not, the gauge lags it by no more than the TTL on top.
THEOREM GaugeLagsAtMost == Spec => []GaugeLagsByTTL
<1>1. TypeOK /\ ClockInv /\ TypeOK' /\ ClockInv' /\ Logged /\ StaleInv /\ [Next]_vars => StaleInv'
    BY StaleStep
<1>2. ASSUME TypeOK, ClockInv, StaleInv
      PROVE  GaugeLagsByTTL
    <2> SUFFICES ASSUME NEW p \in Refreshers, p \in fresh, NEW g \in gauge[p],
                        NEW w \in (g.ver + 1)..Len(log), log[w].age > StaleLag
                 PROVE  FALSE
        BY <1>2 DEF GaugeLagsByTTL, MissesCommitted, TypeOK
    <2>1. log[w].age <= CountAge + GaugeAge(p)
        BY <1>2 DEF StaleInv, CommittedWithin
    <2>2. w \in 1..Len(log)
        BY <1>2, VersTypes, LogTypes
    <2>3. CountAge + GaugeAge(p) <= StaleLag /\ CountAge + GaugeAge(p) \in Int /\ StaleLag \in Int
        BY <1>2, AgeBounded, Ages, Durations DEF Lag, StaleLag
    <2> QED
        BY <1>2, <2>1, <2>2, <2>3, LogTypes
<1> QED
    BY <1>1, <1>2, InitCorrect, ClocksInvariant, PTL DEF Spec

=============================================================================
