-------------------------- MODULE LifecycleProofs --------------------------
(***************************************************************************)
(* The life of the API process, for any number of requests: its types and  *)
(* all of its safety properties.                                           *)
(*                                                                         *)
(* What the exit code says is decided at three places: what a server       *)
(* returned reaches run() through a channel, what the drain gave up on     *)
(* through Shutdown, and what was cleaned up too early through neither.    *)
(* LifecycleInv relates them: ResultInv and CountInv say that run() waits  *)
(* for exactly the results that are still to come, DrainInv that a server  *)
(* it has finished with stays without requests unless the ten seconds are  *)
(* over and the exit code says so.                                         *)
(***************************************************************************)
EXTENDS Lifecycle, TLAPS

Early == {"config", "database", "cache"}

\* Before the servers start there is nothing to take down.
StartInv ==
    /\ at \in Early =>
        /\ \A s \in Names : srv[s] = "off"
        /\ results = {} /\ failed = {}
        /\ \A r \in Requests : req[r] = "none"
    /\ at \in Early \cup {"serving"} => current = 1 /\ shut = {}
    /\ at \in Early \cup {"serving", "shutdown", "collect", "closeCache"} => cache # "closed"

\* Only configured servers run and are asked.
HomeInv ==
    /\ \A s \in Names : srv[s] # "off" => s \in Configured
    /\ \A r \in Requests : req[r] # "none" => home[r] \in Configured

\* One result per server that has returned, until run() has received it, and
\* what was a failure has left its mark.
ResultInv ==
    /\ \A r \in results :
        /\ srv[r.name] = "returned"
        /\ \A q \in results : q.name = r.name => q = r
    /\ \A s \in failed :
        srv[s] = "returned" /\ (runErr \/ [name |-> s, failed |-> TRUE] \in results)

\* The servers whose result run() has not received.
ToCome(s) == s \in Configured /\ (srv[s] = "returned" => \E r \in results : r.name = s)
One(s)    == IF ToCome(s) THEN 1 ELSE 0

CountInv ==
    /\ at = "serving" => \A s \in Configured : ToCome(s)
    /\ at \in TakeDown => left = One("api") + One("pprof")
    /\ at \in {"closeCache", "closeDatabase"} => left = 0
    /\ at = "exited" /\ ~runErr => ~ToCome("api") /\ ~ToCome("pprof")

\* A server that was shut down and drained has no request, and gets none.
Drained(s) == s \in shut /\ Active(s) = {}

DrainInv ==
    /\ at \in TakeDown \ {"shutdown"} \/ (at = "exited" /\ ~runErr) => current > Len(servers)
    /\ (runErr /\ expired) \/ \A i \in 1..Len(servers) : i < current => Drained(servers[i])

LifecycleInv ==
    /\ TypeOK /\ StartInv /\ HomeInv /\ ResultInv /\ CountInv /\ DrainInv
    /\ StaleOnlyPastDeadline

\* run() has a configuration that config.Load found valid, or none.
ConfigInv == \A c \in cfg : c \in Configs /\ Validates(c)

-----------------------------------------------------------------------------
(* The configuration.                                                      *)

\* A value counts a number, whether it is one or not.
Values == [is : {"unset", "empty", "bad", "given"}, n : Int]

LEMMA ValuesAreValues ==
    /\ Unset \in Values /\ Empty \in Values /\ Bad \in Values
    /\ \A n \in Int : Given(n) \in Values
BY DEF Unset, Empty, Bad, Given, Value, Values

LEMMA InputsAreValues ==
    ASSUME NEW env \in Environments, NEW file \in Files, NEW k \in Keys
    PROVE  env[k] \in Values /\ file[k] \in Values
<1>1. file[k] \in Values
    BY ValuesAreValues DEF Files, NoFile, Broken
<1>2. MaxDuration \in Int /\ MaxDuration \div 10 \in Int /\ Millisecond \in Int
    BY DEF MaxDuration, Millisecond
<1>3. Ports \subseteq Values /\ TTLs \subseteq Values
    BY <1>2, ValuesAreValues DEF Ports, TTLs
<1>4. env[k] \in Values
    BY <1>3, ValuesAreValues DEF Environments, Keys
<1> QED
    BY <1>1, <1>4

LEMMA LoadIsValid ==
    ASSUME NEW env \in Environments, NEW file \in Files, NEW c \in Load(env, file)
    PROVE  c \in Configs /\ Validates(c)
<1> DEFINE e == Effective(env, file)
<1>1. \A k \in Keys : e[k] \in Values
    BY InputsAreValues, ValuesAreValues DEF Effective
<1>2. \A k \in Keys, d \in Int : Or(e[k], d) \in Int
    BY <1>1 DEF Or, Values
<1>3. Parsed(e) \in Configs
    BY <1>2 DEF Parsed, Configs, Keys, DefaultTTL
<1> QED
    BY <1>3 DEF Load

LEMMA ConfigStep == Spec => []ConfigInv
<1>1. Init => ConfigInv
    BY DEF Init, ConfigInv
<1>2. ConfigInv /\ [Next]_vars => ConfigInv'
    <2> SUFFICES ASSUME ConfigInv, [Next]_vars PROVE ConfigInv'
        OBVIOUS
    <2>1. CASE LoadConfig
        BY <2>1, LoadIsValid DEF LoadConfig, ConfigInv
    <2>2. CASE OpenCache
        BY <2>2 DEF OpenCache, ConfigInv
    <2>3. CASE cfg' = cfg
        BY <2>3 DEF ConfigInv
    <2>4. CASE ~LoadConfig /\ ~OpenCache
        <3>1. cfg' = cfg
            BY <2>4 DEF Next, Main, OpenDatabase, ServerStopped, SignalReceived,
                CloseListener, DrainConnections, ShutdownDone, Collect, RunReturns,
                CloseCache, CloseDatabase, Exit, Listen, ServeFails, ServeEnds, Accept,
                Handler, BeginQuery, CommitWrite, InvalidateCache, Respond, Refresher,
                RefreshBegins, RefreshEnds, RefresherReturns, Signal, ShutdownTimeout,
                vars, clients
        <3> QED
            BY <2>3, <3>1
    <2> QED
        BY <2>1, <2>2, <2>4
<1> QED
    BY <1>1, <1>2, PTL DEF Spec

\* go-redis is never given a TTL that it would leave out.
LEMMA SentIsPositive ==
    ASSUME NEW d \in Int, d > 0
    PROVE  Sent(d) \in Int /\ Sent(d) >= 1 /\ (d >= Millisecond => Sent(d) = d \div Millisecond)
                           /\ (d < Millisecond => Sent(d) = 1)
BY DEF Sent, Millisecond

\* run() goes on only with a configuration that what it starts can use.
THEOREM ConfigUsable == Spec => []ConfigIsUsable
<1>1. ASSUME NEW c, c \in Configs, Validates(c)
      PROVE  /\ c.database
             /\ c.port \in ValidPort
             /\ c.pprof => c.pprofPort \in ValidPort /\ c.pprofPort # c.port
             /\ c.cache => PageTTL(c) # NoTTL
    <2>1. c.cache => c.ttl > 0
        BY <1>1, Zenon DEF Validates
    <2>2. c.ttl \in Int
        BY <1>1 DEF Configs
    <2>3. c.ttl > 0 => PageTTL(c) # NoTTL
        BY <2>2, SentIsPositive DEF PageTTL, NoTTL
    <2> QED
        BY <1>1, <2>1, <2>3, Zenon DEF Validates
<1>2. \A p, q : p \in ValidPort /\ p # q => p \in ValidPort \ {q}
    OBVIOUS
<1>3. ValidPort = Findable
    BY DEF ValidPort, Findable
<1>4. ConfigInv => ConfigIsUsable
    BY <1>1, <1>2, <1>3, Zenon DEF ConfigInv, ConfigIsUsable
<1> QED
    BY <1>4, ConfigStep, PTL

\* Ten TTLs fit a word as long as the largest duration is ten times as long.
LEMMA TenTTLs ==
    ASSUME NEW d \in Int, d > 0, d <= MaxDuration \div 10
    PROVE  Word(10 * d) = 10 * d
<1>1. 2^15 = 32768 /\ 2^16 = 65536
    OBVIOUS
<1> QED
    BY <1>1 DEF Word, MaxDuration

\* Every key the list cache writes expires, a generation not before its pages.
THEOREM KeysExpire == Spec => []EveryKeyExpires
<1>1. ConfigInv => EveryKeyExpires
    <2> SUFFICES ASSUME NEW c \in cfg, c \in Configs, Validates(c), c.cache
                 PROVE  /\ GenerationTTL(c) # NoTTL
                        /\ c.ttl <= MaxDuration \div 10 =>
                               /\ RetiredTTL(c) >= PageTTL(c)
                               /\ GenerationTTL(c) >= PageTTL(c)
        BY DEF ConfigInv, EveryKeyExpires
    <2>1. c.ttl > 0
        BY Zenon DEF Validates
    <2>2. c.ttl \in Int
        BY DEF Configs
    <2>3. GenerationTTL(c) # NoTTL
        <3>1. CASE Truncated(c) < 1
            BY <3>1 DEF GenerationTTL, NoTTL
        <3>2. CASE ~(Truncated(c) < 1)
            <4>1. GenerationTTL(c) = Truncated(c)
                BY <3>2 DEF GenerationTTL
            <4>2. ~(0 < 1) => FALSE
                OBVIOUS
            <4> QED
                BY <3>2, <4>1, <4>2 DEF NoTTL
        <3> QED
            BY <3>1, <3>2
    <2>4. ASSUME c.ttl <= MaxDuration \div 10
          PROVE  RetiredTTL(c) >= PageTTL(c) /\ GenerationTTL(c) >= PageTTL(c)
        <3> DEFINE d == c.ttl
        <3>1. Word(10 * d) = 10 * d
            BY <2>1, <2>2, <2>4, TenTTLs
        <3>2. RetiredTTL(c) = Sent(10 * d) /\ PageTTL(c) = Sent(d)
            BY <3>1 DEF RetiredTTL, PageTTL
        <3>3. Truncated(c) = (10 * d) \div Millisecond
            BY <3>1 DEF Truncated
        <3> HIDE DEF d
        <3>4. Sent(10 * d) >= Sent(d)
            BY <2>1, <2>2 DEF Sent, Millisecond, d
        <3>5. d \in Int /\ d > 0
            BY <2>1, <2>2 DEF d
        <3>6. GenerationTTL(c) >= Sent(d)
            BY <3>3, <3>5 DEF GenerationTTL, Sent, Millisecond
        <3> QED
            BY <3>2, <3>4, <3>6
    <2> QED
        BY <2>3, <2>4
<1> QED
    BY <1>1, ConfigStep, PTL

-----------------------------------------------------------------------------
(* Types.                                                                  *)

\* The API is always served, the profiler beside it or not.
LEMMA Lineup ==
    ASSUME TypeOK
    PROVE  /\ \/ Len(servers) = 1 /\ Configured = {"api"}
              \/ Len(servers) = 2 /\ Configured = {"api", "pprof"}
           /\ \A i \in 1..Len(servers) : servers[i] \in Configured
           /\ \A s \in Configured : \E i \in 1..Len(servers) : s = servers[i]
           /\ Configured \subseteq Names
<1>1. CASE servers = <<"api">>
    <2>1. Len(servers) = 1 /\ servers[1] = "api"
        BY <1>1
    <2>2. 1..Len(servers) = {1}
        BY <2>1
    <2> QED
        BY <2>1, <2>2 DEF Configured, Names
<1>2. CASE servers = <<"api", "pprof">>
    <2>1. Len(servers) = 2 /\ servers[1] = "api" /\ servers[2] = "pprof"
        BY <1>2
    <2>2. 1..Len(servers) = {1, 2}
        BY <2>1
    <2> QED
        BY <2>1, <2>2 DEF Configured, Names
<1> QED
    BY <1>1, <1>2 DEF TypeOK

LEMMA TypesHold == TypeOK /\ ConfigInv /\ ConfigInv' /\ [Next]_vars => TypeOK'
<1> SUFFICES ASSUME TypeOK, ConfigInv, ConfigInv', [Next]_vars PROVE TypeOK'
    OBVIOUS
<1>0. cfg' \subseteq Configs
    BY DEF ConfigInv
<1> USE <1>0 DEF TypeOK, TakeDown, Ended, Clients, main, signals, serving, requests, clients
<1>1. CASE LoadConfig
    BY <1>1 DEF LoadConfig
<1>2. CASE OpenDatabase
    BY <1>2 DEF OpenDatabase
<1>3. CASE OpenCache
    BY <1>3 DEF OpenCache
<1>4. CASE ServerStopped \/ SignalReceived
    <2>1. Len(servers) \in 1..2
        BY Lineup
    <2>2. CASE ServerStopped
        <3>1. left' \in 0..2 /\ results' \subseteq results
            BY <2>1, <2>2 DEF ServerStopped, OtherServers
        <3>2. at' = "shutdown" /\ runErr' = TRUE
            BY <2>2, Zenon DEF ServerStopped
        <3>3. UNCHANGED <<servers, current, expired, signals, srv, shut, failed, requests,
                          clients, refresher>>
            BY <2>2, Zenon DEF ServerStopped
        <3> QED
            BY <3>1, <3>2, <3>3
    <2>3. CASE SignalReceived
        <3>1. at' = "shutdown" /\ left' = Len(servers) /\ notify' = FALSE
            BY <2>3, Zenon DEF SignalReceived
        <3>2. UNCHANGED <<servers, current, runErr, expired, done, serving, requests,
                          clients, refresher>>
            BY <2>3, Zenon DEF SignalReceived
        <3>3. left' \in 0..2
            BY <2>1, <3>1
        <3>4. notify' \in BOOLEAN
            BY <3>1, Zenon
        <3> QED
            BY <3>1, <3>2, <3>3, <3>4
    <2> QED
        BY <1>4, <2>2, <2>3
<1>5. CASE CloseListener \/ DrainConnections \/ ShutdownDone
    <2>1. Len(servers) \in 1..2 /\ \A i \in 1..Len(servers) : servers[i] \in Names
        BY Lineup
    <2>2. CASE CloseListener
        BY <1>5, <2>1, <2>2 DEF CloseListener
    <2>3. CASE DrainConnections
        <3>1. runErr' \in BOOLEAN
            BY <2>3, Zenon DEF DrainConnections
        <3>2. current' \in 1..3
            BY <2>1, <2>3 DEF DrainConnections
        <3>3. UNCHANGED <<at, servers, left, expired, signals, serving, requests, clients,
                          refresher>>
            BY <2>3, Zenon DEF DrainConnections
        <3> QED
            BY <3>1, <3>2, <3>3
    <2>4. CASE ShutdownDone
        BY <1>5, <2>1, <2>4 DEF ShutdownDone
    <2> QED
        BY <1>5, <2>2, <2>3, <2>4
<1>6. CASE Collect
    <2>1. \A p, q : (p \/ q) \in BOOLEAN
        BY Zenon
    <2>2. runErr' \in BOOLEAN
        BY <1>6, <2>1, Zenon DEF Collect
    <2>3. left' \in 0..2 /\ results' \subseteq results
        BY <1>6 DEF Collect
    <2>4. UNCHANGED <<at, servers, current, expired, signals, srv, shut, failed, requests,
                      clients, refresher>>
        BY <1>6, Zenon DEF Collect
    <2> QED
        BY <2>2, <2>3, <2>4
<1>7. CASE RunReturns \/ CloseCache \/ CloseDatabase \/ Exit
    <2>1. CASE RunReturns
        BY <2>1 DEF RunReturns
    <2>2. CASE CloseCache
        BY <2>2 DEF CloseCache
    <2>3. CASE CloseDatabase
        BY <2>3 DEF CloseDatabase
    <2>4. CASE Exit
        BY <2>4 DEF Exit
    <2> QED
        BY <1>7, <2>1, <2>2, <2>3, <2>4
<1>8. ASSUME NEW s \in Names, Listen(s) \/ ServeFails(s) \/ ServeEnds(s) PROVE TypeOK'
    <2>1. CASE Listen(s)
        BY <1>8, <2>1 DEF Listen
    <2>2. CASE ServeFails(s)
        <3>1. [name |-> s, failed |-> TRUE] \in [name : Names, failed : BOOLEAN]
            OBVIOUS
        <3>2. results' \subseteq [name : Names, failed : BOOLEAN]
            BY <2>2, <3>1, Zenon DEF ServeFails, Return
        <3>3. srv' = [srv EXCEPT ![s] = "returned"] /\ failed' = failed \cup {s}
            BY <2>2, Zenon DEF ServeFails, Return
        <3>4. UNCHANGED <<main, signals, shut, requests, clients, refresher>>
            BY <2>2, Zenon DEF ServeFails
        <3> QED
            BY <3>2, <3>3, <3>4
    <2>3. CASE ServeEnds(s)
        <3>1. [name |-> s, failed |-> FALSE] \in [name : Names, failed : BOOLEAN]
            OBVIOUS
        <3>2. results' \subseteq [name : Names, failed : BOOLEAN]
            BY <2>3, <3>1, Zenon DEF ServeEnds, Return
        <3>3. srv' = [srv EXCEPT ![s] = "returned"]
            BY <2>3, Zenon DEF ServeEnds, Return
        <3>4. UNCHANGED <<main, signals, shut, failed, requests, clients, refresher>>
            BY <2>3, Zenon DEF ServeEnds
        <3> QED
            BY <3>2, <3>3, <3>4
    <2> QED
        BY <1>8, <2>1, <2>2, <2>3
<1>9. ASSUME NEW r \in Requests, Accept(r) \/ Handler(r) PROVE TypeOK'
    <2>1. CASE Accept(r)
        <3>1. home' \in [Requests -> Names] /\ req' = [req EXCEPT ![r] = "waiting"]
            BY <2>1 DEF Accept, Handle
        <3>2. UNCHANGED <<main, signals, serving, stale, clients, refresher>>
            BY <2>1, Zenon DEF Accept
        <3> QED
            BY <3>1, <3>2
    <2>2. CASE InvalidateCache(r)
        BY <2>2 DEF InvalidateCache, Handle
    <2>3. CASE BeginQuery(r) \/ CommitWrite(r) \/ Respond(r)
        <3>1. \E to \in {"query", "invalidate", "served"} : req' = [req EXCEPT ![r] = to]
            BY <2>3 DEF BeginQuery, CommitWrite, Respond, Handle
        <3>2. UNCHANGED <<main, signals, serving, home, stale, clients, refresher>>
            BY <2>3, Zenon DEF BeginQuery, CommitWrite, Respond
        <3> QED
            BY <3>1, <3>2
    <2> QED
        BY <1>9, <2>1, <2>2, <2>3 DEF Handler
<1>10. CASE Refresher \/ Signal \/ ShutdownTimeout
    <2>1. CASE Refresher
        BY <2>1 DEF Refresher, RefreshBegins, RefreshEnds, RefresherReturns
    <2>2. CASE Signal
        <3>1. at' \in {at, "killed"}
            BY <2>2, Zenon DEF Signal
        <3>2. done' \in BOOLEAN
            BY <2>2, Zenon DEF Signal
        <3>3. UNCHANGED <<servers, current, left, runErr, expired, notify, serving, requests,
                          clients, refresher>>
            BY <2>2, Zenon DEF Signal
        <3> QED
            BY <3>1, <3>2, <3>3
    <2>3. CASE ShutdownTimeout
        <3>1. expired' = TRUE
            BY <2>3, Zenon DEF ShutdownTimeout
        <3>2. UNCHANGED <<at, servers, current, left, runErr, signals, serving, requests,
                          clients, refresher>>
            BY <2>3, Zenon DEF ShutdownTimeout
        <3> QED
            BY <3>1, <3>2
    <2> QED
        BY <1>10, <2>1, <2>2, <2>3
<1>11. CASE UNCHANGED vars
    BY <1>11 DEF vars
<1> QED
    BY <1>1, <1>2, <1>3, <1>4, <1>5, <1>6, <1>7, <1>8, <1>9, <1>10, <1>11 DEF Next, Main

-----------------------------------------------------------------------------
(* Every property but the one of the configuration.                        *)

\* Two servers, whose results are counted one by one.
LEMMA Ones ==
    /\ \A s : One(s) \in {0, 1} /\ (One(s) = 1 <=> ToCome(s))
    /\ One("api") + One("pprof") = 0 => ~ToCome("api") /\ ~ToCome("pprof")
BY DEF One

\* What the requests and the drain have to do with a step: it shuts no server
\* out that it has not drained, and forgets nothing that went wrong.
LEMMA DrainKept ==
    ASSUME TypeOK, DrainInv, servers' = servers, current' = current, shut \subseteq shut',
           runErr => runErr', expired => expired',
           \A s \in shut : Active(s)' \subseteq Active(s)
    PROVE  (runErr' /\ expired') \/
                \A i \in 1..Len(servers') : i < current' => Drained(servers[i])'
<1> SUFFICES ASSUME ~(runErr' /\ expired'), NEW i \in 1..Len(servers'), i < current'
             PROVE  Drained(servers[i])'
    BY Zenon
<1>1. ~(runErr /\ expired)
    BY Zenon
<1>2. i \in 1..Len(servers) /\ i < current
    OBVIOUS
<1>3. Drained(servers[i])
    BY <1>1, <1>2, Zenon DEF DrainInv
<1> QED
    BY <1>3 DEF Drained

LEMMA Starting ==
    LifecycleInv /\ TypeOK' /\ (LoadConfig \/ OpenDatabase \/ OpenCache) => LifecycleInv'
<1> SUFFICES ASSUME LifecycleInv, TypeOK', LoadConfig \/ OpenDatabase \/ OpenCache
             PROVE  LifecycleInv'
    OBVIOUS
<1> USE DEF LifecycleInv
<1>1. at \in Early /\ UNCHANGED <<current, expired, shut, results, failed, req, home, stale>>
    BY DEF LoadConfig, OpenDatabase, OpenCache, Early, serving, requests
<1>2. /\ results = {} /\ failed = {} /\ current = 1 /\ shut = {}
      /\ \A s \in Names : srv[s] = "off"
      /\ \A r \in Requests : req[r] = "none"
    BY <1>1, Zenon DEF StartInv
<1>3. \/ at' \in Early /\ srv' = srv /\ cache' = cache /\ runErr' = runErr
      \/ at' = "exited" /\ srv' = srv /\ runErr' = TRUE
      \/ /\ at' = "serving" /\ cache' # "closed" /\ runErr' = runErr /\ servers' = servers
         /\ srv' = [s \in Names |-> IF s \in Configured THEN "starting" ELSE "off"]
    <2>1. CASE LoadConfig
        <3>1. srv' = srv /\ cache' = cache
            BY <2>1 DEF LoadConfig, serving
        <3>2. (at' = "database" /\ runErr' = runErr) \/ (at' = "exited" /\ runErr' = TRUE)
            BY <2>1, Zenon DEF LoadConfig
        <3>3. "database" \in Early /\ "cache" \in Early
            BY DEF Early
        <3> QED
            BY <3>1, <3>2, <3>3, Zenon
    <2>2. CASE OpenDatabase
        <3>1. srv' = srv /\ cache' = cache
            BY <2>2 DEF OpenDatabase, serving
        <3>2. (at' = "cache" /\ runErr' = runErr) \/ (at' = "exited" /\ runErr' = TRUE)
            BY <2>2, Zenon DEF OpenDatabase
        <3>3. "database" \in Early /\ "cache" \in Early
            BY DEF Early
        <3> QED
            BY <3>1, <3>2, <3>3, Zenon
    <2>3. CASE OpenCache
        BY <2>3, Zenon DEF OpenCache
    <2> QED
        BY <2>1, <2>2, <2>3
<1>4. StartInv'
    BY <1>1, <1>2, <1>3 DEF StartInv, Early
<1>5. HomeInv'
    <2>1. \A s \in Names : srv'[s] # "off" => s \in Configured'
        BY <1>2, <1>3 DEF Configured
    <2> QED
        BY <1>1, <1>2, <2>1 DEF HomeInv
<1>6. ResultInv'
    BY <1>1, <1>2, Zenon DEF ResultInv
<1>7. CountInv'
    <2>1. at' = "serving" => \A s \in Configured' : srv'[s] # "returned"
        BY <1>3, Lineup DEF Early, Configured
    <2>2. at' \notin TakeDown
        BY <1>3 DEF TakeDown, Early
    <2>3. at' = "serving" => \A s \in Configured' : ToCome(s)'
        BY <2>1, Zenon DEF ToCome
    <2>4. ~(at' = "exited" /\ ~runErr')
        BY <1>3 DEF Early
    <2> QED
        BY <2>2, <2>3, <2>4 DEF CountInv, TakeDown
<1>8. DrainInv'
    <2>1. \A i \in 1..Len(servers') : ~(i < current')
        BY <1>1, <1>2
    <2>2. at' \notin TakeDown /\ ~(at' = "exited" /\ ~runErr')
        BY <1>3 DEF TakeDown, Early
    <2> QED
        BY <2>1, <2>2, Zenon DEF DrainInv
<1>9. StaleOnlyPastDeadline'
    <2>1. runErr => runErr'
        BY <1>3, Zenon
    <2> QED
        BY <1>1, <2>1, Zenon DEF StaleOnlyPastDeadline
<1> QED
    BY <1>4, <1>5, <1>6, <1>7, <1>8, <1>9

LEMMA Stopping ==
    LifecycleInv /\ TypeOK' /\ (ServerStopped \/ SignalReceived) => LifecycleInv'
<1> SUFFICES ASSUME LifecycleInv, TypeOK', ServerStopped \/ SignalReceived
             PROVE  LifecycleInv'
    OBVIOUS
<1> USE DEF LifecycleInv
<1>1. /\ at = "serving" /\ at' = "shutdown"
      /\ UNCHANGED <<servers, current, expired, srv, shut, failed, req, home, stale, cache>>
    BY DEF ServerStopped, SignalReceived, serving, requests, clients
<1>2. current = 1 /\ shut = {} /\ cache # "closed"
    BY <1>1, Zenon DEF StartInv
<1>3. results' \subseteq results
    BY DEF ServerStopped, SignalReceived, serving
<1>4. (runErr => runErr') /\ (results' = results \/ runErr')
    <2>1. SignalReceived => results' = results
        BY DEF SignalReceived, serving
    <2>2. SignalReceived => (runErr => runErr')
        BY Zenon DEF SignalReceived
    <2>3. ServerStopped => runErr'
        BY Zenon DEF ServerStopped
    <2> QED
        BY <2>1, <2>2, <2>3, Zenon
<1>5. StartInv'
    BY <1>1, <1>2 DEF StartInv, Early
<1>6. HomeInv'
    BY <1>1 DEF HomeInv, Configured
<1>7. ResultInv'
    <2>1. srv' = srv /\ failed' = failed
        BY <1>1
    <2>2. \A r \in results' : r \in results
        BY <1>3
    <2>3. \A s \in failed' : srv'[s] = "returned" /\
                (runErr' \/ [name |-> s, failed |-> TRUE] \in results')
        BY <1>4, <2>1, Zenon DEF ResultInv
    <2> QED
        BY <2>1, <2>2, <2>3, Zenon DEF ResultInv
<1>8. left' = One("api")' + One("pprof")'
    <2>1. \A s \in Configured : ToCome(s)
        BY <1>1, Zenon DEF CountInv
    <2>2. Configured' = Configured
        BY <1>1 DEF Configured
    <2>3. \A s : ToCome(s) => s \in Configured
        BY DEF ToCome
    <2>4. CASE SignalReceived
        <3>1. left' = Len(servers) /\ results' = results
            BY <2>4 DEF SignalReceived, serving
        <3>2. \A s : ToCome(s)' <=> ToCome(s)
            BY <1>1, <2>2, <3>1, Zenon DEF ToCome
        <3> QED
            BY <2>1, <2>3, <3>1, <3>2, Lineup DEF One
    <2>5. CASE ServerStopped
        <3>1. PICK r \in results : results' = results \ {r}
            BY <2>5, Zenon DEF ServerStopped
        <3>2. r.name \in Names /\ srv[r.name] = "returned"
            BY <3>1 DEF TypeOK, ResultInv
        <3>3. r.name \in Configured
            BY <3>2, Zenon DEF HomeInv
        <3>4. ~ToCome(r.name)'
            BY <1>1, <3>1, <3>2 DEF ToCome, ResultInv
        <3>5. \A s : s # r.name => (ToCome(s)' <=> ToCome(s))
            BY <1>1, <2>2, <3>1, Zenon DEF ToCome
        <3>6. left' = Len(servers) - 1
            BY <2>5 DEF ServerStopped, OtherServers
        <3> QED
            BY <2>1, <2>3, <3>3, <3>4, <3>5, <3>6, Lineup DEF One
    <2> QED
        BY <2>4, <2>5
<1>9. CountInv'
    BY <1>1, <1>8 DEF CountInv, TakeDown
<1>10. DrainInv'
    <2>1. \A i \in 1..Len(servers') : ~(i < current')
        BY <1>1, <1>2
    <2> QED
        BY <1>1, <2>1, Zenon DEF DrainInv, TakeDown
<1>11. StaleOnlyPastDeadline'
    BY <1>1, <1>4, Zenon DEF StaleOnlyPastDeadline
<1> QED
    BY <1>5, <1>6, <1>7, <1>9, <1>10, <1>11

LEMMA ShuttingDown ==
    LifecycleInv /\ TypeOK' /\ (CloseListener \/ DrainConnections \/ ShutdownDone)
        => LifecycleInv'
<1> SUFFICES ASSUME LifecycleInv, TypeOK', CloseListener \/ DrainConnections \/ ShutdownDone
             PROVE  LifecycleInv'
    OBVIOUS
<1> USE DEF LifecycleInv
<1>1. /\ at = "shutdown" /\ at' \in {"shutdown", "collect"}
      /\ UNCHANGED <<servers, left, expired, srv, results, failed, req, home, stale, cache>>
    BY DEF CloseListener, DrainConnections, ShutdownDone, main, serving, requests, clients
<1>2. (runErr => runErr') /\ shut \subseteq shut'
    <2>1. CASE CloseListener
        BY <2>1 DEF CloseListener, main
    <2>2. CASE DrainConnections
        <3>1. runErr => runErr'
            BY <2>2, Zenon DEF DrainConnections
        <3> QED
            BY <2>2, <3>1 DEF DrainConnections, serving
    <2>3. CASE ShutdownDone
        BY <2>3 DEF ShutdownDone, serving
    <2> QED
        BY <2>1, <2>2, <2>3
<1>3. StartInv'
    BY <1>1 DEF StartInv, Early
<1>4. HomeInv'
    BY <1>1 DEF HomeInv, Configured
<1>5. ResultInv'
    BY <1>1, <1>2, Zenon DEF ResultInv
<1>6. CountInv'
    <2>1. \A s : One(s)' = One(s)
        BY <1>1 DEF One, ToCome, Configured
    <2> QED
        BY <1>1, <2>1 DEF CountInv, TakeDown
<1>7. \A s : Active(s)' = Active(s)
    BY <1>1 DEF Active
<1>8. DrainInv'
    <2>1. CASE CloseListener
        <3>1. at' = "shutdown" /\ current' = current
            BY <2>1 DEF CloseListener, main
        <3>2. (runErr' /\ expired') \/
                \A i \in 1..Len(servers') : i < current' => Drained(servers[i])'
            BY <1>1, <1>2, <1>7, <3>1, DrainKept
        <3> QED
            BY <3>1, <3>2, Zenon DEF DrainInv, TakeDown
    <2>2. CASE DrainConnections
        <3>1. /\ at' = "shutdown" /\ current' = current + 1 /\ current <= Len(servers)
              /\ shut' = shut /\ servers[current] \in shut
            BY <2>2 DEF DrainConnections, serving
        <3>2. (runErr' /\ expired') \/ Drained(servers[current])
            <4>1. expired' = expired
                BY <1>1
            <4>2. Quiescent(servers[current]) => Drained(servers[current])
                BY <3>1, Zenon DEF Quiescent, Drained
            <4>3. Quiescent(servers[current]) \/ (expired /\ runErr')
                BY <2>2, Zenon DEF DrainConnections
            <4> QED
                BY <4>1, <4>2, <4>3, Zenon
        <3>3. (runErr' /\ expired') \/
                \A i \in 1..Len(servers) : i < current' => Drained(servers[i])
            <4> SUFFICES ASSUME ~(runErr' /\ expired'), NEW i \in 1..Len(servers), i < current'
                         PROVE  Drained(servers[i])
                BY Zenon
            <4>1. i < current \/ i = current
                BY <3>1 DEF TypeOK
            <4>2. ~(runErr /\ expired)
                BY <1>1, <1>2, Zenon
            <4> QED
                BY <3>2, <4>1, <4>2, Zenon DEF DrainInv
        <3>4. \A s : Drained(s) => Drained(s)'
            BY <1>7, <3>1 DEF Drained
        <3>5. (runErr' /\ expired') \/
                \A i \in 1..Len(servers') : i < current' => Drained(servers[i])'
            BY <1>1, <3>3, <3>4
        <3> QED
            BY <3>1, <3>5, Zenon DEF DrainInv, TakeDown
    <2>3. CASE ShutdownDone
        <3>1. current' = current /\ current > Len(servers)
            BY <2>3 DEF ShutdownDone
        <3>2. (runErr' /\ expired') \/
                \A i \in 1..Len(servers') : i < current' => Drained(servers[i])'
            BY <1>1, <1>2, <1>7, <3>1, DrainKept
        <3> QED
            BY <1>1, <3>1, <3>2, Zenon DEF DrainInv
    <2> QED
        BY <2>1, <2>2, <2>3
<1>9. StaleOnlyPastDeadline'
    BY <1>1, <1>2, Zenon DEF StaleOnlyPastDeadline
<1> QED
    BY <1>3, <1>4, <1>5, <1>6, <1>8, <1>9

LEMMA Collecting == LifecycleInv /\ TypeOK' /\ Collect => LifecycleInv'
<1> SUFFICES ASSUME LifecycleInv, TypeOK', Collect
             PROVE  LifecycleInv'
    OBVIOUS
<1> USE DEF LifecycleInv
<1>1. PICK r \in results : results' = results \ {r} /\ runErr' = (runErr \/ Joined(r))
    BY Zenon DEF Collect
<1>2. /\ at = "collect" /\ at' = at /\ left' = left - 1
      /\ UNCHANGED <<servers, current, expired, srv, shut, failed, req, home, stale, cache>>
    BY DEF Collect, requests, clients
<1>3. runErr => runErr'
    BY <1>1, Zenon
<1>4. StartInv'
    BY <1>2 DEF StartInv, Early
<1>5. HomeInv'
    BY <1>2 DEF HomeInv, Configured
<1>6. ResultInv'
    <2>1. srv' = srv /\ failed' = failed
        BY <1>2
    <2>2. \A q \in results' : q \in results
        BY <1>1
    <2>3. ASSUME NEW s \in failed, [name |-> s, failed |-> TRUE] \in results
          PROVE  runErr' \/ [name |-> s, failed |-> TRUE] \in results'
        <3>1. CASE r = [name |-> s, failed |-> TRUE]
            <4>1. r.failed
                BY <3>1
            <4> QED
                BY <1>1, <4>1, Zenon DEF Joined
        <3>2. CASE r # [name |-> s, failed |-> TRUE]
            BY <1>1, <2>3, <3>2, Zenon
        <3> QED
            BY <3>1, <3>2
    <2> QED
        BY <1>3, <2>1, <2>2, <2>3, Zenon DEF ResultInv
<1>7. CountInv'
    <2>1. r.name \in Names /\ srv[r.name] = "returned"
        BY <1>1 DEF TypeOK, ResultInv
    <2>2. Configured' = Configured
        BY <1>2 DEF Configured
    <2>3. r.name \in Configured
        BY <2>1, Zenon DEF HomeInv
    <2>4. ToCome(r.name)
        BY <1>1, <2>3, Zenon DEF ToCome
    <2>5. ~ToCome(r.name)'
        BY <1>1, <1>2, <2>1 DEF ToCome, ResultInv
    <2>6. \A s : s # r.name => (ToCome(s)' <=> ToCome(s))
        BY <1>1, <1>2, <2>2, Zenon DEF ToCome
    <2>7. left = One("api") + One("pprof")
        BY <1>2 DEF CountInv, TakeDown
    <2>8. left' = One("api")' + One("pprof")'
        BY <1>2, <2>1, <2>4, <2>5, <2>6, <2>7 DEF Names, One
    <2> QED
        BY <1>2, <2>8 DEF CountInv, TakeDown
<1>8. DrainInv'
    <2>1. \A s : Active(s)' = Active(s)
        BY <1>2 DEF Active
    <2>2. (runErr' /\ expired') \/
            \A i \in 1..Len(servers') : i < current' => Drained(servers[i])'
        BY <1>2, <1>3, <2>1, DrainKept
    <2>3. at' = at /\ current' = current /\ Len(servers') = Len(servers)
        BY <1>2
    <2> QED
        BY <1>2, <1>3, <2>2, <2>3, Zenon DEF DrainInv, TakeDown
<1>9. StaleOnlyPastDeadline'
    BY <1>2, <1>3, Zenon DEF StaleOnlyPastDeadline
<1> QED
    BY <1>4, <1>5, <1>6, <1>7, <1>8, <1>9

LEMMA Leaving ==
    LifecycleInv /\ TypeOK' /\ (RunReturns \/ CloseCache \/ CloseDatabase \/ Exit)
        => LifecycleInv'
<1> SUFFICES ASSUME LifecycleInv, TypeOK', RunReturns \/ CloseCache \/ CloseDatabase \/ Exit
             PROVE  LifecycleInv'
    OBVIOUS
<1> USE DEF LifecycleInv
<1>1. /\ at \in TakeDown \ {"shutdown"}
      /\ at' \in {"closeCache", "closeDatabase", "exited"}
      /\ UNCHANGED <<servers, current, left, expired, srv, shut, results, failed, req, home,
                     stale>>
    BY DEF RunReturns, CloseCache, CloseDatabase, Exit, TakeDown, main, serving, requests
<1>2. runErr' = runErr
    BY Zenon DEF RunReturns, CloseCache, CloseDatabase, Exit, main
<1>3. StartInv'
    <2>1. at' = "closeCache" => at = "collect" /\ cache' = cache
        BY DEF RunReturns, CloseCache, CloseDatabase, Exit, main, clients
    <2> QED
        BY <1>1, <2>1 DEF StartInv, Early
<1>4. HomeInv'
    BY <1>1 DEF HomeInv, Configured
<1>5. ResultInv'
    BY <1>1, <1>2, Zenon DEF ResultInv
<1>6. CountInv'
    <2>1. \A s : One(s)' = One(s) /\ (ToCome(s)' <=> ToCome(s))
        BY <1>1 DEF One, ToCome, Configured
    <2>2. left = One("api") + One("pprof")
        BY <1>1 DEF CountInv
    <2>3. left = 0
        BY DEF RunReturns, CloseCache, CloseDatabase, Exit, CountInv
    <2>4. ~ToCome("api") /\ ~ToCome("pprof")
        BY <2>2, <2>3, Ones
    <2> QED
        BY <1>1, <2>1, <2>2, <2>3, <2>4 DEF CountInv
<1>7. DrainInv'
    <2>1. \A s : Active(s)' = Active(s)
        BY <1>1 DEF Active
    <2>2. (runErr' /\ expired') \/
            \A i \in 1..Len(servers') : i < current' => Drained(servers[i])'
        BY <1>1, <1>2, <2>1, DrainKept
    <2>3. current' > Len(servers')
        BY <1>1 DEF DrainInv
    <2> QED
        BY <2>2, <2>3, Zenon DEF DrainInv
<1>8. StaleOnlyPastDeadline'
    BY <1>1, <1>2, Zenon DEF StaleOnlyPastDeadline
<1> QED
    BY <1>3, <1>4, <1>5, <1>6, <1>7, <1>8

LEMMA Serving ==
    ASSUME LifecycleInv, TypeOK', Running, NEW s \in Names,
           Listen(s) \/ ServeFails(s) \/ ServeEnds(s)
    PROVE  LifecycleInv'
<1> USE DEF LifecycleInv
<1>1. /\ srv[s] \in {"starting", "listening"}
      /\ UNCHANGED <<at, servers, current, left, expired, shut, req, home, stale, cache>>
    BY DEF Listen, ServeFails, ServeEnds, main, requests, clients
<1>2. runErr' = runErr
    <2>1. UNCHANGED main
        BY Zenon DEF Listen, ServeFails, ServeEnds
    <2> QED
        BY <2>1, Zenon DEF main
<1>3. \/ /\ srv' = [srv EXCEPT ![s] = "listening"]
         /\ results' = results /\ failed' = failed
      \/ /\ srv' = [srv EXCEPT ![s] = "returned"]
         /\ \/ /\ results' = results \cup {[name |-> s, failed |-> TRUE]}
               /\ failed' = failed \cup {s}
            \/ /\ results' = results \cup {[name |-> s, failed |-> FALSE]}
               /\ failed' = failed
    BY Zenon DEF Listen, ServeFails, ServeEnds, Return
<1>4. s \in Configured /\ at \notin Early
    BY <1>1 DEF HomeInv, StartInv
<1>5. /\ s \notin failed /\ \A r \in results : r.name # s
      /\ results \subseteq results'
      /\ \A t \in Names \ {s} : srv'[t] = srv[t]
      /\ srv'[s] # "off"
    BY <1>1, <1>3 DEF ResultInv, TypeOK
<1>6. StartInv'
    BY <1>1, <1>4 DEF StartInv, Early
<1>7. HomeInv'
    BY <1>1, <1>4, <1>5 DEF HomeInv, Configured
<1>8. ResultInv'
    <2>1. CASE srv' = [srv EXCEPT ![s] = "listening"]
        <3>1. results' = results /\ failed' = failed
            BY <1>3, <2>1 DEF TypeOK
        <3>2. \A t \in Names : srv[t] = "returned" => srv'[t] = "returned"
            BY <1>1, <1>5
        <3>3. failed \subseteq Names /\ \A r \in results : r.name \in Names
            BY DEF TypeOK
        <3> QED
            BY <1>2, <3>1, <3>2, <3>3, Zenon DEF ResultInv
    <2>2. CASE srv' = [srv EXCEPT ![s] = "returned"]
        <3>1. srv'[s] = "returned" /\ \A t \in Names : srv[t] = "returned" => srv'[t] = "returned"
            BY <1>1, <2>2 DEF TypeOK
        <3>2. PICK new \in results' : /\ new.name = s /\ results' = results \cup {new}
                                      /\ failed' \subseteq failed \cup {s}
                                      /\ s \in failed' => new = [name |-> s, failed |-> TRUE]
            BY <1>1, <1>3, <1>5, <2>2 DEF TypeOK
        <3>3. failed \subseteq Names /\ \A r \in results : r.name \in Names
            BY DEF TypeOK
        <3>4. \A r \in results' : srv'[r.name] = "returned"
            BY <3>1, <3>2, <3>3 DEF ResultInv
        <3>5. \A r, q \in results' : q.name = r.name => q = r
            BY <1>5, <3>2 DEF ResultInv
        <3>6. \A t \in failed' : srv'[t] = "returned"
            BY <3>1, <3>2, <3>3 DEF ResultInv
        <3>7. \A t \in failed' : runErr' \/ [name |-> t, failed |-> TRUE] \in results'
            <4> SUFFICES ASSUME NEW t \in failed'
                         PROVE  runErr' \/ [name |-> t, failed |-> TRUE] \in results'
                OBVIOUS
            <4>1. CASE t = s
                BY <3>2, <4>1, Zenon
            <4>2. CASE t # s
                <5>1. t \in failed
                    BY <3>2, <4>2
                <5>2. runErr \/ [name |-> t, failed |-> TRUE] \in results
                    BY <5>1, Zenon DEF ResultInv
                <5>3. \A r \in results : r \in results'
                    BY <1>5
                <5> QED
                    BY <1>2, <5>2, <5>3, Zenon
            <4> QED
                BY <4>1, <4>2
        <3> QED
            BY <3>4, <3>5, <3>6, <3>7, Zenon DEF ResultInv
    <2> QED
        BY <1>3, <2>1, <2>2
<1>9. CountInv'
    <2>1. \A t \in Names : ToCome(t)' <=> ToCome(t)
        <3> SUFFICES ASSUME NEW t \in Names PROVE ToCome(t)' <=> ToCome(t)
            OBVIOUS
        <3>1. Configured' = Configured
            BY <1>1 DEF Configured
        <3>2. CASE t = s
            <4>1. ToCome(s)
                BY <1>1, <1>4 DEF ToCome
            <4>2. srv'[s] = "returned" => \E r \in results' : r.name = s
                <5>1. CASE srv' = [srv EXCEPT ![s] = "listening"]
                    BY <5>1 DEF TypeOK
                <5>2. \A f : [name |-> s, failed |-> f].name = s
                    OBVIOUS
                <5>3. \A f : results' = results \cup {[name |-> s, failed |-> f]} =>
                            \E r \in results' : r.name = s
                    <6> TAKE f
                    <6> HAVE results' = results \cup {[name |-> s, failed |-> f]}
                    <6>1. [name |-> s, failed |-> f] \in results'
                        OBVIOUS
                    <6> QED
                        BY <5>2, <6>1, Zenon
                <5> QED
                    BY <1>3, <5>1, <5>3, Zenon
            <4>3. ToCome(s)'
                BY <1>4, <3>1, <4>2, Zenon DEF ToCome
            <4> QED
                BY <3>2, <4>1, <4>3
        <3>3. CASE t # s
            <4>1. srv'[t] = srv[t]
                BY <1>5, <3>3
            <4>2. (\E r \in results' : r.name = t) <=> (\E r \in results : r.name = t)
                BY <1>3, <3>3
            <4> QED
                BY <3>1, <4>1, <4>2, Zenon DEF ToCome
        <3> QED
            BY <3>2, <3>3
    <2>2. One("api")' = One("api") /\ One("pprof")' = One("pprof")
        BY <2>1 DEF One, Names
    <2>3. Configured' = Configured /\ Configured \subseteq Names
        BY <1>1, Lineup DEF Configured
    <2>4. at' = "serving" => \A t \in Configured' : ToCome(t)'
        BY <1>1, <2>1, <2>3 DEF CountInv
    <2>5. at' = "exited" => FALSE
        BY <1>1 DEF Running, Ended
    <2> QED
        BY <1>1, <2>2, <2>4, <2>5 DEF CountInv
<1>10. DrainInv'
    <2>1. \A t : Active(t)' = Active(t)
        BY <1>1 DEF Active
    <2>2. (runErr' /\ expired') \/
            \A i \in 1..Len(servers') : i < current' => Drained(servers[i])'
        BY <1>1, <1>2, <2>1, DrainKept
    <2>3. at' # "exited"
        BY <1>1 DEF Running, Ended
    <2>4. at' \in TakeDown \ {"shutdown"} => current' > Len(servers')
        BY <1>1 DEF DrainInv
    <2> QED
        BY <2>2, <2>3, <2>4, Zenon DEF DrainInv
<1>11. StaleOnlyPastDeadline'
    BY <1>1, <1>2, Zenon DEF StaleOnlyPastDeadline
<1> QED
    BY <1>6, <1>7, <1>8, <1>9, <1>10, <1>11

\* Whoever is still at work on an open or a closed cache is on a server.
LEMMA BusyIsActive ==
    ASSUME TypeOK, HomeInv, NEW r \in Requests, req[r] \notin {"none", "served"}
    PROVE  \E i \in 1..Len(servers) : r \in Active(servers[i])
<1>1. home[r] \in Configured
    BY DEF HomeInv
<1>2. PICK i \in 1..Len(servers) : servers[i] = home[r]
    BY <1>1, Lineup
<1> QED
    BY <1>2 DEF Active

LEMMA Handling ==
    ASSUME LifecycleInv, TypeOK', Running, NEW r \in Requests, Accept(r) \/ Handler(r)
    PROVE  LifecycleInv'
<1> USE DEF LifecycleInv
<1> DEFINE Others == <<main, srv, shut, results, failed, cache>>
<1>1. UNCHANGED Others
    <2>1. CASE Accept(r)
        BY <2>1 DEF Accept, serving, clients
    <2>2. CASE Handler(r)
        BY <2>2 DEF Handler, BeginQuery, CommitWrite, InvalidateCache, Respond, serving,
            clients
    <2> QED
        BY <2>1, <2>2
<1>2. /\ UNCHANGED <<at, servers, current, left, expired, srv, shut, results, failed, cache>>
      /\ runErr' = runErr
    <2>1. runErr' = runErr
        BY <1>1, Zenon DEF main
    <2> QED
        BY <1>1, <2>1 DEF main
<1>3. \/ /\ req[r] = "none" /\ stale' = stale
         /\ \E s \in Names :
                srv[s] = "listening" /\ s \notin shut /\ home' = [home EXCEPT ![r] = s]
         /\ req' = [req EXCEPT ![r] = "waiting"]
      \/ /\ req[r] \notin {"none", "served"} /\ home' = home
         /\ \E to \in {"query", "invalidate", "served"} : req' = [req EXCEPT ![r] = to]
         /\ stale' = stale \/ (stale' = stale \cup {r} /\ cache = "closed")
    <2>1. CASE Accept(r)
        BY <2>1, Zenon DEF Accept, Handle
    <2>2. CASE InvalidateCache(r)
        BY <2>2 DEF InvalidateCache, Handle
    <2>3. CASE BeginQuery(r) \/ CommitWrite(r) \/ Respond(r)
        BY <2>3 DEF BeginQuery, CommitWrite, Respond, Handle
    <2> QED
        BY <2>1, <2>2, <2>3 DEF Handler
<1>4. at \notin Early
    BY <1>3 DEF StartInv, HomeInv, TypeOK
<1>5. StartInv'
    BY <1>2, <1>4 DEF StartInv, Early
<1>6. HomeInv'
    BY <1>2, <1>3 DEF HomeInv, Configured, TypeOK
<1>7. ResultInv'
    BY <1>2, Zenon DEF ResultInv
<1>8. CountInv'
    <2>1. \A s : One(s)' = One(s) /\ (ToCome(s)' <=> ToCome(s))
        BY <1>2 DEF One, ToCome, Configured
    <2>2. Configured' = Configured
        BY <1>2 DEF Configured
    <2>3. at' # "exited"
        BY <1>2 DEF Running, Ended
    <2> QED
        BY <1>2, <2>1, <2>2, <2>3 DEF CountInv
<1>9. DrainInv'
    <2>1. \A s \in shut : Active(s)' \subseteq Active(s)
        BY <1>3 DEF Active, TypeOK
    <2>2. (runErr' /\ expired') \/
            \A i \in 1..Len(servers') : i < current' => Drained(servers[i])'
        BY <1>2, <2>1, DrainKept
    <2>3. at' # "exited"
        BY <1>2 DEF Running, Ended
    <2>4. at' \in TakeDown \ {"shutdown"} => current' > Len(servers')
        BY <1>2 DEF DrainInv
    <2> QED
        BY <2>2, <2>3, <2>4, Zenon DEF DrainInv
<1>10. StaleOnlyPastDeadline'
    <2>1. stale' = stale \/ (cache = "closed" /\ req[r] \notin {"none", "served"})
        BY <1>3
    <2>2. CASE stale' = stale
        BY <1>2, <2>2, Zenon DEF StaleOnlyPastDeadline
    <2>3. CASE cache = "closed" /\ req[r] \notin {"none", "served"}
        <3>1. at = "closeDatabase"
            BY <2>3 DEF StartInv, Early, TypeOK, TakeDown, Running
        <3>2. current > Len(servers)
            BY <3>1 DEF DrainInv, TakeDown
        <3>3. PICK i \in 1..Len(servers) : r \in Active(servers[i])
            BY <2>3, BusyIsActive
        <3>4. i < current /\ ~Drained(servers[i])
            BY <3>2, <3>3, Lineup DEF Drained, TypeOK
        <3>5. runErr /\ expired
            BY <3>3, <3>4, Zenon DEF DrainInv
        <3> QED
            BY <1>2, <3>5, Zenon DEF StaleOnlyPastDeadline
    <2> QED
        BY <2>1, <2>2, <2>3
<1> QED
    BY <1>5, <1>6, <1>7, <1>8, <1>9, <1>10

LEMMA Elsewhere ==
    ASSUME LifecycleInv, TypeOK', Refresher \/ Signal \/ ShutdownTimeout \/ UNCHANGED vars
    PROVE  LifecycleInv'
<1> USE DEF LifecycleInv
<1>1. /\ at' \in {at, "killed"}
      /\ UNCHANGED <<servers, current, left, srv, shut, results, failed, req, home, stale, cache>>
    BY DEF Refresher, RefreshBegins, RefreshEnds, RefresherReturns, Signal, ShutdownTimeout,
        vars, main, serving, requests, clients
<1>2. runErr' = runErr /\ (expired => expired')
    <2>1. CASE Refresher
        <3>1. UNCHANGED main
            BY <2>1, Zenon DEF Refresher, RefreshBegins, RefreshEnds, RefresherReturns
        <3> QED
            BY <3>1, Zenon DEF main
    <2>2. CASE Signal
        BY <2>2, Zenon DEF Signal
    <2>3. CASE ShutdownTimeout
        BY <2>3, Zenon DEF ShutdownTimeout
    <2>4. CASE UNCHANGED vars
        BY <2>4, Zenon DEF vars, main
    <2> QED
        BY <2>1, <2>2, <2>3, <2>4
<1>3. StartInv'
    BY <1>1 DEF StartInv, Early
<1>4. HomeInv'
    BY <1>1 DEF HomeInv, Configured
<1>5. ResultInv'
    BY <1>1, <1>2, Zenon DEF ResultInv
<1>6. CountInv'
    <2>1. \A s : One(s)' = One(s) /\ (ToCome(s)' <=> ToCome(s))
        BY <1>1 DEF One, ToCome, Configured
    <2>2. Configured' = Configured
        BY <1>1 DEF Configured
    <2> QED
        BY <1>1, <1>2, <2>1, <2>2 DEF CountInv, TakeDown
<1>7. DrainInv'
    <2>1. \A s : Active(s)' = Active(s)
        BY <1>1 DEF Active
    <2>2. (runErr' /\ expired') \/
            \A i \in 1..Len(servers') : i < current' => Drained(servers[i])'
        BY <1>1, <1>2, <2>1, DrainKept
    <2>3. at' \in TakeDown \ {"shutdown"} => current' > Len(servers')
        BY <1>1 DEF DrainInv, TakeDown
    <2>4. at' = "exited" => at = "exited"
        BY <1>1
    <2>5. current' = current /\ servers' = servers
        BY <1>1
    <2> QED
        BY <1>2, <2>2, <2>3, <2>4, <2>5, Zenon DEF DrainInv
<1>8. StaleOnlyPastDeadline'
    BY <1>1, <1>2, Zenon DEF StaleOnlyPastDeadline
<1> QED
    BY <1>3, <1>4, <1>5, <1>6, <1>7, <1>8

\* LifecycleInv holds at the start and is kept by every step.
THEOREM LifecycleInvariant == Spec => []LifecycleInv
<1>1. Init => LifecycleInv
    <2> SUFFICES ASSUME Init PROVE LifecycleInv
        OBVIOUS
    <2> USE DEF Init
    <2>1. TypeOK
        <3>1. runErr \in BOOLEAN /\ expired \in BOOLEAN /\ notify \in BOOLEAN /\ done \in BOOLEAN
            BY Zenon
        <3> QED
            BY <3>1 DEF TypeOK, Names, Clients
    <2>2. StartInv /\ HomeInv /\ ResultInv
        BY DEF StartInv, HomeInv, ResultInv, Names, Early
    <2>3. CountInv
        BY DEF CountInv, TakeDown
    <2>4. DrainInv
        <3>1. \A i \in 1..Len(servers) : ~(i < current)
            OBVIOUS
        <3>2. at \notin TakeDown /\ at # "exited"
            BY DEF TakeDown
        <3> QED
            BY <3>1, <3>2, Zenon DEF DrainInv
    <2>5. StaleOnlyPastDeadline
        BY DEF StaleOnlyPastDeadline
    <2> QED
        BY <2>1, <2>2, <2>3, <2>4, <2>5 DEF LifecycleInv
<1>2. LifecycleInv /\ ConfigInv /\ ConfigInv' /\ [Next]_vars => LifecycleInv'
    <2> SUFFICES ASSUME LifecycleInv, ConfigInv, ConfigInv', [Next]_vars PROVE LifecycleInv'
        OBVIOUS
    <2>1. TypeOK'
        BY TypesHold DEF LifecycleInv
    <2>2. CASE UNCHANGED vars
        BY <2>1, <2>2, Elsewhere
    <2>3. CASE Next
        <3>1. Running
            BY <2>3, Zenon DEF Next
        <3>2. CASE Main
            BY <2>1, <3>2, Starting, Stopping, ShuttingDown, Collecting, Leaving DEF Main
        <3>3. ASSUME NEW s \in Names, Listen(s) \/ ServeFails(s) \/ ServeEnds(s)
              PROVE  LifecycleInv'
            BY <2>1, <3>1, <3>3, Serving
        <3>4. ASSUME NEW r \in Requests, Accept(r) \/ Handler(r) PROVE LifecycleInv'
            BY <2>1, <3>1, <3>4, Handling
        <3>5. CASE Refresher \/ Signal \/ ShutdownTimeout
            BY <2>1, <3>5, Elsewhere
        <3> QED
            BY <2>3, <3>2, <3>3, <3>4, <3>5, Zenon DEF Next
    <2> QED
        BY <2>2, <2>3
<1> QED
    BY <1>1, <1>2, ConfigStep, PTL DEF Spec

\* Every variable keeps its type.
THEOREM LifecycleTypes == Spec => []TypeOK
BY LifecycleInvariant, PTL DEF LifecycleInv

\* A cache entry is left stale only if the ten seconds were over, and the
\* process says so.
THEOREM StaleIsReported == Spec => []StaleOnlyPastDeadline
BY LifecycleInvariant, PTL DEF LifecycleInv

\* An exit without an error means that every accepted request was served.
THEOREM CleanExit == Spec => []CleanExitServedAll
<1>1. LifecycleInv => CleanExitServedAll
    <2> SUFFICES ASSUME LifecycleInv, at = "exited", ~runErr
                 PROVE  stale = {} /\ \A r \in Requests : req[r] \in {"none", "served"}
        BY Zenon DEF CleanExitServedAll
    <2> USE DEF LifecycleInv
    <2>1. stale = {}
        BY Zenon DEF StaleOnlyPastDeadline
    <2>2. ASSUME NEW r \in Requests, req[r] \notin {"none", "served"} PROVE FALSE
        <3>1. PICK i \in 1..Len(servers) : r \in Active(servers[i])
            BY <2>2, BusyIsActive
        <3>2. current > Len(servers)
            BY Zenon DEF DrainInv
        <3>3. i < current
            BY <3>2, Lineup DEF TypeOK
        <3>4. Active(servers[i]) = {}
            BY <3>3, Zenon DEF DrainInv, Drained
        <3> QED
            BY <3>1, <3>4
    <2> QED
        BY <2>1, <2>2
<1> QED
    BY <1>1, LifecycleInvariant, PTL

\* A server that failed is never forgotten.
THEOREM FailuresAreReported == Spec => []FailureIsReported
<1>1. LifecycleInv => FailureIsReported
    <2> SUFFICES ASSUME LifecycleInv, at = "exited", ~runErr, NEW s \in failed
                 PROVE  FALSE
        BY Zenon DEF FailureIsReported
    <2> USE DEF LifecycleInv
    <2>1. s \in Names /\ srv[s] = "returned"
        BY DEF TypeOK, ResultInv
    <2>2. [name |-> s, failed |-> TRUE] \in results
        BY Zenon DEF ResultInv
    <2>3. [name |-> s, failed |-> TRUE].name = s
        OBVIOUS
    <2>4. s \in Configured
        BY <2>1 DEF HomeInv
    <2>5. ToCome(s)
        BY <2>2, <2>3, <2>4, Zenon DEF ToCome
    <2>6. ~ToCome("api") /\ ~ToCome("pprof")
        BY Zenon DEF CountInv
    <2> QED
        BY <2>1, <2>5, <2>6 DEF Names
<1> QED
    BY <1>1, LifecycleInvariant, PTL

=============================================================================
