----------------------------- MODULE Lifecycle -----------------------------
(***************************************************************************)
(* The life of one API process: cmd/api's run(), the goroutines that serve *)
(* the API and the profiler, the requests in flight, the gauge refresher,  *)
(* and the order in which everything is taken down.                        *)
(***************************************************************************)
EXTENDS Config, Sequences

CONSTANT Requests       \* bound: the requests that reach the process

VARIABLES
    at,         \* where run() is
    servers,    \* the servers configured, in the order they are shut down
    current,    \* index of the server being shut down
    left,       \* results that run() has yet to receive
    runErr,     \* run() has an error to return
    expired,    \* the ten seconds of the shutdown context are over
    notify,     \* signals are caught by NotifyContext
    done,       \* its context is done: a signal came, or stop() was called
    srv,        \* per server: its Serve goroutine
    shut,       \* the servers whose listeners Shutdown has closed
    results,    \* the buffered channel serveResult, as a set of [name, failed]
    failed,     \* history: the servers whose Serve returned an error
    req, home,  \* per request: how far its handler is, and on which server
    stale,      \* history: requests that committed and could not invalidate
    cfg,        \* the configuration, for as long as run() has a use for it
    cache, db,  \* the Redis client and the Postgres pool
    refresher   \* the gauge refresher

main     == <<at, servers, current, left, runErr, expired>>
signals  == <<notify, done>>
serving  == <<srv, shut, results, failed>>
requests == <<req, home, stale>>
clients  == <<cfg, cache, db>>
vars == <<main, signals, serving, requests, clients, refresher>>

Names    == {"api", "pprof"}
Clients  == {"none", "open", "closed"}
TakeDown == {"shutdown", "collect", "closeCache", "closeDatabase"}
Ended    == {"exited", "killed"}

TypeOK ==
    /\ at \in {"config", "database", "cache", "serving"} \cup TakeDown \cup Ended
    /\ servers \in {<<"api">>, <<"api", "pprof">>}
    /\ current \in 1..3 /\ left \in 0..2
    /\ runErr \in BOOLEAN /\ expired \in BOOLEAN /\ notify \in BOOLEAN /\ done \in BOOLEAN
    /\ srv \in [Names -> {"off", "starting", "listening", "returned"}]
    /\ shut \subseteq Names /\ failed \subseteq Names
    /\ results \subseteq [name : Names, failed : BOOLEAN]
    /\ req \in [Requests -> {"none", "waiting", "query", "invalidate", "served"}]
    /\ home \in [Requests -> Names]
    /\ stale \subseteq Requests
    /\ cfg \subseteq Configs /\ cache \in Clients /\ db \in Clients
    /\ refresher \in {"off", "idle", "counting"}

Running == at \notin Ended
Configured == {servers[i] : i \in 1..Len(servers)}
Active(s)  == {r \in Requests : home[r] = s /\ req[r] \notin {"none", "served"}}
\* The pool's connections in use.
Acquired   == {r \in Requests : req[r] = "query"}

-----------------------------------------------------------------------------
(* run(): start.                                                           *)

\* config.Load decides whether there is a cache and a profiler.
LoadConfig ==
    /\ at = "config"
    /\ \E env \in Environments, file \in Files :
        \/ \E c \in Load(env, file) :
            /\ at' = "database" /\ cfg' = {c} /\ UNCHANGED runErr
            /\ servers' = IF c.pprof THEN <<"api", "pprof">> ELSE <<"api">>
        \/ /\ Load(env, file) = {}
           /\ at' = "exited" /\ runErr' = TRUE /\ UNCHANGED <<servers, cfg>>
    /\ UNCHANGED <<current, left, expired, signals, serving, requests, cache, db,
                   refresher>>

\* postgres.New pings, and closes its pool again when the ping fails.
OpenDatabase ==
    /\ at = "database"
    /\ \/ at' = "cache" /\ db' = "open" /\ UNCHANGED runErr
       \/ at' = "exited" /\ db' = "closed" /\ runErr' = TRUE
    /\ UNCHANGED <<servers, current, left, expired, signals, serving, requests, cfg, cache,
                   refresher>>

\* redis.New, if the cache is on; then the handlers, the goroutine of the
\* refresher and one goroutine per server.  A failure runs the deferred Close.
OpenCache ==
    /\ at = "cache"
    /\ cfg' = {}
    /\ \/ /\ at' = "serving" /\ UNCHANGED <<db, runErr>>
          /\ cache' = IF \E c \in cfg : c.cache THEN "open" ELSE "none"
          /\ notify' = TRUE /\ refresher' = "idle"
          /\ srv' = [s \in Names |-> IF s \in Configured THEN "starting" ELSE "off"]
       \/ /\ \E c \in cfg : c.cache
          /\ at' = "exited" /\ cache' = "closed" /\ db' = "closed" /\ runErr' = TRUE
          /\ UNCHANGED <<notify, refresher, srv>>
    /\ UNCHANGED <<servers, current, left, expired, done, shut, results, failed, requests>>

-----------------------------------------------------------------------------
(* run(): the select, the shutdown, the deferred calls.                    *)

\* The results still to come when one has been received.
AllServers   == Len(servers)
CountedTwice == Len(servers) - 2
OtherServers == Len(servers) - 1

\* A server returned: an error, even if Serve had none.
ServerStopped ==
    /\ at = "serving"
    /\ \E r \in results : results' = results \ {r}
    /\ left' = OtherServers /\ runErr' = TRUE /\ at' = "shutdown"
    /\ UNCHANGED <<servers, current, expired, signals, srv, shut, failed, requests, clients,
                   refresher>>

\* A signal: stop() gives later ones back to the runtime.
SignalReceived ==
    /\ at = "serving" /\ done
    /\ notify' = FALSE
    /\ left' = Len(servers) /\ at' = "shutdown"
    /\ UNCHANGED <<servers, current, runErr, expired, done, serving, requests, clients,
                   refresher>>

\* http.Server.Shutdown closes the listener of the current server ...
CloseListener ==
    /\ at = "shutdown" /\ current <= Len(servers) /\ servers[current] \notin shut
    /\ shut' = shut \cup {servers[current]}
    /\ UNCHANGED <<main, signals, srv, results, failed, requests, clients, refresher>>

AnyTime(s)   == TRUE
Quiescent(s) == Active(s) = {}

\* ... and waits until no request is active on it, or the ten seconds that all
\* the servers share are over.
DrainConnections ==
    /\ at = "shutdown" /\ current <= Len(servers) /\ servers[current] \in shut
    /\ \/ Quiescent(servers[current]) /\ UNCHANGED runErr
       \/ ~Quiescent(servers[current]) /\ expired /\ runErr' = TRUE
    /\ current' = current + 1
    /\ UNCHANGED <<at, servers, left, expired, signals, serving, requests, clients, refresher>>

ShutdownDone ==
    /\ at = "shutdown" /\ current > Len(servers)
    /\ at' = "collect"
    /\ UNCHANGED <<servers, current, left, runErr, expired, signals, serving, requests,
                   clients, refresher>>

\* Receive the results that are left, and join their errors.
Ignored(r) == FALSE
Joined(r)  == r.failed

Collect ==
    /\ at = "collect" /\ left > 0
    /\ \E r \in results :
        /\ results' = results \ {r}
        /\ runErr' = (runErr \/ Joined(r))
    /\ left' = left - 1
    /\ UNCHANGED <<at, servers, current, expired, signals, srv, shut, failed, requests,
                   clients, refresher>>

\* run() returns: the deferred cancel and stop, which ends the refresher's
\* context as well, then the deferred Close calls.
RunReturns ==
    /\ at = "collect" /\ left = 0
    /\ at' = "closeCache" /\ notify' = FALSE /\ done' = TRUE
    /\ UNCHANGED <<servers, current, left, runErr, expired, serving, requests, clients,
                   refresher>>

CloseCache ==
    /\ at = "closeCache"
    /\ at' = "closeDatabase"
    /\ cache' = IF cache = "open" THEN "closed" ELSE cache
    /\ UNCHANGED <<servers, current, left, runErr, expired, signals, serving, requests, cfg, db,
                   refresher>>

\* pgxpool's Close gives out no more connections ...
CloseDatabase ==
    /\ at = "closeDatabase" /\ db = "open" /\ db' = "closed"
    /\ UNCHANGED <<main, signals, serving, requests, cfg, cache, refresher>>

\* ... and waits for the ones in use, however long that takes.
Exit ==
    /\ at = "closeDatabase" /\ db = "closed" /\ Acquired = {} /\ refresher # "counting"
    /\ at' = "exited"
    /\ UNCHANGED <<servers, current, left, runErr, expired, signals, serving, requests,
                   clients, refresher>>

Main ==
    \/ LoadConfig \/ OpenDatabase \/ OpenCache
    \/ ServerStopped \/ SignalReceived
    \/ CloseListener \/ DrainConnections \/ ShutdownDone
    \/ Collect \/ RunReturns \/ CloseCache \/ CloseDatabase \/ Exit

-----------------------------------------------------------------------------
(* The Serve goroutines.                                                   *)

Return(s, f) ==
    /\ srv' = [srv EXCEPT ![s] = "returned"]
    /\ results' = results \cup {[name |-> s, failed |-> f]}

Listen(s) ==
    /\ srv[s] = "starting" /\ s \notin shut
    /\ srv' = [srv EXCEPT ![s] = "listening"]
    /\ UNCHANGED <<main, signals, shut, results, failed, requests, clients, refresher>>

\* The port is taken, or accepting fails while nobody has asked for the end.
ServeFails(s) ==
    /\ srv[s] = "starting" \/ (srv[s] = "listening" /\ s \notin shut)
    /\ Return(s, TRUE) /\ failed' = failed \cup {s}
    /\ UNCHANGED <<main, signals, shut, requests, clients, refresher>>

\* ErrServerClosed is no error, before the listener was opened or after.
ServeEnds(s) ==
    /\ srv[s] \in {"starting", "listening"} /\ s \in shut
    /\ Return(s, FALSE)
    /\ UNCHANGED <<main, signals, shut, failed, requests, clients, refresher>>

-----------------------------------------------------------------------------
(* Requests.  Shutdown does not end their contexts.                        *)

Handle(r, from, to) == req[r] = from /\ req' = [req EXCEPT ![r] = to]

Accept(r) ==
    /\ \E s \in Names :
        srv[s] = "listening" /\ s \notin shut /\ home' = [home EXCEPT ![r] = s]
    /\ Handle(r, "none", "waiting")
    /\ UNCHANGED <<main, signals, serving, stale, clients, refresher>>

\* A handler of the API takes a connection from the pool for its statement.
BeginQuery(r) ==
    /\ home[r] = "api" /\ db = "open"
    /\ Handle(r, "waiting", "query")
    /\ UNCHANGED <<main, signals, serving, home, stale, clients, refresher>>

\* The statement was a write and committed: the connection is back.
CommitWrite(r) ==
    /\ Handle(r, "query", "invalidate")
    /\ UNCHANGED <<main, signals, serving, home, stale, clients, refresher>>

\* The invalidations: a closed client refuses them.
InvalidateCache(r) ==
    /\ Handle(r, "invalidate", "served")
    /\ stale' = IF cache = "closed" THEN stale \cup {r} ELSE stale
    /\ UNCHANGED <<main, signals, serving, home, clients, refresher>>

\* A read, a profile, or an error: a closed pool gives no connection.
Respond(r) ==
    /\ \/ Handle(r, "waiting", "served")
       \/ Handle(r, "query", "served")
    /\ UNCHANGED <<main, signals, serving, home, stale, clients, refresher>>

-----------------------------------------------------------------------------
(* The refresher, signals and time.                                        *)

RefreshBegins ==
    /\ refresher = "idle" /\ ~done /\ db = "open" /\ refresher' = "counting"
    /\ UNCHANGED <<main, signals, serving, requests, clients>>

\* Within two seconds, or as soon as the context ends.
RefreshEnds ==
    /\ refresher = "counting" /\ refresher' = "idle"
    /\ UNCHANGED <<main, signals, serving, requests, clients>>

RefresherReturns ==
    /\ refresher = "idle" /\ done /\ refresher' = "off"
    /\ UNCHANGED <<main, signals, serving, requests, clients>>

\* SIGINT or SIGTERM: a context that ends, or else the end of the process.
Signal ==
    /\ \/ notify /\ ~done /\ done' = TRUE /\ UNCHANGED at
       \/ ~notify /\ at' = "killed" /\ UNCHANGED done
    /\ UNCHANGED <<servers, current, left, runErr, expired, notify, serving, requests,
                   clients, refresher>>

ShutdownTimeout ==
    /\ at = "shutdown" /\ ~expired /\ expired' = TRUE
    /\ UNCHANGED <<at, servers, current, left, runErr, signals, serving, requests, clients,
                   refresher>>

-----------------------------------------------------------------------------
Init ==
    /\ at = "config" /\ servers = <<"api">> /\ current = 1 /\ left = 0
    /\ runErr = FALSE /\ expired = FALSE /\ notify = FALSE /\ done = FALSE
    /\ srv = [s \in Names |-> "off"] /\ shut = {} /\ results = {} /\ failed = {}
    /\ req = [r \in Requests |-> "none"] /\ home = [r \in Requests |-> "api"] /\ stale = {}
    /\ cfg = {} /\ cache = "none" /\ db = "none" /\ refresher = "off"

Handler(r) == BeginQuery(r) \/ CommitWrite(r) \/ InvalidateCache(r) \/ Respond(r)

Refresher == RefreshBegins \/ RefreshEnds \/ RefresherReturns

Next ==
    /\ Running
    /\ \/ Main
       \/ \E s \in Names : Listen(s) \/ ServeFails(s) \/ ServeEnds(s)
       \/ \E r \in Requests : Accept(r) \/ Handler(r)
       \/ Refresher
       \/ Signal \/ ShutdownTimeout

Spec == Init /\ [][Next]_vars

\* run() and the goroutines it starts are scheduled, ten seconds pass, and
\* statements and Redis commands are answered.  Nothing makes a server fail, a
\* request arrive or a signal come.
FairSpec ==
    /\ Spec
    /\ WF_vars(Running /\ Main) /\ WF_vars(Running /\ ShutdownTimeout)
    /\ \A s \in Names : WF_vars(Running /\ (Listen(s) \/ ServeEnds(s)))
    /\ \A r \in Requests : WF_vars(Running /\ Handler(r))
    /\ WF_vars(Running /\ (RefreshEnds \/ RefresherReturns))

-----------------------------------------------------------------------------
(* Properties.                                                             *)

\* The ports a server can be found at.
Findable == 1..65535

\* Whatever the environment, run() goes on only with a configuration that what
\* it starts can use: two servers find two ports, and pages have a TTL.
ConfigIsUsable ==
    \A c \in cfg :
        /\ c.database /\ c.port \in Findable
        /\ c.pprof => c.pprofPort \in Findable \ {c.port}
        /\ c.cache => PageTTL(c) # NoTTL

\* README.md:320, "every key expires": the ones the list cache writes do, down
\* to a TTL of less than a tenth of a millisecond, and a generation does not
\* expire before the pages stored under it.  From a tenth of the largest
\* duration on, 29 years, ten TTLs overflow, and the generation that a write
\* puts in place may have no TTL at all.
EveryKeyExpires ==
    \A c \in cfg : c.cache =>
        /\ GenerationTTL(c) # NoTTL
        /\ c.ttl <= MaxDuration \div 10 =>
               RetiredTTL(c) >= PageTTL(c) /\ GenerationTTL(c) >= PageTTL(c)

\* The process exits without an error only if every request it ever accepted,
\* by either server, was served to the end and every cache entry its writes
\* made stale was invalidated.
CleanExitServedAll ==
    at = "exited" /\ ~runErr =>
        stale = {} /\ \A r \in Requests : req[r] \in {"none", "served"}

\* A server that failed is never forgotten, whether it failed first, last,
\* together with the other or in the middle of a shutdown it did not cause.
FailureIsReported == at = "exited" /\ failed # {} => runErr

\* The Redis client is closed before the pool, and the pool waits for its
\* connections: a handler that outlives the drain can commit a write and not
\* invalidate it.  That takes the ten seconds to pass, and is reported.
StaleOnlyPastDeadline == stale # {} => expired /\ runErr

\* Once a signal came or a server failed, the process ends: run() waits for no
\* result that is not coming, and for no request beyond the ten seconds but
\* those that hold a connection.
RunEnds == done \/ failed # {} ~> at \in Ended

=============================================================================
