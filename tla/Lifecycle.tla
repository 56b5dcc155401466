----------------------------- MODULE Lifecycle -----------------------------
(***************************************************************************)
(* The gateway process from start to exit: run in cmd/gateway/main.go, the *)
(* handlers of proxied requests inside the audit middleware, the readiness *)
(* probe and the audit logger.  run's deferred calls are its last steps:   *)
(* the logger is closed before the database pool, being deferred after it. *)
(*                                                                         *)
(* net/http is external: Shutdown stops the listener, returns nil once no  *)
(* handler is running and an error when its context expires first.         *)
(***************************************************************************)
EXTENDS AuditLogger

CONSTANT Probes  \* requests for /readyz

VARIABLES
    main,       \* where run is
    config,     \* whether DATABASE_URL is set, and whether audit is enabled
    ready,      \* health.Checker.ready
    listener,   \* the gateway server's: "none", "starting", "up", "failed" or "down"
    expired,    \* the context of SHUTDOWN_TIMEOUT is done
    graceful,   \* history: srv.Shutdown returned nil
    handler,    \* the handler of each request
    probe       \* the handler of each probe

flags == <<config, ready, listener, expired, graceful>>
requestVars == <<handler, probe>>
vars == <<auditVars, main, flags, requestVars>>

Init ==
    /\ AuditInit("none", FALSE)
    /\ main = "config"
    /\ config = [db |-> FALSE, audit |-> FALSE]
    /\ ready = FALSE
    /\ listener = "none"
    /\ expired = FALSE
    /\ graceful = FALSE
    /\ handler = [r \in Requests |-> "new"]
    /\ probe = [p \in Probes |-> "new"]

StartUp == {"config", "connect", "migrate", "listen", "spawned"}

(***************************************************************************)
(* Start-up.                                                               *)
(***************************************************************************)
MainGoes(from, to) ==
    /\ main = from
    /\ main' = to
    /\ UNCHANGED requestVars

\* What an environment variable holds; envInt, envBool and envDuration take
\* the fallback for a missing and for an unparsable value.
Env == {"unset", "garbage", "good", "bad"}
Setting(v, fallback) == IF v \in {"unset", "garbage"} THEN fallback ELSE v

\* Load, validate and proxy.NewHandler; SHUTDOWN_TIMEOUT is not validated.
LoadConfig ==
    /\ main = "config"
    /\ \E url, port, metricsPort, readTimeout, writeTimeout, auditEnabled \in Env, db \in BOOLEAN :
           /\ MainGoes("config",
                  IF \/ url # "good"
                     \/ "bad" \in {Setting(v, "good") : v \in {port, metricsPort, readTimeout,
                                                               writeTimeout}}
                  THEN "exit" ELSE IF db THEN "connect" ELSE "listen")
           /\ config' = [db |-> db, audit |-> db /\ Setting(auditEnabled, "good") = "good"]
    /\ UNCHANGED <<auditVars, ready, listener, expired, graceful>>

Connect ==
    /\ MainGoes("connect", "migrate")
    /\ dbOpen' = TRUE
    /\ UNCHANGED <<entries, closed, dropped, writer, hand, rows, logged, attempts, flags>>

ConnectFails ==
    /\ MainGoes("connect", "exit")
    /\ UNCHANGED <<auditVars, flags>>

\* Migrate, SetDB, and NewLogger if audit is enabled.
Migrate ==
    /\ MainGoes("migrate", "listen")
    /\ writer' = IF config.audit THEN "receive" ELSE "none"
    /\ UNCHANGED <<entries, closed, dropped, hand, rows, dbOpen, logged, attempts, flags>>

\* run returns; only db.Close has been deferred.
MigrateFails ==
    /\ MainGoes("migrate", "dbclose")
    /\ UNCHANGED <<auditVars, flags>>

\* The goroutines of the two servers are started.
Listen ==
    /\ MainGoes("listen", "spawned")
    /\ listener' = "starting"
    /\ UNCHANGED <<auditVars, config, ready, expired, graceful>>

SetReady ==
    /\ MainGoes("spawned", "serving")
    /\ ready' = TRUE
    /\ UNCHANGED <<auditVars, config, listener, expired, graceful>>

(***************************************************************************)
(* Handlers.  They run until the process ends.                             *)
(***************************************************************************)
Running == main \notin {"exited", "killed"}

InFlight == {r \in Requests : handler[r] = "proxying"} \cup {p \in Probes : probe[p] = "ping"}

\* ListenAndServe, in its goroutine: before or after run says it is ready.
ListenerUp ==
    /\ Running /\ listener = "starting"
    /\ listener' = "up"
    /\ UNCHANGED <<auditVars, main, config, ready, expired, graceful, requestVars>>

\* The port is taken, or Accept fails later: Serve returns, while connections
\* made before keep bringing requests.
ListenerFails ==
    /\ Running /\ listener \in {"starting", "up"}
    /\ listener' = IF listener = "up" THEN "failed" ELSE "down"
    /\ UNCHANGED <<auditVars, main, config, ready, expired, graceful, requestVars>>

HandlerGoes(r, from, to) ==
    /\ Running
    /\ handler[r] = from
    /\ handler' = [handler EXCEPT ![r] = to]
    /\ UNCHANGED <<main, flags, probe>>

\* New connections and those kept alive are served until Shutdown.
Served == listener \in {"up", "failed"}

\* A connection brings the request; it will reach the proxy.
Accept(r) ==
    /\ Served
    /\ HandlerGoes(r, "new", "proxying")
    /\ UNCHANGED auditVars

\* The upstream's answer, or the proxy's 502, has been relayed; the audit
\* middleware, if there is one, logs it.
LogEntry(r) ==
    \/ HandlerGoes(r, "proxying", "done") /\ writer # "none" /\ (LogAccepts(r) \/ LogDrops(r))
    \/ HandlerGoes(r, "proxying", "panicked") /\ writer # "none" /\ LogPanics(r)
    \/ HandlerGoes(r, "proxying", "done") /\ writer = "none" /\ UNCHANGED auditVars

\* Copying the upstream's body fails midway: ReverseProxy panics with
\* http.ErrAbortHandler, which passes the audit middleware's Log call by and
\* is swallowed by Recoverer.
ProxyAborts(r) ==
    /\ HandlerGoes(r, "proxying", "aborted")
    /\ UNCHANGED auditVars

\* Readyz looks at ready first.
Readyz(p) ==
    /\ Running /\ Served
    /\ probe[p] = "new"
    /\ probe' = [probe EXCEPT ![p] = IF ~ready THEN "not_ready"
                                     ELSE IF config.db THEN "ping" ELSE "ready"]
    /\ UNCHANGED <<auditVars, main, flags, handler>>

\* Then it pings the database, if there is one.
Ping(p) ==
    /\ Running
    /\ probe[p] = "ping"
    /\ \E answer \in {"not_ready", IF dbOpen THEN "ready" ELSE "not_ready"} :
           probe' = [probe EXCEPT ![p] = answer]
    /\ UNCHANGED <<auditVars, main, flags, handler>>

(***************************************************************************)
(* run, from its select on.                                                *)
(***************************************************************************)

\* SIGINT or SIGTERM ends the select; probes are still told "ready".
Signal ==
    /\ MainGoes("serving", "unready")
    /\ UNCHANGED <<auditVars, flags>>

\* checker.SetReady(false), and the context of both Shutdown calls.
ClearReady ==
    /\ MainGoes("unready", "metrics")
    /\ ready' = FALSE
    /\ UNCHANGED <<auditVars, config, listener, expired, graceful>>

\* errCh: a server has failed, the gateway's or the one for metrics; run
\* returns at once, and leaves ready as it is and a listener that works.
ServeFails ==
    /\ MainGoes("serving", "close")
    /\ UNCHANGED <<auditVars, flags>>

\* The context shared by both Shutdown calls times out.
Deadline ==
    /\ main \in {"metrics", "drain", "poll"}
    /\ ~expired
    /\ expired' = TRUE
    /\ UNCHANGED <<auditVars, main, config, ready, listener, graceful, requestVars>>

\* metricsSrv.Shutdown returns; an error is only logged.
MetricsShutdown ==
    /\ MainGoes("metrics", "drain")
    /\ UNCHANGED <<auditVars, flags>>

\* Shutdown that does not wait for handlers.
ShutdownBlind ==
    /\ MainGoes("drain", "close")
    /\ listener' = "down"
    /\ graceful' = TRUE
    /\ UNCHANGED <<auditVars, config, ready, expired>>

\* srv.Shutdown closes the listener and looks for running handlers once,
\* before it looks at its context.
Shutdown ==
    /\ MainGoes("drain", IF InFlight = {} THEN "close" ELSE "poll")
    /\ listener' = "down"
    /\ graceful' = (InFlight = {})
    /\ UNCHANGED <<auditVars, config, ready, expired>>

ShutdownDone ==
    /\ MainGoes("poll", "close")
    /\ InFlight = {}
    /\ graceful' = TRUE
    /\ UNCHANGED <<auditVars, config, ready, listener, expired>>

\* "forced shutdown": handlers may be running.
ShutdownForced ==
    /\ MainGoes("poll", "close")
    /\ expired
    /\ UNCHANGED <<auditVars, flags>>

\* defer auditLogger.Close().
CloseLogger ==
    /\ writer # "none"
    /\ MainGoes("close", "wait")
    /\ CloseEntries
    /\ UNCHANGED flags

\* It was not deferred.
NoLogger ==
    /\ writer = "none"
    /\ MainGoes("close", "dbclose")
    /\ UNCHANGED <<auditVars, flags>>

LoggerClosed ==
    /\ MainGoes("wait", "dbclose")
    /\ CloseReturns
    /\ UNCHANGED flags

\* defer db.Close(), if there is one.
CloseDB ==
    /\ MainGoes("dbclose", "exit")
    /\ dbOpen' = FALSE
    /\ UNCHANGED <<entries, closed, dropped, writer, hand, rows, logged, attempts, flags>>

\* main returns or calls os.Exit(1), and every goroutine ends.
ExitProcess ==
    /\ MainGoes("exit", "exited")
    /\ UNCHANGED <<auditVars, flags>>

\* SIGKILL, or SIGTERM before signal.Notify: nothing deferred runs.
Kill ==
    /\ Running
    /\ MainGoes(main, "killed")
    /\ UNCHANGED <<auditVars, flags>>

Start ==
    \/ LoadConfig \/ Connect \/ ConnectFails \/ Migrate \/ MigrateFails \/ Listen \/ SetReady

MainStep ==
    \/ ClearReady \/ MetricsShutdown \/ Shutdown \/ ShutdownDone \/ ShutdownForced
    \/ CloseLogger \/ NoLogger \/ LoggerClosed \/ CloseDB \/ ExitProcess

WriterStep == Running /\ ProcessStep /\ UNCHANGED <<main, flags, requestVars>>

Next ==
    \/ Start
    \/ ListenerUp \/ ListenerFails
    \/ \E r \in Requests : Accept(r) \/ LogEntry(r) \/ ProxyAborts(r)
    \/ \E p \in Probes : Readyz(p) \/ Ping(p)
    \/ Signal \/ ServeFails \/ Deadline \/ Kill
    \/ MainStep
    \/ WriterStep

\* run and process are never blocked for good by anything but each other: the
\* context expires, metricsSrv.Shutdown obeys it and an insert has a timeout
\* of its own.  Start-up, handlers, signals and server failures are not fair.
Fairness == WF_vars(MainStep) /\ WF_vars(WriterStep) /\ WF_vars(Deadline)

Spec == Init /\ [][Next]_vars /\ Fairness

---------------------------------------------------------------------------

\* Type invariant of the process.
TypeOK ==
    /\ AuditTypeOK
    /\ main \in StartUp \cup {"serving", "unready", "metrics", "drain", "poll", "close", "wait",
                              "dbclose", "exit", "exited", "killed"}
    /\ config \in [db : BOOLEAN, audit : BOOLEAN]
    /\ ready \in BOOLEAN
    /\ listener \in {"none", "starting", "up", "failed", "down"}
    /\ expired \in BOOLEAN
    /\ graceful \in BOOLEAN
    /\ handler \in [Requests -> {"new", "proxying", "done", "aborted", "panicked"}]
    /\ probe \in [Probes -> {"new", "ping", "ready", "not_ready"}]

\* Every entry Log accepted is, in the order of acceptance, attempted, in the
\* writer's hands or still buffered: none is lost, repeated or overtaken
\* (logger.go, Log and process).
FifoDelivery ==
    logged = attempts \o (IF hand = Nil THEN <<>> ELSE <<hand>>) \o entries

\* Where there is a logger, every request whose handler returned is either in
\* the log's order or counted as dropped (Log, lines 46-54).
DropsCounted ==
    writer # "none" =>
        Cardinality({r \in Requests : handler[r] = "done"}) = Len(logged) + dropped

\* The database pool is closed only when the writer is done with everything
\* Log ever accepted, in a graceful, a forced and a failed exit alike, and
\* after a start that failed (main.go, the deferred calls of lines 70 and 100).
WrittenBeforeDbClose ==
    ~dbOpen => attempts = logged /\ writer \in {"none", "exited"}

\* When Shutdown returned nil, nothing that run closes afterwards is in use or
\* comes into use again: no handler is in the proxy or has met the closed
\* channel, and no probe that read ready is about to ping the pool, whenever
\* it did so (main.go:170 and the deferred calls, logger.go:46, health.go:46-51).
GracefulMeansQuiet ==
    graceful => InFlight = {} /\ \A r \in Requests : handler[r] # "panicked"

\* Once run has left its select the process exits, although handlers may hang
\* and inserts may fail (main.go:151-176).
ShutdownTerminates ==
    (main \in {"unready", "metrics", "drain", "poll", "close", "wait", "dbclose", "exit"})
        ~> (main \in {"exited", "killed"})

Trail == INSTANCE AuditTrail WITH
    accepted <- logged, delivered <- attempts, lost <- dropped, up <- main # "killed"

\* The logger in its process implements AuditTrail, its liveness included: an
\* entry once accepted is attempted, even when the process is told to stop
\* right after, and whatever the inserts before it did (logger.go, process).
TrailSpec == Trail!Spec
=============================================================================
