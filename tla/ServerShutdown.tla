--------------------------- MODULE ServerShutdown ---------------------------
(***************************************************************************)
(* How the process ends: main waits for a signal, stops the sync worker,   *)
(* then the health monitor, then drains the HTTP server for at most 30 s,  *)
(* closes the database and returns.  Goroutines still running then vanish. *)
(*                                                                         *)
(* A channel that is only ever closed is a boolean: TRUE once closed.      *)
(***************************************************************************)
EXTENDS Naturals

CONSTANTS
    Requests,     \* HTTP requests in flight at a time (bound)
    Probes,       \* checkProvider goroutines at a time: the active providers
    OnlineSync    \* GOROUTER_ONLINE_SYNC_URL is set

ASSUME ShutdownAssumption == OnlineSync \in BOOLEAN

VARIABLES
    main,      \* where main is
    listener,  \* "starting", "open", or "closed" by Shutdown
    expired,   \* the 30 s given to Shutdown are over
    database,  \* "open" or "closed"
    worker,    \* sync.Worker: its goroutine, its channels, a tick to be read
    monitor,   \* HealthMonitor: the goroutine of run, its channel, a tick
    probe,     \* probe[p]: the goroutine of checkProvider
    request,   \* request[r]: the goroutine that serves request r
    audit      \* audit[r]: the goroutine AuditLogger.Log started for r

vars == <<main, listener, expired, database, worker, monitor, probe, request, audit>>

MainPC == {"serving", "stopSync", "waitSync", "stopHealth", "waitHealth",
           "drain", "closing", "exited"}

\* main has got beyond HealthMonitor.Stop.
WorkersStopped == main \in {"drain", "closing", "exited"}

TypeOK ==
    /\ main \in MainPC
    /\ listener \in {"starting", "open", "closed"}
    /\ expired \in BOOLEAN
    /\ database \in {"open", "closed"}
    /\ worker \in [pc : {"none", "sync", "select", "returned"},
                   stop : BOOLEAN, done : BOOLEAN, tick : BOOLEAN]
    /\ worker.done <=> worker.pc = "returned"
    /\ monitor \in [pc : {"select", "list", "returned"}, stop : BOOLEAN, tick : BOOLEAN]
    /\ probe \in [Probes -> {"none", "call", "record"}]
    /\ request \in [Requests -> {"none", "running"}]
    /\ audit \in [Requests -> {"none", "pending"}]

\* main at `<-quit`.  Worker.Start without a URL returns before the goroutine.
Init ==
    /\ main = "serving"
    /\ listener = "starting"
    /\ expired = FALSE
    /\ database = "open"
    /\ worker = [pc |-> IF OnlineSync THEN "sync" ELSE "none",
                 stop |-> FALSE, done |-> FALSE, tick |-> FALSE]
    /\ monitor = [pc |-> "select", stop |-> FALSE, tick |-> FALSE]
    /\ probe = [p \in Probes |-> "none"]
    /\ request = [r \in Requests |-> "none"]
    /\ audit = [r \in Requests |-> "none"]

Alive == main # "exited"

-----------------------------------------------------------------------------
(* The goroutine of httpServer.ListenAndServe, and the requests.           *)

Listen ==
    /\ Alive
    /\ listener = "starting"
    /\ listener' = "open"
    /\ UNCHANGED <<main, expired, database, worker, monitor, probe, request, audit>>

\* The address is taken: os.Exit(1), nothing deferred runs.
ListenFails ==
    /\ Alive
    /\ listener = "starting"
    /\ main' = "exited"
    /\ UNCHANGED <<listener, expired, database, worker, monitor, probe, request, audit>>

Accept(r) ==
    /\ Alive
    /\ listener = "open"
    /\ request[r] = "none"
    /\ audit[r] = "none"
    /\ request' = [request EXCEPT ![r] = "running"]
    /\ UNCHANGED <<main, listener, expired, database, worker, monitor, probe, audit>>

\* A handler returns.  One that changed something has handed the entry to a
\* goroutine of its own.
Answer(r) ==
    /\ Alive
    /\ request[r] = "running"
    /\ request' = [request EXCEPT ![r] = "none"]
    /\ \E logged \in {"none", "pending"} : audit' = [audit EXCEPT ![r] = logged]
    /\ UNCHANGED <<main, listener, expired, database, worker, monitor, probe>>

\* AuditLogs().Create, stored or refused by a closed database.
WriteAudit(r) ==
    /\ Alive
    /\ audit[r] = "pending"
    /\ audit' = [audit EXCEPT ![r] = "none"]
    /\ UNCHANGED <<main, listener, expired, database, worker, monitor, probe, request>>

-----------------------------------------------------------------------------
(* sync.Worker.                                                            *)

\* The 5 minute ticker: its channel holds one tick.
SyncTick ==
    /\ Alive
    /\ worker.pc = "select"
    /\ ~worker.tick
    /\ worker' = [worker EXCEPT !.tick = TRUE]
    /\ UNCHANGED <<main, listener, expired, database, monitor, probe, request, audit>>

\* select chooses at random among the channels that are ready, so a tick may
\* be served after the stop channel is closed.
BeginSync ==
    /\ Alive
    /\ worker.pc = "select"
    /\ worker.tick
    /\ worker' = [worker EXCEPT !.pc = "sync", !.tick = FALSE]
    /\ UNCHANGED <<main, listener, expired, database, monitor, probe, request, audit>>

\* sync returns, at the latest when its 60 s context ends.
EndSync ==
    /\ Alive
    /\ worker.pc = "sync"
    /\ worker' = [worker EXCEPT !.pc = "select"]
    /\ UNCHANGED <<main, listener, expired, database, monitor, probe, request, audit>>

\* Mutant: the deferred close(w.done) is missing.
ReturnedSilently(w) == [w EXCEPT !.pc = "returned"]

Returned(w) == [w EXCEPT !.pc = "returned", !.done = TRUE]

SeeSyncStop ==
    /\ Alive
    /\ worker.pc = "select"
    /\ worker.stop
    /\ worker' = Returned(worker)
    /\ UNCHANGED <<main, listener, expired, database, monitor, probe, request, audit>>

-----------------------------------------------------------------------------
(* HealthMonitor.                                                          *)

HealthTick ==
    /\ Alive
    /\ monitor.pc = "select"
    /\ ~monitor.tick
    /\ monitor' = [monitor EXCEPT !.tick = TRUE]
    /\ UNCHANGED <<main, listener, expired, database, worker, probe, request, audit>>

BeginCheckAll ==
    /\ Alive
    /\ monitor.pc = "select"
    /\ monitor.tick
    /\ monitor' = [monitor EXCEPT !.pc = "list", !.tick = FALSE]
    /\ UNCHANGED <<main, listener, expired, database, worker, probe, request, audit>>

\* checkAllProviders starts a goroutine per active provider (which are active
\* is left open) and returns without waiting for them.  Nothing starts when
\* the list cannot be read.
EndCheckAll ==
    /\ Alive
    /\ monitor.pc = "list"
    /\ monitor' = [monitor EXCEPT !.pc = "select"]
    /\ \E active \in SUBSET {p \in Probes : probe[p] = "none"} :
          probe' = [p \in Probes |-> IF p \in active THEN "call" ELSE probe[p]]
    /\ UNCHANGED <<main, listener, expired, database, worker, request, audit>>

SeeHealthStop ==
    /\ Alive
    /\ monitor.pc = "select"
    /\ monitor.stop
    /\ monitor' = [monitor EXCEPT !.pc = "returned"]
    /\ UNCHANGED <<main, listener, expired, database, worker, probe, request, audit>>

\* The call of at most 10 s, then at most 5 s to record its result.
ProbeEnds(p) ==
    /\ Alive
    /\ probe[p] = "call"
    /\ probe' = [probe EXCEPT ![p] = "record"]
    /\ UNCHANGED <<main, listener, expired, database, worker, monitor, request, audit>>

RecordProbe(p) ==
    /\ Alive
    /\ probe[p] = "record"
    /\ probe' = [probe EXCEPT ![p] = "none"]
    /\ UNCHANGED <<main, listener, expired, database, worker, monitor, request, audit>>

-----------------------------------------------------------------------------
(* main.                                                                   *)

\* SIGINT or SIGTERM is read from quit.  A further one stays in the channel.
Signal ==
    /\ main = "serving"
    /\ main' = "stopSync"
    /\ UNCHANGED <<listener, expired, database, worker, monitor, probe, request, audit>>

StopSync ==
    /\ main = "stopSync"
    /\ main' = "waitSync"
    /\ worker' = [worker EXCEPT !.stop = TRUE]
    /\ UNCHANGED <<listener, expired, database, monitor, probe, request, audit>>

SyncDone ==
    /\ main = "waitSync"
    /\ worker.done
    /\ main' = "stopHealth"
    /\ UNCHANGED <<listener, expired, database, worker, monitor, probe, request, audit>>

StopHealth ==
    /\ main = "stopHealth"
    /\ main' = "waitHealth"
    /\ monitor' = [monitor EXCEPT !.stop = TRUE]
    /\ UNCHANGED <<listener, expired, database, worker, probe, request, audit>>

\* Mutant: Stop closes the channel and does not wait.
RunReturnedOrNot == TRUE

\* The WaitGroup counts the goroutine of run, and not the probes.
RunReturned == monitor.pc = "returned"

\* Stop returns; Shutdown closes the listener.
HealthDone ==
    /\ main = "waitHealth"
    /\ RunReturned
    /\ main' = "drain"
    /\ listener' = "closed"
    /\ UNCHANGED <<expired, database, worker, monitor, probe, request, audit>>

DrainExpires ==
    /\ main = "drain"
    /\ ~expired
    /\ expired' = TRUE
    /\ UNCHANGED <<main, listener, database, worker, monitor, probe, request, audit>>

\* Mutant: the server is closed instead of shut down.
DrainedAtOnce == TRUE

Drained == expired \/ \A r \in Requests : request[r] = "none"

\* Shutdown returns, main returns: dbManager.Close, deferred.
CloseDatabase ==
    /\ main = "drain"
    /\ Drained
    /\ main' = "closing"
    /\ database' = "closed"
    /\ UNCHANGED <<listener, expired, worker, monitor, probe, request, audit>>

Exit ==
    /\ main = "closing"
    /\ main' = "exited"
    /\ UNCHANGED <<listener, expired, database, worker, monitor, probe, request, audit>>

-----------------------------------------------------------------------------
Main == Signal \/ StopSync \/ SyncDone \/ StopHealth \/ HealthDone \/ DrainExpires
        \/ CloseDatabase \/ Exit

Next ==
    \/ Listen \/ ListenFails
    \/ \E r \in Requests : Accept(r) \/ Answer(r) \/ WriteAudit(r)
    \/ SyncTick \/ BeginSync \/ EndSync \/ SeeSyncStop
    \/ HealthTick \/ BeginCheckAll \/ EndCheckAll \/ SeeHealthStop
    \/ \E p \in Probes : ProbeEnds(p) \/ RecordProbe(p)
    \/ Main

Spec == Init /\ [][Next]_vars

\* Goroutines run; calls and contexts have deadlines.  select is random, so a
\* closed stop channel is chosen sooner or later.  No signal need ever come,
\* and no handler need ever return.
FairSpec ==
    /\ Spec
    /\ WF_vars(EndSync) /\ SF_vars(SeeSyncStop)
    /\ WF_vars(EndCheckAll) /\ SF_vars(SeeHealthStop)
    /\ WF_vars(StopSync) /\ WF_vars(SyncDone) /\ WF_vars(StopHealth) /\ WF_vars(HealthDone)
    /\ WF_vars(DrainExpires) /\ WF_vars(CloseDatabase) /\ WF_vars(Exit)

-----------------------------------------------------------------------------
(* Properties.                                                             *)

\* spec/docs/001.scaffold-config-dbmanager.md, the test plan: after
\* `kill -TERM` the server says it has stopped.  With a sync URL it does,
\* whatever the worker, the monitor and the handlers are in the middle of.
ShutdownEnds == main = "stopSync" ~> main = "exited"

\* The database is closed under a handler's feet only when the 30 s of the
\* drain are over; so a request accepted at any moment before or during
\* the shutdown, while the workers are still being waited for, is answered.
RequestsAreDrained ==
    database = "closed" /\ ~expired => \A r \in Requests : request[r] = "none"

\* Once both Stops have returned neither loop works on: no sync begins and no
\* probe is started, although ticks may be pending.  (Probes started before
\* go on, and may find the database closed.)
NoWorkAfterStop ==
    [][WorkersStopped => /\ \A p \in Probes : probe'[p] = "call" => probe[p] = "call"
                         /\ worker'.pc = "sync" => worker.pc = "sync"]_vars
=============================================================================
