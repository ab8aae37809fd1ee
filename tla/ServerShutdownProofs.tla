------------------------ MODULE ServerShutdownProofs ------------------------
(***************************************************************************)
(* Proofs for ServerShutdown, for any number of requests and probes, with  *)
(* or without online sync.                                                 *)
(***************************************************************************)
EXTENDS ServerShutdown, TLAPS

\* The listener is closed before the drain begins, so nothing is accepted
\* behind it; the database is closed after it.
DrainOrder ==
    /\ main \in {"drain", "closing"} => listener = "closed"
    /\ database = "closed" => listener = "closed" /\ main \in {"closing", "exited"}

\* main has seen a worker's end only when that worker has returned.
StopOrder ==
    /\ main \in {"stopHealth", "waitHealth", "drain", "closing"} => worker.done
    /\ main \in {"drain", "closing"} => monitor.pc = "returned"

IInv == TypeOK /\ DrainOrder /\ StopOrder /\ RequestsAreDrained

LEMMA InitInv == Init => IInv
<1> SUFFICES ASSUME Init PROVE IInv
    OBVIOUS
<1>1. worker \in [pc : {"none", "sync", "select", "returned"},
                  stop : BOOLEAN, done : BOOLEAN, tick : BOOLEAN]
    BY ShutdownAssumption DEF Init
<1>2. TypeOK  BY <1>1 DEF Init, TypeOK, MainPC
<1>3. DrainOrder /\ StopOrder /\ RequestsAreDrained
    BY DEF Init, DrainOrder, StopOrder, RequestsAreDrained
<1> QED  BY <1>2, <1>3 DEF IInv

LEMMA ServerStep ==
    ASSUME IInv, \/ Listen \/ ListenFails
                 \/ \E r \in Requests : Accept(r) \/ Answer(r) \/ WriteAudit(r)
    PROVE  IInv'
<1> USE DEF IInv, TypeOK, MainPC, DrainOrder, StopOrder, RequestsAreDrained, Alive
<1>1. CASE Listen  BY <1>1 DEF Listen
<1>2. CASE ListenFails  BY <1>2 DEF ListenFails
<1>3. ASSUME NEW r \in Requests, Accept(r) PROVE IInv'
    BY <1>3 DEF Accept
<1>4. ASSUME NEW r \in Requests, Answer(r) PROVE IInv'
    BY <1>4 DEF Answer
<1>5. ASSUME NEW r \in Requests, WriteAudit(r) PROVE IInv'
    BY <1>5 DEF WriteAudit
<1> QED  BY <1>1, <1>2, <1>3, <1>4, <1>5

LEMMA SyncStep ==
    ASSUME IInv, SyncTick \/ BeginSync \/ EndSync \/ SeeSyncStop
    PROVE  IInv'
<1> USE DEF IInv, TypeOK, MainPC, DrainOrder, StopOrder, RequestsAreDrained, Alive
<1>1. CASE SyncTick  BY <1>1 DEF SyncTick
<1>2. CASE BeginSync  BY <1>2 DEF BeginSync
<1>3. CASE EndSync  BY <1>3 DEF EndSync
<1>4. CASE SeeSyncStop  BY <1>4 DEF SeeSyncStop, Returned
<1> QED  BY <1>1, <1>2, <1>3, <1>4

LEMMA HealthStep ==
    ASSUME IInv, \/ HealthTick \/ BeginCheckAll \/ EndCheckAll \/ SeeHealthStop
                 \/ \E p \in Probes : ProbeEnds(p) \/ RecordProbe(p)
    PROVE  IInv'
<1> USE DEF IInv, TypeOK, MainPC, DrainOrder, StopOrder, RequestsAreDrained, Alive
<1>1. CASE HealthTick  BY <1>1 DEF HealthTick
<1>2. CASE BeginCheckAll  BY <1>2 DEF BeginCheckAll
<1>3. CASE EndCheckAll  BY <1>3 DEF EndCheckAll
<1>4. CASE SeeHealthStop  BY <1>4 DEF SeeHealthStop
<1>5. ASSUME NEW p \in Probes, ProbeEnds(p) PROVE IInv'
    BY <1>5 DEF ProbeEnds
<1>6. ASSUME NEW p \in Probes, RecordProbe(p) PROVE IInv'
    BY <1>6 DEF RecordProbe
<1> QED  BY <1>1, <1>2, <1>3, <1>4, <1>5, <1>6

LEMMA MainStep ==
    ASSUME IInv, Main
    PROVE  IInv'
<1> USE DEF IInv, TypeOK, MainPC, DrainOrder, StopOrder, RequestsAreDrained
<1>1. CASE Signal  BY <1>1 DEF Signal
<1>2. CASE StopSync  BY <1>2 DEF StopSync
<1>3. CASE SyncDone  BY <1>3 DEF SyncDone
<1>4. CASE StopHealth  BY <1>4 DEF StopHealth
<1>5. CASE HealthDone  BY <1>5 DEF HealthDone, RunReturned
<1>6. CASE DrainExpires  BY <1>6 DEF DrainExpires
<1>7. CASE CloseDatabase  BY <1>7 DEF CloseDatabase, Drained
<1>8. CASE Exit  BY <1>8 DEF Exit
<1> QED  BY <1>1, <1>2, <1>3, <1>4, <1>5, <1>6, <1>7, <1>8 DEF Main

LEMMA StepInv == IInv /\ [Next]_vars => IInv'
<1> SUFFICES ASSUME IInv, [Next]_vars PROVE IInv'
    OBVIOUS
<1>1. CASE UNCHANGED vars
    BY <1>1 DEF vars, IInv, TypeOK, MainPC, DrainOrder, StopOrder, RequestsAreDrained
<1> QED  BY <1>1, ServerStep, SyncStep, HealthStep, MainStep DEF Next

\* Types.
THEOREM TypeCorrect == Spec => []TypeOK
<1>1. IInv => TypeOK  BY DEF IInv
<1> QED  BY InitInv, StepInv, <1>1, PTL DEF Spec

\* However many requests there are, none is still running when the database is
\* closed, unless the drain ran out of time.
THEOREM DrainCorrect == Spec => []RequestsAreDrained
<1>1. IInv => RequestsAreDrained  BY DEF IInv
<1> QED  BY InitInv, StepInv, <1>1, PTL DEF Spec

\* No sync begins and no probe is started once both Stops have returned.
LEMMA QuietStep ==
    IInv /\ [Next]_vars =>
        [WorkersStopped => /\ \A p \in Probes : probe'[p] = "call" => probe[p] = "call"
                           /\ worker'.pc = "sync" => worker.pc = "sync"]_vars
<1> SUFFICES ASSUME IInv, Next, WorkersStopped
             PROVE  /\ \A p \in Probes : probe'[p] = "call" => probe[p] = "call"
                    /\ worker'.pc = "sync" => worker.pc = "sync"
    OBVIOUS
<1>1. Alive => worker.pc = "returned" /\ monitor.pc = "returned"
    BY DEF IInv, TypeOK, StopOrder, WorkersStopped, Alive
<1>2. CASE Listen \/ ListenFails \/ \E r \in Requests : Accept(r) \/ Answer(r) \/ WriteAudit(r)
    BY <1>2 DEF Listen, ListenFails, Accept, Answer, WriteAudit
<1>3. CASE SyncTick \/ BeginSync \/ EndSync \/ SeeSyncStop
    BY <1>1, <1>3 DEF SyncTick, BeginSync, EndSync, SeeSyncStop
<1>4. CASE HealthTick \/ BeginCheckAll \/ EndCheckAll \/ SeeHealthStop
    BY <1>1, <1>4 DEF HealthTick, BeginCheckAll, EndCheckAll, SeeHealthStop
<1>5. ASSUME NEW q \in Probes, ProbeEnds(q) \/ RecordProbe(q)
      PROVE  /\ \A p \in Probes : probe'[p] = "call" => probe[p] = "call"
             /\ worker'.pc = "sync" => worker.pc = "sync"
    BY <1>5 DEF IInv, TypeOK, ProbeEnds, RecordProbe
<1>6. CASE Main
    BY <1>6 DEF Main, Signal, StopSync, SyncDone, StopHealth, HealthDone, DrainExpires,
                CloseDatabase, Exit, WorkersStopped
<1> QED  BY <1>2, <1>3, <1>4, <1>5, <1>6 DEF Next

\* Once a worker's Stop has returned, that worker begins nothing again.
THEOREM StoppedForGood == Spec => NoWorkAfterStop
BY InitInv, StepInv, QuietStep, PTL DEF Spec, NoWorkAfterStop

-----------------------------------------------------------------------------
(* ShutdownEnds.  The prover knows nothing of ENABLED; fairness is stated  *)
(* first with the guards of the actions in its place.                      *)

CanEndSync == Alive /\ worker.pc = "sync"
CanSeeSyncStop == Alive /\ worker.pc = "select" /\ worker.stop
CanEndCheckAll == Alive /\ monitor.pc = "list"
CanSeeHealthStop == Alive /\ monitor.pc = "select" /\ monitor.stop
CanStopSync == main = "stopSync"
CanSyncDone == main = "waitSync" /\ worker.done
CanStopHealth == main = "stopHealth"
CanHealthDone == main = "waitHealth" /\ RunReturned
CanDrainExpire == main = "drain" /\ ~expired
CanCloseDatabase == main = "drain" /\ Drained
CanExit == main = "closing"

\* A weakly fair action whose guard holds from some moment on is taken; a
\* strongly fair one (a ready case of a select) is when it holds again and again.
GuardedFairness ==
    /\ []<>~CanEndSync \/ []<><<EndSync>>_vars
    /\ <>[]~CanSeeSyncStop \/ []<><<SeeSyncStop>>_vars
    /\ []<>~CanEndCheckAll \/ []<><<EndCheckAll>>_vars
    /\ <>[]~CanSeeHealthStop \/ []<><<SeeHealthStop>>_vars
    /\ []<>~CanStopSync \/ []<><<StopSync>>_vars
    /\ []<>~CanSyncDone \/ []<><<SyncDone>>_vars
    /\ []<>~CanStopHealth \/ []<><<StopHealth>>_vars
    /\ []<>~CanHealthDone \/ []<><<HealthDone>>_vars
    /\ []<>~CanDrainExpire \/ []<><<DrainExpires>>_vars
    /\ []<>~CanCloseDatabase \/ []<><<CloseDatabase>>_vars
    /\ []<>~CanExit \/ []<><<Exit>>_vars

\* A channel main has closed stays closed; there is a worker iff it has a URL.
StopFlags ==
    /\ worker.pc = "none" <=> ~OnlineSync
    /\ main \in {"waitSync", "stopHealth", "waitHealth", "drain", "closing"} => worker.stop
    /\ main \in {"waitHealth", "drain", "closing"} => monitor.stop

LInv == IInv /\ StopFlags

LEMMA StopFlagsInit == Init => StopFlags
BY ShutdownAssumption DEF Init, StopFlags

LEMMA StopFlagsStep == LInv /\ [Next]_vars => StopFlags'
<1> SUFFICES ASSUME LInv, [Next]_vars PROVE StopFlags'
    OBVIOUS
<1> USE DEF LInv, IInv, TypeOK, StopFlags
<1>1. CASE \/ UNCHANGED vars \/ Listen \/ ListenFails
           \/ \E r \in Requests : Accept(r) \/ Answer(r) \/ WriteAudit(r)
           \/ \E p \in Probes : ProbeEnds(p) \/ RecordProbe(p)
    BY <1>1 DEF vars, Listen, ListenFails, Accept, Answer, WriteAudit, ProbeEnds, RecordProbe
<1>2. CASE SyncTick \/ BeginSync \/ EndSync \/ SeeSyncStop
    BY <1>2 DEF SyncTick, BeginSync, EndSync, SeeSyncStop, Returned
<1>3. CASE HealthTick \/ BeginCheckAll \/ EndCheckAll \/ SeeHealthStop
    BY <1>3 DEF HealthTick, BeginCheckAll, EndCheckAll, SeeHealthStop
<1>4. CASE Main
    BY <1>4 DEF Main, Signal, StopSync, SyncDone, StopHealth, HealthDone, DrainExpires,
                CloseDatabase, Exit
<1> QED  BY <1>1, <1>2, <1>3, <1>4 DEF Next

LEMMA LInvariant == Spec => []LInv
<1>1. Init => LInv  BY InitInv, StopFlagsInit DEF LInv
<1>2. LInv /\ [Next]_vars => LInv'  BY StepInv, StopFlagsStep DEF LInv
<1> QED  BY <1>1, <1>2, PTL DEF Spec

\* What a step does to main: it stays, takes its one next step, or the process
\* ends because it could not listen.
LEMMA MainGoesOn ==
    ASSUME [Next]_vars
    PROVE  /\ main = "stopSync" => main' = main \/ StopSync \/ main' = "exited"
           /\ main = "waitSync" => main' = main \/ SyncDone \/ main' = "exited"
           /\ main = "stopHealth" => main' = main \/ StopHealth \/ main' = "exited"
           /\ main = "waitHealth" => main' = main \/ HealthDone \/ main' = "exited"
           /\ main = "drain" => main' = main \/ CloseDatabase \/ main' = "exited"
           /\ main = "closing" => main' = main \/ Exit \/ main' = "exited"
<1>1. CASE \/ UNCHANGED vars \/ Listen \/ ListenFails
           \/ \E r \in Requests : Accept(r) \/ Answer(r) \/ WriteAudit(r)
           \/ \E p \in Probes : ProbeEnds(p) \/ RecordProbe(p)
    BY <1>1 DEF vars, Listen, ListenFails, Accept, Answer, WriteAudit, ProbeEnds, RecordProbe
<1>2. CASE SyncTick \/ BeginSync \/ EndSync \/ SeeSyncStop
    BY <1>2 DEF SyncTick, BeginSync, EndSync, SeeSyncStop
<1>3. CASE HealthTick \/ BeginCheckAll \/ EndCheckAll \/ SeeHealthStop
    BY <1>3 DEF HealthTick, BeginCheckAll, EndCheckAll, SeeHealthStop
<1>4. CASE Main
    BY <1>4 DEF Main, Signal, StopSync, SyncDone, StopHealth, HealthDone, DrainExpires,
                CloseDatabase, Exit
<1> QED  BY <1>1, <1>2, <1>3, <1>4 DEF Next

\* A goroutine that has returned is not started again.
LEMMA ReturnedForGood ==
    ASSUME TypeOK, [Next]_vars
    PROVE  /\ worker.pc = "returned" => worker'.pc = "returned"
           /\ monitor.pc = "returned" => monitor'.pc = "returned"
<1>1. CASE \/ UNCHANGED vars \/ Listen \/ ListenFails
           \/ \E r \in Requests : Accept(r) \/ Answer(r) \/ WriteAudit(r)
           \/ \E p \in Probes : ProbeEnds(p) \/ RecordProbe(p)
    BY <1>1 DEF vars, Listen, ListenFails, Accept, Answer, WriteAudit, ProbeEnds, RecordProbe
<1>2. CASE SyncTick \/ BeginSync \/ EndSync \/ SeeSyncStop
    BY <1>2 DEF SyncTick, BeginSync, EndSync, SeeSyncStop
<1>3. CASE HealthTick \/ BeginCheckAll \/ EndCheckAll \/ SeeHealthStop
    BY <1>3 DEF HealthTick, BeginCheckAll, EndCheckAll, SeeHealthStop
<1>4. CASE Main
    BY <1>4 DEF TypeOK, Main, Signal, StopSync, SyncDone, StopHealth, HealthDone,
                DrainExpires, CloseDatabase, Exit
<1> QED  BY <1>1, <1>2, <1>3, <1>4 DEF Next

\* Stop closes the channel.
LEMMA StopSyncEnds ==
    Spec /\ GuardedFairness => (main = "stopSync" ~> main \in {"waitSync", "exited"})
<1>1. main = "stopSync" /\ [Next]_vars
        => (main = "stopSync")' \/ (main \in {"waitSync", "exited"})'
    BY MainGoesOn DEF StopSync
<1>2. main = "stopSync" /\ <<StopSync>>_vars => (main \in {"waitSync", "exited"})'
    BY DEF StopSync
<1>3. main = "stopSync" => CanStopSync  BY DEF CanStopSync
<1> QED  BY <1>1, <1>2, <1>3, PTL DEF Spec, GuardedFairness

\* The worker leaves its sync, comes back to its select however often a tick
\* takes precedence, sees the closed channel at last and returns.
LEMMA WaitSyncEnds ==
    ASSUME OnlineSync
    PROVE  Spec /\ GuardedFairness => (main = "waitSync" ~> main \in {"stopHealth", "exited"})
<1> DEFINE Waits == main = "waitSync"
           Gone == main \in {"stopHealth", "exited"}
           Syncs == worker.pc = "sync"
           Selects == worker.pc = "select"
           Back == worker.pc = "returned"
<1>1. LInv /\ Waits /\ [Next]_vars => Waits' \/ Gone'
    BY MainGoesOn DEF SyncDone
<1>2. LInv /\ Waits => Syncs \/ Selects \/ Back
    BY OnlineSync DEF LInv, IInv, TypeOK, StopFlags
<1>3. LInv /\ Waits /\ Syncs => CanEndSync  BY DEF CanEndSync, Alive
<1>4. LInv /\ Waits /\ Selects => CanSeeSyncStop
    BY DEF CanSeeSyncStop, Alive, LInv, StopFlags
<1>5. LInv /\ Waits /\ Back => CanSyncDone  BY DEF CanSyncDone, LInv, IInv, TypeOK
<1>6. LInv /\ <<EndSync>>_vars => ~Syncs'  BY DEF EndSync, LInv, IInv, TypeOK
<1>7. LInv /\ <<SeeSyncStop>>_vars => Back'
    BY DEF SeeSyncStop, Returned, LInv, IInv, TypeOK
<1>8. Waits /\ <<SyncDone>>_vars => Gone'  BY DEF SyncDone
<1>9. LInv /\ Back /\ [Next]_vars => Back'  BY ReturnedForGood DEF LInv, IInv
<1> HIDE DEF Waits, Gone, Syncs, Selects, Back
<1>10. Spec /\ GuardedFairness => (Waits ~> Gone)
    BY LInvariant, <1>1, <1>2, <1>3, <1>4, <1>5, <1>6, <1>7, <1>8, <1>9, PTL
       DEF Spec, GuardedFairness
<1> QED  BY <1>10 DEF Waits, Gone

LEMMA StopHealthEnds ==
    Spec /\ GuardedFairness => (main = "stopHealth" ~> main \in {"waitHealth", "exited"})
<1>1. main = "stopHealth" /\ [Next]_vars
        => (main = "stopHealth")' \/ (main \in {"waitHealth", "exited"})'
    BY MainGoesOn DEF StopHealth
<1>2. main = "stopHealth" /\ <<StopHealth>>_vars => (main \in {"waitHealth", "exited"})'
    BY DEF StopHealth
<1>3. main = "stopHealth" => CanStopHealth  BY DEF CanStopHealth
<1> QED  BY <1>1, <1>2, <1>3, PTL DEF Spec, GuardedFairness

\* The monitor likewise; it waits for none of the probes it has started.
LEMMA WaitHealthEnds ==
    Spec /\ GuardedFairness => (main = "waitHealth" ~> main \in {"drain", "exited"})
<1> DEFINE Waits == main = "waitHealth"
           Gone == main \in {"drain", "exited"}
           Lists == monitor.pc = "list"
           Selects == monitor.pc = "select"
           Back == monitor.pc = "returned"
<1>1. Waits /\ [Next]_vars => Waits' \/ Gone'  BY MainGoesOn DEF HealthDone
<1>2. LInv => Lists \/ Selects \/ Back  BY DEF LInv, IInv, TypeOK
<1>3. Waits /\ Lists => CanEndCheckAll  BY DEF CanEndCheckAll, Alive
<1>4. LInv /\ Waits /\ Selects => CanSeeHealthStop
    BY DEF CanSeeHealthStop, Alive, LInv, StopFlags
<1>5. Waits /\ Back => CanHealthDone  BY DEF CanHealthDone, RunReturned
<1>6. LInv /\ <<EndCheckAll>>_vars => ~Lists'  BY DEF EndCheckAll, LInv, IInv, TypeOK
<1>7. LInv /\ <<SeeHealthStop>>_vars => Back'
    BY DEF SeeHealthStop, LInv, IInv, TypeOK
<1>8. Waits /\ <<HealthDone>>_vars => Gone'  BY DEF HealthDone
<1>9. LInv /\ Back /\ [Next]_vars => Back'  BY ReturnedForGood DEF LInv, IInv
<1> HIDE DEF Waits, Gone, Lists, Selects, Back
<1>10. Spec /\ GuardedFairness => (Waits ~> Gone)
    BY LInvariant, <1>1, <1>2, <1>3, <1>4, <1>5, <1>6, <1>7, <1>8, <1>9, PTL
       DEF Spec, GuardedFairness
<1> QED  BY <1>10 DEF Waits, Gone

\* Shutdown returns when its 30 s are over, if no sooner.
LEMMA DrainEnds ==
    Spec /\ GuardedFairness => (main = "drain" ~> main \in {"closing", "exited"})
<1> DEFINE Drains == main = "drain"
           Gone == main \in {"closing", "exited"}
           Late == expired
<1>1. Drains /\ [Next]_vars => Drains' \/ Gone'  BY MainGoesOn DEF CloseDatabase
<1>2. Drains /\ ~Late => CanDrainExpire  BY DEF CanDrainExpire
<1>3. <<DrainExpires>>_vars => Late'  BY DEF DrainExpires
<1>4. Drains /\ Late => CanCloseDatabase  BY DEF CanCloseDatabase, Drained
<1>5. <<CloseDatabase>>_vars => Gone'  BY DEF CloseDatabase
<1>6. Late /\ [Next]_vars => Late'
    <2>1. Late /\ UNCHANGED expired => Late'  OBVIOUS
    <2>2. [Next]_vars => UNCHANGED expired \/ DrainExpires
        BY DEF Next, vars, Listen, ListenFails, Accept, Answer, WriteAudit, SyncTick,
               BeginSync, EndSync, SeeSyncStop, HealthTick, BeginCheckAll, EndCheckAll,
               SeeHealthStop, ProbeEnds, RecordProbe, Main, Signal, StopSync, SyncDone,
               StopHealth, HealthDone, CloseDatabase, Exit
    <2> QED  BY <2>1, <2>2 DEF DrainExpires
<1> HIDE DEF Drains, Gone, Late
<1>7. Spec /\ GuardedFairness => (Drains ~> Gone)
    BY <1>1, <1>2, <1>3, <1>4, <1>5, <1>6, PTL DEF Spec, GuardedFairness
<1> QED  BY <1>7 DEF Drains, Gone

LEMMA ClosingEnds ==
    Spec /\ GuardedFairness => (main = "closing" ~> main = "exited")
<1>1. main = "closing" /\ [Next]_vars => (main = "closing")' \/ (main = "exited")'
    BY MainGoesOn DEF Exit
<1>2. <<Exit>>_vars => (main = "exited")'  BY DEF Exit
<1>3. main = "closing" => CanExit  BY DEF CanExit
<1> QED  BY <1>1, <1>2, <1>3, PTL DEF Spec, GuardedFairness

\* With a sync URL the shutdown ends, whatever the worker, the monitor, the
\* probes and the handlers are in the middle of, and however many there are.
THEOREM ShutdownIsLive ==
    ASSUME OnlineSync
    PROVE  Spec /\ GuardedFairness => ShutdownEnds
<1>1. main \in {"waitSync", "exited"} => main = "waitSync" \/ main = "exited"  OBVIOUS
<1>2. main \in {"stopHealth", "exited"} => main = "stopHealth" \/ main = "exited"  OBVIOUS
<1>3. main \in {"waitHealth", "exited"} => main = "waitHealth" \/ main = "exited"  OBVIOUS
<1>4. main \in {"drain", "exited"} => main = "drain" \/ main = "exited"  OBVIOUS
<1>5. main \in {"closing", "exited"} => main = "closing" \/ main = "exited"  OBVIOUS
<1>6. Spec /\ GuardedFairness => (main = "waitSync" ~> main \in {"stopHealth", "exited"})
    BY OnlineSync, WaitSyncEnds
<1> QED  BY <1>1, <1>2, <1>3, <1>4, <1>5, <1>6, StopSyncEnds, StopHealthEnds, WaitHealthEnds,
            DrainEnds, ClosingEnds, PTL DEF ShutdownEnds

\* An action can be taken where its guard holds: each of them changes vars.
GuardsEnable ==
    /\ CanEndSync => ENABLED <<EndSync>>_vars
    /\ CanSeeSyncStop => ENABLED <<SeeSyncStop>>_vars
    /\ CanEndCheckAll => ENABLED <<EndCheckAll>>_vars
    /\ CanSeeHealthStop => ENABLED <<SeeHealthStop>>_vars
    /\ CanStopSync => ENABLED <<StopSync>>_vars
    /\ CanSyncDone => ENABLED <<SyncDone>>_vars
    /\ CanStopHealth => ENABLED <<StopHealth>>_vars
    /\ CanHealthDone => ENABLED <<HealthDone>>_vars
    /\ CanDrainExpire => ENABLED <<DrainExpires>>_vars
    /\ CanCloseDatabase => ENABLED <<CloseDatabase>>_vars
    /\ CanExit => ENABLED <<Exit>>_vars

\* The same of the specification TLC checks.  That GuardsEnable always holds
\* is left to TLC: the prover cannot reason about ENABLED.
COROLLARY FairShutdownIsLive ==
    ASSUME OnlineSync
    PROVE  FairSpec /\ []GuardsEnable => ShutdownEnds
<1>1. FairSpec /\ []GuardsEnable => GuardedFairness
    BY PTL DEF FairSpec, GuardsEnable, GuardedFairness
<1>2. Spec /\ GuardedFairness => ShutdownEnds  BY OnlineSync, ShutdownIsLive
<1> QED  BY <1>1, <1>2, PTL DEF FairSpec

-----------------------------------------------------------------------------
(* Without online sync.                                                    *)

\* Without a URL main cannot get past Worker.Stop.
LEMMA NeverDone ==
    ASSUME ~OnlineSync, LInv
    PROVE  ~SyncDone
<1>1. worker.pc = "none"  BY DEF LInv, StopFlags
<1>2. worker.done <=> worker.pc = "returned"  BY DEF LInv, IInv, TypeOK
<1> QED  BY <1>1, <1>2 DEF SyncDone

\* Worker.Stop waits for the end of a goroutine that Start did not start: after
\* a signal the health monitor is not stopped, nothing is drained, the database
\* is not closed, and a server that listens is stuck in Stop for ever.
THEOREM StuckWithoutSync ==
    ASSUME ~OnlineSync
    PROVE  Spec => /\ [](~monitor.stop /\ listener # "closed" /\ database = "open")
                   /\ [](main = "waitSync" /\ listener = "open" => [](main = "waitSync"))
<1> DEFINE Untouched == ~monitor.stop /\ listener # "closed" /\ database = "open"
           Stuck == main = "waitSync" /\ listener = "open"
           Before == main \in {"serving", "stopSync", "waitSync", "exited"}
<1>1. Init => Untouched /\ Before  BY DEF Init
<1>2. LInv /\ Untouched /\ Before /\ [Next]_vars
        => Untouched' /\ Before' /\ (Stuck => Stuck')
    <2> SUFFICES ASSUME LInv, Untouched, Before, [Next]_vars
                 PROVE  Untouched' /\ Before' /\ (Stuck => Stuck')
        OBVIOUS
    <2>1. CASE \/ UNCHANGED vars \/ Listen \/ ListenFails
               \/ \E r \in Requests : Accept(r) \/ Answer(r) \/ WriteAudit(r)
               \/ \E p \in Probes : ProbeEnds(p) \/ RecordProbe(p)
        BY <2>1 DEF vars, Listen, ListenFails, Accept, Answer, WriteAudit, ProbeEnds,
                    RecordProbe
    <2>2. CASE SyncTick \/ BeginSync \/ EndSync \/ SeeSyncStop
        BY <2>2 DEF SyncTick, BeginSync, EndSync, SeeSyncStop
    <2>3. CASE HealthTick \/ BeginCheckAll \/ EndCheckAll \/ SeeHealthStop
        BY <2>3 DEF LInv, IInv, TypeOK, HealthTick, BeginCheckAll, EndCheckAll, SeeHealthStop
    <2>4. CASE Main
        <3>1. Signal \/ StopSync
            BY <2>4, NeverDone, ~OnlineSync DEF Main, StopHealth, HealthDone, DrainExpires,
                CloseDatabase, Exit
        <3> QED  BY <3>1 DEF Signal, StopSync
    <2> QED  BY <2>1, <2>2, <2>3, <2>4 DEF Next
<1>3. Stuck => main = "waitSync"  OBVIOUS
<1> HIDE DEF Untouched, Stuck, Before
<1>4. Spec => [](Untouched /\ Before) /\ [](Stuck => []Stuck)
    BY LInvariant, <1>1, <1>2, PTL DEF Spec
<1>5. Spec => []Untouched /\ [](Stuck => [](main = "waitSync"))
    BY <1>3, <1>4, PTL
<1> QED  BY <1>5 DEF Untouched, Stuck
=============================================================================
