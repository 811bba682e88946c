--------------------------- MODULE ServiceLifecycle ---------------------------
(***************************************************************************)
(* The life of one replica's process (conformance.go, main.go): New builds *)
(* the service and closes what it opened when a part fails; Run listens,   *)
(* starts the goroutines of the two servers, the Registry publisher and    *)
(* the evaluation worker, and waits; Shutdown, once, stops the servers     *)
(* within a timeout and closes the clients and the store.  Opening the     *)
(* store is SchemaMigrations.                                              *)
(*                                                                         *)
(* External and modelled from their use: http.Server.Shutdown waits for    *)
(* the requests in progress or its context; GracefulStop returns when the  *)
(* handlers of the RPCs in progress have, also once Stop has cancelled     *)
(* them; pgxpool refuses connections once Close has begun, and Close       *)
(* returns when none is in use.                                            *)
(***************************************************************************)
EXTENDS SchemaMigrations

CONSTANTS
  Main,     \* the replica whose process is followed
  Callers   \* other goroutines of the process that may call Shutdown

ASSUME MainAssumption == Main \in Replicas /\ Main \notin Mortal /\ "Run" \notin Callers

VARIABLES
  built,          \* the step of New: a part it makes, or its end
  resources,      \* what New opened and nothing closed yet
  run,            \* where Run is
  goroutines,     \* the goroutines Run starts
  errCh,          \* number of errors in the channel
  ctxDone,        \* the service context is cancelled: SIGINT or SIGTERM
  runCancelled,   \* runCancel was called
  shutdown,       \* the body of Shutdown: [stage, timeout, error]
  callers,        \* calls of Shutdown: "none", "in", or the error returned
  using,          \* who holds a connection of the pool
  requests        \* a readiness probe and an assignment RPC

serviceVars ==
  <<built, resources, run, goroutines, errCh, ctxDone, runCancelled, shutdown, callers, using, requests>>
vars == <<migrationVars, serviceVars>>

Parts ==
  {"credentials", "store", "reader", "handler", "connection", "publisher", "evaluator", "worker"}

Goroutines == {"management", "grpc", "publisher", "worker"}
Requests == {"probe", "rpc"}
PoolUsers == {"publisher", "worker"} \cup Requests

(* One place for each goroutine that may report an error.                   *)
ErrChCapacity == 3

ServiceInit ==
  /\ built = "credentials"
  /\ resources = {}
  /\ run = "new"
  /\ goroutines = [g \in Goroutines |-> "off"]
  /\ errCh = 0
  /\ ctxDone = FALSE /\ runCancelled = FALSE
  /\ shutdown = [stage |-> "idle", timeout |-> FALSE, error |-> FALSE]
  /\ callers = [c \in Callers \cup {"Run"} |-> "none"]
  /\ using = {}
  /\ requests = [q \in Requests |-> "none"]

Init == MigrationsInit /\ ServiceInit

-----------------------------------------------------------------------------
(* New                                                                     *)

(* The order in which New makes the parts.                                  *)
NextPart(part) ==
  CASE part = "credentials" -> "store"
    [] part = "store" -> "reader"
    [] part = "reader" -> "handler"
    [] part = "handler" -> "connection"
    [] part = "connection" -> "publisher"
    [] part = "publisher" -> "evaluator"
    [] part = "evaluator" -> "worker"
    [] part = "worker" -> "serving"

Opens(part) == {"store", "reader", "connection"} \cap {part}

(* What New closes when a part cannot be made, case by case.                *)
ClosedOnError(part) ==
  CASE part \in {"credentials", "store"} -> {}
    [] part = "reader" -> {"store"}
    [] part \in {"handler", "connection"} -> {"reader", "store"}
    [] part \in {"publisher", "evaluator", "worker"} -> {"connection", "reader", "store"}

FailNew(part) ==
  /\ built' = "failed"
  /\ resources' = resources \ ClosedOnError(part)

Build ==
  /\ Main \in deployed
  /\ built \in Parts
  /\ built = "store" => At(Main, "open") \/ At(Main, "failed")
  /\ \/ /\ ~(built = "store" /\ At(Main, "failed"))
        /\ built' = NextPart(built)
        /\ resources' = resources \cup Opens(built)
     \/ (built = "store" => At(Main, "failed")) /\ FailNew(built)
  /\ UNCHANGED <<migrationVars, run, goroutines, errCh, ctxDone, runCancelled, shutdown, callers,
                 using, requests>>

(* Open, called by New in the process that is followed, and in others.      *)
OpenStore(r) ==
  /\ r = Main => built = "store"
  /\ OpenNext(r)
  /\ UNCHANGED serviceVars

(* SIGINT or SIGTERM, at any time.                                          *)
Signal ==
  /\ ~ctxDone /\ Main \in deployed
  /\ ctxDone' = TRUE
  /\ UNCHANGED <<migrationVars, built, resources, run, goroutines, errCh, runCancelled, shutdown,
                 callers, using, requests>>

-----------------------------------------------------------------------------
(* Shutdown                                                                *)

RunCtxDone == ctxDone \/ runCancelled

(* The first call of Shutdown withdraws readiness and cancels the context   *)
(* of Run; later ones wait for it.  runCancel is nil before Run, and a      *)
(* goroutine other than Run's reads it without synchronisation.             *)
EnterShutdown(c) ==
  /\ callers' = [callers EXCEPT ![c] = "in"]
  /\ \/ /\ shutdown.stage = "idle"
        /\ shutdown' = [shutdown EXCEPT !.stage = "management"]
        /\ \/ run # "new" /\ runCancelled' = TRUE
           \/ c # "Run" /\ UNCHANGED runCancelled
     \/ shutdown.stage # "idle" /\ UNCHANGED <<shutdown, runCancelled>>

CallShutdown(c) ==
  /\ built = "serving" /\ callers[c] = "none"
  /\ EnterShutdown(c)
  /\ UNCHANGED <<migrationVars, built, resources, run, goroutines, errCh, ctxDone, using, requests>>

Outcome == IF shutdown.error THEN "error" ELSE "ok"

(* Mutant: a call that is not the first one does not wait.                  *)
LeaveShutdown_Flag(c) ==
  /\ callers[c] = "in"
  /\ shutdown.stage = "done" \/ \E d \in DOMAIN callers \ {c} : callers[d] = "in"
  /\ callers' = [callers EXCEPT ![c] = Outcome]
  /\ run' = IF c = "Run" THEN "returned" ELSE run
  /\ UNCHANGED <<migrationVars, built, resources, goroutines, errCh, ctxDone, runCancelled,
                 shutdown, using, requests>>

LeaveShutdown(c) ==
  /\ callers[c] = "in"
  /\ shutdown.stage = "done"
  /\ callers' = [callers EXCEPT ![c] = Outcome]
  /\ run' = IF c = "Run" THEN "returned" ELSE run
  /\ UNCHANGED <<migrationVars, built, resources, goroutines, errCh, ctxDone, runCancelled,
                 shutdown, using, requests>>

Stage(from, to) == shutdown.stage = from /\ shutdown' = [shutdown EXCEPT !.stage = to]

ShutdownTimeout ==
  /\ shutdown.stage \in {"management", "grpc"} /\ ~shutdown.timeout
  /\ shutdown' = [shutdown EXCEPT !.timeout = TRUE]
  /\ UNCHANGED <<resources, requests>>

(* The management server's Shutdown waits for a probe in progress.          *)
StopManagement ==
  /\ shutdown.stage = "management"
  /\ requests["probe"] = "none" \/ shutdown.timeout
  /\ \E failed \in {requests["probe"] # "none", TRUE} :
       shutdown' = [shutdown EXCEPT !.stage = "grpc", !.error = failed]
  /\ UNCHANGED <<resources, requests>>

(* GracefulStop returns: by itself, or after Stop.                          *)
GracefulStop ==
  /\ requests["rpc"] = "none"
  /\ Stage("grpc", "clients") \/ Stage("stopping", "clients")
  /\ UNCHANGED <<resources, requests>>

(* Mutant: the context is not watched.                                      *)
Stop_Never == FALSE /\ UNCHANGED <<shutdown, resources, requests>>

Stop ==
  /\ shutdown.timeout /\ Stage("grpc", "stopping")
  /\ requests' = [requests EXCEPT !["rpc"] = IF @ = "active" THEN "cancelled" ELSE @]
  /\ UNCHANGED resources

(* The Registry connection, the reader and the pool, which takes no more    *)
(* users from here on.                                                      *)
CloseClients ==
  /\ shutdown.stage = "clients"
  /\ resources' = {}
  /\ \E failed \in {shutdown.error, TRUE} :
       shutdown' = [shutdown EXCEPT !.stage = "draining", !.error = failed]
  /\ UNCHANGED requests

CloseStore == using = {} /\ Stage("draining", "done") /\ UNCHANGED <<resources, requests>>

(* The body of Shutdown, in the goroutine of its first caller.              *)
ShutdownStep ==
  /\ StopManagement \/ GracefulStop \/ Stop \/ CloseClients \/ CloseStore \/ ShutdownTimeout
  /\ UNCHANGED <<migrationVars, built, run, goroutines, errCh, ctxDone, runCancelled, callers,
                 using>>

-----------------------------------------------------------------------------
(* Run                                                                     *)

StartRun ==
  /\ built = "serving" /\ run = "new"
  /\ run' = "listening"
  /\ UNCHANGED <<migrationVars, built, resources, goroutines, errCh, ctxDone, runCancelled,
                 shutdown, callers, using, requests>>

Listen ==
  /\ run = "listening"
  /\ \/ /\ run' = "selecting"
        /\ goroutines' = [g \in Goroutines |-> "running"]
        /\ UNCHANGED <<runCancelled, shutdown, callers>>
     \/ run' = "stopping" /\ EnterShutdown("Run") /\ UNCHANGED goroutines
  /\ UNCHANGED <<migrationVars, built, resources, errCh, ctxDone, using, requests>>

Select ==
  /\ run = "selecting"
  /\ \/ RunCtxDone /\ UNCHANGED errCh
     \/ errCh > 0 /\ errCh' = errCh - 1
  /\ run' = "stopping"
  /\ EnterShutdown("Run")
  /\ UNCHANGED <<migrationVars, built, resources, goroutines, ctxDone, using, requests>>

-----------------------------------------------------------------------------
(* The goroutines of Run, readiness probes and RPCs                        *)

(* The server is told to stop, or the context is done.                      *)
Stopped(g) ==
  CASE g = "management" -> shutdown.stage # "idle"
    [] g = "grpc" -> shutdown.stage \notin {"idle", "management"}
    [] OTHER -> RunCtxDone

Become(g, state) == goroutines[g] = "running" /\ goroutines' = [goroutines EXCEPT ![g] = state]

(* A server that cannot serve; a worker that meets telemetry without WAL    *)
(* identity.  The publisher never gives up.                                 *)
Break(g) ==
  /\ g = "worker" \/ (g # "publisher" /\ ~Stopped(g))
  /\ g \notin using
  /\ Become(g, "failing")
  /\ UNCHANGED <<errCh, using, requests>>

Report(g) ==
  /\ goroutines[g] = "failing"
  /\ errCh < ErrChCapacity
  /\ errCh' = errCh + 1
  /\ goroutines' = [goroutines EXCEPT ![g] = "done"]
  /\ UNCHANGED <<using, requests>>

End(g) ==
  /\ Stopped(g) /\ g \notin using
  /\ Become(g, "done")
  /\ UNCHANGED <<errCh, using, requests>>

(* Who may ask the pool for a connection: the loops until they are          *)
(* cancelled, and requests until they are.                                  *)
MayUseStore(u) ==
  IF u \in Requests THEN requests[u] = "active" ELSE goroutines[u] = "running" /\ ~RunCtxDone

Acquire(u) ==
  /\ MayUseStore(u) /\ u \notin using /\ "store" \in resources
  /\ using' = using \cup {u}
  /\ UNCHANGED <<goroutines, errCh, requests>>

Release(u) ==
  /\ u \in using
  /\ using' = using \ {u}
  /\ UNCHANGED <<goroutines, errCh, requests>>

(* An RPC, or a probe that finds the service ready: it was built and no     *)
(* Shutdown has begun.                                                      *)
Arrive(q) ==
  /\ \E server \in {IF q = "probe" THEN "management" ELSE "grpc"} :
       goroutines[server] = "running" /\ ~Stopped(server)
  /\ requests[q] = "none"
  /\ requests' = [requests EXCEPT ![q] = "active"]
  /\ UNCHANGED <<goroutines, errCh, using>>

Finish(q) ==
  /\ requests[q] # "none" /\ q \notin using
  /\ requests' = [requests EXCEPT ![q] = "none"]
  /\ UNCHANGED <<goroutines, errCh, using>>

Work ==
  /\ \/ \E g \in Goroutines : Break(g) \/ Report(g) \/ End(g)
     \/ \E u \in PoolUsers : Acquire(u) \/ Release(u)
     \/ \E q \in Requests : Arrive(q) \/ Finish(q)
  /\ UNCHANGED <<migrationVars, built, resources, run, ctxDone, runCancelled, shutdown, callers>>

-----------------------------------------------------------------------------

Next ==
  \/ Build \/ Signal
  \/ \E r \in Replicas : OpenStore(r)
  \/ StartRun \/ Listen \/ Select
  \/ \E c \in Callers : CallShutdown(c)
  \/ \E c \in Callers \cup {"Run"} : LeaveShutdown(c)
  \/ ShutdownStep
  \/ Work

Quiet == UNCHANGED <<migrationVars, built, resources, run, ctxDone, runCancelled, shutdown, callers>>

(* Every goroutine goes on, statements and timers end, a probe has two      *)
(* seconds, and the handler of a cancelled RPC returns; a client may keep   *)
(* an RPC open for ever, and nobody need send a signal or start a replica   *)
(* that died.                                                               *)
Fairness ==
  /\ \A r \in Replicas : WF_vars(OpenStep(r) /\ OpenStore(r))
  /\ WF_vars(StartRun) /\ WF_vars(Listen) /\ WF_vars(Select)
  /\ \A c \in Callers \cup {"Run"} : WF_vars(LeaveShutdown(c))
  /\ WF_vars(ShutdownStep)
  /\ \A g \in Goroutines : WF_vars((Report(g) \/ End(g)) /\ Quiet)
  /\ \A u \in PoolUsers : WF_vars(Release(u) /\ Quiet)
  /\ WF_vars(Finish("probe") /\ Quiet)
  /\ WF_vars(requests["rpc"] = "cancelled" /\ Finish("rpc") /\ Quiet)

Spec == Init /\ [][Next]_vars /\ Fairness

-----------------------------------------------------------------------------
(* Properties                                                              *)

(* New that fails, and Shutdown when it returns to whichever of its         *)
(* callers, have let go of everything: the store is closed and none of its  *)
(* connections is in use, the reader and the Registry connection are        *)
(* closed, and every caller gets the result of the one shutdown             *)
(* (conformance.go:72-73 "Resources opened before a failure are closed      *)
(* before the error is returned", 239 "Repeated calls are idempotent and    *)
(* return the result of the first shutdown").                               *)
ReturnedMeansReleased ==
  /\ built = "failed" => resources = {} /\ lock # Main
  /\ \A c \in DOMAIN callers :
       callers[c] \in {"ok", "error"} =>
         /\ resources = {} /\ using = {}
         /\ callers[c] = Outcome

AllReleased ==
  /\ run = "returned" /\ resources = {} /\ using = {}
  /\ \A g \in Goroutines : goroutines[g] \in {"off", "done"}

(* A signal ends the service: Run returns, its goroutines end and nothing   *)
(* stays open, even with an RPC whose client never finishes and errors of   *)
(* every goroutine at once; and an error of a goroutine, such as telemetry  *)
(* without WAL identity, ends Run (conformance.go:176-178,                  *)
(* docs/deployment.md:19-21).                                               *)
ServiceStops ==
  /\ (built = "serving" /\ ctxDone) ~> AllReleased
  /\ (\E g \in Goroutines : goroutines[g] = "failing") ~> (run = "returned")

(* What the comment on Close asks of its caller: "callers must stop workers *)
(* before closing the shared store" (store.go:69-70).                       *)
WorkersStopBeforeStoreCloses ==
  shutdown.stage \in {"draining", "done"} =>
    \A g \in {"publisher", "worker"} : goroutines[g] \in {"off", "done"}

=============================================================================
