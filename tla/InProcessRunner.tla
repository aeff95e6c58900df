-------------------------- MODULE InProcessRunner ---------------------------
(***************************************************************************)
(* runner/inprocess.py: topologies that run in the test process itself,    *)
(* one after another, and the process-global state they go through:        *)
(* os.environ, the DI registry, the loaded configuration and the one HTTP  *)
(* port.  A runner that is stopped may be stopped again: the `inprocess`   *)
(* fixture stops every runner it has constructed, also one whose start()   *)
(* has raised and has stopped itself.                                      *)
(*                                                                         *)
(* One thread runs all of it, so a step ends where it can fail.            *)
(***************************************************************************)
CONSTANTS
    Runners,  \* the runners the process constructs
    Routed,   \* the ones whose topology serves HTTP
    Stray,    \* services of containers a test has built by hand
    Free,     \* nobody
    Faults    \* the failures this model admits

FaultPoints == {"prepare", "serve", "serve_thread", "workers", "some_workers",
                "probe", "stop", "shutdown"}

ASSUME InProcessAssumption ==
    /\ Routed \subseteq Runners
    /\ Stray \notin Runners /\ Free \notin Runners
    /\ Faults \subseteq FaultPoints

VARIABLES
    pc,        \* where each runner is in start() or stop()
    failed,    \* history: what has raised in it; see Stop
    started,   \* _started
    server,    \* _server is not None
    serving,   \* the runners whose server thread is in serve_forever()
    backup,    \* _environ_backup
    environ,   \* the runners whose variables are in os.environ
    registry,  \* whose services DIContainer._singletons holds
    config,    \* whose configuration is loaded
    port,      \* who listens on the port
    workers    \* the runners whose workers are running

vars == <<pc, failed, started, server, serving, backup, environ, registry,
          config, port, workers>>

PCs == {"new", "prepare", "serve", "workers", "running", "stop_workers",
        "shutdown", "clear", "stopped"}

TypeOK ==
    /\ pc \in [Runners -> PCs]
    /\ failed \in [Runners -> SUBSET FaultPoints]
    /\ started \subseteq Runners
    /\ server \subseteq Runners
    /\ serving \subseteq Runners
    /\ backup \in [Runners -> SUBSET Runners]
    /\ environ \subseteq Runners
    /\ registry \subseteq Runners \cup {Stray}
    /\ config \in Runners \cup {Free}
    /\ port \in Runners \cup {Free}
    /\ workers \subseteq Runners

Init ==
    /\ pc = [r \in Runners |-> "new"]
    /\ failed = [r \in Runners |-> {}]
    /\ started = {} /\ server = {} /\ serving = {}
    /\ backup = [r \in Runners |-> {}]
    /\ environ = {}
    /\ registry \in {{}, {Stray}}
    /\ config = Free
    /\ port = Free
    /\ workers = {}

OthersRest(r) == \A q \in Runners \ {r} : pc[q] \in {"new", "stopped"}

Goto(r, step) == pc' = [pc EXCEPT ![r] = step]

Fail(r, fault) == failed' = [failed EXCEPT ![r] = @ \cup {fault}]

-----------------------------------------------------------------------------
(* start()                                                                 *)

Start(r) ==
    /\ pc[r] = "new"
    /\ OthersRest(r)
    /\ Goto(r, "prepare")
    /\ backup' = [backup EXCEPT ![r] = environ]
    /\ UNCHANGED <<failed, started, server, serving, environ, registry, config,
                   port, workers>>

\* Mutant: a start() that has failed is begun again.
StopEntryRetries(r) == IF r \in started THEN "stop_workers" ELSE "prepare"

\* Mutant: the container is stopped only after the server.
StopEntryServerFirst(r) == "shutdown"

\* The first thing stop() does: Container.stop() assumes running services, so
\* it is called only when _started says there are any.
StopEntry(r) == IF r \in started THEN "stop_workers" ELSE "shutdown"

\* An exception in _start(): start() calls stop() and re-raises it after.
Raise(r, fault) ==
    /\ fault \in Faults
    /\ Fail(r, fault)
    /\ Goto(r, StopEntry(r))

\* Mutant: the registry is not reset before the container is built.
ResetBeforeForgotten == registry

\* DIContainer._reset, at the start of _start.
ResetBefore == {}

\* The registry is reset, os.environ rewritten, the configuration loaded and
\* the container constructed; any of it may fail.
Prepare(r) ==
    /\ pc[r] = "prepare"
    /\ registry' = ResetBefore
    /\ \/ /\ environ' = environ \cup {r}
          /\ config' = r
          /\ Goto(r, "serve")
          /\ UNCHANGED failed
       \/ /\ Raise(r, "prepare")
          /\ environ' \in {environ, environ \cup {r}}
          /\ config' \in {config, r}
    /\ UNCHANGED <<started, server, serving, backup, port, workers>>

\* _serve looks the mounted services up, which constructs them, and listens if
\* there are any.  A port somebody listens on cannot be bound; and the socket
\* listens, and _server is set, before the thread that serves is started.
Serve(r) ==
    /\ pc[r] = "serve"
    /\ registry' = registry \cup {r}
    /\ \/ /\ r \in Routed
          /\ port = Free
          /\ port' = r
          /\ server' = server \cup {r}
          /\ \/ /\ serving' = serving \cup {r}
                /\ Goto(r, "workers")
                /\ UNCHANGED failed
             \/ /\ Raise(r, "serve_thread")
                /\ UNCHANGED serving
       \/ /\ r \notin Routed
          /\ Goto(r, "workers")
          /\ UNCHANGED <<port, server, serving, failed>>
       \/ /\ Raise(r, "serve")
          /\ UNCHANGED <<port, server, serving>>
       \/ /\ r \in Routed
          /\ port # Free
          /\ Fail(r, "serve")
          /\ Goto(r, StopEntry(r))
          /\ UNCHANGED <<port, server, serving>>
    /\ UNCHANGED <<started, backup, environ, config, workers>>

\* The container's start() starts the workers of one service after another; it
\* may raise before the first or after some of them.  The probe is built after
\* _started is set: what fails there is stopped with the container.
StartWorkers(r) ==
    /\ pc[r] = "workers"
    /\ registry' = registry \cup {r}
    /\ \/ /\ workers' = workers \cup {r}
          /\ started' = started \cup {r}
          /\ \/ /\ Goto(r, "running")
                /\ UNCHANGED failed
             \/ /\ "probe" \in Faults
                /\ Fail(r, "probe")
                /\ Goto(r, "stop_workers")
       \/ /\ Raise(r, "workers")
          /\ UNCHANGED <<workers, started>>
       \/ /\ Raise(r, "some_workers")
          /\ workers' = workers \cup {r}
          /\ UNCHANGED started
    /\ UNCHANGED <<server, serving, backup, environ, config, port>>

-----------------------------------------------------------------------------
(* stop(): each step is in the finally of the one before it.               *)

\* A new attempt: that closing the server failed in the last is forgotten.
Stop(r) ==
    /\ pc[r] \in {"running", "stopped"}
    /\ OthersRest(r)
    /\ Goto(r, StopEntry(r))
    /\ failed' = [failed EXCEPT ![r] = @ \ {"shutdown"}]
    /\ UNCHANGED <<started, server, serving, backup, environ, registry, config,
                   port, workers>>

StopWorkers(r) ==
    /\ pc[r] = "stop_workers"
    /\ Goto(r, "shutdown")
    /\ \/ /\ workers' = workers \ {r}
          /\ UNCHANGED failed
       \/ /\ "stop" \in Faults
          /\ Fail(r, "stop")
          /\ UNCHANGED workers
    /\ UNCHANGED <<started, server, serving, backup, environ, registry, config,
                   port>>

\* Mutant: _server is forgotten also when closing it has failed.
UnclosedForgotten(r) == server \ {r}

\* _server after shutdown() or server_close() has raised: the assignment that
\* clears it is not reached, so that the next stop() tries again.
Unclosed(r) == server

\* shutdown() waits for the end of serve_forever(): with a server that has no
\* thread it does not return.
ShutdownServer(r) ==
    /\ pc[r] = "shutdown"
    /\ Goto(r, "clear")
    /\ \/ /\ r \in server /\ r \in serving
          /\ server' = server \ {r}
          /\ serving' = serving \ {r}
          /\ port' = Free
          /\ UNCHANGED failed
       \/ /\ r \notin server
          /\ UNCHANGED <<server, serving, port, failed>>
       \/ /\ r \in server /\ "shutdown" \in Faults
          /\ Fail(r, "shutdown")
          /\ server' = Unclosed(r)
          /\ UNCHANGED <<serving, port>>
    /\ UNCHANGED <<started, backup, environ, registry, config,
                   workers>>

\* Mutant: the environment is restored only after a start() that succeeded.
RestoredUnlessFailed(r) == IF failed[r] # {} THEN environ ELSE backup[r]

\* os.environ after reset_process_state(_environ_backup).
Restored(r) == backup[r]

Clear(r) ==
    /\ pc[r] = "clear"
    /\ Goto(r, "stopped")
    /\ started' = started \ {r}
    /\ registry' = {}
    /\ environ' = Restored(r)
    /\ UNCHANGED <<failed, server, serving, backup, config, port, workers>>

RunnerStep(r) ==
    \/ Prepare(r) \/ Serve(r) \/ StartWorkers(r)
    \/ StopWorkers(r) \/ ShutdownServer(r) \/ Clear(r)

Next == \E r \in Runners : Start(r) \/ Stop(r) \/ RunnerStep(r)

Spec == Init /\ [][Next]_vars

-----------------------------------------------------------------------------
(* Properties.                                                             *)

\* Between two topologies, the last of them stopped.
Between ==
    /\ \A r \in Runners : pc[r] \in {"new", "stopped"}
    /\ \E r \in Runners : pc[r] = "stopped"

\* Whatever fails, no topology's variables and no topology's services are left
\* for the next one (reset_process_state: "one topology leaks into the next
\* topology's *interpolation* unless the environment is restored").
GlobalsRestored == Between => environ = {} /\ registry = {}

\* A topology that is up, or on its way, finds its own configuration, its own
\* services and its own variables, whatever ran before it.
OwnGlobals ==
    \A r \in Runners :
        pc[r] \in {"serve", "workers", "running", "stop_workers"} =>
            config = r /\ registry \subseteq {r} /\ environ = {r}

\* What nothing in the runner can undo: workers that a failed container.start()
\* has left, or that container.stop() did not stop.
LeftWorkers(r) == failed[r] \cap {"some_workers", "stop"} # {}

\* Workers only run while the endpoint they fetch from is up (_start: "the
\* storage endpoint must be live before any event can reach them"; stop: the
\* server goes after the container).
EndpointUnderWorkers ==
    \A r \in workers \cap Routed : ~ LeftWorkers(r) => port = r

\* A runner that is stopped holds no workers unless that has failed, and not
\* the port unless closing it failed in the last stop(), however far its
\* start() had come: a stop() that follows a failed one makes up for it (stop,
\* _shutdown_server).
StoppedHoldsNothing ==
    \A r \in Runners : pc[r] = "stopped" =>
        /\ ~ LeftWorkers(r) => r \notin workers
        /\ "shutdown" \notin failed[r] => port # r

\* Every runner does what RunnerContract says of one, with the endpoint and
\* the workers as the parts: whatever fails, neither comes up after a failure
\* or in a stop(), however often it is stopped, and start() returns with both.
PhaseOf(step) ==
    IF step \in {"prepare", "serve", "workers"} THEN "starting"
    ELSE IF step = "running" THEN "up"
    ELSE IF step \in {"new", "stopped"} THEN step ELSE "ending"

Contract(r) == INSTANCE RunnerContract WITH
                 Parts <- {"workers"} \cup
                              (IF r \in Routed THEN {"endpoint"} ELSE {}),
                 phase <- PhaseOf(pc[r]),
                 parts <- (IF r \in workers THEN {"workers"} ELSE {}) \cup
                              (IF port = r THEN {"endpoint"} ELSE {})
ContractKept ==
    /\ \A r \in Runners : Contract(r)!Init
    /\ [][\A r \in Runners :
             Contract(r)!Next \/ UNCHANGED Contract(r)!vars]_vars

-----------------------------------------------------------------------------
(* Why these hold whatever fails, as invariants every step preserves.      *)

\* At most one runner is active; every backup that was taken is the
\* environment the process had; and with no runner active that one is in
\* force and nothing is registered.
GlobalsInv ==
    /\ \A r \in Runners : pc[r] \notin {"new", "stopped"} => OthersRest(r)
    /\ \A r \in Runners : backup[r] = {}
    /\ (\A r \in Runners : pc[r] \in {"new", "stopped"}) => environ = {}
    /\ Between => registry = {}

\* An active runner begins in a clean environment, and counts as started only
\* in the steps that follow its workers' start.
OwnInv ==
    /\ GlobalsInv
    /\ OwnGlobals
    /\ \A r \in Runners : pc[r] = "prepare" => environ = {}
    /\ \A r \in started :
          pc[r] \in {"running", "stop_workers", "shutdown", "clear"}

\* The port is held by the runner whose _server is set; a runner that is past
\* closing it holds it only because the closing failed; and workers run only
\* from the end of start() to the first step of stop().
HoldsInv ==
    \A r \in Runners :
        /\ r \in server <=> port = r
        /\ port = r => \/ pc[r] \in {"workers", "running", "stop_workers",
                                      "shutdown"}
                       \/ pc[r] \in {"clear", "stopped"} /\ "shutdown" \in failed[r]
        /\ pc[r] \in {"workers", "running", "stop_workers"} /\ r \in Routed
              => port = r
        /\ pc[r] = "running" => r \in started
        /\ r \in workers /\ ~ LeftWorkers(r)
              => pc[r] \in {"running", "stop_workers"}

=============================================================================
