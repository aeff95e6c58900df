---------------------------- MODULE ComposeStack ----------------------------
(***************************************************************************)
(* One compose project per element of Stacks, as runner/compose.py brings  *)
(* it up and takes it down again: ComposeStack for every element, and      *)
(* ComposeRunner -- a stack the test process also attaches to -- for the   *)
(* elements of Attached.  The module has no specification of its own: a    *)
(* runner (TenantRunner, SplitRunner) calls start() and stop() and         *)
(* conjoins these steps to its own.                                        *)
(*                                                                         *)
(* A step that can fail has one disjunct per outcome.  Which failures a    *)
(* model admits is the constant Faults, so that a run can ask what holds   *)
(* with and without a given one.                                           *)
(***************************************************************************)
EXTENDS Integers

CONSTANTS
    Stacks,     \* the compose projects of the deployment
    Attached,   \* the ones started through ComposeRunner
    Services,   \* compose service names, with the three named below
    Modules,    \* [Stacks -> SUBSET Services]: the modules of each topology
    EnvVars,    \* the environment variables the model tells apart
    Values,     \* and what they can hold
    Unset,      \* a variable that is not in the environment
    Shells,     \* the environments the test process may be started in
    Faults      \* the failures this model admits

FaultPoints == {"images", "up", "ports", "monitor", "attach",
                "interrupt", "close", "close_interrupt",
                "down", "down_exit", "bindings", "view"}

ASSUME StackAssumption ==
    /\ Attached \subseteq Stacks
    /\ {"rabbitmq", "chatui", "monitoring"} \subseteq Services
    /\ Modules \in [Stacks -> SUBSET (Services \ {"rabbitmq"})]
    /\ {"CLTL_TENANT", "CLTL_AMQP_URL"} \subseteq EnvVars
    /\ {Unset, "", "broker"} \subseteq Values
    /\ Unset \notin {"", "broker"}
    /\ Unset \notin [EnvVars -> Values]
    /\ Shells \subseteq [EnvVars -> Values]
    /\ Faults \subseteq FaultPoints

VARIABLES
    pc,          \* where each stack is in start() or stop()
    exc,         \* the exception its last start() or stop() is raising
    started,     \* ComposeStack._started
    docker,      \* what Docker runs: 0, or the generation of the container
    ports,       \* ComposeStack._ports: the generation last read
    environment, \* ComposeStack._environment
    spawn,       \* the environment the containers were last created with
    bus,         \* the event bus this process opened on behalf of the stack
    environ,     \* os.environ of the test process
    backup       \* ComposeRunner._environ_backup, Unset before start()

stackVars == <<pc, exc, started, docker, ports, environment, spawn, bus,
               environ, backup>>

Env == [EnvVars -> Values]
NoEnv == [v \in EnvVars |-> Unset]
None == "none"

\* dict.update and dict.setdefault on environments.
Update(env, with) ==
    [v \in EnvVars |-> IF with[v] = Unset THEN env[v] ELSE with[v]]
SetDefault(env, var, value) ==
    IF env[var] = Unset THEN [env EXCEPT ![var] = value] ELSE env

ServicesOf(s) == Modules[s] \cup (IF s \in Attached THEN {"rabbitmq"} ELSE {})
\* What a project has: per service no container, the first, or the recreated.
Containers == [Services -> 0..2]
Nothing == [c \in Services |-> 0]
\* Docker after `up` has created some containers, `up` has
\* recreated the chat UI, or `down` has left some of them.
Created(some) == [c \in Services |-> IF c \in some THEN 1 ELSE 0]
Recreated(s, generation) == [docker[s] EXCEPT !["chatui"] = generation]
Left(s, some) == [c \in Services |-> IF c \in some THEN docker[s][c] ELSE 0]
Up(s) == \E c \in Services : docker[s][c] > 0
BrokerUp(s) == docker[s]["rabbitmq"] > 0
RepublishesChatUI(s) == {"chatui", "monitoring"} \subseteq Modules[s]

PCs == {"new", "images", "up", "ports", "monitor", "attach", "running",
        "logs", "detach", "down", "release", "stopped"}

StackTypeOK ==
    /\ pc \in [Stacks -> PCs]
    /\ exc \in [Stacks -> FaultPoints \cup {None}]
    /\ started \in [Stacks -> BOOLEAN]
    /\ docker \in [Stacks -> Containers]
    /\ ports \in [Stacks -> Containers]
    /\ environment \in [Stacks -> Env]
    /\ spawn \in [Stacks -> Env]
    /\ bus \in [Stacks -> {"none", "open", "closed"}]
    /\ environ \in Env
    /\ backup \in [Stacks -> Env \cup {Unset}]

StackInit ==
    /\ pc = [s \in Stacks |-> "new"]
    /\ exc = [s \in Stacks |-> None]
    /\ started = [s \in Stacks |-> FALSE]
    /\ docker = [s \in Stacks |-> Nothing]
    /\ ports = [s \in Stacks |-> Nothing]
    /\ environment = [s \in Stacks |-> NoEnv]
    /\ spawn = [s \in Stacks |-> NoEnv]
    /\ bus = [s \in Stacks |-> "none"]
    /\ environ \in Shells
    /\ backup = [s \in Stacks |-> Unset]

-----------------------------------------------------------------------------
(* Calls, made by the runner that owns the stack.                          *)

\* Constructing the stack with its environment and calling start();
\* ComposeRunner.start() first remembers os.environ.
CallStart(s, env) ==
    /\ pc[s] = "new"
    /\ pc' = [pc EXCEPT ![s] = "images"]
    /\ environment' = [environment EXCEPT ![s] = env]
    /\ backup' = IF s \in Attached THEN [backup EXCEPT ![s] = environ]
                                   ELSE backup
    /\ UNCHANGED <<exc, started, docker, ports, spawn, bus, environ>>

\* Mutant: stop() tears the stack down without _detach().
StopEntrySkipsDetach(s) == IF started[s] THEN "down" ELSE "release"

\* Mutant: stop() forgets `compose down`.
StopEntrySkipsDown(s) == "release"

\* The first statement of stop(): the logs are captured only if _started.
StopEntry(s) == IF started[s] THEN "logs" ELSE "detach"

\* stop() from outside.  It may follow a start() that already called it.
CallStop(s) ==
    /\ pc[s] \in {"running", "stopped"}
    /\ pc' = [pc EXCEPT ![s] = StopEntry(s)]
    /\ exc' = [exc EXCEPT ![s] = None]
    /\ UNCHANGED <<started, docker, ports, environment, spawn, bus, environ,
                   backup>>

\* An exception in _start(): start() calls stop() and re-raises it after.
Raise(s, fault) ==
    /\ fault \in Faults
    /\ exc' = [exc EXCEPT ![s] = fault]
    /\ pc' = [pc EXCEPT ![s] = StopEntry(s)]

-----------------------------------------------------------------------------
(* start()                                                                 *)

\* missing_images, then the config and storage directories.
CheckImages(s) ==
    /\ pc[s] = "images"
    /\ \/ /\ pc' = [pc EXCEPT ![s] = "up"]
          /\ UNCHANGED exc
       \/ Raise(s, "images")
    /\ UNCHANGED <<started, docker, ports, environment, spawn, bus, environ,
                   backup>>

\* The environment of the compose command: a copy of os.environ in which the
\* tenant is blanked, with the stack's own variables on top.
ComposeEnv(s) ==
    Update([environ EXCEPT !["CLTL_TENANT"] = ""], environment[s])

\* `compose up -d --wait`.  It fails after it has created any subset of the
\* containers, and _started is assigned only once it has succeeded.
ComposeUp(s) ==
    /\ pc[s] = "up"
    /\ spawn' = [spawn EXCEPT ![s] = ComposeEnv(s)]
    /\ \/ /\ docker' = [docker EXCEPT ![s] = Created(ServicesOf(s))]
          /\ started' = [started EXCEPT ![s] = TRUE]
          /\ pc' = [pc EXCEPT ![s] = "ports"]
          /\ UNCHANGED exc
       \/ /\ Raise(s, "up")
          /\ \E some \in SUBSET ServicesOf(s) :
                docker' = [docker EXCEPT ![s] = Created(some)]
          /\ UNCHANGED started
    /\ UNCHANGED <<ports, environment, bus, environ, backup>>

\* Mutant: the ports are those of before the containers changed.
ReadPortsStale(s) == ports' = [ports EXCEPT ![s] = docker[s]]

\* One `compose port` per service, all of them answered.
ReadPorts(s) == ports' = [ports EXCEPT ![s] = docker'[s]]

PartlyRead(s, some) ==
    [c \in Services |-> IF c \in some THEN docker[s][c] ELSE ports[s][c]]

\* The same after the chat UI has been recreated.
PartlyReread(s, some) ==
    [c \in Services |-> IF c \in some THEN Recreated(s, 2)[c] ELSE ports[s][c]]

\* _discover_ports: a failure leaves some of them unread.
DiscoverPorts(s) ==
    /\ pc[s] = "ports"
    /\ UNCHANGED docker
    /\ \/ /\ ReadPorts(s)
          /\ pc' = [pc EXCEPT ![s] = "monitor"]
          /\ UNCHANGED exc
       \/ /\ Raise(s, "ports")
          /\ \E some \in SUBSET ServicesOf(s) :
                ports' = [ports EXCEPT ![s] = PartlyRead(s, some)]
    /\ UNCHANGED <<started, environment, spawn, bus, environ, backup>>

\* A topology with both chatui and monitoring has its chatui recreated, which
\* publishes a new port, and all ports are read again: either may fail.
PublishMonitoringUrl(s) ==
    /\ pc[s] = "monitor"
    /\ \/ /\ ~ RepublishesChatUI(s)
          /\ pc' = [pc EXCEPT ![s] = "attach"]
          /\ UNCHANGED <<exc, docker, ports>>
       \/ /\ RepublishesChatUI(s)
          /\ docker' = [docker EXCEPT ![s] = Recreated(s, 2)]
          /\ ReadPorts(s)
          /\ pc' = [pc EXCEPT ![s] = "attach"]
          /\ UNCHANGED exc
       \/ /\ RepublishesChatUI(s)
          /\ Raise(s, "monitor")
          /\ \E generation \in 0..2 :
                docker' = [docker EXCEPT ![s] = Recreated(s, generation)]
          /\ UNCHANGED ports
       \/ /\ RepublishesChatUI(s)
          /\ Raise(s, "ports")
          /\ docker' = [docker EXCEPT ![s] = Recreated(s, 2)]
          /\ \E some \in SUBSET ServicesOf(s) :
                ports' = [ports EXCEPT ![s] = PartlyReread(s, some)]
    /\ UNCHANGED <<started, environment, spawn, bus, environ, backup>>

\* What ComposeRunner._attach leaves in os.environ.
AttachEnv(s) ==
    Update([environ EXCEPT !["CLTL_AMQP_URL"] = "broker",
                           !["CLTL_TENANT"] = ""], environment[s])

\* A plain stack has nothing to do.  A runner rewrites os.environ, loads the
\* configuration, and opens the probe's bus on the broker it started.
Attach(s) ==
    /\ pc[s] = "attach"
    /\ \/ /\ s \notin Attached
          /\ pc' = [pc EXCEPT ![s] = "running"]
          /\ UNCHANGED <<exc, bus, environ>>
       \/ /\ s \in Attached
          /\ environ' = AttachEnv(s)
          /\ \/ /\ bus' = [bus EXCEPT ![s] = "open"]
                /\ pc' = [pc EXCEPT ![s] = "running"]
                /\ UNCHANGED exc
             \/ /\ Raise(s, "attach")
                /\ UNCHANGED bus
    /\ UNCHANGED <<started, docker, ports, environment, spawn, backup>>

-----------------------------------------------------------------------------
(* stop(): each step runs in the finally of the one before it.             *)

\* Docker's log output; only an interrupt gets past its except clause.
CaptureLogs(s) ==
    /\ pc[s] = "logs"
    /\ pc' = [pc EXCEPT ![s] = "detach"]
    /\ \/ UNCHANGED exc
       \/ /\ "interrupt" \in Faults
          /\ exc' = [exc EXCEPT ![s] = "interrupt"]
    /\ UNCHANGED <<started, docker, ports, environment, spawn, bus, environ,
                   backup>>

\* The runner closes the probe's bus.  An exception in close() is logged and
\* swallowed; an interrupt is not an Exception: it leaves the bus open and goes
\* on to `compose down`.  A plain stack owns no bus.
Detach(s) ==
    /\ pc[s] = "detach"
    /\ pc' = [pc EXCEPT ![s] = IF started[s] THEN "down" ELSE "release"]
    /\ \/ /\ bus' = IF s \in Attached /\ bus[s] = "open"
                    THEN [bus EXCEPT ![s] = "closed"] ELSE bus
          /\ UNCHANGED exc
       \/ /\ "close" \in Faults
          /\ UNCHANGED <<exc, bus>>
       \/ /\ "close_interrupt" \in Faults
          /\ s \in Attached /\ bus[s] = "open"
          /\ exc' = [exc EXCEPT ![s] = "close_interrupt"]
          /\ UNCHANGED bus
    /\ UNCHANGED <<started, docker, ports, environment, spawn, environ,
                   backup>>

\* `compose down -v`: check=False ignores a non-zero exit, a timeout raises.
\* Either may leave any of the containers.
ComposeDown(s) ==
    /\ pc[s] = "down"
    /\ pc' = [pc EXCEPT ![s] = "release"]
    /\ \/ /\ docker' = [docker EXCEPT ![s] = Nothing]
          /\ UNCHANGED exc
       \/ /\ \E some \in SUBSET ServicesOf(s) :
                docker' = [docker EXCEPT ![s] = Left(s, some)]
          /\ \/ /\ "down" \in Faults
                /\ exc' = [exc EXCEPT ![s] = "down"]
             \/ /\ "down_exit" \in Faults
                /\ UNCHANGED exc
    /\ UNCHANGED <<started, ports, environment, spawn, bus, environ, backup>>

\* Mutant: every stack restores a backup, also one that never took any.
RestoredUnguarded(s) == backup[s]

\* Mutant: nothing is restored while an exception is being raised.
RestoredUnlessRaising(s) ==
    IF s \in Attached /\ exc[s] = None THEN backup[s] ELSE environ

\* reset_process_state(backup): os.environ after a runner's _release.
Restored(s) ==
    IF s \in Attached /\ backup[s] # Unset THEN backup[s] ELSE environ

\* _started is cleared whatever happened, and a runner restores os.environ.
Release(s) ==
    /\ pc[s] = "release"
    /\ pc' = [pc EXCEPT ![s] = "stopped"]
    /\ started' = [started EXCEPT ![s] = FALSE]
    /\ environ' = Restored(s)
    /\ UNCHANGED <<exc, docker, ports, environment, spawn, bus, backup>>

StackStep(s) ==
    \/ CheckImages(s) \/ ComposeUp(s) \/ DiscoverPorts(s)
    \/ PublishMonitoringUrl(s) \/ Attach(s)
    \/ CaptureLogs(s) \/ Detach(s) \/ ComposeDown(s) \/ Release(s)

-----------------------------------------------------------------------------
(* Invariants of these steps that no runner's own step disturbs.           *)

\* In the middle of start() or stop(), and past the beginning of stop().
Busy == PCs \ {"new", "running", "stopped"}
Stopping == {"logs", "detach", "down", "release", "stopped"}

\* A project has containers only between its `compose up` and the `compose
\* down` that _started makes stop() run.  It needs compose commands that do
\* what they say: see ComposeUp and ComposeDown.
ContainersInv ==
    \A s \in Stacks :
        /\ pc[s] \in {"new", "images", "up", "stopped"} => ~ started[s]
        /\ pc[s] \in {"ports", "monitor", "attach", "running", "logs", "down"}
              => started[s]
        /\ (pc[s] \in {"release", "stopped"} \/ ~ started[s]) => ~ Up(s)

\* A stack that has read its ports has not touched a container since.
PortsInv ==
    \A s \in Stacks :
        pc[s] \in {"monitor", "attach", "running"} => ports[s] = docker[s]

\* No container is created before `compose up`, and none outside the
\* environment of its own stack, with the tenant blanked unless stated.
SpawnedAsStated(s) ==
    /\ \A v \in EnvVars :
          environment[s][v] # Unset => spawn[s][v] = environment[s][v]
    /\ environment[s]["CLTL_TENANT"] = Unset => spawn[s]["CLTL_TENANT"] = ""

SpawnInv ==
    \A s \in Stacks :
        /\ pc[s] \in {"new", "images", "up"} => ~ Up(s)
        /\ Up(s) \/ pc[s] \in {"ports", "monitor"} => SpawnedAsStated(s)

\* Once `compose up` has succeeded, every service of a stack has a container
\* until its stop(); and a runner's own stack runs only with a bus.
RunningInv ==
    \A s \in Stacks :
        /\ pc[s] \in {"ports", "monitor", "attach", "running"}
              => \A c \in ServicesOf(s) : docker[s][c] > 0
        /\ pc[s] = "running" /\ s \in Attached => bus[s] = "open"

\* A project has containers of the services it was written with only.
ServicesInv ==
    \A s \in Stacks : \A c \in Services : docker[s][c] > 0 => c \in ServicesOf(s)

\* A runner's bus is open only from _attach to _detach.  Needs a close() that
\* closes.
BusInv ==
    \A s \in Attached : bus[s] = "open" => pc[s] \in {"running", "logs", "detach"}

=============================================================================
