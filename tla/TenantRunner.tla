---------------------------- MODULE TenantRunner ----------------------------
(***************************************************************************)
(* runner/tenants.py: one server project, which owns the broker, and one   *)
(* client project per tenant, started one after another against the        *)
(* server's published port and stopped in the reverse order.  Project 0 is *)
(* the server, a ComposeRunner; project i is tenant i of the deployment, a *)
(* plain ComposeStack whose bus is the one its TenantView holds.           *)
(***************************************************************************)
EXTENDS ComposeStack

CONSTANTS
    NTenants,           \* how many tenants the deployment has
    TenantId,           \* [1..NTenants -> Values]: their ids
    ServerEnvironment,  \* the caller's server_environment
    TenantEnvironment   \* the caller's tenant_environment, per tenant

Server == 0
Tenants == 1..NTenants

\* TenantDeployment.__post_init__ refuses fewer than two tenants, empty ids
\* and duplicate ones.
ASSUME TenantAssumption ==
    /\ NTenants \in Nat /\ NTenants >= 2
    /\ Stacks = 0..NTenants
    /\ Attached = {Server}
    /\ TenantId \in [Tenants -> Values \ {Unset, ""}]
    /\ \A t, u \in Tenants : TenantId[t] = TenantId[u] => t = u
    /\ "CLTL_CONTAINER_AMQP_URL" \in EnvVars
    /\ ServerEnvironment \in Env
    /\ TenantEnvironment \in [Tenants -> Env]

VARIABLES
    rpc,     \* where the runner is in start() or stop()
    rexc,    \* the exception its start() or stop() is raising
    cursor,  \* the tenant its current loop is at
    stacks,  \* TenantRunner._stacks
    views,   \* TenantRunner._views
    shell    \* history: os.environ as the test process found it

runnerVars == <<rpc, rexc, cursor, stacks, views, shell>>
vars == <<stackVars, runnerVars>>

RPCs == {"idle", "check", "server", "tenant", "bindings", "views", "up",
         "close", "tenants", "stop_tenant", "stop_server", "server_stop",
         "done"}

TypeOK ==
    /\ StackTypeOK
    /\ rpc \in RPCs
    /\ rexc \in FaultPoints \cup {None}
    /\ cursor \in 0..NTenants
    /\ stacks \subseteq Tenants
    /\ views \subseteq Tenants
    /\ shell \in Env

Init ==
    /\ StackInit
    /\ rpc = "idle"
    /\ rexc = None
    /\ cursor = 0
    /\ stacks = {}
    /\ views = {}
    /\ shell = environ

-----------------------------------------------------------------------------
(* start()                                                                 *)

\* The shared half is untenanted unless its caller says otherwise.
ServerEnv == SetDefault(ServerEnvironment, "CLTL_TENANT", "")

\* Mutant: the tenant's id is only a default.
TenantEnvDefaulted(t) ==
    SetDefault(SetDefault(TenantEnvironment[t],
                          "CLTL_CONTAINER_AMQP_URL", "broker"),
               "CLTL_TENANT", TenantId[t])

\* A tenant's environment is the caller's, pointed at the server's published
\* broker by default, and with the tenant's own id whatever the caller gave.
TenantEnv(t) ==
    [SetDefault(TenantEnvironment[t], "CLTL_CONTAINER_AMQP_URL", "broker")
        EXCEPT !["CLTL_TENANT"] = TenantId[t]]

\* Mutant: what fails is remembered and start() goes on.
RunnerRaiseIgnored(fault) ==
    /\ rexc' = fault
    /\ rpc' = "bindings"

\* An exception in _start(): start() calls stop() and re-raises it after.
RunnerRaise(fault) ==
    /\ rexc' = fault
    /\ rpc' = "close"

Start ==
    /\ rpc = "idle"
    /\ rpc' = "check"
    /\ UNCHANGED <<stackVars, rexc, cursor, stacks, views, shell>>

\* Both halves' images are looked for before either half is up.
CheckAllImages ==
    /\ rpc = "check"
    /\ \/ /\ CallStart(Server, ServerEnv)
          /\ rpc' = "server"
          /\ UNCHANGED rexc
       \/ /\ "images" \in Faults
          /\ RunnerRaise("images")
          /\ UNCHANGED stackVars
    /\ UNCHANGED <<cursor, stacks, views, shell>>

ServerStarted ==
    /\ rpc = "server"
    /\ \/ /\ pc[Server] = "running"
          /\ CallStart(1, TenantEnv(1))
          /\ rpc' = "tenant"
          /\ cursor' = 1
          /\ UNCHANGED rexc
       \/ /\ pc[Server] = "stopped"
          /\ RunnerRaise(exc[Server])
          /\ UNCHANGED <<stackVars, cursor>>
    /\ UNCHANGED <<stacks, views, shell>>

\* Mutant: the loop over the tenants ends one too early.
MoreTenantsShort == cursor + 1 < NTenants

\* Whether the current loop over the tenants has another one to go.
MoreTenants == cursor < NTenants

\* A stack enters _stacks only when its start() has returned.  One that has
\* raised has stopped itself and is forgotten.
TenantStarted ==
    /\ rpc = "tenant"
    /\ \/ /\ pc[cursor] = "running"
          /\ stacks' = stacks \cup {cursor}
          /\ IF MoreTenants
             THEN /\ CallStart(cursor + 1, TenantEnv(cursor + 1))
                  /\ cursor' = cursor + 1
                  /\ UNCHANGED rpc
             ELSE /\ rpc' = "bindings"
                  /\ UNCHANGED <<stackVars, cursor>>
          /\ UNCHANGED rexc
       \/ /\ pc[cursor] = "stopped"
          /\ RunnerRaise(exc[cursor])
          /\ UNCHANGED <<stackVars, cursor, stacks>>
    /\ UNCHANGED <<views, shell>>

\* Every tenant's routing keys are waited for; a timeout raises.
AwaitTenantBindings ==
    /\ rpc = "bindings"
    /\ \/ /\ rpc' = "views"
          /\ cursor' = 1
          /\ UNCHANGED rexc
       \/ /\ "bindings" \in Faults
          /\ RunnerRaise("bindings")
          /\ UNCHANGED cursor
    /\ UNCHANGED <<stackVars, stacks, views, shell>>

\* tenant_event_bus, EventProbe and TenantView for one tenant.
OpenView ==
    /\ rpc = "views"
    /\ \/ /\ bus' = [bus EXCEPT ![cursor] = "open"]
          /\ views' = views \cup {cursor}
          /\ IF MoreTenants
             THEN cursor' = cursor + 1 /\ UNCHANGED rpc
             ELSE rpc' = "up" /\ UNCHANGED cursor
          /\ UNCHANGED rexc
       \/ /\ "view" \in Faults
          /\ RunnerRaise("view")
          /\ UNCHANGED <<bus, views, cursor>>
    /\ UNCHANGED <<pc, exc, started, docker, ports, environment, spawn,
                   environ, backup, stacks, shell>>

-----------------------------------------------------------------------------
(* stop()                                                                  *)

Stop ==
    /\ rpc = "up"
    /\ rpc' = "close"
    /\ UNCHANGED <<stackVars, rexc, cursor, stacks, views, shell>>

\* Mutant: the last tenant is not part of the loop.
StopsFirstShort == NTenants - 1

\* reversed(tenants) begins with the last one.
StopsFirst == NTenants

\* TenantView.close swallows what KombuEventBus.close raises, so a bus may
\* stay open and the loop goes on.  An interrupt is not an Exception: it ends
\* the loop.  _views is emptied either way.
CloseViews ==
    /\ rpc = "close"
    /\ \E failed \in SUBSET views :
          /\ \/ /\ "close" \notin Faults => failed = {}
                /\ UNCHANGED rexc
             \/ /\ "close_interrupt" \in Faults /\ failed # {}
                /\ rexc' = "close_interrupt"
          /\ bus' = [s \in Stacks |-> IF s \in views \ failed THEN "closed"
                                                             ELSE bus[s]]
    /\ views' = {}
    /\ rpc' = "tenants"
    /\ cursor' = StopsFirst
    /\ UNCHANGED <<pc, exc, started, docker, ports, environment, spawn,
                   environ, backup, stacks, shell>>

\* The loop over reversed(tenants): a stack is popped and stopped.
StopTenant ==
    /\ rpc = "tenants"
    /\ \/ /\ cursor \in stacks
          /\ CallStop(cursor)
          /\ stacks' = stacks \ {cursor}
          /\ rpc' = "stop_tenant"
          /\ UNCHANGED cursor
       \/ /\ cursor \in Tenants \ stacks
          /\ cursor' = cursor - 1
          /\ UNCHANGED <<stackVars, stacks, rpc>>
       \/ /\ cursor = 0
          /\ stacks' = {}
          /\ rpc' = "stop_server"
          /\ UNCHANGED <<stackVars, cursor>>
    /\ UNCHANGED <<rexc, views, shell>>

\* An exception from a tenant's stop() ends the loop: its finally drops what
\* _stacks still holds and goes on to the server.
TenantStopped ==
    /\ rpc = "stop_tenant"
    /\ pc[cursor] = "stopped"
    /\ \/ /\ exc[cursor] = None
          /\ rpc' = "tenants"
          /\ cursor' = cursor - 1
          /\ UNCHANGED <<rexc, stacks>>
       \/ /\ exc[cursor] # None
          /\ rexc' = exc[cursor]
          /\ rpc' = "stop_server"
          /\ stacks' = {}
          /\ UNCHANGED cursor
    /\ UNCHANGED <<stackVars, views, shell>>

\* _server is None if the image check failed before it was constructed.  A
\* server whose start() raised is stopped a second time here.
StopServer ==
    /\ rpc = "stop_server"
    /\ \/ /\ pc[Server] = "new"
          /\ rpc' = "done"
          /\ UNCHANGED stackVars
       \/ /\ CallStop(Server)
          /\ rpc' = "server_stop"
    /\ UNCHANGED <<rexc, cursor, stacks, views, shell>>

ServerStopped ==
    /\ rpc = "server_stop"
    /\ pc[Server] = "stopped"
    /\ rpc' = "done"
    /\ rexc' = IF exc[Server] # None THEN exc[Server] ELSE rexc
    /\ UNCHANGED <<stackVars, cursor, stacks, views, shell>>

RunnerStep ==
    \/ Start \/ CheckAllImages \/ ServerStarted \/ TenantStarted
    \/ AwaitTenantBindings \/ OpenView
    \/ Stop \/ CloseViews \/ StopTenant \/ TenantStopped
    \/ StopServer \/ ServerStopped

Next ==
    \/ RunnerStep
    \/ \E s \in Stacks : StackStep(s) /\ UNCHANGED runnerVars

Spec == Init /\ [][Next]_vars

\* One thread runs all of it.  That a step that is due is eventually taken
\* assumes that each call returns: the compose commands have a timeout, the
\* look for missing images and KombuEventBus.close() have none.
FairSpec == Spec /\ WF_vars(Next)

-----------------------------------------------------------------------------
(* Properties.                                                             *)

\* start() and stop() are over, whatever happened in them.
AtRest == rpc = "done"

\* When the runner is done, no compose project has a container left
\* (ComposeStack.start and stop; README: "A tier-2 run leaves nothing
\* behind").  It needs compose commands that do what they say: see Faults.
NothingLeftBehind == AtRest => \A s \in Stacks : ~ Up(s)

\* When the runner is done, every stack whose start() it called has had its
\* stop() called or has stopped itself (TenantRunner.stop: a failure in one
\* stage "must not leave containers running").
NoStackAbandoned == AtRest => \A s \in Stacks : pc[s] \in {"new", "stopped"}

\* However start() and stop() end, os.environ is what the test process found
\* (reset_process_state, called by ComposeRunner._release).
EnvironRestored == AtRest => environ = shell

\* Containers never run under another half's tenant: neither the shell's, nor
\* the one the server's runner has written to os.environ, nor one the caller
\* put in tenant_environment; and a tenant dials this deployment's broker
\* unless its caller says otherwise (TenantRunner._start, _compose_env).
OwnTenant ==
    /\ Up(Server) /\ ServerEnvironment["CLTL_TENANT"] = Unset
          => spawn[Server]["CLTL_TENANT"] = ""
    /\ \A t \in Tenants : Up(t) =>
          /\ spawn[t]["CLTL_TENANT"] = TenantId[t]
          /\ TenantEnvironment[t]["CLTL_CONTAINER_AMQP_URL"] = Unset
                => spawn[t]["CLTL_CONTAINER_AMQP_URL"] = "broker"

\* From the moment a stack is running, the ports it answers url() with are the
\* ones its containers publish now, the recreated chat UI's included
\* (_publish_monitoring_url, _discover_ports).
PortsCurrent == \A s \in Stacks : pc[s] = "running" => ports[s] = docker[s]

\* start() returns only when every project is up and every tenant has its own
\* bus on a broker that is running.
UpMeansUp ==
    rpc = "up" =>
        /\ \A s \in Stacks :
              /\ pc[s] = "running"
              /\ bus[s] = "open"
              /\ \A c \in ServicesOf(s) : docker[s][c] > 0
        /\ stacks = Tenants /\ views = Tenants

\* The runner keeps the promise of BrokerLease: the broker is up before any
\* tenant or any bus, and goes down after all of them.
Users == [kind : {"stack"}, of : Tenants] \cup [kind : {"bus"}, of : Stacks]
UsersNow ==
    {u \in Users : IF u.kind = "stack" THEN Up(u.of) ELSE bus[u.of] = "open"}

Lease == INSTANCE BrokerLease WITH broker <- BrokerUp(Server),
                                   users <- UsersNow
LeaseKept == Lease!Spec

\* It does what RunnerContract says of a runner, with its projects as the
\* parts: whatever fails, no project is started after a failure or after
\* stop() was called, none is lost in start(), and start() returns with all.
Begins(s) == pc[s] \notin Stopping
Phase ==
    IF rpc = "idle" THEN "new"
    ELSE IF \/ rpc \in {"check", "bindings", "views"}
            \/ rpc = "server" /\ Begins(Server)
            \/ rpc = "tenant" /\ Begins(cursor) THEN "starting"
    ELSE IF rpc = "up" THEN "up"
    ELSE IF rpc = "done" THEN "stopped" ELSE "ending"

Contract == INSTANCE RunnerContract WITH
              Parts <- {s \in Stacks : ServicesOf(s) # {}},
              phase <- Phase,
              parts <- {s \in Stacks : Up(s)}
ContractKept == Contract!Spec

\* A broker that was brought up is taken down again.
BrokerComesDown == BrokerUp(Server) ~> ~ BrokerUp(Server)

-----------------------------------------------------------------------------
(* Why they hold, as invariants every step preserves (TenantRunner_proof). *)

\* The loops over the tenants only ever stand at a tenant.
TypeInv ==
    /\ TypeOK
    /\ rpc \in {"tenant", "views", "stop_tenant"} => cursor \in Tenants

\* Once the server's runner has been called, its backup is the environment
\* the process found, and while the server is stopped that one is in force.
EnvironInv ==
    /\ pc[Server] \in {"new", "stopped"} => environ = shell
    /\ pc[Server] # "new" => backup[Server] = shell
    /\ rpc = "done" => pc[Server] \in {"new", "stopped"}

\* At most one project is in the middle of anything, the one the runner waits
\* for, and that is in its stop() when its stop() was called.
TurnInv ==
    /\ pc[Server] \in Busy => rpc \in {"server", "server_stop"}
    /\ \A t \in Tenants :
          pc[t] \in Busy => rpc \in {"tenant", "stop_tenant"} /\ t = cursor
    /\ rpc = "server_stop" => pc[Server] \in Stopping
    /\ rpc = "stop_tenant" => pc[cursor] \in Stopping

\* A tenant is either in _stacks, at rest, or the one the loop is at; and
\* the loop over reversed(tenants) leaves none of _stacks behind it.  Needs
\* a stop() that does not raise.
LoopInv ==
    /\ \A t \in Tenants :
          /\ pc[t] = "running" => t \in stacks \/ (rpc = "tenant" /\ t = cursor)
          /\ pc[t] \in Busy => rpc \in {"tenant", "stop_tenant"} /\ t = cursor
    /\ rpc \in {"tenants", "stop_tenant"} => \A t \in stacks : t <= cursor
    /\ rpc = "stop_tenant" => /\ cursor \notin stacks
                              /\ pc[cursor] \in Stopping
                              /\ exc[cursor] = None
    /\ rpc \in {"stop_server", "server_stop", "done"} => stacks = {}

\* A project that was started was started with the environment stated for it.
EnvironmentInv ==
    /\ pc[Server] # "new" => environment[Server] = ServerEnv
    /\ \A t \in Tenants : pc[t] # "new" => environment[t] = TenantEnv(t)

\* What start() has reached: the server runs under everything else, then the
\* tenants up to the one the loop is at, then the views up to that one.
ReachedInv ==
    /\ rpc \in {"tenant", "bindings", "views", "up"} => pc[Server] = "running"
    /\ rpc = "tenant" =>
          \A t \in Tenants : t < cursor => pc[t] = "running" /\ t \in stacks
    /\ rpc \in {"bindings", "views", "up"} =>
          \A t \in Tenants : pc[t] = "running" /\ t \in stacks
    /\ rpc = "views" =>
          \A t \in Tenants : t < cursor => bus[t] = "open" /\ t \in views
    /\ rpc = "up" => \A t \in Tenants : bus[t] = "open" /\ t \in views

\* The server is busy only while the runner waits for it, before any tenant
\* or after all of them; and a tenant's bus is open only while its view is in
\* _views, which stop() empties first.
LeaseInv ==
    /\ pc[Server] \in Busy => rpc \in {"server", "server_stop"}
    /\ rpc \in {"idle", "check", "server"} =>
          views = {} /\ \A t \in Tenants : pc[t] = "new"
    /\ \A t \in Tenants : bus[t] = "open" => t \in views
    /\ rpc \in {"tenants", "stop_tenant", "stop_server", "server_stop", "done"}
          => views = {}

=============================================================================
