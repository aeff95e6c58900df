---------------------------- MODULE SplitRunner -----------------------------
(***************************************************************************)
(* runner/split.py: a deployment as two compose projects.  The server half *)
(* is a ComposeRunner, which owns the broker and rewrites os.environ; the  *)
(* client half is a plain ComposeStack that dials the server's published   *)
(* ports.  Unlike TenantRunner, the client is remembered before its        *)
(* start() is called, and each half's stop() has its own finally.          *)
(***************************************************************************)
EXTENDS ComposeStack

CONSTANTS
    ServerEnvironment,  \* the caller's server_environment
    ClientEnvironment   \* the caller's client_environment

Halves == {"server", "client"}

ASSUME SplitAssumption ==
    /\ Stacks = Halves
    /\ Attached = {"server"}
    /\ {"CLTL_BACKEND_MAIN", "CLTL_CONTAINER_AMQP_URL"} \subseteq EnvVars
    /\ {"storage_main", "main"} \subseteq Values \ {Unset}
    /\ ServerEnvironment \in Env
    /\ ClientEnvironment \in Env

VARIABLES
    rpc,    \* where the runner is in start() or stop()
    rexc,   \* the exception its start() or stop() is raising
    shell   \* history: os.environ as the test process found it

runnerVars == <<rpc, rexc, shell>>
vars == <<stackVars, runnerVars>>

RPCs == {"idle", "check", "server", "client", "up",
         "stop_first", "first_stopping", "stop_second", "second_stopping",
         "done"}

TypeOK ==
    /\ StackTypeOK
    /\ rpc \in RPCs
    /\ rexc \in FaultPoints \cup {None}
    /\ shell \in Env

Init ==
    /\ StackInit
    /\ rpc = "idle"
    /\ rexc = None
    /\ shell = environ

-----------------------------------------------------------------------------
(* start()                                                                 *)

ServerEnv == SetDefault(ServerEnvironment, "CLTL_BACKEND_MAIN", "storage_main")

\* Mutant: the client's entry point is left to what it inherits.
ClientEnvInherits ==
    SetDefault(ClientEnvironment, "CLTL_CONTAINER_AMQP_URL", "broker")

\* The published broker and storage, and the image's own entry point, stated
\* because os.environ already holds the server's.
ClientEnv ==
    SetDefault(SetDefault(ClientEnvironment, "CLTL_CONTAINER_AMQP_URL", "broker"),
               "CLTL_BACKEND_MAIN", "main")

\* Mutant: start() returns although a half has not come up.
RunnerRaiseSwallowed(fault) ==
    /\ rexc' = fault
    /\ rpc' = "up"

RunnerRaise(fault) ==
    /\ rexc' = fault
    /\ rpc' = "stop_first"

Start ==
    /\ rpc = "idle"
    /\ rpc' = "check"
    /\ UNCHANGED <<stackVars, rexc, shell>>

\* Both halves' images are looked for before either half is up.
CheckAllImages ==
    /\ rpc = "check"
    /\ \/ /\ CallStart("server", ServerEnv)
          /\ rpc' = "server"
          /\ UNCHANGED rexc
       \/ /\ "images" \in Faults
          /\ RunnerRaise("images")
          /\ UNCHANGED stackVars
    /\ UNCHANGED shell

ServerStarted ==
    /\ rpc = "server"
    /\ \/ /\ pc["server"] = "running"
          /\ CallStart("client", ClientEnv)
          /\ rpc' = "client"
          /\ UNCHANGED rexc
       \/ /\ pc["server"] = "stopped"
          /\ RunnerRaise(exc["server"])
          /\ UNCHANGED stackVars
    /\ UNCHANGED shell

ClientStarted ==
    /\ rpc = "client"
    /\ \/ /\ pc["client"] = "running"
          /\ rpc' = "up"
          /\ UNCHANGED rexc
       \/ /\ pc["client"] = "stopped"
          /\ RunnerRaise(exc["client"])
    /\ UNCHANGED <<stackVars, shell>>

-----------------------------------------------------------------------------
(* stop()                                                                  *)

Stop ==
    /\ rpc = "up"
    /\ rpc' = "stop_first"
    /\ UNCHANGED <<stackVars, rexc, shell>>

\* A half whose runner never constructed it is None and is skipped.
StopHalf(half, from, calling, skipped) ==
    /\ rpc = from
    /\ \/ /\ pc[half] = "new"
          /\ rpc' = skipped
          /\ UNCHANGED stackVars
       \/ /\ CallStop(half)
          /\ rpc' = calling
    /\ UNCHANGED <<rexc, shell>>

\* Mutant: the next stage follows this one only if it did not raise.
HalfStoppedNoFinally(half, calling, next) ==
    /\ rpc = calling
    /\ pc[half] = "stopped"
    /\ rpc' = IF exc[half] = None THEN next ELSE "done"
    /\ rexc' = IF exc[half] # None THEN exc[half] ELSE rexc
    /\ UNCHANGED <<stackVars, shell>>

\* The next stage is in the finally of this one.
HalfStopped(half, calling, next) ==
    /\ rpc = calling
    /\ pc[half] = "stopped"
    /\ rpc' = next
    /\ rexc' = IF exc[half] # None THEN exc[half] ELSE rexc
    /\ UNCHANGED <<stackVars, shell>>

\* Mutant: the server goes first.
StopOrderSwapped == <<"server", "client">>

\* "Client first: it is the half that dials in."
StopOrder == <<"client", "server">>

StopFirst == StopHalf(StopOrder[1], "stop_first", "first_stopping", "stop_second")
FirstStopped == HalfStopped(StopOrder[1], "first_stopping", "stop_second")
StopSecond == StopHalf(StopOrder[2], "stop_second", "second_stopping", "done")
SecondStopped == HalfStopped(StopOrder[2], "second_stopping", "done")

RunnerStep ==
    \/ Start \/ CheckAllImages \/ ServerStarted \/ ClientStarted
    \/ Stop \/ StopFirst \/ FirstStopped \/ StopSecond \/ SecondStopped

Next ==
    \/ RunnerStep
    \/ \E s \in Stacks : StackStep(s) /\ UNCHANGED runnerVars

Spec == Init /\ [][Next]_vars

-----------------------------------------------------------------------------
(* Properties.                                                             *)

AtRest == rpc = "done"

\* Whatever fails, each half that was started has been stopped when the
\* runner is done (SplitRunner.stop: client.stop() and server.stop() each in
\* its own finally) ...
NoStackAbandoned == AtRest => \A s \in Stacks : pc[s] \in {"new", "stopped"}

\* ... and os.environ is what the test process found (_release).
EnvironRestored == AtRest => environ = shell

\* What each half was started with is what its caller and the runner stated,
\* never what the test process inherited or the server's runner has written
\* to os.environ: neither half is tenanted unless its caller says so, the
\* server runs the storage entry point, and the client runs its image's own
\* and dials the server's broker (SplitRunner._start, _compose_env).
Stated(given, half, var, otherwise) ==
    Up(half) /\ given[var] = Unset => spawn[half][var] = otherwise

OwnEnvironment ==
    /\ Stated(ServerEnvironment, "server", "CLTL_TENANT", "")
    /\ Stated(ServerEnvironment, "server", "CLTL_BACKEND_MAIN", "storage_main")
    /\ Stated(ClientEnvironment, "client", "CLTL_TENANT", "")
    /\ Stated(ClientEnvironment, "client", "CLTL_BACKEND_MAIN", "main")
    /\ Stated(ClientEnvironment, "client", "CLTL_CONTAINER_AMQP_URL", "broker")

\* The broker is up before the client and the probe's bus, and goes down after
\* them (SplitRunner.stop: "Client first: it is the half that dials in").
Users == {"client", "probe"}
UsersNow == {u \in Users : IF u = "client" THEN Up("client")
                                           ELSE bus["server"] = "open"}

Lease == INSTANCE BrokerLease WITH broker <- BrokerUp("server"),
                                   users <- UsersNow
LeaseKept == Lease!Spec

\* It does what RunnerContract says of a runner, with its halves as the parts:
\* neither half is started after a failure or after stop() was called, none is
\* lost in start(), and start() returns with both.
Begins(half) == pc[half] \notin Stopping
Phase ==
    IF rpc = "idle" THEN "new"
    ELSE IF \/ rpc = "check"
            \/ rpc = "server" /\ Begins("server")
            \/ rpc = "client" /\ Begins("client") THEN "starting"
    ELSE IF rpc = "up" THEN "up"
    ELSE IF rpc = "done" THEN "stopped" ELSE "ending"

Contract == INSTANCE RunnerContract WITH
              Parts <- {s \in Stacks : ServicesOf(s) # {}},
              phase <- Phase,
              parts <- {s \in Stacks : Up(s)}
ContractKept == Contract!Spec

\* Why the two hold, as an invariant every step preserves: once the server's
\* runner has been called, its backup is the environment the process found,
\* and by the time the second half is stopped the first is over.
SafetyInv ==
    /\ TypeOK
    /\ pc["server"] \in {"new", "stopped"} => environ = shell
    /\ pc["server"] # "new" => backup["server"] = shell
    /\ rpc \in {"stop_second", "second_stopping", "done"}
          => pc["client"] \in {"new", "stopped"}
    /\ rpc = "done" => pc["server"] \in {"new", "stopped"}

\* A half that was started was started with the environment stated for it.
EnvironmentInv ==
    /\ pc["server"] # "new" => environment["server"] = ServerEnv
    /\ pc["client"] # "new" => environment["client"] = ClientEnv

\* A half is busy only while the runner waits for it, and the client only
\* starts on a server that runs.
LeaseInv ==
    /\ pc["server"] \in Busy => rpc \in {"server", "second_stopping"}
    /\ pc["client"] \in Busy => rpc \in {"client", "first_stopping"}
    /\ rpc \in {"idle", "check", "server"} => pc["client"] = "new"
    /\ rpc \in {"client", "up"} => pc["server"] = "running"
    /\ rpc = "up" => pc["client"] = "running"
    /\ rpc = "first_stopping" => pc["client"] \in Stopping
    /\ rpc = "second_stopping" => pc["server"] \in Stopping

=============================================================================
