------------------------- MODULE TenantRunner_proof -------------------------
(***************************************************************************)
(* What holds of a deployment of any number of tenants, for every set of   *)
(* failures unless the theorem names the ones it leaves out.               *)
(***************************************************************************)
EXTENDS TenantRunner, ComposeStack_proof

-----------------------------------------------------------------------------
(* Types.                                                                  *)

\* The environments the projects are started with are environments.
LEMMA TenantEnvType ==
    /\ ServerEnv \in Env
    /\ \A t \in Tenants : TenantEnv(t) \in Env
<1>1. ServerEnv \in Env
  BY SetDefaultType, TenantAssumption, StackAssumption DEF ServerEnv
<1>2. ASSUME NEW t \in Tenants PROVE TenantEnv(t) \in Env
  <2>1. SetDefault(TenantEnvironment[t], "CLTL_CONTAINER_AMQP_URL", "broker")
          \in Env
    BY SetDefaultType, TenantAssumption, StackAssumption
  <2>2. TenantId[t] \in Values /\ "CLTL_TENANT" \in EnvVars
    BY TenantAssumption, StackAssumption
  <2> QED BY <2>1, <2>2 DEF TenantEnv, Env
<1> QED BY <1>1, <1>2

\* The server and the tenants are the projects.
LEMMA StackNames ==
    /\ Server \in Stacks /\ Tenants \subseteq Stacks /\ Server \notin Tenants
    /\ \A s \in Stacks : s = Server \/ s \in Tenants
    /\ NTenants \in Nat /\ NTenants \in Tenants /\ 1 \in Tenants
<1>1. NTenants \in Nat /\ NTenants >= 2 /\ Stacks = 0..NTenants
  BY TenantAssumption
<1> QED BY <1>1 DEF Server, Tenants

\* Where a loop over the tenants can stand after a tenant.
LEMMA CursorSteps ==
    ASSUME NEW t \in Tenants
    PROVE  /\ t \in 0..NTenants /\ t - 1 \in 0..NTenants
           /\ t < NTenants => t + 1 \in Tenants /\ t + 1 \in 0..NTenants
<1>1. NTenants \in Nat
  BY TenantAssumption
<1>2. t \in Int /\ 1 <= t /\ t <= NTenants
  BY <1>1 DEF Tenants
<1> QED BY <1>1, <1>2 DEF Tenants

\* The initial state has the types.
LEMMA TenantInitType == Init => TypeInv
<1> SUFFICES ASSUME Init PROVE TypeInv
  OBVIOUS
<1>1. Nothing \in Containers
  BY DEF Nothing, Containers
<1>2. NoEnv \in Env /\ environ \in Env
  BY StackAssumption DEF Init, StackInit, NoEnv, Env
<1>3. StackTypeOK
  BY <1>1, <1>2 DEF Init, StackInit, StackTypeOK, PCs
<1>4. 0 \in 0..NTenants
  BY StackNames
<1> QED BY <1>2, <1>3, <1>4 DEF Init, TypeInv, TypeOK, RPCs

\* Every step of start() keeps the types.
LEMMA StartStepType ==
    ASSUME TypeInv,
           \/ Start \/ CheckAllImages \/ ServerStarted \/ TenantStarted
           \/ AwaitTenantBindings \/ OpenView
    PROVE  TypeInv'
<1> USE StackNames DEF TypeInv, TypeOK
<1>e. \A s \in Stacks : exc[s] \in FaultPoints \cup {None}
  BY DEF StackTypeOK
<1>1. CASE Start
  BY <1>1 DEF Start, StackTypeOK, stackVars, RPCs
<1>2. CASE CheckAllImages
  <2>1. CASE CallStart(Server, ServerEnv) /\ rpc' = "server" /\ UNCHANGED rexc
    BY <1>2, <2>1, CallStartType, TenantEnvType DEF CheckAllImages, RPCs
  <2>2. CASE RunnerRaise("images") /\ UNCHANGED stackVars
    BY <1>2, <2>2
    DEF CheckAllImages, RunnerRaise, StackTypeOK, stackVars, RPCs, FaultPoints
  <2> QED BY <1>2, <2>1, <2>2 DEF CheckAllImages
<1>3. CASE ServerStarted
  <2>1. CASE /\ CallStart(1, TenantEnv(1)) /\ rpc' = "tenant" /\ cursor' = 1
             /\ UNCHANGED rexc
    BY <1>3, <2>1, CallStartType, TenantEnvType, CursorSteps
    DEF ServerStarted, RPCs
  <2>2. CASE RunnerRaise(exc[Server]) /\ UNCHANGED <<stackVars, cursor>>
    BY <1>3, <2>2, <1>e
    DEF ServerStarted, RunnerRaise, StackTypeOK, stackVars, RPCs
  <2> QED BY <1>3, <2>1, <2>2 DEF ServerStarted
<1>4. CASE TenantStarted
  <2>h. cursor \in Tenants
    BY <1>4 DEF TenantStarted
  <2>1. CASE /\ cursor < NTenants /\ CallStart(cursor + 1, TenantEnv(cursor + 1))
             /\ cursor' = cursor + 1 /\ stacks' = stacks \cup {cursor}
             /\ UNCHANGED <<rpc, rexc>>
    <3>1. cursor + 1 \in Tenants /\ cursor' \in 0..NTenants
      BY <2>h, <2>1, CursorSteps
    <3>2. StackTypeOK'
      BY <2>1, <3>1, CallStartType, TenantEnvType
    <3> QED BY <1>4, <2>h, <2>1, <3>1, <3>2 DEF TenantStarted
  <2>2. CASE /\ rpc' = "bindings" /\ stacks' = stacks \cup {cursor}
             /\ UNCHANGED <<stackVars, cursor, rexc>>
    BY <1>4, <2>h, <2>2 DEF TenantStarted, StackTypeOK, stackVars, RPCs
  <2>3. CASE RunnerRaise(exc[cursor]) /\ UNCHANGED <<stackVars, cursor, stacks>>
    BY <1>4, <2>h, <2>3, <1>e
    DEF TenantStarted, RunnerRaise, StackTypeOK, stackVars, RPCs
  <2> QED BY <1>4, <2>1, <2>2, <2>3 DEF TenantStarted, MoreTenants
<1>5. CASE AwaitTenantBindings
  BY <1>5, CursorSteps DEF AwaitTenantBindings, RunnerRaise, StackTypeOK,
     stackVars, RPCs, FaultPoints
<1>6. CASE OpenView
  <2>h. cursor \in Tenants
    BY <1>6 DEF OpenView
  <2>1. StackTypeOK'
    BY <1>6, <2>h DEF OpenView, StackTypeOK
  <2>2. /\ cursor' \in 0..NTenants
        /\ rpc' = "views" => cursor' \in Tenants
        /\ rpc' \in {"views", "up", "close"}
    BY <1>6, <2>h, CursorSteps DEF OpenView, MoreTenants, RunnerRaise
  <2>3. views' \subseteq Tenants /\ rexc' \in FaultPoints \cup {None}
    BY <1>6, <2>h DEF OpenView, RunnerRaise, FaultPoints
  <2> QED BY <1>6, <2>1, <2>2, <2>3 DEF OpenView, RPCs
<1> QED BY <1>1, <1>2, <1>3, <1>4, <1>5, <1>6

\* Every step of stop() keeps the types.
LEMMA StopStepType ==
    ASSUME TypeInv,
           \/ Stop \/ CloseViews \/ StopTenant \/ TenantStopped
           \/ StopServer \/ ServerStopped
    PROVE  TypeInv'
<1> USE StackNames DEF TypeInv, TypeOK
<1>e. \A s \in Stacks : exc[s] \in FaultPoints \cup {None}
  BY DEF StackTypeOK
<1>1. CASE Stop
  BY <1>1 DEF Stop, StackTypeOK, stackVars, RPCs
<1>2. CASE CloseViews
  <2>1. bus' \in [Stacks -> {"none", "open", "closed"}]
    BY <1>2 DEF CloseViews, StackTypeOK
  <2>2. rexc' \in FaultPoints \cup {None}
    BY <1>2 DEF CloseViews, FaultPoints
  <2> QED BY <1>2, <2>1, <2>2, CursorSteps DEF CloseViews, StackTypeOK, StopsFirst, RPCs
<1>3. CASE StopTenant
  <2>1. CASE /\ CallStop(cursor) /\ cursor \in stacks /\ rpc' = "stop_tenant"
             /\ stacks' = stacks \ {cursor} /\ UNCHANGED cursor
    BY <1>3, <2>1, CallStopType DEF StopTenant, RPCs
  <2>2. CASE /\ cursor \in Tenants /\ cursor' = cursor - 1
             /\ UNCHANGED <<stackVars, stacks, rpc>>
    BY <1>3, <2>2, CursorSteps DEF StopTenant, StackTypeOK, stackVars
  <2>3. CASE stacks' = {} /\ rpc' = "stop_server" /\ UNCHANGED <<stackVars, cursor>>
    BY <1>3, <2>3 DEF StopTenant, StackTypeOK, stackVars, RPCs
  <2> QED BY <1>3, <2>1, <2>2, <2>3 DEF StopTenant
<1>4. CASE TenantStopped
  <2>h. cursor \in Tenants
    BY <1>4 DEF TenantStopped
  <2> QED BY <1>4, <2>h, <1>e, CursorSteps
          DEF TenantStopped, StackTypeOK, stackVars, RPCs
<1>5. CASE StopServer
  <2>1. CASE rpc' = "done" /\ UNCHANGED stackVars
    BY <1>5, <2>1 DEF StopServer, StackTypeOK, stackVars, RPCs
  <2>2. CASE CallStop(Server) /\ rpc' = "server_stop"
    BY <1>5, <2>2, CallStopType DEF StopServer, RPCs
  <2> QED BY <1>5, <2>1, <2>2 DEF StopServer
<1>6. CASE ServerStopped
  BY <1>6, <1>e DEF ServerStopped, StackTypeOK, stackVars, RPCs
<1> QED BY <1>1, <1>2, <1>3, <1>4, <1>5, <1>6

\* The type invariant, and that a loop over the tenants stands at a tenant.
LEMMA TypeInvCorrect == Spec => []TypeInv
<1>1. TypeInv /\ [Next]_vars => TypeInv'
  <2> SUFFICES ASSUME TypeInv, [Next]_vars PROVE TypeInv'
    OBVIOUS
  <2>1. CASE RunnerStep
    BY <2>1, StartStepType, StopStepType DEF RunnerStep
  <2>2. CASE \E s \in Stacks : StackStep(s) /\ UNCHANGED runnerVars
    BY <2>2, StackStepType DEF TypeInv, TypeOK, runnerVars
  <2>3. CASE UNCHANGED vars
    BY <2>3 DEF vars, runnerVars, stackVars, TypeInv, TypeOK, StackTypeOK
  <2> QED BY <2>1, <2>2, <2>3 DEF Next
<1> QED BY <1>1, TenantInitType, PTL DEF Spec

\* The type invariant of the tenant runner.
THEOREM TenantTypeCorrect == Spec => []TypeOK
<1>1. TypeInv => TypeOK
  BY DEF TypeInv
<1> QED BY <1>1, TypeInvCorrect, PTL

-----------------------------------------------------------------------------
(* os.environ, for every set of failures.                                  *)

\* The runner's own steps call at most one stack, and only call the server
\* to start it when it is new.
LEMMA RunnerStepEnviron ==
    ASSUME TypeInv, TypeInv', EnvironInv, RunnerStep
    PROVE  EnvironInv'
<1> USE StackNames DEF EnvironInv, TypeInv, TypeOK
<1>1. ASSUME UNCHANGED stackVars, shell' = shell, rpc' # "done"
      PROVE  EnvironInv'
  BY <1>1 DEF stackVars
<1>2. ASSUME NEW t \in Tenants, NEW env, CallStop(t) \/ CallStart(t, env),
             shell' = shell, rpc' # "done"
      PROVE  EnvironInv'
  <2>1. pc'[Server] = pc[Server] /\ environ' = environ /\ backup' = backup
    BY <1>2, TenantAssumption DEF CallStop, CallStart, StackTypeOK
  <2> QED BY <1>2, <2>1
<1>3. CASE Start \/ AwaitTenantBindings \/ Stop \/ TenantStopped
  BY <1>3, <1>1 DEF Start, AwaitTenantBindings, Stop, TenantStopped, RunnerRaise
<1>4. CASE CheckAllImages
  <2>1. CASE CallStart(Server, ServerEnv) /\ rpc' = "server"
    BY <1>4, <2>1, TenantAssumption
    DEF CheckAllImages, CallStart, StackTypeOK
  <2>2. CASE RunnerRaise("images") /\ UNCHANGED stackVars
    BY <1>4, <2>2, <1>1 DEF CheckAllImages, RunnerRaise
  <2> QED BY <1>4, <2>1, <2>2 DEF CheckAllImages
<1>5. CASE ServerStarted
  BY <1>5, <1>1, <1>2 DEF ServerStarted, RunnerRaise
<1>6. CASE TenantStarted
  <2>1. CASE CallStart(cursor + 1, TenantEnv(cursor + 1)) /\ cursor < NTenants
    <3>1. cursor + 1 \in Tenants
      BY <1>6, <2>1, CursorSteps DEF TenantStarted
    <3>2. shell' = shell /\ rpc' # "done"
      BY <1>6 DEF TenantStarted, RunnerRaise
    <3> QED BY <2>1, <3>1, <3>2, <1>2
  <2>2. CASE UNCHANGED stackVars /\ rpc' \in {"bindings", "close"}
    BY <1>6, <2>2, <1>1 DEF TenantStarted
  <2> QED BY <1>6, <2>1, <2>2 DEF TenantStarted, MoreTenants, RunnerRaise
<1>7. CASE OpenView \/ CloseViews
  BY <1>7 DEF OpenView, CloseViews, RunnerRaise
<1>8. CASE StopTenant
  BY <1>8, <1>1, <1>2 DEF StopTenant
<1>9. CASE StopServer
  BY <1>9 DEF StopServer, CallStop, StopEntry, stackVars, StackTypeOK
<1>10. CASE ServerStopped
  BY <1>10 DEF ServerStopped, stackVars
<1> QED BY <1>3, <1>4, <1>5, <1>6, <1>7, <1>8, <1>9, <1>10 DEF RunnerStep

\* The server's backup is os.environ as the process found it.
LEMMA EnvironInvCorrect == Spec => []EnvironInv
<1>1. Init => EnvironInv
  BY StackNames DEF Init, StackInit, EnvironInv
<1>2. TypeInv /\ TypeInv' /\ EnvironInv /\ [Next]_vars => EnvironInv'
  <2> SUFFICES ASSUME TypeInv, TypeInv', EnvironInv, [Next]_vars
               PROVE  EnvironInv'
    OBVIOUS
  <2>1. ASSUME NEW s \in Stacks, StackStep(s), UNCHANGED runnerVars
        PROVE  EnvironInv'
    <3>1. StackTypeOK /\ shell \in Env /\ Unset \notin Env
      BY StackAssumption DEF TypeInv, TypeOK, Env
    <3>2. /\ pc[s] \notin {"new", "running", "stopped"}
          /\ pc'[s] # "new" /\ pc' = [pc EXCEPT ![s] = pc'[s]]
          /\ backup' = backup
          /\ s \notin Attached => environ' = environ
          /\ pc'[s] = "stopped" => environ' = Restored(s)
      BY <2>1, <3>1, StackStepFrame
    <3>3. CASE s = Server
      BY <2>1, <3>1, <3>2, <3>3, TenantAssumption
      DEF EnvironInv, Restored, runnerVars, StackTypeOK
    <3>4. CASE s # Server
      <4>1. pc'[Server] = pc[Server] /\ environ' = environ
        BY <3>1, <3>2, <3>4, TenantAssumption, StackNames DEF StackTypeOK
      <4> QED BY <2>1, <3>2, <4>1 DEF EnvironInv, runnerVars
    <3> QED BY <3>3, <3>4
  <2>2. CASE UNCHANGED vars
    BY <2>2 DEF vars, runnerVars, stackVars, EnvironInv
  <2> QED BY <2>1, <2>2, RunnerStepEnviron DEF Next
<1> QED BY <1>1, <1>2, TypeInvCorrect, PTL DEF Spec

\* Whatever fails, os.environ is what the process found when the runner is
\* done.
THEOREM TenantEnvironRestored == Spec => []EnvironRestored
<1>1. EnvironInv => EnvironRestored
  BY DEF EnvironInv, EnvironRestored, AtRest
<1> QED BY <1>1, EnvironInvCorrect, PTL

-----------------------------------------------------------------------------
(* What stop() reaches, when a stack's stop() does not raise.              *)

StopReturns == Faults \cap {"down", "interrupt", "close_interrupt"} = {}

\* The steps that neither call a stack nor move the loop over the tenants.
LEMMA LoopFrame ==
    ASSUME LoopInv, TypeInv, TypeInv', UNCHANGED <<pc, exc, stacks, cursor>>,
           rpc \notin {"tenant", "stop_tenant"},
           rpc' \notin {"stop_tenant", "stop_server", "server_stop", "done"},
           rpc' = "tenants" => \A t \in stacks : t <= cursor
    PROVE  LoopInv'
BY DEF LoopInv, TypeInv, TypeOK

\* What a stack's step does to the loop: a tenant's is the one the loop is
\* at, and one that is stopping does not start to run or to raise.
LEMMA StackStepLoop ==
    ASSUME StopReturns, TypeInv, TypeInv', LoopInv, NEW s \in Stacks,
           StackStep(s), UNCHANGED runnerVars
    PROVE  LoopInv'
<1> USE StackNames DEF LoopInv, TypeInv, TypeOK
<1>1. /\ pc[s] \notin {"new", "running", "stopped"}
      /\ pc'[s] # "new" /\ pc' = [pc EXCEPT ![s] = pc'[s]]
  BY StackStepFrame
<1>2. \A r \in Stacks \ {s} : pc'[r] = pc[r] /\ exc'[r] = exc[r]
  BY DEF StackStep, CheckImages, ComposeUp, DiscoverPorts, Attach,
         PublishMonitoringUrl, CaptureLogs, Detach, ComposeDown, Release,
         Raise, StackTypeOK
<1>3. pc[s] \in Stopping => pc'[s] \in Stopping /\ exc'[s] = exc[s]
  BY DEF StopReturns, StackStep, CheckImages, ComposeUp, DiscoverPorts, Attach,
         PublishMonitoringUrl, CaptureLogs, Detach, ComposeDown, Release,
         StackTypeOK, Stopping
<1>4. UNCHANGED <<rpc, stacks, cursor>>
  BY DEF runnerVars
<1>5. s \in Tenants => rpc \in {"tenant", "stop_tenant"} /\ s = cursor
  BY <1>1 DEF Busy, StackTypeOK
<1>6. ASSUME NEW t \in Tenants
      PROVE  /\ pc'[t] = "running" =>
                   t \in stacks' \/ (rpc' = "tenant" /\ t = cursor')
             /\ pc'[t] \in Busy =>
                   rpc' \in {"tenant", "stop_tenant"} /\ t = cursor'
  <2>1. CASE t # s
    BY <1>2, <1>4, <2>1
  <2>2. CASE t = s
    BY <1>3, <1>4, <1>5, <2>2 DEF Stopping
  <2> QED BY <2>1, <2>2
<1>7. rpc' = "stop_tenant" => /\ cursor' \notin stacks'
                              /\ pc'[cursor'] \in Stopping
                              /\ exc'[cursor'] = None
  BY <1>2, <1>3, <1>4
<1> QED BY <1>4, <1>6, <1>7

\* Every step of the runner keeps the loop's invariant.
LEMMA RunnerStepLoop ==
    ASSUME StopReturns, TypeInv, TypeInv', LoopInv, RunnerStep
    PROVE  LoopInv'
<1>c. cursor \in Int /\ \A t \in Tenants : t \in Int /\ t <= NTenants
  BY StackNames DEF TypeInv, TypeOK, Tenants
<1>1. CASE Start \/ AwaitTenantBindings \/ Stop
  <2>1. CASE Start \/ Stop
    BY <2>1, LoopFrame DEF Start, Stop, stackVars
  <2>2. CASE AwaitTenantBindings
    BY <2>2 DEF AwaitTenantBindings, RunnerRaise, stackVars, LoopInv
  <2> QED BY <1>1, <2>1, <2>2
<1>2. ASSUME rpc \in {"check", "stop_server", "server_stop"}, stacks' = stacks,
             \A t \in Tenants : pc'[t] = pc[t],
             rpc' \in {"server", "close", "done", "server_stop"},
             rpc' \in {"done", "server_stop"} =>
                rpc \in {"stop_server", "server_stop"}
      PROVE  LoopInv'
  BY <1>2 DEF LoopInv
<1>3. CASE CheckAllImages
  BY <1>3, <1>2, StackNames, TenantAssumption
  DEF CheckAllImages, RunnerRaise, CallStart, stackVars, TypeInv, TypeOK,
      StackTypeOK
<1>4. CASE StopServer \/ ServerStopped
  BY <1>4, <1>2, StackNames, TenantAssumption
  DEF StopServer, ServerStopped, CallStop, stackVars, TypeInv, TypeOK,
      StackTypeOK
<1>5. CASE ServerStarted
  <2>1. CASE CallStart(1, TenantEnv(1)) /\ rpc' = "tenant" /\ cursor' = 1
    BY <1>5, <2>1, StackNames
    DEF ServerStarted, CallStart, LoopInv, TypeInv, TypeOK, StackTypeOK, Busy
  <2>2. CASE rpc' = "close" /\ UNCHANGED <<stackVars, cursor>>
    BY <1>5, <2>2, LoopFrame DEF ServerStarted, stackVars
  <2> QED BY <1>5, <2>1, <2>2 DEF ServerStarted, RunnerRaise
<1>6. CASE TenantStarted
  <2>h. cursor \in Tenants
    BY <1>6 DEF TenantStarted, TypeInv
  <2>1. CASE /\ cursor < NTenants /\ CallStart(cursor + 1, TenantEnv(cursor + 1))
             /\ cursor' = cursor + 1 /\ stacks' = stacks \cup {cursor}
             /\ rpc' = rpc
    <3>1. cursor + 1 \in Tenants /\ cursor + 1 # cursor
      BY <2>h, <2>1, <1>c, CursorSteps
    <3>2. /\ pc' = [pc EXCEPT ![cursor + 1] = "images"]
          /\ pc \in [Stacks -> PCs]
      BY <2>1 DEF CallStart, TypeInv, TypeOK, StackTypeOK
    <3>3. rpc = "tenant" /\ pc[cursor] \in {"running", "stopped"}
      BY <1>6 DEF TenantStarted
    <3>4. "images" # "running"
      OBVIOUS
    <3> QED BY <2>h, <2>1, <3>1, <3>2, <3>3, <3>4, StackNames
            DEF LoopInv, Busy
  <2>2. CASE /\ rpc' = "bindings" /\ stacks' = stacks \cup {cursor}
             /\ UNCHANGED <<stackVars, cursor>>
    BY <1>6, <2>h, <2>2 DEF TenantStarted, LoopInv, stackVars, Busy
  <2>3. CASE /\ pc[cursor] = "stopped" /\ rpc' = "close"
             /\ UNCHANGED <<stackVars, cursor, stacks>>
    BY <1>6, <2>h, <2>3 DEF TenantStarted, LoopInv, stackVars, Busy
  <2> QED BY <1>6, <2>1, <2>2, <2>3 DEF TenantStarted, MoreTenants, RunnerRaise
<1>7. CASE OpenView \/ CloseViews
  <2>1. CASE OpenView
    BY <2>1 DEF OpenView, RunnerRaise, LoopInv
  <2>2. CASE CloseViews
    BY <2>2, <1>c DEF CloseViews, StopsFirst, LoopInv, TypeInv, TypeOK
  <2> QED BY <1>7, <2>1, <2>2
<1>8. CASE StopTenant
  <2>1. CASE /\ cursor \in stacks /\ CallStop(cursor)
             /\ stacks' = stacks \ {cursor} /\ rpc' = "stop_tenant"
             /\ UNCHANGED cursor
    BY <1>8, <2>1, StackNames
    DEF StopTenant, CallStop, StopEntry, LoopInv, TypeInv, TypeOK,
        StackTypeOK, Busy, Stopping
  <2>2. CASE /\ cursor \in Tenants \ stacks /\ cursor' = cursor - 1
             /\ UNCHANGED <<stackVars, stacks, rpc>>
    <3>1. \A t \in stacks : t <= cursor - 1
      BY <1>8, <2>2, <1>c DEF StopTenant, LoopInv, TypeInv, TypeOK
    <3> QED BY <1>8, <2>2, <3>1 DEF StopTenant, LoopInv, stackVars
  <2>3. CASE /\ cursor = 0 /\ stacks' = {} /\ rpc' = "stop_server"
             /\ UNCHANGED <<stackVars, cursor>>
    <3>1. stacks = {}
      BY <1>8, <2>3, <1>c, StackNames
      DEF StopTenant, LoopInv, TypeInv, TypeOK, Tenants
    <3> QED BY <1>8, <2>3, <3>1 DEF StopTenant, LoopInv, stackVars
  <2> QED BY <1>8, <2>1, <2>2, <2>3 DEF StopTenant
<1>9. CASE TenantStopped
  <2>1. /\ exc[cursor] = None /\ rpc' = "tenants" /\ cursor' = cursor - 1
        /\ UNCHANGED <<stackVars, stacks>>
    BY <1>9 DEF TenantStopped, LoopInv
  <2>2. \A t \in stacks : t <= cursor - 1
    BY <1>9, <1>c DEF TenantStopped, LoopInv, TypeInv, TypeOK
  <2> QED BY <1>9, <2>1, <2>2 DEF TenantStopped, LoopInv, stackVars, Busy
<1> QED BY <1>1, <1>3, <1>4, <1>5, <1>6, <1>7, <1>8, <1>9 DEF RunnerStep

\* The loop over the tenants misses none of them.
LEMMA LoopInvCorrect == ASSUME StopReturns PROVE Spec => []LoopInv
<1>1. Init => LoopInv
  BY StackNames DEF Init, StackInit, LoopInv, Busy
<1>2. TypeInv /\ TypeInv' /\ LoopInv /\ [Next]_vars => LoopInv'
  <2> SUFFICES ASSUME TypeInv, TypeInv', LoopInv, [Next]_vars PROVE LoopInv'
    OBVIOUS
  <2>1. CASE UNCHANGED vars
    BY <2>1 DEF vars, runnerVars, stackVars, LoopInv
  <2> QED BY <2>1, RunnerStepLoop, StackStepLoop DEF Next
<1> QED BY <1>1, <1>2, TypeInvCorrect, PTL DEF Spec

\* When a stack's stop() does not raise, every project is at rest when the
\* runner is done.
THEOREM TenantTornDown == ASSUME StopReturns PROVE Spec => []NoStackAbandoned
<1>1. TypeInv /\ LoopInv /\ EnvironInv => NoStackAbandoned
  BY StackNames DEF TypeInv, TypeOK, StackTypeOK, LoopInv, EnvironInv,
     NoStackAbandoned, AtRest, Busy
<1> QED BY <1>1, TypeInvCorrect, LoopInvCorrect, EnvironInvCorrect, PTL

-----------------------------------------------------------------------------
(* The containers, when the compose commands also do what they say.        *)

\* The runner's steps leave the containers to the stacks.
LEMMA RunnerStepContainers ==
    ASSUME TypeInv, ContainersInv, RunnerStep
    PROVE  ContainersInv'
<1> USE StackNames DEF TypeInv, TypeOK
<1>1. ASSUME UNCHANGED <<pc, started, docker>> PROVE ContainersInv'
  BY <1>1 DEF ContainersInv, Up
<1>2. CASE Start \/ AwaitTenantBindings \/ OpenView \/ Stop \/ CloseViews
           \/ TenantStopped \/ ServerStopped
  BY <1>1, <1>2 DEF Start, AwaitTenantBindings, OpenView, Stop, CloseViews,
     TenantStopped, ServerStopped, stackVars
<1>3. CASE CheckAllImages \/ ServerStarted
  BY <1>1, <1>3, CallContainers, TenantEnvType
  DEF CheckAllImages, ServerStarted, stackVars
<1>4. CASE TenantStarted
  <2>1. CASE CallStart(cursor + 1, TenantEnv(cursor + 1)) /\ cursor < NTenants
    <3>1. cursor + 1 \in Tenants
      BY <1>4, <2>1, CursorSteps DEF TenantStarted
    <3> QED BY <2>1, <3>1, CallContainers, TenantEnvType
  <2>2. CASE UNCHANGED stackVars
    BY <1>1, <2>2 DEF stackVars
  <2> QED BY <1>4, <2>1, <2>2 DEF TenantStarted, MoreTenants
<1>5. CASE StopTenant \/ StopServer
  BY <1>1, <1>5, CallContainers DEF StopTenant, StopServer, stackVars
<1> QED BY <1>2, <1>3, <1>4, <1>5 DEF RunnerStep

\* Containers exist only within their project's `up` and `down`.
LEMMA ContainersInvCorrect ==
    ASSUME ComposeWorks PROVE Spec => []ContainersInv
<1>1. Init => ContainersInv
  <2>1. \A c \in Services : ~ (Nothing[c] > 0)
    BY DEF Nothing
  <2>2. Init => \A s \in Stacks : docker[s] = Nothing
    BY DEF Init, StackInit
  <2>3. Init => \A s \in Stacks : ~ Up(s)
    BY <2>1, <2>2 DEF Up
  <2> QED BY <2>3 DEF Init, StackInit, ContainersInv
<1>2. TypeInv /\ ContainersInv /\ [Next]_vars => ContainersInv'
  <2> SUFFICES ASSUME TypeInv, ContainersInv, [Next]_vars PROVE ContainersInv'
    OBVIOUS
  <2>1. CASE UNCHANGED vars
    BY <2>1 DEF vars, stackVars, ContainersInv, Up
  <2>2. CASE \E s \in Stacks : StackStep(s) /\ UNCHANGED runnerVars
    BY <2>2, StackStepContainers DEF TypeInv, TypeOK
  <2> QED BY <2>1, <2>2, RunnerStepContainers DEF Next
<1> QED BY <1>1, <1>2, TypeInvCorrect, PTL DEF Spec

\* When the compose commands do what they say and stop() is not interrupted,
\* no container is left when the runner is done, whatever else has failed.
THEOREM TenantLeavesNothing ==
    ASSUME ComposeWorks, StopReturns
    PROVE  Spec => []NothingLeftBehind
<1>1. ContainersInv /\ TypeInv /\ NoStackAbandoned => NothingLeftBehind
  <2> SUFFICES ASSUME ContainersInv, NoStackAbandoned, AtRest, NEW s \in Stacks
               PROVE  ~ Up(s)
    BY DEF NothingLeftBehind
  <2>1. pc[s] \in {"new", "stopped"}
    BY DEF NoStackAbandoned
  <2> QED BY <2>1 DEF ContainersInv
<1> QED
  BY <1>1, ContainersInvCorrect, TypeInvCorrect, TenantTornDown, PTL

-----------------------------------------------------------------------------
(* Ports, environments and what start() has reached, for every set of      *)
(* failures.                                                               *)

\* What a step of the runner does to the stacks: nothing but to the tenants'
\* buses, or one call.
LEMMA RunnerStepCalls ==
    ASSUME TypeInv, RunnerStep
    PROVE  \/ /\ UNCHANGED <<pc, exc, started, docker, ports, environment,
                             spawn, environ, backup>>
              /\ bus'[Server] = bus[Server]
           \/ CallStart(Server, ServerEnv)
           \/ \E t \in Tenants : CallStart(t, TenantEnv(t))
           \/ \E s \in Stacks : CallStop(s)
<1> USE StackNames DEF TypeInv, TypeOK
<1>1. CASE Start \/ CheckAllImages \/ AwaitTenantBindings \/ Stop
           \/ TenantStopped \/ StopServer \/ ServerStopped
  BY <1>1 DEF Start, CheckAllImages, AwaitTenantBindings, Stop, TenantStopped,
     StopServer, ServerStopped, stackVars
<1>2. CASE ServerStarted
  BY <1>2 DEF ServerStarted, stackVars
<1>3. CASE TenantStarted
  <2>1. CASE CallStart(cursor + 1, TenantEnv(cursor + 1)) /\ cursor < NTenants
    <3>1. cursor + 1 \in Tenants
      BY <1>3, <2>1, CursorSteps DEF TenantStarted
    <3> QED BY <2>1, <3>1
  <2>2. CASE UNCHANGED stackVars
    BY <2>2 DEF stackVars
  <2> QED BY <1>3, <2>1, <2>2 DEF TenantStarted, MoreTenants
<1>4. CASE OpenView
  <2>1. cursor \in Tenants
    BY <1>4 DEF OpenView
  <2> QED BY <1>4, <2>1 DEF OpenView, StackTypeOK
<1>5. CASE CloseViews
  <2>1. Server \notin views
    OBVIOUS
  <2> QED BY <1>5, <2>1 DEF CloseViews, StackTypeOK
<1>6. CASE StopTenant
  BY <1>6 DEF StopTenant, stackVars
<1> QED BY <1>1, <1>2, <1>3, <1>4, <1>5, <1>6 DEF RunnerStep

\* The facts about the stacks that need nothing of the runner.
StacksInv == PortsInv /\ SpawnInv /\ RunningInv

\* They hold of every behaviour of the runner.
LEMMA StacksInvCorrect == Spec => []StacksInv
<1>1. Init => StacksInv
  <2> SUFFICES ASSUME Init PROVE StacksInv
    OBVIOUS
  <2>1. \A s \in Stacks : docker[s] = Nothing /\ pc[s] = "new"
    BY DEF Init, StackInit
  <2>2. \A c \in Services : ~ (Nothing[c] > 0)
    BY DEF Nothing
  <2>3. \A s \in Stacks : ~ Up(s)
    BY <2>1, <2>2 DEF Up
  <2> QED BY <2>1, <2>3 DEF StacksInv, PortsInv, SpawnInv, RunningInv
<1>2. TypeInv /\ StacksInv /\ [Next]_vars => StacksInv'
  <2> SUFFICES ASSUME TypeInv, StacksInv, [Next]_vars PROVE StacksInv'
    OBVIOUS
  <2>t. StackTypeOK
    BY DEF TypeInv, TypeOK
  <2>1. CASE /\ UNCHANGED <<pc, exc, started, docker, ports, environment,
                            spawn, environ, backup>>
             /\ bus'[Server] = bus[Server]
    <3>1. PortsInv'
      BY <2>1 DEF StacksInv, PortsInv
    <3>2. SpawnInv'
      BY <2>1 DEF StacksInv, SpawnInv, SpawnedAsStated, Up
    <3>3. RunningInv'
      BY <2>1, TenantAssumption DEF StacksInv, RunningInv
    <3> QED BY <3>1, <3>2, <3>3 DEF StacksInv
  <2>2. ASSUME NEW s \in Stacks, CallStop(s) \/ \E env \in Env : CallStart(s, env)
        PROVE  StacksInv'
    BY <2>2, <2>t, CallPorts, CallSpawn, CallRunning DEF StacksInv
  <2>3. ASSUME NEW s \in Stacks, StackStep(s) PROVE StacksInv'
    BY <2>3, <2>t, StackStepPorts, StackStepSpawn, StackStepRunning
    DEF StacksInv
  <2>4. CASE RunnerStep
    BY <2>1, <2>2, <2>4, RunnerStepCalls, TenantEnvType, StackNames
  <2>5. CASE UNCHANGED vars
    BY <2>1, <2>5 DEF vars, stackVars
  <2> QED BY <2>3, <2>4, <2>5 DEF Next
<1> QED BY <1>1, <1>2, TypeInvCorrect, PTL DEF Spec

\* Whatever fails, url() answers with the ports the containers publish now.
THEOREM TenantPortsCurrent == Spec => []PortsCurrent
<1>1. StacksInv => PortsCurrent
  BY DEF StacksInv, PortsInv, PortsCurrent
<1> QED BY <1>1, StacksInvCorrect, PTL

\* Every project was started with the environment stated for it.
LEMMA EnvironmentInvCorrect == Spec => []EnvironmentInv
<1>1. Init => EnvironmentInv
  BY StackNames DEF Init, StackInit, EnvironmentInv
<1>2. TypeInv /\ EnvironmentInv /\ [Next]_vars => EnvironmentInv'
  <2> SUFFICES ASSUME TypeInv, EnvironmentInv, [Next]_vars PROVE EnvironmentInv'
    OBVIOUS
  <2>t. StackTypeOK
    BY DEF TypeInv, TypeOK
  <2>1. CASE UNCHANGED <<pc, environment>>
    BY <2>1 DEF EnvironmentInv
  <2>2. ASSUME NEW s \in Stacks, StackStep(s) PROVE EnvironmentInv'
    <3>1. environment' = environment
      BY <2>2 DEF StackStep, CheckImages, ComposeUp, DiscoverPorts, Attach,
         PublishMonitoringUrl, CaptureLogs, Detach, ComposeDown, Release
    <3>2. \A r \in Stacks : pc[r] = "new" => pc'[r] = "new"
      BY <2>2, <2>t, StackStepFrame, OtherStacks
    <3> QED BY <3>1, <3>2, StackNames DEF EnvironmentInv
  <2>3. CASE CallStart(Server, ServerEnv)
    BY <2>3, <2>t, StackNames DEF CallStart, EnvironmentInv, StackTypeOK
  <2>4. ASSUME NEW t \in Tenants, CallStart(t, TenantEnv(t))
        PROVE  EnvironmentInv'
    BY <2>4, <2>t, StackNames DEF CallStart, EnvironmentInv, StackTypeOK
  <2>5. ASSUME NEW s \in Stacks, CallStop(s) PROVE EnvironmentInv'
    BY <2>5, <2>t, StackNames DEF CallStop, EnvironmentInv, StackTypeOK
  <2>6. CASE RunnerStep
    BY <2>1, <2>3, <2>4, <2>5, <2>6, RunnerStepCalls
  <2>7. CASE UNCHANGED vars
    BY <2>1, <2>7 DEF vars, stackVars
  <2> QED BY <2>2, <2>6, <2>7 DEF Next
<1> QED BY <1>1, <1>2, TypeInvCorrect, PTL DEF Spec

\* Whatever fails, and whatever the shell, the server's runner or the caller
\* have set, containers only run under the tenant they belong to.
THEOREM TenantOwnTenant == Spec => []OwnTenant
<1>1. StacksInv /\ EnvironmentInv => OwnTenant
  <2> SUFFICES ASSUME StacksInv, EnvironmentInv PROVE OwnTenant
    OBVIOUS
  <2>1. \A s \in Stacks : Up(s) => SpawnedAsStated(s) /\ pc[s] # "new"
    BY DEF StacksInv, SpawnInv
  <2>2. /\ Unset \notin {"", "broker"}
        /\ {"CLTL_TENANT", "CLTL_CONTAINER_AMQP_URL"} \subseteq EnvVars
    BY StackAssumption, TenantAssumption
  <2>3. ServerEnvironment["CLTL_TENANT"] = Unset => ServerEnv["CLTL_TENANT"] = ""
    BY <2>2, TenantAssumption DEF ServerEnv, SetDefault, Env
  <2>4. ASSUME NEW t \in Tenants
        PROVE  /\ TenantEnv(t)["CLTL_TENANT"] = TenantId[t]
               /\ TenantId[t] # Unset
               /\ TenantEnvironment[t]["CLTL_CONTAINER_AMQP_URL"] = Unset
                     => TenantEnv(t)["CLTL_CONTAINER_AMQP_URL"] = "broker"
    BY <2>2, TenantAssumption DEF TenantEnv, SetDefault, Env
  <2>5. Up(Server) => /\ SpawnedAsStated(Server)
                      /\ environment[Server] = ServerEnv
    BY <2>1, StackNames DEF EnvironmentInv
  <2>6. \A t \in Tenants : Up(t) => /\ SpawnedAsStated(t)
                                    /\ environment[t] = TenantEnv(t)
    BY <2>1, StackNames DEF EnvironmentInv
  <2>7. Up(Server) /\ ServerEnvironment["CLTL_TENANT"] = Unset
           => spawn[Server]["CLTL_TENANT"] = ""
    BY <2>2, <2>3, <2>5 DEF SpawnedAsStated
  <2>8. ASSUME NEW t \in Tenants, Up(t)
        PROVE  /\ spawn[t]["CLTL_TENANT"] = TenantId[t]
               /\ TenantEnvironment[t]["CLTL_CONTAINER_AMQP_URL"] = Unset
                     => spawn[t]["CLTL_CONTAINER_AMQP_URL"] = "broker"
    BY <2>2, <2>4, <2>6, <2>8 DEF SpawnedAsStated
  <2> QED BY <2>7, <2>8 DEF OwnTenant
<1> QED BY <1>1, StacksInvCorrect, EnvironmentInvCorrect, PTL

\* The loops of start() pass no tenant that is not running or has no view.
LEMMA ReachedStep ==
    ASSUME TypeInv, TypeInv', ReachedInv, RunnerStep
    PROVE  ReachedInv'
<1> USE StackNames DEF ReachedInv
<1>c. /\ cursor \in Int /\ pc \in [Stacks -> PCs]
      /\ \A t \in Tenants : t \in Int /\ 1 <= t /\ t <= NTenants
  BY DEF TypeInv, TypeOK, StackTypeOK, Tenants
<1>1. CASE Start \/ CheckAllImages \/ Stop \/ CloseViews \/ StopTenant
           \/ TenantStopped \/ StopServer \/ ServerStopped
  BY <1>1 DEF Start, CheckAllImages, RunnerRaise, Stop, CloseViews, StopTenant,
     TenantStopped, StopServer, ServerStopped
<1>2. CASE ServerStarted
  <2>1. CASE /\ pc[Server] = "running" /\ CallStart(1, TenantEnv(1))
             /\ rpc' = "tenant" /\ cursor' = 1
    <3>1. pc'[Server] = "running"
      BY <2>1, <1>c DEF CallStart
    <3>2. \A t \in Tenants : ~ (t < 1)
      BY <1>c
    <3> QED BY <2>1, <3>1, <3>2
  <2>2. CASE RunnerRaise(exc[Server])
    BY <2>2 DEF RunnerRaise
  <2> QED BY <1>2, <2>1, <2>2 DEF ServerStarted
<1>3. CASE TenantStarted
  <2>0. /\ cursor \in Tenants /\ rpc = "tenant" /\ pc[Server] = "running"
        /\ \A t \in Tenants : t < cursor => pc[t] = "running" /\ t \in stacks
    BY <1>3 DEF TenantStarted, TypeInv
  <2>1. CASE /\ pc[cursor] = "running" /\ cursor < NTenants
             /\ CallStart(cursor + 1, TenantEnv(cursor + 1))
             /\ cursor' = cursor + 1 /\ stacks' = stacks \cup {cursor}
             /\ rpc' = rpc
    <3>1. pc' = [pc EXCEPT ![cursor + 1] = "images"] /\ cursor + 1 \in Tenants
      BY <2>0, <2>1, CursorSteps DEF CallStart
    <3>2. pc'[Server] = "running"
      BY <2>0, <3>1, <1>c
    <3>3. ASSUME NEW t \in Tenants, t < cursor + 1
          PROVE  pc'[t] = "running" /\ t \in stacks'
      <4>1. t < cursor \/ t = cursor
        BY <3>3, <1>c
      <4>2. t # cursor + 1
        BY <3>3, <1>c
      <4>3. pc[t] = "running" /\ t \in stacks'
        BY <4>1, <2>0, <2>1
      <4> QED BY <3>1, <4>2, <4>3, <1>c
    <3> QED BY <2>0, <2>1, <3>2, <3>3
  <2>2. CASE /\ pc[cursor] = "running" /\ ~ (cursor < NTenants)
             /\ rpc' = "bindings" /\ stacks' = stacks \cup {cursor}
             /\ UNCHANGED <<stackVars, cursor>>
    <3>1. ASSUME NEW t \in Tenants PROVE t < cursor \/ t = cursor
      BY <2>2, <1>c
    <3> QED BY <2>0, <2>2, <3>1 DEF stackVars
  <2>3. CASE RunnerRaise(exc[cursor])
    BY <2>3 DEF RunnerRaise
  <2> QED BY <1>3, <2>1, <2>2, <2>3 DEF TenantStarted, MoreTenants
<1>4. CASE AwaitTenantBindings
  <2>1. CASE rpc' = "views" /\ cursor' = 1
    <3>1. \A t \in Tenants : ~ (t < 1)
      BY <1>c
    <3> QED BY <1>4, <2>1, <3>1 DEF AwaitTenantBindings, stackVars
  <2>2. CASE RunnerRaise("bindings")
    BY <2>2 DEF RunnerRaise
  <2> QED BY <1>4, <2>1, <2>2 DEF AwaitTenantBindings
<1>5. CASE OpenView
  <2>0. /\ cursor \in Tenants /\ rpc = "views"
        /\ UNCHANGED <<pc, stacks>> /\ bus \in [Stacks -> {"none", "open", "closed"}]
    BY <1>5 DEF OpenView, TypeInv, TypeOK, StackTypeOK
  <2>1. CASE /\ bus' = [bus EXCEPT ![cursor] = "open"]
             /\ views' = views \cup {cursor}
    <3>1. ASSUME NEW t \in Tenants, t < cursor \/ t = cursor
          PROVE  bus'[t] = "open" /\ t \in views'
      BY <3>1, <2>0, <2>1
    <3>2. CASE cursor < NTenants /\ cursor' = cursor + 1 /\ rpc' = rpc
      <4>1. \A t \in Tenants : t < cursor + 1 => t < cursor \/ t = cursor
        BY <1>c
      <4> QED BY <2>0, <3>1, <3>2, <4>1
    <3>3. CASE ~ (cursor < NTenants) /\ rpc' = "up"
      <4>1. \A t \in Tenants : t < cursor \/ t = cursor
        BY <1>c, <3>3
      <4> QED BY <2>0, <3>1, <3>3, <4>1
    <3>4. CASE RunnerRaise("view")
      BY <3>4 DEF RunnerRaise
    <3> QED BY <1>5, <3>2, <3>3, <3>4 DEF OpenView, MoreTenants
  <2>2. CASE RunnerRaise("view")
    BY <2>2 DEF RunnerRaise
  <2> QED BY <1>5, <2>1, <2>2 DEF OpenView
<1> QED BY <1>1, <1>2, <1>3, <1>4, <1>5 DEF RunnerStep

\* start() has reached what its program counter says.
LEMMA ReachedInvCorrect == Spec => []ReachedInv
<1>1. Init => ReachedInv
  BY DEF Init, ReachedInv
<1>2. TypeInv /\ TypeInv' /\ ReachedInv /\ [Next]_vars => ReachedInv'
  <2> SUFFICES ASSUME TypeInv, TypeInv', ReachedInv, [Next]_vars
               PROVE  ReachedInv'
    OBVIOUS
  <2>1. ASSUME NEW s \in Stacks, StackStep(s), UNCHANGED runnerVars
        PROVE  ReachedInv'
    <3>1. StackTypeOK
      BY DEF TypeInv, TypeOK
    <3>2. \A r \in Stacks : pc[r] = "running" => pc'[r] = "running"
      BY <2>1, <3>1, StackStepFrame, OtherStacks
    <3>3. ASSUME NEW t \in Tenants PROVE bus'[t] = bus[t]
      <4>1. t \in Stacks \ Attached
        BY StackNames, TenantAssumption
      <4>2. CASE Attach(s)
        BY <3>1, <4>1, <4>2 DEF Attach, StackTypeOK
      <4>3. CASE Detach(s)
        BY <3>1, <4>1, <4>3 DEF Detach, StackTypeOK
      <4>4. CASE ~ Attach(s) /\ ~ Detach(s)
        BY <2>1, <4>4
        DEF StackStep, CheckImages, ComposeUp, DiscoverPorts,
            PublishMonitoringUrl, CaptureLogs, ComposeDown, Release
      <4> QED BY <4>2, <4>3, <4>4
    <3> QED BY <2>1, <3>2, <3>3, StackNames DEF ReachedInv, runnerVars
  <2>2. CASE UNCHANGED vars
    BY <2>2 DEF vars, runnerVars, stackVars, ReachedInv
  <2> QED BY <2>1, <2>2, ReachedStep DEF Next
<1> QED BY <1>1, <1>2, TypeInvCorrect, PTL DEF Spec

\* Whatever else has failed before, start() returns only when every project
\* has all its containers and every tenant a bus of its own.
THEOREM TenantUpMeansUp == Spec => []UpMeansUp
<1>1. TypeInv /\ StacksInv /\ ReachedInv => UpMeansUp
  <2> SUFFICES ASSUME TypeInv, StacksInv, ReachedInv, rpc = "up"
               PROVE  /\ \A s \in Stacks :
                            /\ pc[s] = "running" /\ bus[s] = "open"
                            /\ \A c \in ServicesOf(s) : docker[s][c] > 0
                      /\ stacks = Tenants /\ views = Tenants
    BY DEF UpMeansUp
  <2>1. \A s \in Stacks : pc[s] = "running"
    BY StackNames DEF ReachedInv
  <2>2. \A s \in Stacks : bus[s] = "open"
    BY <2>1, StackNames, TenantAssumption
    DEF ReachedInv, StacksInv, RunningInv
  <2>3. \A s \in Stacks : \A c \in ServicesOf(s) : docker[s][c] > 0
    BY <2>1 DEF StacksInv, RunningInv
  <2>4. stacks = Tenants /\ views = Tenants
    BY DEF ReachedInv, TypeInv, TypeOK
  <2> QED BY <2>1, <2>2, <2>3, <2>4
<1> QED BY <1>1, StacksInvCorrect, ReachedInvCorrect, TypeInvCorrect, PTL

-----------------------------------------------------------------------------
(* The runner implements BrokerLease, when compose does what it says, no   *)
(* stack's stop() raises and a bus that is closed is closed.               *)

LeaseAssumptions == ComposeWorks /\ StopReturns /\ BusCloses

\* A runner's bus is only open while its stack runs.
LEMMA BusInvCorrect == ASSUME BusCloses PROVE Spec => []BusInv
<1>1. Init => BusInv
  BY StackAssumption DEF Init, StackInit, BusInv
<1>2. TypeInv /\ BusInv /\ [Next]_vars => BusInv'
  <2> SUFFICES ASSUME TypeInv, BusInv, [Next]_vars PROVE BusInv'
    OBVIOUS
  <2>t. StackTypeOK
    BY DEF TypeInv, TypeOK
  <2>1. CASE UNCHANGED pc /\ bus'[Server] = bus[Server]
    BY <2>1, TenantAssumption DEF BusInv
  <2>2. ASSUME NEW s \in Stacks, CallStop(s) \/ \E env \in Env : CallStart(s, env)
        PROVE  BusInv'
    BY <2>2, <2>t, CallBus
  <2>3. ASSUME NEW s \in Stacks, StackStep(s) PROVE BusInv'
    BY <2>3, <2>t, StackStepBus
  <2>4. CASE RunnerStep
    BY <2>1, <2>2, <2>4, RunnerStepCalls, TenantEnvType, StackNames
  <2>5. CASE UNCHANGED vars
    BY <2>1, <2>5 DEF vars, stackVars
  <2> QED BY <2>3, <2>4, <2>5 DEF Next
<1> QED BY <1>1, <1>2, TypeInvCorrect, PTL DEF Spec

\* The runner calls the server's stack when no tenant is left.
LEMMA RunnerStepLease ==
    ASSUME BusCloses, TypeInv, LeaseInv, RunnerStep
    PROVE  LeaseInv'
<1> USE StackNames DEF LeaseInv
<1>c. /\ pc \in [Stacks -> PCs] /\ bus \in [Stacks -> {"none", "open", "closed"}]
      /\ pc[Server] = "running" => pc[Server] \notin Busy
      /\ pc[Server] \in {"new", "stopped"} => pc[Server] \notin Busy
  BY DEF TypeInv, TypeOK, StackTypeOK, Busy
<1>1. CASE Start \/ AwaitTenantBindings \/ Stop \/ TenantStopped \/ ServerStopped
  BY <1>1, <1>c DEF Start, AwaitTenantBindings, RunnerRaise, Stop,
     TenantStopped, ServerStopped, stackVars
<1>2. CASE CheckAllImages
  <2>1. CASE CallStart(Server, ServerEnv) /\ rpc' = "server"
    BY <1>2, <2>1, <1>c DEF CheckAllImages, CallStart
  <2>2. CASE RunnerRaise("images") /\ UNCHANGED stackVars
    BY <1>2, <2>2 DEF CheckAllImages, RunnerRaise, stackVars
  <2> QED BY <1>2, <2>1, <2>2 DEF CheckAllImages
<1>3. CASE ServerStarted
  <2>1. CASE pc[Server] = "running" /\ CallStart(1, TenantEnv(1))
             /\ rpc' = "tenant"
    BY <1>3, <2>1, <1>c DEF ServerStarted, CallStart
  <2>2. CASE pc[Server] = "stopped" /\ RunnerRaise(exc[Server])
             /\ UNCHANGED stackVars
    BY <1>3, <2>2, <1>c DEF ServerStarted, RunnerRaise, stackVars
  <2> QED BY <1>3, <2>1, <2>2 DEF ServerStarted
<1>4. CASE TenantStarted
  <2>1. CASE /\ CallStart(cursor + 1, TenantEnv(cursor + 1)) /\ rpc' = rpc
             /\ cursor < NTenants
    <3>1. cursor + 1 \in Tenants
      BY <1>4, <2>1, CursorSteps DEF TenantStarted, TypeInv
    <3>2. pc'[Server] = pc[Server] /\ bus' = bus
      BY <2>1, <3>1, <1>c DEF CallStart
    <3> QED BY <1>4, <2>1, <3>2 DEF TenantStarted
  <2>2. CASE UNCHANGED stackVars /\ rpc' \in {"bindings", "close"}
    BY <1>4, <2>2 DEF TenantStarted, stackVars
  <2> QED BY <1>4, <2>1, <2>2 DEF TenantStarted, MoreTenants, RunnerRaise
<1>5. CASE OpenView
  <2>1. CASE /\ bus' = [bus EXCEPT ![cursor] = "open"]
             /\ views' = views \cup {cursor} /\ rpc' \in {"views", "up"}
    BY <1>5, <2>1, <1>c DEF OpenView
  <2>2. CASE rpc' = "close" /\ UNCHANGED <<bus, views>>
    BY <1>5, <2>2 DEF OpenView
  <2> QED BY <1>5, <2>1, <2>2 DEF OpenView, RunnerRaise
<1>6. CASE CloseViews
  <2>1. /\ bus' = [s \in Stacks |-> IF s \in views THEN "closed" ELSE bus[s]]
        /\ views' = {} /\ rpc = "close" /\ rpc' = "tenants" /\ pc' = pc
    BY <1>6 DEF CloseViews, BusCloses
  <2>2. \A t \in Tenants : bus'[t] # "open"
    BY <2>1
  <2> QED BY <2>1, <2>2
<1>7. CASE StopTenant
  <2>1. CASE /\ cursor \in stacks /\ CallStop(cursor) /\ rpc' = "stop_tenant"
    <3>1. cursor \in Tenants
      BY <2>1 DEF TypeInv, TypeOK
    <3>2. pc'[Server] = pc[Server] /\ bus' = bus
      BY <2>1, <3>1, <1>c DEF CallStop
    <3> QED BY <1>7, <2>1, <3>2 DEF StopTenant
  <2>2. CASE UNCHANGED stackVars /\ rpc' \in {"tenants", "stop_server"}
    BY <1>7, <2>2 DEF StopTenant, stackVars
  <2> QED BY <1>7, <2>1, <2>2 DEF StopTenant
<1>8. CASE StopServer
  <2>1. CASE CallStop(Server) /\ rpc' = "server_stop"
    BY <1>8, <2>1 DEF StopServer, CallStop
  <2>2. CASE pc[Server] = "new" /\ rpc' = "done" /\ UNCHANGED stackVars
    BY <1>8, <2>2, <1>c DEF StopServer, stackVars
  <2> QED BY <1>8, <2>1, <2>2 DEF StopServer
<1> QED BY <1>1, <1>2, <1>3, <1>4, <1>5, <1>6, <1>7, <1>8 DEF RunnerStep

\* The server is alone whenever it goes up or down.
LEMMA LeaseInvCorrect == ASSUME LeaseAssumptions PROVE Spec => []LeaseInv
<1>1. Init => LeaseInv
  BY StackNames DEF Init, StackInit, LeaseInv, Busy
<1>2. TypeInv /\ LeaseInv /\ [Next]_vars => LeaseInv'
  <2> SUFFICES ASSUME TypeInv, LeaseInv, [Next]_vars PROVE LeaseInv'
    OBVIOUS
  <2>1. ASSUME NEW s \in Stacks, StackStep(s), UNCHANGED runnerVars
        PROVE  LeaseInv'
    <3>t. StackTypeOK /\ ComposeWorks
      BY DEF TypeInv, TypeOK, LeaseAssumptions
    <3>1. /\ \A r \in Stacks : pc[r] \in {"new", "running", "stopped"}
                                 => pc'[r] = pc[r]
          /\ pc[s] \in Busy
      BY <2>1, <3>t, StackStepFrame, OtherStacks DEF StackTypeOK, Busy
    <3>2. \A t \in Tenants : bus'[t] = bus[t]
      <4>1. /\ \A r \in Stacks \ {s} : bus'[r] = bus[r]
            /\ s \notin Attached => bus'[s] = bus[s]
        BY <2>1, <3>t, StackStepUsers
      <4>2. \A t \in Tenants : t \in Stacks /\ t \notin Attached
        BY StackNames, TenantAssumption
      <4> QED BY <4>1, <4>2
    <3>3. pc'[Server] \in Busy => pc[Server] \in Busy
      <4>1. CASE s = Server
        BY <3>1, <4>1
      <4>2. CASE s # Server
        BY <2>1, <3>t, <4>2, OtherStacks, StackNames
      <4> QED BY <4>1, <4>2
    <3> QED BY <2>1, <3>1, <3>2, <3>3, StackNames DEF LeaseInv, runnerVars
  <2>2. CASE UNCHANGED vars
    BY <2>2 DEF vars, runnerVars, stackVars, LeaseInv
  <2> QED BY <2>1, <2>2, RunnerStepLease DEF Next, LeaseAssumptions
<1> QED BY <1>1, <1>2, TypeInvCorrect, PTL DEF Spec

\* The users are the containers of the tenants and the open buses.
LEMMA NoUsers ==
    ASSUME \A t \in Tenants : ~ Up(t), \A s \in Stacks : bus[s] # "open"
    PROVE  UsersNow = {}
BY DEF Users, UsersNow

\* Without a container or a bus more, nobody joins.
LEMMA UsersLeave ==
    ASSUME \A t \in Tenants : Up(t)' => Up(t),
           \A s \in Stacks : bus'[s] = "open" => bus[s] = "open"
    PROVE  UsersNow' \subseteq UsersNow
BY DEF Users, UsersNow

\* Without a container or a bus less, nobody leaves.
LEMMA UsersJoin ==
    ASSUME \A t \in Tenants : Up(t) => Up(t)',
           \A s \in Stacks : bus[s] = "open" => bus'[s] = "open"
    PROVE  UsersNow \subseteq UsersNow'
BY DEF Users, UsersNow

\* What a step may do to broker and users for BrokerLease to allow it.
LEMMA LeaseStepKinds ==
    ASSUME \/ /\ BrokerUp(Server)' = BrokerUp(Server)
              /\ \/ UsersNow' \subseteq UsersNow
                 \/ BrokerUp(Server) /\ UsersNow \subseteq UsersNow'
           \/ UsersNow = {} /\ UsersNow' = {}
    PROVE  [Lease!Next]_<<BrokerUp(Server), UsersNow>>
<1>t. BrokerUp(Server) \in BOOLEAN /\ BrokerUp(Server)' \in BOOLEAN
  BY DEF BrokerUp
<1>1. CASE /\ BrokerUp(Server)' = BrokerUp(Server)
           /\ UsersNow' \subseteq UsersNow
  <2>1. UsersNow \ UsersNow' \in SUBSET Users
    BY DEF UsersNow
  <2>2. UsersNow' = UsersNow \ (UsersNow \ UsersNow')
    BY <1>1
  <2>3. Lease!Leave(UsersNow \ UsersNow')
    BY <1>1, <2>2 DEF Lease!Leave
  <2> QED BY <2>1, <2>3 DEF Lease!Next
<1>2. CASE /\ BrokerUp(Server)' = BrokerUp(Server)
           /\ BrokerUp(Server) /\ UsersNow \subseteq UsersNow'
  <2>1. UsersNow' \in SUBSET Users
    BY DEF UsersNow, Users
  <2>2. UsersNow' = UsersNow \cup UsersNow'
    BY <1>2
  <2>3. Lease!Join(UsersNow')
    BY <1>2, <2>2 DEF Lease!Join
  <2> QED BY <2>1, <2>3 DEF Lease!Next
<1>3. CASE UsersNow = {} /\ UsersNow' = {}
  BY <1>3, <1>t DEF Lease!Next, Lease!Open, Lease!Close
<1> QED BY <1>1, <1>2, <1>3

\* Everything that is known of a state.
RunnerInv == /\ TypeInv /\ StacksInv /\ ContainersInv /\ BusInv
             /\ LoopInv /\ ReachedInv /\ LeaseInv /\ EnvironInv

\* While the server goes up or down, nobody is on the broker.
LEMMA ServerAlone ==
    ASSUME RunnerInv, pc[Server] \in {"up", "down"}
    PROVE  /\ \A t \in Tenants : ~ Up(t)
           /\ \A s \in Stacks : bus[s] # "open"
<1>1. rpc \in {"server", "server_stop"}
  BY DEF RunnerInv, LeaseInv, Busy, PCs
<1>2. \A t \in Tenants : pc[t] \in {"new", "stopped"}
  BY <1>1, StackNames
  DEF RunnerInv, LeaseInv, LoopInv, TypeInv, TypeOK, StackTypeOK, Busy
<1>3. \A t \in Tenants : ~ Up(t)
  BY <1>2, StackNames DEF RunnerInv, ContainersInv
<1>4. \A t \in Tenants : bus[t] # "open"
  BY <1>1 DEF RunnerInv, LeaseInv
<1>5. bus[Server] # "open"
  BY TenantAssumption DEF RunnerInv, BusInv
<1> QED BY <1>3, <1>4, <1>5, StackNames

\* While a tenant goes up, or any bus is opened, the broker is there.
LEMMA BrokerUnder ==
    ASSUME RunnerInv,
           \/ rpc = "views"
           \/ pc[Server] = "attach"
           \/ \E t \in Tenants : pc[t] \in {"up", "monitor"}
    PROVE  BrokerUp(Server)
<1>1. pc[Server] \in {"attach", "running"}
  BY DEF RunnerInv, LoopInv, ReachedInv, Busy, Stopping, TypeInv, TypeOK,
     StackTypeOK, PCs
<1>2. "rabbitmq" \in ServicesOf(Server)
  BY TenantAssumption DEF ServicesOf
<1>3. docker[Server]["rabbitmq"] > 0
  BY <1>1, <1>2, StackNames DEF RunnerInv, StacksInv, RunningInv
<1> QED BY <1>3 DEF BrokerUp

\* Every step is one of BrokerLease, or leaves broker and users alone.
LEMMA LeaseStep ==
    ASSUME LeaseAssumptions, RunnerInv, [Next]_vars
    PROVE  [Lease!Next]_<<BrokerUp(Server), UsersNow>>
<1>t. StackTypeOK /\ ComposeWorks
  BY DEF RunnerInv, TypeInv, TypeOK, LeaseAssumptions
<1>1. ASSUME NEW s \in Stacks, StackStep(s)
      PROVE  [Lease!Next]_<<BrokerUp(Server), UsersNow>>
  <2>1. \A r \in Stacks \ {s} : /\ Up(r)' = Up(r)
                                /\ BrokerUp(r)' = BrokerUp(r)
                                /\ bus'[r] = bus[r]
    BY <1>1, <1>t, StackStepUsers
  <2>2. /\ pc[s] \notin {"up", "down"} => BrokerUp(s)' = BrokerUp(s)
        /\ pc[s] \notin {"up", "monitor"} => (Up(s)' => Up(s))
        /\ pc[s] # "attach" => (bus'[s] = "open" => bus[s] = "open")
        /\ pc[s] = "attach" => (bus[s] = "open" => bus'[s] = "open")
        /\ pc[s] \in {"up", "monitor"} => bus'[s] = bus[s]
        /\ s \notin Attached => bus'[s] = bus[s]
    BY <1>1, <1>t, StackStepUsers
  <2>3. CASE s = Server
    <3>1. \A t \in Tenants : Up(t)' = Up(t)
      BY <2>1, <2>3, StackNames
    <3>2. CASE pc[Server] \in {"up", "down"}
      <4>1. UsersNow = {}
        BY <3>2, ServerAlone, NoUsers
      <4>2. UsersNow' \subseteq UsersNow
        BY <2>1, <2>2, <2>3, <3>1, <3>2, UsersLeave, UsersJoin
      <4> QED BY <4>1, <4>2, LeaseStepKinds
    <3>3. CASE pc[Server] = "attach"
      <4>1. UsersNow \subseteq UsersNow'
        BY <2>1, <2>2, <2>3, <3>1, <3>3, UsersLeave, UsersJoin
      <4> QED BY <2>2, <2>3, <3>3, <4>1, BrokerUnder, LeaseStepKinds
    <3>4. CASE pc[Server] \notin {"up", "down", "attach"}
      <4>1. UsersNow' \subseteq UsersNow
        BY <2>1, <2>2, <2>3, <3>1, <3>4, UsersLeave, UsersJoin
      <4> QED BY <2>2, <2>3, <3>4, <4>1, LeaseStepKinds
    <3> QED BY <3>2, <3>3, <3>4
  <2>4. CASE s \in Tenants
    <3>1. /\ BrokerUp(Server)' = BrokerUp(Server)
          /\ \A r \in Stacks : bus'[r] = bus[r]
      BY <2>1, <2>2, <2>4, StackNames, TenantAssumption
    <3>2. CASE pc[s] \in {"up", "monitor"}
      <4>1. BrokerUp(Server)
        BY <2>4, <3>2, BrokerUnder
      <4>2. CASE Up(s) => Up(s)'
        <5>1. UsersNow \subseteq UsersNow'
          BY <2>1, <3>1, <4>2, StackNames, UsersLeave, UsersJoin
        <5> QED BY <3>1, <4>1, <5>1, LeaseStepKinds
      <4>3. CASE Up(s)' => Up(s)
        <5>1. UsersNow' \subseteq UsersNow
          BY <2>1, <3>1, <4>3, StackNames, UsersLeave, UsersJoin
        <5> QED BY <3>1, <5>1, LeaseStepKinds
      <4> QED BY <4>2, <4>3
    <3>3. CASE pc[s] \notin {"up", "monitor"}
      <4>1. UsersNow' \subseteq UsersNow
        BY <2>1, <2>2, <3>1, <3>3, StackNames, UsersLeave, UsersJoin
      <4> QED BY <3>1, <4>1, LeaseStepKinds
    <3> QED BY <3>2, <3>3
  <2> QED BY <2>3, <2>4, StackNames
<1>2. ASSUME docker' = docker
      PROVE  BrokerUp(Server)' = BrokerUp(Server) /\ \A s \in Stacks : Up(s)' = Up(s)
  BY <1>2 DEF BrokerUp, Up
<1>3. CASE RunnerStep
  <2>1. docker' = docker
    BY <1>3, RunnerStepCalls DEF RunnerInv, CallStart, CallStop
  <2>2. CASE OpenView
    <3>1. /\ rpc = "views" /\ cursor \in Tenants
          /\ bus \in [Stacks -> {"none", "open", "closed"}]
      BY <2>2, <1>t DEF OpenView, RunnerInv, TypeInv, StackTypeOK
    <3>2. \A s \in Stacks : bus[s] = "open" => bus'[s] = "open"
      BY <2>2, <3>1 DEF OpenView
    <3>3. UsersNow \subseteq UsersNow'
      BY <1>2, <2>1, <3>2, StackNames, UsersLeave, UsersJoin
    <3> QED BY <1>2, <2>1, <3>1, <3>3, BrokerUnder, LeaseStepKinds
  <2>3. CASE ~ OpenView
    <3>1. \A s \in Stacks : bus'[s] = "open" => bus[s] = "open"
      <4>1. CASE CloseViews
        BY <4>1 DEF CloseViews
      <4>2. CASE ~ CloseViews
        BY <1>3, <2>3, <4>2
        DEF RunnerStep, Start, CheckAllImages, ServerStarted, TenantStarted,
            AwaitTenantBindings, Stop, StopTenant, TenantStopped, StopServer,
            ServerStopped, CallStart, CallStop, stackVars
      <4> QED BY <4>1, <4>2
    <3>2. UsersNow' \subseteq UsersNow
      BY <1>2, <2>1, <3>1, StackNames, UsersLeave, UsersJoin
    <3> QED BY <1>2, <2>1, <3>2, LeaseStepKinds
  <2> QED BY <2>2, <2>3
<1>4. CASE UNCHANGED vars
  <2>1. UNCHANGED <<docker, bus>>
    BY <1>4 DEF vars, stackVars
  <2>2. UsersNow' \subseteq UsersNow
    BY <1>2, <2>1, StackNames, UsersLeave, UsersJoin
  <2> QED BY <1>2, <2>1, <2>2, LeaseStepKinds
<1> QED BY <1>1, <1>3, <1>4 DEF Next

\* Nobody is on the broker before it is up and nobody is left on it when it
\* goes down, in every deployment: TenantRunner implements BrokerLease.
THEOREM TenantKeepsLease == ASSUME LeaseAssumptions PROVE Spec => LeaseKept
<1>1. Init => Lease!Init
  <2> SUFFICES ASSUME Init PROVE Lease!Init
    OBVIOUS
  <2>1. \A s \in Stacks : docker[s] = Nothing /\ bus[s] = "none"
    BY DEF Init, StackInit
  <2>2. \A c \in Services : ~ (Nothing[c] > 0)
    BY DEF Nothing
  <2>3. \A s \in Stacks : ~ Up(s) /\ ~ BrokerUp(s)
    BY <2>1, <2>2, StackAssumption DEF Up, BrokerUp
  <2>4. UsersNow = {}
    BY <2>1, <2>3, StackNames, NoUsers
  <2>5. BrokerUp(Server) = FALSE
    BY <2>3, StackNames DEF BrokerUp
  <2> QED BY <2>4, <2>5 DEF Lease!Init
<1>2. Spec => []RunnerInv
  <2>1. ComposeWorks /\ StopReturns /\ BusCloses
    BY DEF LeaseAssumptions
  <2>2. Spec => []ContainersInv
    BY <2>1, ContainersInvCorrect
  <2>3. Spec => []LoopInv
    BY <2>1, LoopInvCorrect
  <2>4. Spec => []BusInv
    BY <2>1, BusInvCorrect
  <2>5. Spec => []LeaseInv
    BY LeaseInvCorrect
  <2>6. TypeInv /\ StacksInv /\ ContainersInv /\ BusInv /\ LoopInv
        /\ ReachedInv /\ LeaseInv /\ EnvironInv => RunnerInv
    BY DEF RunnerInv
  <2> QED BY <2>2, <2>3, <2>4, <2>5, <2>6, TypeInvCorrect, StacksInvCorrect,
             ReachedInvCorrect, EnvironInvCorrect, PTL
<1>3. RunnerInv /\ [Next]_vars => [Lease!Next]_<<BrokerUp(Server), UsersNow>>
  BY LeaseStep
<1> QED BY <1>1, <1>2, <1>3, PTL DEF Spec, LeaseKept, Lease!Spec

-----------------------------------------------------------------------------
(* The runner implements RunnerContract, whatever fails.                   *)

\* Projects have containers of their own services only.
LEMMA ServicesInvCorrect == Spec => []ServicesInv
<1>1. Init => ServicesInv
  <2> SUFFICES ASSUME Init PROVE ServicesInv
    OBVIOUS
  <2>1. \A s \in Stacks : \A c \in Services : docker[s][c] = 0
    BY DEF Init, StackInit, Nothing
  <2> QED BY <2>1 DEF ServicesInv
<1>2. TypeInv /\ ServicesInv /\ [Next]_vars => ServicesInv'
  <2> SUFFICES ASSUME TypeInv, ServicesInv, [Next]_vars PROVE ServicesInv'
    OBVIOUS
  <2>1. ASSUME NEW s \in Stacks, StackStep(s) PROVE ServicesInv'
    BY <2>1, StackStepServices DEF TypeInv, TypeOK
  <2>2. CASE RunnerStep
    <3>1. docker' = docker
      BY <2>2, RunnerStepCalls DEF CallStart, CallStop
    <3> QED BY <3>1 DEF ServicesInv, ServicesOf
  <2>3. CASE UNCHANGED vars
    BY <2>3 DEF vars, stackVars, ServicesInv, ServicesOf
  <2> QED BY <2>1, <2>2, <2>3 DEF Next
<1> QED BY <1>1, <1>2, TypeInvCorrect, PTL DEF Spec

\* The runner goes on only when the project it has called is at rest.
LEMMA RunnerStepTurn ==
    ASSUME TypeInv, TurnInv, RunnerStep
    PROVE  TurnInv'
<1> USE StackNames DEF TurnInv
<1>c. /\ pc \in [Stacks -> PCs]
      /\ \A s \in Stacks : pc[s] \in {"new", "running", "stopped"}
                             => pc[s] \notin Busy
      /\ \A s \in Stacks : StopEntry(s) \in Stopping
  BY DEF TypeInv, TypeOK, StackTypeOK, Busy, StopEntry, Stopping
<1>1. CASE Start \/ AwaitTenantBindings \/ Stop \/ TenantStopped \/ ServerStopped
           \/ OpenView \/ CloseViews
  BY <1>1, <1>c DEF Start, AwaitTenantBindings, RunnerRaise, Stop,
     TenantStopped, ServerStopped, OpenView, CloseViews, stackVars
<1>2. CASE CheckAllImages
  <2>1. CASE CallStart(Server, ServerEnv) /\ rpc' = "server"
    BY <1>2, <2>1, <1>c DEF CheckAllImages, CallStart
  <2>2. CASE RunnerRaise("images") /\ UNCHANGED stackVars
    BY <1>2, <2>2 DEF CheckAllImages, RunnerRaise, stackVars
  <2> QED BY <1>2, <2>1, <2>2 DEF CheckAllImages
<1>3. CASE ServerStarted
  <2>1. CASE pc[Server] = "running" /\ CallStart(1, TenantEnv(1))
             /\ rpc' = "tenant" /\ cursor' = 1
    BY <1>3, <2>1, <1>c DEF ServerStarted, CallStart
  <2>2. CASE pc[Server] = "stopped" /\ RunnerRaise(exc[Server])
             /\ UNCHANGED stackVars
    BY <1>3, <2>2, <1>c DEF ServerStarted, RunnerRaise, stackVars
  <2> QED BY <1>3, <2>1, <2>2 DEF ServerStarted
<1>4. CASE TenantStarted
  <2>0. cursor \in Tenants /\ pc[cursor] \in {"running", "stopped"}
    BY <1>4 DEF TenantStarted, TypeInv
  <2>1. CASE /\ CallStart(cursor + 1, TenantEnv(cursor + 1)) /\ rpc' = rpc
             /\ cursor < NTenants /\ cursor' = cursor + 1
    <3>1. cursor + 1 \in Tenants
      BY <2>0, <2>1, CursorSteps
    <3> QED BY <1>4, <2>0, <2>1, <3>1, <1>c DEF TenantStarted, CallStart
  <2>2. CASE UNCHANGED stackVars /\ rpc' \in {"bindings", "close"}
    BY <1>4, <2>0, <2>2, <1>c DEF TenantStarted, stackVars
  <2> QED BY <1>4, <2>1, <2>2 DEF TenantStarted, MoreTenants, RunnerRaise
<1>5. CASE StopTenant
  <2>1. CASE cursor \in stacks /\ CallStop(cursor) /\ rpc' = "stop_tenant"
             /\ cursor' = cursor
    <3>1. cursor \in Tenants
      BY <2>1 DEF TypeInv, TypeOK
    <3> QED BY <1>5, <2>1, <3>1, <1>c DEF StopTenant, CallStop
  <2>2. CASE UNCHANGED stackVars /\ rpc' \in {"tenants", "stop_server"}
    BY <1>5, <2>2 DEF StopTenant, stackVars
  <2> QED BY <1>5, <2>1, <2>2 DEF StopTenant
<1>6. CASE StopServer
  <2>1. CASE CallStop(Server) /\ rpc' = "server_stop"
    BY <1>6, <2>1, <1>c DEF StopServer, CallStop
  <2>2. CASE pc[Server] = "new" /\ rpc' = "done" /\ UNCHANGED stackVars
    BY <1>6, <2>2, <1>c DEF StopServer, stackVars
  <2> QED BY <1>6, <2>1, <2>2 DEF StopServer
<1> QED BY <1>1, <1>2, <1>3, <1>4, <1>5, <1>6 DEF RunnerStep

\* One project at a time is in start() or stop(), and the runner waits for it.
LEMMA TurnInvCorrect == Spec => []TurnInv
<1>1. Init => TurnInv
  BY StackNames DEF Init, StackInit, TurnInv, Busy
<1>2. TypeInv /\ StacksInv /\ TurnInv /\ [Next]_vars => TurnInv'
  <2> SUFFICES ASSUME TypeInv, StacksInv, TurnInv, [Next]_vars PROVE TurnInv'
    OBVIOUS
  <2>1. ASSUME NEW s \in Stacks, StackStep(s), UNCHANGED runnerVars
        PROVE  TurnInv'
    <3>1. /\ pc[s] \in Busy
          /\ pc[s] \in Stopping => pc'[s] \in Stopping
          /\ \A r \in Stacks \ {s} : pc'[r] = pc[r]
      BY <2>1, StackStepParts DEF TypeInv, TypeOK, StacksInv
    <3>2. rpc = "stop_tenant" => cursor \in Tenants
      BY DEF TypeInv
    <3> QED BY <2>1, <3>1, <3>2, StackNames DEF TurnInv, runnerVars
  <2>2. CASE UNCHANGED vars
    BY <2>2 DEF vars, runnerVars, stackVars, TurnInv
  <2> QED BY <2>1, <2>2, RunnerStepTurn DEF Next
<1> QED BY <1>1, <1>2, TypeInvCorrect, StacksInvCorrect, PTL DEF Spec

\* While the runner is up it has all its parts, and never others.
PartsInv ==
    /\ {s \in Stacks : Up(s)} \subseteq {s \in Stacks : ServicesOf(s) # {}}
    /\ rpc = "up" => {s \in Stacks : Up(s)} = {s \in Stacks : ServicesOf(s) # {}}

LEMMA PartsInvCorrect == Spec => []PartsInv
<1>1. UpMeansUp /\ ServicesInv => PartsInv
  <2> SUFFICES ASSUME UpMeansUp, ServicesInv PROVE PartsInv
    OBVIOUS
  <2>1. \A s \in Stacks : ServicesOf(s) \subseteq Services
    BY StackAssumption DEF ServicesOf
  <2>2. \A s \in Stacks : Up(s) => ServicesOf(s) # {}
    BY DEF ServicesInv, Up
  <2>3. rpc = "up" => \A s \in Stacks : ServicesOf(s) # {} => Up(s)
    BY <2>1 DEF UpMeansUp, Up
  <2> QED BY <2>2, <2>3 DEF PartsInv
<1> QED BY <1>1, ServicesInvCorrect, TenantUpMeansUp, PTL

\* A step of the runner moves its phase on and no part.
LEMMA RunnerStepContract ==
    ASSUME TypeInv, TurnInv, PartsInv, PartsInv', RunnerStep
    PROVE  Contract!Next
<1>d. docker' = docker
  BY RunnerStepCalls DEF CallStart, CallStop
<1> DEFINE Now == {s \in Stacks : Up(s)}
           All == {s \in Stacks : ServicesOf(s) # {}}
<1>p. Now' = Now /\ Now \subseteq All /\ All' = All
  BY <1>d DEF PartsInv, Up, ServicesOf
<1>u. rpc' = "up" => Now' = All
  BY <1>p DEF PartsInv
<1> HIDE DEF Now, All
<1> USE <1>p DEF Contract!Next
<1>c. /\ pc \in [Stacks -> PCs] /\ "images" \notin Stopping
      /\ "running" \notin Stopping /\ "stopped" \in Stopping
  BY DEF TypeInv, TypeOK, StackTypeOK, Stopping
<1>1. CASE Start
  <2>1. Phase = "new" /\ Phase' = "starting"
    BY <1>1 DEF Start, Phase
  <2> QED BY <2>1 DEF Contract!Start, Now
<1>2. CASE CheckAllImages
  <2>1. Phase = "starting" /\ Phase' \in {"starting", "ending"}
    BY <1>2, <1>c, StackNames
    DEF CheckAllImages, Phase, CallStart, RunnerRaise, Begins
  <2> QED BY <2>1 DEF Contract!Grow, Contract!Fail, Now, All
<1>3. CASE ServerStarted
  <2>1. CASE pc[Server] = "running" /\ CallStart(1, TenantEnv(1))
             /\ rpc' = "tenant" /\ cursor' = 1
    <3>1. Phase = "starting" /\ Phase' = "starting"
      BY <1>3, <2>1, <1>c, StackNames DEF ServerStarted, Phase, CallStart, Begins
    <3> QED BY <3>1 DEF Contract!Grow, Now, All
  <2>2. CASE pc[Server] = "stopped" /\ rpc' = "close"
    <3>1. Phase = "ending" /\ Phase' = "ending"
      BY <1>3, <2>2, <1>c DEF ServerStarted, Phase, Begins
    <3> QED BY <3>1 DEF Contract!Shrink, Now
  <2> QED BY <1>3, <2>1, <2>2 DEF ServerStarted, RunnerRaise
<1>4. CASE TenantStarted
  <2>0. cursor \in Tenants
    BY <1>4 DEF TenantStarted, TypeInv
  <2>1. CASE /\ pc[cursor] = "running"
             /\ CallStart(cursor + 1, TenantEnv(cursor + 1)) /\ rpc' = rpc
             /\ cursor < NTenants /\ cursor' = cursor + 1
    <3>1. cursor + 1 \in Tenants
      BY <2>0, <2>1, CursorSteps
    <3>2. Phase = "starting" /\ Phase' = "starting"
      BY <1>4, <2>1, <3>1, <1>c, StackNames
      DEF TenantStarted, Phase, CallStart, Begins
    <3> QED BY <3>2 DEF Contract!Grow, Now, All
  <2>2. CASE pc[cursor] = "running" /\ rpc' = "bindings"
    <3>1. Phase = "starting" /\ Phase' = "starting"
      BY <1>4, <2>2, <1>c DEF TenantStarted, Phase, Begins
    <3> QED BY <3>1 DEF Contract!Grow, Now, All
  <2>3. CASE pc[cursor] = "stopped" /\ rpc' = "close"
    <3>1. Phase = "ending" /\ Phase' = "ending"
      BY <1>4, <2>3, <1>c DEF TenantStarted, Phase, Begins
    <3> QED BY <3>1 DEF Contract!Shrink, Now
  <2> QED BY <1>4, <2>1, <2>2, <2>3 DEF TenantStarted, MoreTenants, RunnerRaise
<1>5. CASE AwaitTenantBindings
  <2>1. Phase = "starting" /\ Phase' \in {"starting", "ending"}
    BY <1>5 DEF AwaitTenantBindings, Phase, RunnerRaise
  <2> QED BY <2>1 DEF Contract!Grow, Contract!Fail, Now, All
<1>6. CASE OpenView
  <2>1. /\ Phase = "starting" /\ Phase' \in {"starting", "ending", "up"}
        /\ Phase' = "up" => rpc' = "up"
    BY <1>6 DEF OpenView, Phase, RunnerRaise
  <2> QED BY <2>1, <1>u DEF Contract!Grow, Contract!Fail, Contract!Ready, Now, All
<1>7. CASE Stop
  <2>1. Phase = "up" /\ Phase' = "ending"
    BY <1>7 DEF Stop, Phase
  <2> QED BY <2>1 DEF Contract!Stop, Now
<1>8. CASE CloseViews \/ StopTenant \/ TenantStopped
  <2>1. Phase = "ending" /\ Phase' = "ending"
    BY <1>8 DEF CloseViews, StopTenant, TenantStopped, Phase
  <2> QED BY <2>1 DEF Contract!Shrink, Now
<1>9. CASE StopServer \/ ServerStopped
  <2>1. Phase = "ending" /\ Phase' \in {"ending", "stopped"}
    BY <1>9 DEF StopServer, ServerStopped, Phase
  <2> QED BY <2>1 DEF Contract!Shrink, Contract!Stopped, Now
<1> QED BY <1>1, <1>2, <1>3, <1>4, <1>5, <1>6, <1>7, <1>8, <1>9 DEF RunnerStep

\* A project's step grows the parts in start(), and shrinks them from its own
\* failure on.
LEMMA StackStepContract ==
    ASSUME TypeInv, StacksInv, TurnInv, PartsInv', NEW s \in Stacks, StackStep(s), UNCHANGED runnerVars
    PROVE  Contract!Next
<1> DEFINE Now == {r \in Stacks : Up(r)}
           All == {r \in Stacks : ServicesOf(r) # {}}
<1>1. /\ pc[s] \in Busy
      /\ pc[s] \notin Stopping => (Up(s) => Up(s)')
      /\ pc[s] \in Stopping => pc'[s] \in Stopping /\ (Up(s)' => Up(s))
      /\ \A r \in Stacks \ {s} : pc'[r] = pc[r] /\ Up(r)' = Up(r)
  BY StackStepParts DEF TypeInv, TypeOK, StacksInv
<1>2. Now' \subseteq All
  BY DEF PartsInv, ServicesOf
<1>3. CASE pc[s] \notin Stopping
  <2>1. Phase = "starting" /\ Phase' \in {"starting", "ending"}
    BY <1>1, <1>3, StackNames DEF TurnInv, Phase, Begins, runnerVars
  <2>2. Now \subseteq Now'
    BY <1>1, <1>3
  <2> HIDE DEF Now, All
  <2> QED BY <1>2, <2>1, <2>2 DEF Contract!Next, Contract!Grow, Contract!Fail, Now, All
<1>4. CASE pc[s] \in Stopping
  <2>1. Phase = "ending" /\ Phase' = "ending"
    BY <1>1, <1>4, StackNames DEF TurnInv, Phase, Begins, runnerVars
  <2>2. Now' \subseteq Now
    BY <1>1, <1>4
  <2> HIDE DEF Now, All
  <2> QED BY <2>1, <2>2 DEF Contract!Next, Contract!Shrink, Now
<1> QED BY <1>3, <1>4

\* Whatever fails: what start() brings up only grows, start() returns with all
\* of it, and after a failure or stop() nothing is brought up.
THEOREM TenantKeepsContract == Spec => ContractKept
<1>1. Init => Contract!Init
  <2> SUFFICES ASSUME Init PROVE Contract!Init
    OBVIOUS
  <2>1. \A s \in Stacks : \A c \in Services : docker[s][c] = 0
    BY DEF Init, StackInit, Nothing
  <2>2. {s \in Stacks : Up(s)} = {}
    BY <2>1 DEF Up
  <2>3. Phase = "new"
    BY DEF Init, Phase
  <2> QED BY <2>2, <2>3 DEF Contract!Init
<1>2. /\ TypeInv /\ StacksInv /\ TurnInv
      /\ PartsInv /\ PartsInv' /\ [Next]_vars
      => [Contract!Next]_(Contract!vars)
  <2>1. UNCHANGED vars => UNCHANGED Contract!vars
    BY DEF vars, stackVars, runnerVars, Contract!vars, Phase, Begins, Up
  <2> QED BY <2>1, RunnerStepContract, StackStepContract DEF Next
<1> QED BY <1>1, <1>2, TypeInvCorrect, StacksInvCorrect, TurnInvCorrect,
        PartsInvCorrect, PTL
        DEF Spec, ContractKept, Contract!Spec

=============================================================================
