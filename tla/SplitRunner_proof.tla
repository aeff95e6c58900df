------------------------- MODULE SplitRunner_proof --------------------------
(***************************************************************************)
(* What holds of every client/server split, for every set of failures.     *)
(***************************************************************************)
EXTENDS SplitRunner, ComposeStack_proof

\* The environments the two halves are started with are environments.
LEMMA HalfEnvType == ServerEnv \in Env /\ ClientEnv \in Env
BY SetDefaultType, SplitAssumption, StackAssumption DEF ServerEnv, ClientEnv

\* The initial state has the types.
LEMMA SplitInitType == Init => TypeOK
<1> SUFFICES ASSUME Init PROVE TypeOK
  OBVIOUS
<1>1. Nothing \in Containers
  BY DEF Nothing, Containers
<1>2. NoEnv \in Env /\ environ \in Env
  BY StackAssumption DEF Init, StackInit, NoEnv, Env
<1>3. StackTypeOK
  BY <1>1, <1>2 DEF Init, StackInit, StackTypeOK, PCs
<1> QED BY <1>2, <1>3 DEF Init, TypeOK, RPCs

\* The type invariant of the split runner.
THEOREM SplitTypeCorrect == Spec => []TypeOK
<1>1. Init => TypeOK
  BY SplitInitType
<1>2. TypeOK /\ [Next]_vars => TypeOK'
  <2> SUFFICES ASSUME TypeOK, [Next]_vars PROVE TypeOK'
    OBVIOUS
  <2> USE DEF TypeOK
  <2>h. "server" \in Stacks /\ "client" \in Stacks
    BY SplitAssumption DEF Halves
  <2>e. \A s \in Stacks : exc[s] \in FaultPoints \cup {None}
    BY DEF StackTypeOK
  <2>1. CASE Start
    BY <2>1 DEF Start, StackTypeOK, stackVars, RPCs
  <2>2. CASE CheckAllImages
    <3>1. CASE CallStart("server", ServerEnv) /\ rpc' = "server" /\ UNCHANGED rexc
      BY <2>2, <2>h, <3>1, CallStartType, HalfEnvType DEF CheckAllImages, RPCs
    <3>2. CASE RunnerRaise("images") /\ UNCHANGED stackVars
      BY <2>2, <3>2
      DEF CheckAllImages, RunnerRaise, StackTypeOK, stackVars, RPCs, FaultPoints
    <3> QED BY <2>2, <3>1, <3>2 DEF CheckAllImages
  <2>3. CASE ServerStarted
    <3>1. CASE CallStart("client", ClientEnv) /\ rpc' = "client" /\ UNCHANGED rexc
      BY <2>3, <2>h, <3>1, CallStartType, HalfEnvType DEF ServerStarted, RPCs
    <3>2. CASE RunnerRaise(exc["server"]) /\ UNCHANGED stackVars
      BY <2>3, <2>h, <2>e, <3>2
      DEF ServerStarted, RunnerRaise, StackTypeOK, stackVars, RPCs
    <3> QED BY <2>3, <3>1, <3>2 DEF ServerStarted
  <2>4. CASE ClientStarted
    BY <2>4, <2>h, <2>e
    DEF ClientStarted, RunnerRaise, StackTypeOK, stackVars, RPCs
  <2>5. CASE Stop
    BY <2>5 DEF Stop, StackTypeOK, stackVars, RPCs
  <2>6. ASSUME NEW half \in Stacks, NEW from, NEW calling \in RPCs,
               NEW skipped \in RPCs, StopHalf(half, from, calling, skipped)
        PROVE  TypeOK'
    <3>1. CASE pc[half] = "new" /\ rpc' = skipped /\ UNCHANGED stackVars
      BY <2>6, <3>1 DEF StopHalf, StackTypeOK, stackVars
    <3>2. CASE CallStop(half) /\ rpc' = calling
      BY <2>6, <3>2, CallStopType DEF StopHalf
    <3> QED BY <2>6, <3>1, <3>2 DEF StopHalf
  <2>7. ASSUME NEW half \in Stacks, NEW calling, NEW next \in RPCs,
               HalfStopped(half, calling, next)
        PROVE  TypeOK'
    BY <2>7, <2>e DEF HalfStopped, StackTypeOK, stackVars
  <2>8. CASE \E s \in Stacks : StackStep(s) /\ UNCHANGED runnerVars
    BY <2>8, StackStepType DEF runnerVars
  <2>9. CASE UNCHANGED vars
    BY <2>9 DEF vars, runnerVars, stackVars, StackTypeOK
  <2>10. CASE StopFirst \/ FirstStopped \/ StopSecond \/ SecondStopped
    BY <2>10, <2>h, <2>6, <2>7
    DEF StopFirst, FirstStopped, StopSecond, SecondStopped, StopOrder, RPCs
  <2> QED
    BY <2>1, <2>2, <2>3, <2>4, <2>5, <2>8, <2>9, <2>10 DEF Next, RunnerStep
<1> QED BY <1>1, <1>2, PTL DEF Spec

-----------------------------------------------------------------------------
(* The safety invariant: what each kind of step does to it.                *)

\* Only the server's steps move os.environ or its backup, and only its
\* release ends at "stopped", where the backup has been restored.
LEMMA StackStepSafe ==
    ASSUME SafetyInv, TypeOK', NEW s \in Stacks, StackStep(s),
           UNCHANGED runnerVars
    PROVE  SafetyInv'
<1> USE DEF SafetyInv, TypeOK
<1>h. "server" \in Stacks /\ "client" \in Stacks /\ s \in {"server", "client"}
  BY SplitAssumption DEF Halves
<1>u. shell \in Env /\ Unset \notin Env
  BY StackAssumption DEF Env
<1>a. pc[s] \notin {"new", "stopped", "running"}
  BY DEF StackStep, CheckImages, ComposeUp, DiscoverPorts, Attach,
         PublishMonitoringUrl, CaptureLogs, Detach, ComposeDown, Release
<1>b. /\ \A h \in Stacks \ {s} : pc'[h] = pc[h]
      /\ pc'[s] # "new"
      /\ backup' = backup
  BY DEF StackStep, CheckImages, ComposeUp, DiscoverPorts, Attach,
         PublishMonitoringUrl, CaptureLogs, Detach, ComposeDown, Release,
         Raise, StackTypeOK, StopEntry
<1>c. s = "client" => environ' = environ
  BY SplitAssumption DEF StackStep, CheckImages, ComposeUp, DiscoverPorts,
     Attach, PublishMonitoringUrl, CaptureLogs, Detach, ComposeDown, Release,
     Restored
<1>d. s = "server" /\ pc'[s] = "stopped" => environ' = shell
  <2>1. CASE Release(s)
    BY <2>1, <1>h, <1>u, <1>a, SplitAssumption DEF Release, Restored
  <2>2. CASE ~ Release(s)
    BY <2>2, <1>h DEF StackStep, CheckImages, ComposeUp, DiscoverPorts, Attach,
       PublishMonitoringUrl, CaptureLogs, Detach, ComposeDown, Raise,
       StackTypeOK, StopEntry
  <2> QED BY <2>1, <2>2
<1>e. rpc' = rpc /\ shell' = shell
  BY DEF runnerVars
<1> QED BY <1>h, <1>a, <1>b, <1>c, <1>d, <1>e

\* A stage of stop(), over which its half is neither new nor running.
LEMMA HalfStoppedSafe ==
    ASSUME SafetyInv, TypeOK', NEW half \in Stacks, NEW calling, NEW next,
           HalfStopped(half, calling, next),
           \/ half = "client" /\ next = "stop_second"
           \/ half = "server" /\ next = "done" /\ calling = "second_stopping"
    PROVE  SafetyInv'
BY DEF SafetyInv, HalfStopped, stackVars

\* Calling stop() of a half moves no environment, and a half that is new is
\* skipped.
LEMMA StopHalfSafe ==
    ASSUME SafetyInv, TypeOK', NEW half \in Stacks, NEW from, NEW calling,
           NEW skipped, StopHalf(half, from, calling, skipped),
           \/ /\ half = "client" /\ from = "stop_first"
              /\ calling = "first_stopping" /\ skipped = "stop_second"
           \/ /\ half = "server" /\ from = "stop_second"
              /\ calling = "second_stopping" /\ skipped = "done"
    PROVE  SafetyInv'
<1> USE DEF SafetyInv, TypeOK
<1>h. "server" \in Stacks /\ "client" \in Stacks
  BY SplitAssumption DEF Halves
<1>1. CASE pc[half] = "new" /\ rpc' = skipped /\ UNCHANGED stackVars
  BY <1>1 DEF StopHalf, stackVars
<1>2. CASE CallStop(half) /\ rpc' = calling
  <2>1. /\ \A h \in Stacks \ {half} : pc'[h] = pc[h]
        /\ pc'[half] \in {"logs", "detach"}
        /\ environ' = environ /\ backup' = backup
    BY <1>2 DEF CallStop, StopEntry, StackTypeOK
  <2> QED BY <1>2, <1>h, <2>1 DEF StopHalf, CallStop
<1> QED BY <1>1, <1>2 DEF StopHalf

\* Calling a half's start() gives the server its backup.
LEMMA CallStartSafe ==
    ASSUME SafetyInv, TypeOK', NEW half \in Stacks, NEW env,
           CallStart(half, env), shell' = shell,
           rpc' \in {"server", "client"}
    PROVE  SafetyInv'
<1> USE DEF SafetyInv, TypeOK
<1>h. /\ "server" \in Stacks /\ "client" \in Stacks
      /\ half \in {"server", "client"} /\ Attached = {"server"}
  BY SplitAssumption DEF Halves
<1>1. /\ \A h \in Stacks \ {half} : pc'[h] = pc[h]
      /\ pc[half] = "new" /\ pc'[half] = "images"
      /\ environ' = environ
      /\ half = "server" => backup'["server"] = environ
      /\ half = "client" => backup' = backup
  BY <1>h DEF CallStart, StackTypeOK
<1> QED BY <1>h, <1>1

\* The safety invariant holds of every behaviour.
THEOREM SplitSafe == Spec => []SafetyInv
<1>1. Init => SafetyInv
  BY SplitInitType, SplitAssumption DEF Init, StackInit, SafetyInv, Halves
<1>2. SafetyInv /\ TypeOK' /\ [Next]_vars => SafetyInv'
  <2> SUFFICES ASSUME SafetyInv, TypeOK', [Next]_vars PROVE SafetyInv'
    OBVIOUS
  <2>h. "server" \in Stacks /\ "client" \in Stacks
    BY SplitAssumption DEF Halves
  <2>1. CASE Start \/ ClientStarted \/ Stop
    BY <2>1 DEF Start, ClientStarted, RunnerRaise, Stop, SafetyInv, stackVars
  <2>2. CASE CheckAllImages
    <3>1. CASE CallStart("server", ServerEnv) /\ rpc' = "server"
      BY <2>2, <3>1, <2>h, CallStartSafe DEF CheckAllImages
    <3>2. CASE RunnerRaise("images") /\ UNCHANGED stackVars
      BY <2>2, <3>2 DEF CheckAllImages, RunnerRaise, SafetyInv, stackVars
    <3> QED BY <2>2, <3>1, <3>2 DEF CheckAllImages
  <2>3. CASE ServerStarted
    <3>1. CASE CallStart("client", ClientEnv) /\ rpc' = "client"
      BY <2>3, <3>1, <2>h, CallStartSafe DEF ServerStarted
    <3>2. CASE RunnerRaise(exc["server"]) /\ UNCHANGED stackVars
      BY <2>3, <3>2 DEF ServerStarted, RunnerRaise, SafetyInv, stackVars
    <3> QED BY <2>3, <3>1, <3>2 DEF ServerStarted
  <2>4. CASE StopFirst \/ StopSecond
    BY <2>4, <2>h, StopHalfSafe DEF StopFirst, StopSecond, StopOrder
  <2>5. CASE FirstStopped \/ SecondStopped
    BY <2>5, <2>h, HalfStoppedSafe DEF FirstStopped, SecondStopped, StopOrder
  <2>6. CASE \E s \in Stacks : StackStep(s) /\ UNCHANGED runnerVars
    BY <2>6, StackStepSafe
  <2>7. CASE UNCHANGED vars
    BY <2>7 DEF vars, runnerVars, stackVars, SafetyInv
  <2> QED
    BY <2>1, <2>2, <2>3, <2>4, <2>5, <2>6, <2>7 DEF Next, RunnerStep
<1> QED BY <1>1, <1>2, SplitTypeCorrect, PTL DEF Spec

\* Whatever fails, both halves are stopped when the runner is done.
THEOREM SplitTornDown == Spec => []NoStackAbandoned
<1>1. SafetyInv => NoStackAbandoned
  BY SplitAssumption DEF SafetyInv, NoStackAbandoned, AtRest, Halves
<1> QED BY <1>1, SplitSafe, PTL

\* Whatever fails, os.environ is what the process found when it is done.
THEOREM SplitEnvironRestored == Spec => []EnvironRestored
<1>1. SafetyInv => EnvironRestored
  BY DEF SafetyInv, EnvironRestored, AtRest
<1> QED BY <1>1, SplitSafe, PTL

-----------------------------------------------------------------------------
(* Environments.                                                           *)

\* What a step of the runner does to the stacks: nothing, or one call.
LEMMA SplitStepCalls ==
    ASSUME RunnerStep
    PROVE  \/ UNCHANGED stackVars
           \/ CallStart("server", ServerEnv)
           \/ CallStart("client", ClientEnv)
           \/ CallStop("server")
           \/ CallStop("client")
BY DEF RunnerStep, Start, CheckAllImages, ServerStarted, ClientStarted, Stop,
       StopFirst, FirstStopped, StopSecond, SecondStopped, StopHalf,
       HalfStopped, StopOrder

\* The two halves' environments hold, and nothing else is passed on.
LEMMA SplitEnvironments == Spec => [](SpawnInv /\ EnvironmentInv)
<1>h. "server" \in Stacks /\ "client" \in Stacks
  BY SplitAssumption DEF Halves
<1>1. Init => SpawnInv /\ EnvironmentInv
  <2> SUFFICES ASSUME Init PROVE SpawnInv /\ EnvironmentInv
    OBVIOUS
  <2>1. \A s \in Stacks : docker[s] = Nothing /\ pc[s] = "new"
    BY DEF Init, StackInit
  <2>2. \A c \in Services : ~ (Nothing[c] > 0)
    BY DEF Nothing
  <2>3. \A s \in Stacks : ~ Up(s)
    BY <2>1, <2>2 DEF Up
  <2> QED BY <2>1, <2>3, <1>h DEF SpawnInv, EnvironmentInv
<1>2. TypeOK /\ SpawnInv /\ EnvironmentInv /\ [Next]_vars
         => SpawnInv' /\ EnvironmentInv'
  <2> SUFFICES ASSUME TypeOK, SpawnInv, EnvironmentInv, [Next]_vars
               PROVE  SpawnInv' /\ EnvironmentInv'
    OBVIOUS
  <2>t. StackTypeOK
    BY DEF TypeOK
  <2>1. CASE UNCHANGED stackVars
    BY <2>1 DEF stackVars, SpawnInv, SpawnedAsStated, Up, EnvironmentInv
  <2>2. ASSUME NEW s \in Stacks, StackStep(s)
        PROVE  SpawnInv' /\ EnvironmentInv'
    <3>1. \A r \in Stacks :
             environment'[r] = environment[r] /\ (pc[r] = "new" => pc'[r] = "new")
      <4>1. environment' = environment
        BY <2>2 DEF StackStep, CheckImages, ComposeUp, DiscoverPorts, Attach,
           PublishMonitoringUrl, CaptureLogs, Detach, ComposeDown, Release
      <4> QED BY <4>1, <2>2, <2>t, StackStepFrame, OtherStacks
    <3> QED BY <3>1, <2>2, <2>t, <1>h, StackStepSpawn DEF EnvironmentInv
  <2>3. CASE CallStart("server", ServerEnv)
    <3>1. EnvironmentInv'
      BY <2>3, <2>t, <1>h DEF CallStart, EnvironmentInv, StackTypeOK
    <3> QED BY <3>1, <2>3, <2>t, <1>h, HalfEnvType, CallSpawn
  <2>4. CASE CallStart("client", ClientEnv)
    <3>1. EnvironmentInv'
      BY <2>4, <2>t, <1>h DEF CallStart, EnvironmentInv, StackTypeOK
    <3> QED BY <3>1, <2>4, <2>t, <1>h, HalfEnvType, CallSpawn
  <2>5. CASE CallStop("server") \/ CallStop("client")
    <3>1. EnvironmentInv'
      BY <2>5, <2>t, <1>h DEF CallStop, EnvironmentInv, StackTypeOK
    <3> QED BY <3>1, <2>5, <2>t, <1>h, CallSpawn
  <2>6. CASE UNCHANGED vars
    BY <2>1, <2>6 DEF vars
  <2> QED BY <2>1, <2>2, <2>3, <2>4, <2>5, <2>6, SplitStepCalls DEF Next
<1> QED BY <1>1, <1>2, SplitTypeCorrect, PTL DEF Spec

\* Whatever the shell or the other half's runner have put into os.environ,
\* each half's containers run in the environment stated for it.
THEOREM SplitOwnEnvironment == Spec => []OwnEnvironment
<1>1. SpawnInv /\ EnvironmentInv => OwnEnvironment
  <2> SUFFICES ASSUME SpawnInv, EnvironmentInv PROVE OwnEnvironment
    OBVIOUS
  <2>h. "server" \in Stacks /\ "client" \in Stacks
    BY SplitAssumption DEF Halves
  <2>1. Up("server") => SpawnedAsStated("server")
                        /\ environment["server"] = ServerEnv
    BY <2>h DEF SpawnInv, EnvironmentInv
  <2>2. Up("client") => SpawnedAsStated("client")
                        /\ environment["client"] = ClientEnv
    BY <2>h DEF SpawnInv, EnvironmentInv
  <2>3. \A v \in EnvVars :
           /\ ServerEnvironment[v] = Unset =>
                 ServerEnv[v] = IF v = "CLTL_BACKEND_MAIN" THEN "storage_main"
                                                           ELSE Unset
           /\ ClientEnvironment[v] = Unset =>
                 ClientEnv[v] = CASE v = "CLTL_BACKEND_MAIN" -> "main"
                                  [] v = "CLTL_CONTAINER_AMQP_URL" -> "broker"
                                  [] OTHER -> Unset
    BY StackAssumption, SplitAssumption DEF ServerEnv, ClientEnv, SetDefault, Env
  <2>4. /\ Unset \notin {"", "broker", "main", "storage_main"}
        /\ {"CLTL_TENANT", "CLTL_BACKEND_MAIN", "CLTL_CONTAINER_AMQP_URL"}
               \subseteq EnvVars
    BY StackAssumption, SplitAssumption
  <2> QED BY <2>1, <2>2, <2>3, <2>4 DEF OwnEnvironment, Stated, SpawnedAsStated
<1> QED BY <1>1, SplitEnvironments, PTL

-----------------------------------------------------------------------------
(* The runner implements BrokerLease, when compose does what it says and a *)
(* bus that is closed is closed.                                           *)

LeaseAssumptions == ComposeWorks /\ BusCloses

\* The facts about the stacks that need nothing of the runner.
StacksInv == ContainersInv /\ RunningInv /\ BusInv

\* The stacks' own invariants hold of every behaviour of the runner.
LEMMA SplitStacks == ASSUME LeaseAssumptions PROVE Spec => []StacksInv
<1>1. Init => StacksInv
  <2> SUFFICES ASSUME Init PROVE StacksInv
    OBVIOUS
  <2>1. \A s \in Stacks : /\ docker[s] = Nothing /\ pc[s] = "new"
                          /\ bus[s] = "none" /\ started[s] = FALSE
    BY DEF Init, StackInit
  <2>2. \A c \in Services : ~ (Nothing[c] > 0)
    BY DEF Nothing
  <2>3. \A s \in Stacks : ~ Up(s)
    BY <2>1, <2>2 DEF Up
  <2> QED BY <2>1, <2>3, StackAssumption
          DEF StacksInv, ContainersInv, RunningInv, BusInv
<1>2. TypeOK /\ StacksInv /\ [Next]_vars => StacksInv'
  <2> SUFFICES ASSUME TypeOK, StacksInv, [Next]_vars PROVE StacksInv'
    OBVIOUS
  <2>t. StackTypeOK /\ ComposeWorks /\ BusCloses
    BY DEF TypeOK, LeaseAssumptions
  <2>h. "server" \in Stacks /\ "client" \in Stacks
    BY SplitAssumption DEF Halves
  <2>1. CASE UNCHANGED stackVars
    BY <2>1 DEF stackVars, StacksInv, ContainersInv, RunningInv, BusInv, Up
  <2>2. ASSUME NEW s \in Stacks, CallStop(s) \/ \E env \in Env : CallStart(s, env)
        PROVE  StacksInv'
    BY <2>2, <2>t, CallContainers, CallRunning, CallBus DEF StacksInv
  <2>3. ASSUME NEW s \in Stacks, StackStep(s) PROVE StacksInv'
    BY <2>3, <2>t, StackStepContainers, StackStepRunning, StackStepBus
    DEF StacksInv
  <2>4. CASE RunnerStep
    BY <2>1, <2>2, <2>4, <2>h, SplitStepCalls, HalfEnvType
  <2>5. CASE UNCHANGED vars
    BY <2>1, <2>5 DEF vars
  <2> QED BY <2>3, <2>4, <2>5 DEF Next
<1> QED BY <1>1, <1>2, SplitTypeCorrect, PTL DEF Spec

\* The runner calls one half at a time, the client between the server's start
\* and its stop.
LEMMA SplitLeaseInv == Spec => []LeaseInv
<1>h. "server" \in Stacks /\ "client" \in Stacks /\ Stacks = {"server", "client"}
  BY SplitAssumption DEF Halves
<1>1. Init => LeaseInv
  BY <1>h DEF Init, StackInit, LeaseInv, Busy
<1>2. SafetyInv /\ LeaseInv /\ [Next]_vars => LeaseInv'
  <2> SUFFICES ASSUME SafetyInv, LeaseInv, [Next]_vars PROVE LeaseInv'
    OBVIOUS
  <2>t. StackTypeOK
    BY DEF SafetyInv, TypeOK
  <2>p. pc \in [Stacks -> PCs]
    BY <2>t DEF StackTypeOK
  <2>1. ASSUME NEW s \in Stacks, StackStep(s), UNCHANGED runnerVars
        PROVE  LeaseInv'
    <3>1. /\ pc[s] \in Busy
          /\ \A r \in Stacks \ {s} : pc'[r] = pc[r]
      BY <2>1, <2>t, StackStepFrame, OtherStacks DEF StackTypeOK, Busy
    <3>2. pc[s] \in Stopping => pc'[s] \in Stopping
      BY <2>1, <2>t
      DEF StackStep, CheckImages, ComposeUp, DiscoverPorts, Attach,
          PublishMonitoringUrl, CaptureLogs, Detach, ComposeDown, Release,
          StackTypeOK, Stopping
    <3> QED BY <2>1, <3>1, <3>2, <1>h DEF LeaseInv, runnerVars, Busy
  <2>2. CASE Start \/ Stop
    BY <2>2 DEF Start, Stop, LeaseInv, stackVars, Busy
  <2>3. CASE CheckAllImages
    <3>1. CASE CallStart("server", ServerEnv) /\ rpc' = "server"
      BY <2>3, <3>1, <1>h, <2>p DEF CheckAllImages, CallStart, LeaseInv, Busy
    <3>2. CASE RunnerRaise("images") /\ UNCHANGED stackVars
      BY <2>3, <3>2 DEF CheckAllImages, RunnerRaise, LeaseInv, stackVars
    <3> QED BY <2>3, <3>1, <3>2 DEF CheckAllImages
  <2>4. CASE ServerStarted
    <3>1. CASE /\ pc["server"] = "running" /\ CallStart("client", ClientEnv)
               /\ rpc' = "client"
      BY <2>4, <3>1, <1>h, <2>p DEF ServerStarted, CallStart, LeaseInv, Busy
    <3>2. CASE /\ pc["server"] = "stopped" /\ RunnerRaise(exc["server"])
               /\ UNCHANGED stackVars
      BY <2>4, <3>2 DEF ServerStarted, RunnerRaise, LeaseInv, stackVars, Busy
    <3> QED BY <2>4, <3>1, <3>2 DEF ServerStarted
  <2>5. CASE ClientStarted
    BY <2>5 DEF ClientStarted, RunnerRaise, LeaseInv, stackVars, Busy
  <2>6. CASE StopFirst
    <3>1. CASE CallStop("client") /\ rpc' = "first_stopping"
      <4>1. pc'["client"] \in Stopping /\ pc'["server"] = pc["server"]
        BY <3>1, <1>h, <2>p DEF CallStop, StopEntry, Stopping
      <4> QED BY <2>6, <3>1, <4>1
              DEF StopFirst, StopHalf, StopOrder, LeaseInv, Busy
    <3>2. CASE pc["client"] = "new" /\ rpc' = "stop_second" /\ UNCHANGED stackVars
      BY <2>6, <3>2 DEF StopFirst, StopHalf, StopOrder, LeaseInv, stackVars, Busy
    <3> QED BY <2>6, <3>1, <3>2 DEF StopFirst, StopHalf, StopOrder
  <2>7. CASE StopSecond
    <3>1. CASE CallStop("server") /\ rpc' = "second_stopping"
      <4>1. pc'["server"] \in Stopping /\ pc'["client"] = pc["client"]
        BY <3>1, <1>h, <2>p DEF CallStop, StopEntry, Stopping
      <4> QED BY <2>7, <3>1, <4>1
              DEF StopSecond, StopHalf, StopOrder, LeaseInv, Busy
    <3>2. CASE pc["server"] = "new" /\ rpc' = "done" /\ UNCHANGED stackVars
      BY <2>7, <3>2 DEF StopSecond, StopHalf, StopOrder, LeaseInv, stackVars, Busy
    <3> QED BY <2>7, <3>1, <3>2 DEF StopSecond, StopHalf, StopOrder
  <2>8. CASE FirstStopped \/ SecondStopped
    BY <2>8 DEF FirstStopped, SecondStopped, HalfStopped, StopOrder, LeaseInv,
       stackVars, Busy
  <2>9. CASE UNCHANGED vars
    BY <2>9 DEF vars, runnerVars, stackVars, LeaseInv
  <2> QED BY <2>1, <2>2, <2>3, <2>4, <2>5, <2>6, <2>7, <2>8, <2>9
          DEF Next, RunnerStep
<1> QED BY <1>1, <1>2, SplitSafe, PTL DEF Spec

\* The users are the client's containers and the probe's open bus.
LEMMA SplitUsers ==
    /\ (~ Up("client") /\ bus["server"] # "open") => UsersNow = {}
    /\ ((Up("client")' => Up("client"))
           /\ (bus'["server"] = "open" => bus["server"] = "open"))
          => (UsersNow' \subseteq UsersNow)
    /\ ((Up("client") => Up("client")')
           /\ (bus["server"] = "open" => bus'["server"] = "open"))
          => (UsersNow \subseteq UsersNow')
BY DEF Users, UsersNow

\* What a step may do to broker and users for BrokerLease to allow it.
LEMMA SplitStepKinds ==
    ASSUME \/ /\ BrokerUp("server")' = BrokerUp("server")
              /\ \/ UsersNow' \subseteq UsersNow
                 \/ BrokerUp("server") /\ UsersNow \subseteq UsersNow'
           \/ UsersNow = {} /\ UsersNow' = {}
    PROVE  [Lease!Next]_<<BrokerUp("server"), UsersNow>>
<1>t. BrokerUp("server") \in BOOLEAN /\ BrokerUp("server")' \in BOOLEAN
  BY DEF BrokerUp
<1>1. CASE /\ BrokerUp("server")' = BrokerUp("server")
           /\ UsersNow' \subseteq UsersNow
  <2>1. UsersNow \ UsersNow' \in SUBSET Users
    BY DEF UsersNow
  <2>2. UsersNow' = UsersNow \ (UsersNow \ UsersNow')
    BY <1>1
  <2>3. Lease!Leave(UsersNow \ UsersNow')
    BY <1>1, <2>2 DEF Lease!Leave
  <2> QED BY <2>1, <2>3 DEF Lease!Next
<1>2. CASE /\ BrokerUp("server")' = BrokerUp("server")
           /\ BrokerUp("server") /\ UsersNow \subseteq UsersNow'
  <2>1. UsersNow' \in SUBSET Users
    BY DEF UsersNow, Users
  <2>2. UsersNow' = UsersNow \cup UsersNow'
    BY <1>2
  <2>3. Lease!Join(UsersNow')
    BY <1>2, <2>2 DEF Lease!Join
  <2> QED BY <2>1, <2>3 DEF Lease!Next
<1>3. CASE UsersNow = {} /\ UsersNow' = {}
  BY <1>3, <1>t DEF Lease!Next, Lease!Open, Lease!Close
<1> QED BY <1>1, <1>2, <1>3

\* Every step is one of BrokerLease, or leaves broker and users alone.
LEMMA SplitLeaseStep ==
    ASSUME LeaseAssumptions, SafetyInv, StacksInv, LeaseInv, [Next]_vars
    PROVE  [Lease!Next]_<<BrokerUp("server"), UsersNow>>
<1>t. StackTypeOK /\ ComposeWorks
  BY DEF SafetyInv, TypeOK, LeaseAssumptions
<1>h. /\ "server" \in Stacks /\ "client" \in Stacks
      /\ "server" \in Attached /\ "client" \notin Attached
      /\ Stacks = {"server", "client"}
  BY SplitAssumption DEF Halves
<1>b. pc["server"] \in {"attach", "running"} => BrokerUp("server")
  <2>1. "rabbitmq" \in ServicesOf("server")
    BY <1>h DEF ServicesOf
  <2> QED BY <2>1, <1>h DEF StacksInv, RunningInv, BrokerUp
<1>s. CASE StackStep("server")
  <2>1. /\ Up("client")' = Up("client")
        /\ pc["server"] \notin {"up", "down"}
              => BrokerUp("server")' = BrokerUp("server")
        /\ pc["server"] # "attach"
              => (bus'["server"] = "open" => bus["server"] = "open")
        /\ pc["server"] = "attach"
              => (bus["server"] = "open" => bus'["server"] = "open")
    BY <1>s, <1>t, <1>h, StackStepUsers
  <2>2. CASE pc["server"] \in {"up", "down"}
    <3>1. rpc \in {"server", "second_stopping"}
      BY <2>2 DEF LeaseInv, Busy, PCs
    <3>2. pc["client"] \in {"new", "stopped"}
      BY <3>1 DEF LeaseInv, SafetyInv
    <3>3. ~ Up("client")
      BY <3>2, <1>h DEF StacksInv, ContainersInv
    <3>4. bus["server"] # "open"
      BY <2>2, <1>h DEF StacksInv, BusInv
    <3>5. UsersNow = {} /\ UsersNow' \subseteq UsersNow
      BY <2>1, <2>2, <3>3, <3>4, SplitUsers
    <3> QED BY <3>5, SplitStepKinds
  <2>3. CASE pc["server"] = "attach"
    <3>1. UsersNow \subseteq UsersNow'
      BY <2>1, <2>3, SplitUsers
    <3> QED BY <2>1, <2>3, <3>1, <1>b, SplitStepKinds
  <2>4. CASE pc["server"] \notin {"up", "down", "attach"}
    <3>1. UsersNow' \subseteq UsersNow
      BY <2>1, <2>4, SplitUsers
    <3> QED BY <2>1, <2>4, <3>1, SplitStepKinds
  <2> QED BY <2>2, <2>3, <2>4
<1>c. CASE StackStep("client")
  <2>1. /\ BrokerUp("server")' = BrokerUp("server")
        /\ bus'["server"] = bus["server"]
        /\ pc["client"] \notin {"up", "monitor"}
              => (Up("client")' => Up("client"))
    BY <1>c, <1>t, <1>h, StackStepUsers
  <2>2. CASE pc["client"] \in {"up", "monitor"}
    <3>1. rpc = "client"
      BY <2>2 DEF LeaseInv, Busy, Stopping, PCs
    <3>2. BrokerUp("server")
      BY <3>1, <1>b DEF LeaseInv
    <3>3. UsersNow' \subseteq UsersNow \/ UsersNow \subseteq UsersNow'
      BY <2>1, SplitUsers
    <3> QED BY <2>1, <3>2, <3>3, SplitStepKinds
  <2>3. CASE pc["client"] \notin {"up", "monitor"}
    <3>1. UsersNow' \subseteq UsersNow
      BY <2>1, <2>3, SplitUsers
    <3> QED BY <2>1, <3>1, SplitStepKinds
  <2> QED BY <2>2, <2>3
<1>3. ASSUME UNCHANGED <<docker, bus>>
      PROVE  [Lease!Next]_<<BrokerUp("server"), UsersNow>>
  <2>1. BrokerUp("server")' = BrokerUp("server") /\ Up("client")' = Up("client")
    BY <1>3 DEF BrokerUp, Up
  <2>2. UsersNow' \subseteq UsersNow
    BY <1>3, <2>1, SplitUsers
  <2> QED BY <2>1, <2>2, SplitStepKinds
<1>4. CASE RunnerStep
  BY <1>3, <1>4, SplitStepCalls DEF stackVars, CallStart, CallStop
<1>5. CASE UNCHANGED vars
  BY <1>3, <1>5 DEF vars, stackVars
<1> QED BY <1>s, <1>c, <1>4, <1>5, <1>h DEF Next

\* The broker is up before the client and the probe's bus and goes down after
\* them, as long as compose does what it is asked to and the bus gets closed;
\* the capture of the logs in stop() may be interrupted: SplitRunner implements
\* BrokerLease.
THEOREM SplitKeepsLease == ASSUME LeaseAssumptions PROVE Spec => LeaseKept
<1>h. "server" \in Stacks /\ "client" \in Stacks
  BY SplitAssumption DEF Halves
<1>1. Init => Lease!Init
  <2> SUFFICES ASSUME Init PROVE Lease!Init
    OBVIOUS
  <2>1. \A s \in Stacks : docker[s] = Nothing /\ bus[s] = "none"
    BY DEF Init, StackInit
  <2>2. \A c \in Services : ~ (Nothing[c] > 0)
    BY DEF Nothing
  <2>3. \A s \in Stacks : ~ Up(s) /\ ~ BrokerUp(s)
    BY <2>1, <2>2, StackAssumption DEF Up, BrokerUp
  <2>4. UsersNow = {}
    BY <2>1, <2>3, <1>h, SplitUsers
  <2>5. BrokerUp("server") = FALSE
    BY <2>3, <1>h DEF BrokerUp
  <2> QED BY <2>4, <2>5 DEF Lease!Init
<1>2. Spec => []StacksInv
  BY SplitStacks
<1>3. SafetyInv /\ StacksInv /\ LeaseInv /\ [Next]_vars
         => [Lease!Next]_<<BrokerUp("server"), UsersNow>>
  BY SplitLeaseStep
<1> QED BY <1>1, <1>2, <1>3, SplitSafe, SplitLeaseInv, PTL
        DEF Spec, LeaseKept, Lease!Spec

-----------------------------------------------------------------------------
(* The runner implements RunnerContract, whatever fails.                   *)

\* A half that goes on has all its containers, and no half has others.
LEMMA SplitParts == Spec => [](RunningInv /\ ServicesInv)
<1>1. Init => RunningInv /\ ServicesInv
  <2> SUFFICES ASSUME Init PROVE RunningInv /\ ServicesInv
    OBVIOUS
  <2>1. \A s \in Stacks : /\ pc[s] = "new"
                          /\ \A c \in Services : docker[s][c] = 0
    BY DEF Init, StackInit, Nothing
  <2> QED BY <2>1 DEF RunningInv, ServicesInv
<1>2. TypeOK /\ RunningInv /\ ServicesInv /\ [Next]_vars
         => RunningInv' /\ ServicesInv'
  <2> SUFFICES ASSUME TypeOK, RunningInv, ServicesInv, [Next]_vars
               PROVE  RunningInv' /\ ServicesInv'
    OBVIOUS
  <2>t. StackTypeOK
    BY DEF TypeOK
  <2>h. "server" \in Stacks /\ "client" \in Stacks
    BY SplitAssumption DEF Halves
  <2>1. CASE UNCHANGED stackVars
    BY <2>1 DEF stackVars, RunningInv, ServicesInv, ServicesOf
  <2>2. ASSUME NEW s \in Stacks, CallStop(s) \/ \E env \in Env : CallStart(s, env)
        PROVE  RunningInv' /\ ServicesInv'
    <3>1. docker' = docker
      BY <2>2 DEF CallStart, CallStop
    <3>2. ServicesInv'
      BY <3>1 DEF ServicesInv, ServicesOf
    <3> QED BY <2>2, <2>t, <3>2, CallRunning
  <2>3. ASSUME NEW s \in Stacks, StackStep(s)
        PROVE  RunningInv' /\ ServicesInv'
    BY <2>3, <2>t, StackStepRunning, StackStepServices
  <2>4. CASE RunnerStep
    BY <2>1, <2>2, <2>4, <2>h, SplitStepCalls, HalfEnvType
  <2>5. CASE UNCHANGED vars
    BY <2>1, <2>5 DEF vars
  <2> QED BY <2>3, <2>4, <2>5 DEF Next
<1> QED BY <1>1, <1>2, SplitTypeCorrect, PTL DEF Spec

\* While the runner is up it has both halves, and never others.
PartsInv ==
    /\ {s \in Stacks : Up(s)} \subseteq {s \in Stacks : ServicesOf(s) # {}}
    /\ rpc = "up" => {s \in Stacks : Up(s)} = {s \in Stacks : ServicesOf(s) # {}}

LEMMA SplitPartsInv == Spec => []PartsInv
<1>1. LeaseInv /\ RunningInv /\ ServicesInv => PartsInv
  <2> SUFFICES ASSUME LeaseInv, RunningInv, ServicesInv PROVE PartsInv
    OBVIOUS
  <2>1. \A s \in Stacks : ServicesOf(s) \subseteq Services
    BY StackAssumption DEF ServicesOf
  <2>2. \A s \in Stacks : Up(s) => ServicesOf(s) # {}
    BY DEF ServicesInv, Up
  <2>3. rpc = "up" => \A s \in Stacks : pc[s] = "running"
    BY SplitAssumption DEF LeaseInv, Halves
  <2>4. rpc = "up" => \A s \in Stacks : ServicesOf(s) # {} => Up(s)
    BY <2>1, <2>3 DEF RunningInv, Up
  <2> QED BY <2>2, <2>4 DEF PartsInv
<1> QED BY <1>1, SplitLeaseInv, SplitParts, PTL

\* A step of the runner moves its phase on and no part.
LEMMA SplitRunnerContract ==
    ASSUME TypeOK, LeaseInv, PartsInv, PartsInv', RunnerStep
    PROVE  Contract!Next
<1>d. docker' = docker
  BY SplitStepCalls DEF CallStart, CallStop, stackVars
<1> DEFINE Now == {s \in Stacks : Up(s)}
           All == {s \in Stacks : ServicesOf(s) # {}}
<1>p. Now' = Now /\ Now \subseteq All /\ All' = All
  BY <1>d DEF PartsInv, Up, ServicesOf
<1>u. rpc' = "up" => Now' = All
  BY <1>p DEF PartsInv
<1> HIDE DEF Now, All
<1> USE <1>p DEF Contract!Next
<1>c. /\ pc \in [Stacks -> PCs] /\ "images" \notin Stopping
      /\ "running" \notin Stopping /\ "stopped" \in Stopping
      /\ "server" \in Stacks /\ "client" \in Stacks
  BY SplitAssumption DEF TypeOK, StackTypeOK, Stopping, Halves
<1>1. CASE Start
  <2>1. Phase = "new" /\ Phase' = "starting"
    BY <1>1 DEF Start, Phase
  <2> QED BY <2>1 DEF Contract!Start, Now
<1>2. CASE CheckAllImages
  <2>1. Phase = "starting" /\ Phase' \in {"starting", "ending"}
    BY <1>2, <1>c DEF CheckAllImages, Phase, CallStart, RunnerRaise, Begins
  <2> QED BY <2>1 DEF Contract!Grow, Contract!Fail, Now, All
<1>3. CASE ServerStarted
  <2>1. CASE pc["server"] = "running" /\ CallStart("client", ClientEnv)
             /\ rpc' = "client"
    <3>1. Phase = "starting" /\ Phase' = "starting"
      BY <1>3, <2>1, <1>c DEF ServerStarted, Phase, CallStart, Begins
    <3> QED BY <3>1 DEF Contract!Grow, Now, All
  <2>2. CASE pc["server"] = "stopped" /\ rpc' = "stop_first"
    <3>1. Phase = "ending" /\ Phase' = "ending"
      BY <1>3, <2>2, <1>c DEF ServerStarted, Phase, Begins
    <3> QED BY <3>1 DEF Contract!Shrink, Now
  <2> QED BY <1>3, <2>1, <2>2 DEF ServerStarted, RunnerRaise
<1>4. CASE ClientStarted
  <2>1. CASE pc["client"] = "running" /\ rpc' = "up"
    <3>1. Phase = "starting" /\ Phase' = "up"
      BY <1>4, <2>1, <1>c DEF ClientStarted, Phase, Begins
    <3> QED BY <2>1, <3>1, <1>u DEF Contract!Ready, Now, All
  <2>2. CASE pc["client"] = "stopped" /\ rpc' = "stop_first"
    <3>1. Phase = "ending" /\ Phase' = "ending"
      BY <1>4, <2>2, <1>c DEF ClientStarted, Phase, Begins
    <3> QED BY <3>1 DEF Contract!Shrink, Now
  <2> QED BY <1>4, <2>1, <2>2 DEF ClientStarted, RunnerRaise
<1>5. CASE Stop
  <2>1. Phase = "up" /\ Phase' = "ending"
    BY <1>5 DEF Stop, Phase
  <2> QED BY <2>1 DEF Contract!Stop, Now
<1>6. CASE StopFirst \/ FirstStopped
  <2>1. Phase = "ending" /\ Phase' = "ending"
    BY <1>6 DEF StopFirst, FirstStopped, StopHalf, HalfStopped, StopOrder, Phase
  <2> QED BY <2>1 DEF Contract!Shrink, Now
<1>7. CASE StopSecond \/ SecondStopped
  <2>1. Phase = "ending" /\ Phase' \in {"ending", "stopped"}
    BY <1>7
    DEF StopSecond, SecondStopped, StopHalf, HalfStopped, StopOrder, Phase
  <2> QED BY <2>1 DEF Contract!Shrink, Contract!Stopped, Now
<1> QED BY <1>1, <1>2, <1>3, <1>4, <1>5, <1>6, <1>7 DEF RunnerStep

\* A half's step grows the parts in start(), and shrinks them from its own
\* failure on.
LEMMA SplitStackContract ==
    ASSUME TypeOK, SpawnInv, RunningInv, LeaseInv, PartsInv', NEW s \in Stacks,
           StackStep(s), UNCHANGED runnerVars
    PROVE  Contract!Next
<1> DEFINE Now == {r \in Stacks : Up(r)}
           All == {r \in Stacks : ServicesOf(r) # {}}
<1>h. Stacks = {"server", "client"}
  BY SplitAssumption DEF Halves
<1>1. /\ pc[s] \in Busy
      /\ pc[s] \notin Stopping => (Up(s) => Up(s)')
      /\ pc[s] \in Stopping => pc'[s] \in Stopping /\ (Up(s)' => Up(s))
      /\ \A r \in Stacks \ {s} : pc'[r] = pc[r] /\ Up(r)' = Up(r)
  BY StackStepParts DEF TypeOK
<1>2. Now' \subseteq All
  BY DEF PartsInv, ServicesOf
<1>3. CASE pc[s] \notin Stopping
  <2>1. Phase = "starting" /\ Phase' \in {"starting", "ending"}
    BY <1>1, <1>3, <1>h DEF LeaseInv, Phase, Begins, runnerVars
  <2>2. Now \subseteq Now'
    BY <1>1, <1>3
  <2> HIDE DEF Now, All
  <2> QED BY <1>2, <2>1, <2>2
          DEF Contract!Next, Contract!Grow, Contract!Fail, Now, All
<1>4. CASE pc[s] \in Stopping
  <2>1. Phase = "ending" /\ Phase' = "ending"
    BY <1>1, <1>4, <1>h DEF LeaseInv, Phase, Begins, runnerVars
  <2>2. Now' \subseteq Now
    BY <1>1, <1>4
  <2> HIDE DEF Now, All
  <2> QED BY <2>1, <2>2 DEF Contract!Next, Contract!Shrink, Now
<1> QED BY <1>3, <1>4

\* Whatever fails: start() only adds halves and returns with both, and neither
\* is brought up after a failure or stop().
THEOREM SplitKeepsContract == Spec => ContractKept
<1>1. Init => Contract!Init
  <2> SUFFICES ASSUME Init PROVE Contract!Init
    OBVIOUS
  <2>1. \A s \in Stacks : \A c \in Services : docker[s][c] = 0
    BY DEF Init, StackInit, Nothing
  <2>2. {s \in Stacks : Up(s)} = {}
    BY <2>1 DEF Up
  <2>3. Phase = "new"
    BY DEF Init, Phase
  <2> QED BY <2>2, <2>3 DEF Contract!Init
<1>2. /\ TypeOK /\ SpawnInv /\ EnvironmentInv /\ RunningInv /\ ServicesInv
      /\ LeaseInv /\ PartsInv /\ PartsInv' /\ [Next]_vars
      => [Contract!Next]_(Contract!vars)
  <2>1. UNCHANGED vars => UNCHANGED Contract!vars
    BY DEF vars, stackVars, runnerVars, Contract!vars, Phase, Begins, Up
  <2> QED BY <2>1, SplitRunnerContract, SplitStackContract DEF Next
<1> QED BY <1>1, <1>2, SplitTypeCorrect, SplitEnvironments, SplitParts,
        SplitLeaseInv, SplitPartsInv, PTL
        DEF Spec, ContractKept, Contract!Spec

=============================================================================
