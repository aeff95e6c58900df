------------------------- MODULE ComposeStack_proof -------------------------
(***************************************************************************)
(* Facts about the steps of one compose stack, for the proofs about the    *)
(* runners that call them.                                                 *)
(***************************************************************************)
EXTENDS ComposeStack, TLAPS

\* dict.update on environments gives an environment.
LEMMA UpdateType ==
    ASSUME NEW env \in Env, NEW with \in Env
    PROVE  Update(env, with) \in Env
BY DEF Update, Env

\* dict.setdefault on environments gives an environment.
LEMMA SetDefaultType ==
    ASSUME NEW env \in Env, NEW var \in EnvVars, NEW value \in Values
    PROVE  SetDefault(env, var, value) \in Env
BY DEF SetDefault, Env

\* The environment of a compose command is an environment.
LEMMA ComposeEnvType ==
    ASSUME StackTypeOK, NEW s \in Stacks
    PROVE  ComposeEnv(s) \in Env
<1>1. [environ EXCEPT !["CLTL_TENANT"] = ""] \in Env
  BY StackAssumption DEF StackTypeOK, Env
<1>2. environment[s] \in Env
  BY DEF StackTypeOK
<1> QED BY <1>1, <1>2, UpdateType DEF ComposeEnv

\* What _attach makes of os.environ is an environment.
LEMMA AttachEnvType ==
    ASSUME StackTypeOK, NEW s \in Stacks
    PROVE  AttachEnv(s) \in Env
<1>1. [environ EXCEPT !["CLTL_AMQP_URL"] = "broker",
                      !["CLTL_TENANT"] = ""] \in Env
  BY StackAssumption DEF StackTypeOK, Env
<1>2. environment[s] \in Env
  BY DEF StackTypeOK
<1> QED BY <1>1, <1>2, UpdateType DEF AttachEnv

\* What Docker runs is a generation per service, whatever was created or left.
LEMMA DockerType ==
    ASSUME StackTypeOK, NEW s \in Stacks, NEW some
    PROVE  /\ Nothing \in Containers
           /\ Created(some) \in Containers
           /\ Left(s, some) \in Containers
           /\ PartlyRead(s, some) \in Containers
           /\ PartlyReread(s, some) \in Containers
           /\ \A generation \in 0..2 : Recreated(s, generation) \in Containers
<1>1. docker[s] \in Containers /\ ports[s] \in Containers
  BY DEF StackTypeOK
<1>2. Nothing \in Containers /\ Created(some) \in Containers
  BY DEF Nothing, Created, Containers
<1>3. \A c \in Services : docker[s][c] \in 0..2 /\ ports[s][c] \in 0..2
  BY <1>1 DEF Containers
<1>4. Left(s, some) \in Containers /\ PartlyRead(s, some) \in Containers
  BY <1>3 DEF Left, PartlyRead, Containers
<1>5. \A generation \in 0..2 : Recreated(s, generation) \in Containers
  BY <1>1 DEF Recreated, Containers
<1>6. PartlyReread(s, some) \in Containers
  <2>1. \A c \in Services : Recreated(s, 2)[c] \in 0..2
    BY <1>5 DEF Containers
  <2> QED BY <1>3, <2>1 DEF PartlyReread, Containers
<1> QED
  BY <1>2, <1>4, <1>5, <1>6

\* A failing step of start() leaves a type-correct pc and exc.
LEMMA RaiseType ==
    ASSUME StackTypeOK, NEW s \in Stacks, NEW fault, Raise(s, fault)
    PROVE  /\ pc' \in [Stacks -> PCs]
           /\ exc' \in [Stacks -> FaultPoints \cup {None}]
BY StackAssumption DEF Raise, StackTypeOK, StopEntry, PCs

\* Calling start() with an environment keeps the types.
LEMMA CallStartType ==
    ASSUME StackTypeOK, NEW s \in Stacks, NEW env \in Env, CallStart(s, env)
    PROVE  StackTypeOK'
BY DEF StackTypeOK, CallStart, PCs

\* Calling stop() keeps the types.
LEMMA CallStopType ==
    ASSUME StackTypeOK, NEW s \in Stacks, CallStop(s)
    PROVE  StackTypeOK'
BY DEF StackTypeOK, CallStop, StopEntry, PCs

\* Every step of a stack keeps the types.
LEMMA StackStepType ==
    ASSUME StackTypeOK, NEW s \in Stacks, StackStep(s)
    PROVE  StackTypeOK'
<1>1. CASE CheckImages(s)
  BY <1>1, RaiseType DEF CheckImages, StackTypeOK, PCs
<1>2. CASE ComposeUp(s)
  <2>1. spawn' \in [Stacks -> Env]
    BY <1>2, ComposeEnvType DEF ComposeUp, StackTypeOK
  <2>2. docker' \in [Stacks -> Containers]
    BY <1>2, DockerType DEF ComposeUp, StackTypeOK
  <2>3. /\ pc' \in [Stacks -> PCs]
        /\ exc' \in [Stacks -> FaultPoints \cup {None}]
    BY <1>2, RaiseType DEF ComposeUp, StackTypeOK, PCs
  <2> QED BY <1>2, <2>1, <2>2, <2>3 DEF ComposeUp, StackTypeOK
<1>3. CASE DiscoverPorts(s)
  <2>1. ports' \in [Stacks -> Containers]
    BY <1>3, DockerType DEF DiscoverPorts, ReadPorts, StackTypeOK
  <2>2. /\ pc' \in [Stacks -> PCs]
        /\ exc' \in [Stacks -> FaultPoints \cup {None}]
    BY <1>3, RaiseType DEF DiscoverPorts, StackTypeOK, PCs
  <2> QED BY <1>3, <2>1, <2>2 DEF DiscoverPorts, StackTypeOK
<1>4. CASE PublishMonitoringUrl(s)
  <2>1. docker' \in [Stacks -> Containers]
    BY <1>4, DockerType DEF PublishMonitoringUrl, StackTypeOK
  <2>2. ports' \in [Stacks -> Containers]
    BY <1>4, <2>1, DockerType DEF PublishMonitoringUrl, ReadPorts, StackTypeOK
  <2>3. /\ pc' \in [Stacks -> PCs]
        /\ exc' \in [Stacks -> FaultPoints \cup {None}]
    BY <1>4, RaiseType DEF PublishMonitoringUrl, StackTypeOK, PCs
  <2> QED BY <1>4, <2>1, <2>2, <2>3 DEF PublishMonitoringUrl, StackTypeOK
<1>5. CASE Attach(s)
  <2>1. environ' \in Env
    BY <1>5, AttachEnvType DEF Attach, StackTypeOK
  <2>2. /\ pc' \in [Stacks -> PCs]
        /\ exc' \in [Stacks -> FaultPoints \cup {None}]
    BY <1>5, RaiseType DEF Attach, StackTypeOK, PCs
  <2> QED BY <1>5, <2>1, <2>2 DEF Attach, StackTypeOK
<1>6. CASE CaptureLogs(s)
  BY <1>6 DEF CaptureLogs, StackTypeOK, PCs, FaultPoints
<1>7. CASE Detach(s)
  BY <1>7 DEF Detach, StackTypeOK, PCs, FaultPoints
<1>8. CASE ComposeDown(s)
  <2>1. docker' \in [Stacks -> Containers]
    BY <1>8, DockerType DEF ComposeDown, StackTypeOK
  <2>2. /\ pc' \in [Stacks -> PCs]
        /\ exc' \in [Stacks -> FaultPoints \cup {None}]
    BY <1>8 DEF ComposeDown, StackTypeOK, PCs, FaultPoints
  <2> QED BY <1>8, <2>1, <2>2 DEF ComposeDown, StackTypeOK
<1>9. CASE Release(s)
  <2>1. environ' \in Env
    BY <1>9 DEF Release, Restored, StackTypeOK
  <2> QED BY <1>9, <2>1 DEF Release, StackTypeOK, PCs
<1> QED
  BY <1>1, <1>2, <1>3, <1>4, <1>5, <1>6, <1>7, <1>8, <1>9 DEF StackStep

-----------------------------------------------------------------------------
(* What the calls and the steps of one stack leave alone.                  *)

\* A stack's step moves only the pc of that stack, which was not at rest; it
\* takes no backup; and os.environ is only moved by an attached stack, whose
\* release puts the backup back.
LEMMA StackStepFrame ==
    ASSUME StackTypeOK, NEW s \in Stacks, StackStep(s)
    PROVE  /\ pc[s] \notin {"new", "running", "stopped"}
           /\ pc'[s] # "new"
           /\ pc' = [pc EXCEPT ![s] = pc'[s]]
           /\ backup' = backup
           /\ s \notin Attached => environ' = environ
           /\ pc'[s] = "stopped" => environ' = Restored(s)
<1>1. /\ pc[s] \notin {"new", "running", "stopped"}
      /\ backup' = backup
  BY DEF StackStep, CheckImages, ComposeUp, DiscoverPorts, Attach,
         PublishMonitoringUrl, CaptureLogs, Detach, ComposeDown, Release
<1>2. \E at \in PCs \ {"new"} : pc' = [pc EXCEPT ![s] = at]
  BY DEF StackStep, CheckImages, ComposeUp, DiscoverPorts, Attach,
         PublishMonitoringUrl, CaptureLogs, Detach, ComposeDown, Release,
         Raise, StopEntry, PCs
<1>3. s \notin Attached => environ' = environ
  BY DEF StackStep, CheckImages, ComposeUp, DiscoverPorts, Attach,
         PublishMonitoringUrl, CaptureLogs, Detach, ComposeDown, Release,
         Restored
<1>4. pc'[s] = "stopped" => environ' = Restored(s)
  <2>1. CASE Release(s)
    BY <2>1 DEF Release
  <2>2. CASE ~ Release(s)
    BY <2>2 DEF StackStep, CheckImages, ComposeUp, DiscoverPorts, Attach,
       PublishMonitoringUrl, CaptureLogs, Detach, ComposeDown, Raise,
       StackTypeOK, StopEntry
  <2> QED BY <2>1, <2>2
<1> QED BY <1>1, <1>2, <1>3, <1>4 DEF StackTypeOK

\* Compose commands that do what they say.
ComposeWorks == Faults \cap {"up", "down", "down_exit"} = {}

\* A project has no container when nothing is published.
LEMMA NothingIsDown ==
    ASSUME NEW s \in Stacks, docker' = [docker EXCEPT ![s] = Nothing],
           docker \in [Stacks -> Containers]
    PROVE  ~ Up(s)'
BY DEF Nothing, Up

\* The calls leave the containers and _started alone.
LEMMA CallContainers ==
    ASSUME StackTypeOK, ContainersInv, NEW s \in Stacks,
           CallStop(s) \/ \E env \in Env : CallStart(s, env)
    PROVE  ContainersInv'
<1>1. docker' = docker /\ started' = started
  BY DEF CallStop, CallStart
<1>2. \A r \in Stacks : Up(r)' = Up(r)
  BY <1>1 DEF Up
<1> QED BY <1>1, <1>2
        DEF StackTypeOK, ContainersInv, CallStop, CallStart, StopEntry

\* With compose commands that do what they say, every step of a stack keeps
\* the containers within its `up` and `down`.
LEMMA StackStepContainers ==
    ASSUME StackTypeOK, ContainersInv, ComposeWorks, NEW s \in Stacks,
           StackStep(s)
    PROVE  ContainersInv'
<1>1. CASE CheckImages(s) \/ Attach(s) \/ CaptureLogs(s) \/ Detach(s)
           \/ DiscoverPorts(s)
  <2>1. docker' = docker /\ started' = started
    BY <1>1 DEF CheckImages, Attach, CaptureLogs, Detach, DiscoverPorts
  <2>2. \A r \in Stacks : Up(r)' = Up(r)
    BY <2>1 DEF Up
  <2> QED BY <1>1, <2>1, <2>2 DEF StackTypeOK, ContainersInv, CheckImages,
          Attach, CaptureLogs, Detach, DiscoverPorts, Raise, StopEntry
<1>2. CASE ComposeUp(s)
  <2>1. /\ docker' = [docker EXCEPT ![s] = Created(ServicesOf(s))]
        /\ started' = [started EXCEPT ![s] = TRUE]
        /\ pc' = [pc EXCEPT ![s] = "ports"]
    BY <1>2 DEF ComposeUp, Raise, ComposeWorks
  <2>2. \A r \in Stacks \ {s} : Up(r)' = Up(r)
    BY <2>1 DEF Up, StackTypeOK
  <2> QED BY <2>1, <2>2 DEF StackTypeOK, ContainersInv
<1>3. CASE PublishMonitoringUrl(s)
  <2>1. /\ started' = started /\ started[s]
        /\ \A r \in Stacks \ {s} : docker'[r] = docker[r]
        /\ pc' \in {[pc EXCEPT ![s] = "attach"], [pc EXCEPT ![s] = "logs"]}
    BY <1>3 DEF PublishMonitoringUrl, Raise, StopEntry, StackTypeOK,
       ContainersInv
  <2>2. \A r \in Stacks \ {s} : Up(r)' = Up(r)
    BY <2>1 DEF Up
  <2> QED BY <2>1, <2>2 DEF StackTypeOK, ContainersInv
<1>4. CASE ComposeDown(s)
  <2>1. /\ docker' = [docker EXCEPT ![s] = Nothing] /\ started' = started
        /\ pc' = [pc EXCEPT ![s] = "release"]
    BY <1>4 DEF ComposeDown, ComposeWorks
  <2>2. /\ ~ Up(s)'
        /\ \A r \in Stacks \ {s} : Up(r)' = Up(r)
    BY <2>1, NothingIsDown DEF Up, StackTypeOK
  <2> QED BY <2>1, <2>2 DEF StackTypeOK, ContainersInv
<1>5. CASE Release(s)
  <2>1. \A r \in Stacks : Up(r)' = Up(r)
    BY <1>5 DEF Release, Up
  <2> QED BY <1>5, <2>1 DEF Release, StackTypeOK, ContainersInv
<1> QED BY <1>1, <1>2, <1>3, <1>4, <1>5 DEF StackStep

-----------------------------------------------------------------------------
(* Ports and environments, for every set of failures.                      *)

\* A stack's step touches no other stack's containers, ports or environment.
LEMMA OtherStacks ==
    ASSUME StackTypeOK, NEW s \in Stacks, StackStep(s), NEW r \in Stacks \ {s}
    PROVE  /\ pc'[r] = pc[r] /\ docker'[r] = docker[r] /\ ports'[r] = ports[r]
           /\ environment'[r] = environment[r] /\ spawn'[r] = spawn[r]
BY DEF StackTypeOK, StackStep, CheckImages, ComposeUp, DiscoverPorts, Attach,
       PublishMonitoringUrl, CaptureLogs, Detach, ComposeDown, Release,
       Raise, ReadPorts

\* The calls leave a stack neither running nor reading its ports.
LEMMA CallPorts ==
    ASSUME StackTypeOK, PortsInv, NEW s \in Stacks,
           CallStop(s) \/ \E env \in Env : CallStart(s, env)
    PROVE  PortsInv'
BY DEF StackTypeOK, PortsInv, CallStop, CallStart, StopEntry

\* Whenever a step changes the containers of a stack that goes on, it reads
\* the ports again.
LEMMA StackStepPorts ==
    ASSUME StackTypeOK, PortsInv, NEW s \in Stacks, StackStep(s)
    PROVE  PortsInv'
<1>1. pc'[s] \in {"monitor", "attach", "running"} => ports'[s] = docker'[s]
  <2>1. CASE DiscoverPorts(s)
    BY <2>1 DEF StackTypeOK, PortsInv, DiscoverPorts, ReadPorts, Raise, StopEntry
  <2>2. CASE PublishMonitoringUrl(s)
    BY <2>2 DEF StackTypeOK, PortsInv, PublishMonitoringUrl, ReadPorts, Raise,
       StopEntry
  <2>3. CASE Attach(s)
    BY <2>3 DEF StackTypeOK, PortsInv, Attach, Raise, StopEntry
  <2>4. CASE CheckImages(s) \/ ComposeUp(s) \/ CaptureLogs(s) \/ Detach(s)
             \/ ComposeDown(s) \/ Release(s)
    BY <2>4 DEF StackTypeOK, CheckImages, ComposeUp, CaptureLogs, Detach,
       ComposeDown, Release, Raise, StopEntry
  <2> QED BY <2>1, <2>2, <2>3, <2>4 DEF StackStep
<1> QED BY <1>1, OtherStacks DEF PortsInv

\* start() is called before there are containers, and stop() changes no
\* environment.
LEMMA CallSpawn ==
    ASSUME StackTypeOK, SpawnInv, NEW s \in Stacks,
           CallStop(s) \/ \E env \in Env : CallStart(s, env)
    PROVE  SpawnInv'
<1>1. \A r \in Stacks : Up(r)' = Up(r) /\ spawn'[r] = spawn[r]
  BY DEF CallStop, CallStart, Up
<1>2. CASE CallStop(s)
  <2>1. \A r \in Stacks : SpawnedAsStated(r)' = SpawnedAsStated(r)
    BY <1>2 DEF CallStop, SpawnedAsStated
  <2> QED BY <1>1, <1>2, <2>1
          DEF StackTypeOK, SpawnInv, CallStop, StopEntry
<1>3. ASSUME NEW env \in Env, CallStart(s, env) PROVE SpawnInv'
  <2>1. \A r \in Stacks \ {s} :
           pc'[r] = pc[r] /\ SpawnedAsStated(r)' = SpawnedAsStated(r)
    BY <1>3, <1>1 DEF CallStart, SpawnedAsStated, StackTypeOK
  <2>2. pc'[s] = "images" /\ ~ Up(s)
    BY <1>3 DEF CallStart, StackTypeOK, SpawnInv
  <2> QED BY <1>1, <2>1, <2>2 DEF SpawnInv
<1> QED BY <1>2, <1>3

\* What `compose up` passes on is what the stack states, whatever os.environ
\* holds.
LEMMA ComposeEnvStated ==
    ASSUME StackTypeOK, NEW s \in Stacks, NEW v \in EnvVars
    PROVE  /\ environment[s][v] # Unset => ComposeEnv(s)[v] = environment[s][v]
           /\ environment[s]["CLTL_TENANT"] = Unset
                 => ComposeEnv(s)["CLTL_TENANT"] = ""
BY StackAssumption DEF StackTypeOK, Env, ComposeEnv, Update

\* `compose up` is the only step that creates containers of a project that
\* has none; what it leaves behind when it fails is in the same environment.
LEMMA StackStepSpawn ==
    ASSUME StackTypeOK, SpawnInv, NEW s \in Stacks, StackStep(s)
    PROVE  SpawnInv'
<1>1. /\ pc'[s] \in {"new", "images", "up"} => ~ Up(s)'
      /\ Up(s)' \/ pc'[s] \in {"ports", "monitor"} => SpawnedAsStated(s)'
  <2>1. CASE ComposeUp(s)
    <3>1. /\ spawn'[s] = ComposeEnv(s) /\ environment' = environment
          /\ pc'[s] \notin {"new", "images", "up"}
      BY <2>1 DEF ComposeUp, Raise, StopEntry, StackTypeOK
    <3>2. SpawnedAsStated(s)'
      BY <3>1, ComposeEnvStated, StackAssumption DEF SpawnedAsStated
    <3> QED BY <3>1, <3>2
  <2>2. ASSUME UNCHANGED <<spawn, environment>>
        PROVE  SpawnedAsStated(s)' = SpawnedAsStated(s)
    BY <2>2 DEF SpawnedAsStated
  <2>3. ASSUME docker' = docker PROVE Up(s)' = Up(s)
    BY <2>3 DEF Up
  <2>4. CASE CheckImages(s)
    BY <2>2, <2>3, <2>4
    DEF CheckImages, Raise, StopEntry, StackTypeOK, SpawnInv
  <2>5. CASE DiscoverPorts(s) \/ PublishMonitoringUrl(s)
    <3>1. /\ UNCHANGED <<spawn, environment>>
          /\ pc[s] \in {"ports", "monitor"}
          /\ pc'[s] \notin {"new", "images", "up"}
      BY <2>5 DEF DiscoverPorts, PublishMonitoringUrl, Raise, StopEntry,
         StackTypeOK
    <3> QED BY <3>1, <2>2 DEF SpawnInv
  <2>6. CASE Attach(s) \/ CaptureLogs(s) \/ Detach(s) \/ Release(s)
    <3>1. /\ UNCHANGED <<spawn, environment, docker>>
          /\ pc'[s] \notin {"new", "images", "up", "ports", "monitor"}
      BY <2>6 DEF Attach, CaptureLogs, Detach, Release, Raise, StopEntry,
         StackTypeOK
    <3> QED BY <3>1, <2>2, <2>3 DEF SpawnInv
  <2>7. CASE ComposeDown(s)
    <3>1. /\ UNCHANGED <<spawn, environment>> /\ pc'[s] = "release"
      BY <2>7 DEF ComposeDown, StackTypeOK
    <3>2. \A c \in Services : docker'[s][c] \in {0, docker[s][c]}
      BY <2>7 DEF ComposeDown, Nothing, Left, StackTypeOK
    <3>3. Up(s)' => Up(s)
      BY <3>2 DEF Up
    <3> QED BY <3>1, <3>3, <2>2 DEF SpawnInv
  <2> QED BY <2>1, <2>4, <2>5, <2>6, <2>7 DEF StackStep
<1>2. \A r \in Stacks \ {s} :
         /\ pc'[r] = pc[r] /\ Up(r)' = Up(r)
         /\ SpawnedAsStated(r)' = SpawnedAsStated(r)
  BY OtherStacks DEF Up, SpawnedAsStated
<1> QED BY <1>1, <1>2 DEF SpawnInv

\* The calls leave no stack running that was not.
LEMMA CallRunning ==
    ASSUME StackTypeOK, RunningInv, NEW s \in Stacks,
           CallStop(s) \/ \E env \in Env : CallStart(s, env)
    PROVE  RunningInv'
BY DEF StackTypeOK, RunningInv, CallStop, CallStart, StopEntry

\* A stack that goes on has all its containers.
LEMMA StackStepRunning ==
    ASSUME StackTypeOK, RunningInv, NEW s \in Stacks, StackStep(s)
    PROVE  RunningInv'
<1>0. \A r \in Stacks \ {s} : bus'[r] = bus[r]
  BY DEF StackTypeOK, StackStep, CheckImages, ComposeUp, DiscoverPorts, Attach,
         PublishMonitoringUrl, CaptureLogs, Detach, ComposeDown, Release
<1>1. /\ pc'[s] \in {"ports", "monitor", "attach", "running"}
            => \A c \in ServicesOf(s) : docker'[s][c] > 0
      /\ pc'[s] = "running" /\ s \in Attached => bus'[s] = "open"
  <2>1. CASE ComposeUp(s)
    <3>1. CASE Raise(s, "up")
      BY <2>1, <3>1 DEF StackTypeOK, Raise, StopEntry
    <3>2. CASE /\ docker' = [docker EXCEPT ![s] = Created(ServicesOf(s))]
               /\ pc' = [pc EXCEPT ![s] = "ports"]
      <4>1. ServicesOf(s) \subseteq Services
        BY StackAssumption DEF ServicesOf
      <4>2. docker'[s] = Created(ServicesOf(s)) /\ pc'[s] = "ports"
        BY <3>2 DEF StackTypeOK
      <4> QED BY <4>1, <4>2 DEF Created
    <3> QED BY <2>1, <3>1, <3>2 DEF ComposeUp
  <2>2. CASE DiscoverPorts(s)
    BY <2>2 DEF StackTypeOK, RunningInv, DiscoverPorts, Raise, StopEntry
  <2>3. CASE PublishMonitoringUrl(s)
    <3>1. CASE Raise(s, "monitor") \/ Raise(s, "ports")
      <4>1. pc'[s] \in {"logs", "detach"}
        BY <3>1 DEF StackTypeOK, Raise, StopEntry
      <4> QED BY <4>1
    <3>2. CASE ~ Raise(s, "monitor") /\ ~ Raise(s, "ports")
      <4>1. pc[s] = "monitor" /\ pc'[s] = "attach"
        BY <2>3, <3>2 DEF PublishMonitoringUrl, StackTypeOK
      <4>2. docker'[s] \in {docker[s], Recreated(s, 2)}
        BY <2>3, <3>2 DEF PublishMonitoringUrl, StackTypeOK
      <4>3. \A c \in Services : docker[s][c] > 0 => docker'[s][c] > 0
        BY <4>2 DEF Recreated, StackTypeOK, Containers
      <4>4. ServicesOf(s) \subseteq Services
        BY StackAssumption DEF ServicesOf
      <4> QED BY <4>1, <4>3, <4>4 DEF RunningInv
    <3> QED BY <3>1, <3>2
  <2>4. CASE Attach(s)
    BY <2>4 DEF StackTypeOK, RunningInv, Attach, Raise, StopEntry
  <2>5. CASE CheckImages(s) \/ CaptureLogs(s) \/ Detach(s) \/ ComposeDown(s)
             \/ Release(s)
    BY <2>5 DEF StackTypeOK, CheckImages, CaptureLogs, Detach, ComposeDown,
       Release, Raise, StopEntry
  <2> QED BY <2>1, <2>2, <2>3, <2>4, <2>5 DEF StackStep
<1> QED BY <1>0, <1>1, OtherStacks DEF RunningInv

-----------------------------------------------------------------------------
(* Who uses a broker.                                                      *)

\* The probe's bus is closed before anything of its stack goes down.
BusCloses == Faults \cap {"close", "close_interrupt"} = {}

\* The calls open no bus.
LEMMA CallBus ==
    ASSUME StackTypeOK, BusInv, NEW s \in Stacks,
           CallStop(s) \/ \E env \in Env : CallStart(s, env)
    PROVE  BusInv'
BY StackAssumption DEF StackTypeOK, BusInv, CallStop, CallStart, StopEntry

\* _attach opens the bus of a stack that runs, and _detach closes it.
LEMMA StackStepBus ==
    ASSUME StackTypeOK, BusInv, BusCloses, NEW s \in Stacks, StackStep(s)
    PROVE  BusInv'
<1>0. \A r \in Stacks \ {s} : bus'[r] = bus[r] /\ pc'[r] = pc[r]
  BY DEF StackTypeOK, StackStep, CheckImages, ComposeUp, DiscoverPorts, Attach,
         PublishMonitoringUrl, CaptureLogs, Detach, ComposeDown, Release, Raise
<1>1. ASSUME s \in Attached, bus'[s] = "open"
      PROVE  pc'[s] \in {"running", "logs", "detach"}
  <2>1. CASE Attach(s)
    BY <1>1, <2>1 DEF Attach, StackTypeOK, BusInv, Raise, StopEntry
  <2>2. CASE CaptureLogs(s)
    BY <1>1, <2>2 DEF CaptureLogs, StackTypeOK, BusInv
  <2>3. CASE Detach(s)
    BY <1>1, <2>3 DEF Detach, StackTypeOK, BusCloses
  <2>4. CASE CheckImages(s) \/ ComposeUp(s) \/ DiscoverPorts(s)
             \/ PublishMonitoringUrl(s) \/ ComposeDown(s) \/ Release(s)
    BY <1>1, <2>4 DEF CheckImages, ComposeUp, DiscoverPorts,
       PublishMonitoringUrl, ComposeDown, Release, BusInv
  <2> QED BY <2>1, <2>2, <2>3, <2>4 DEF StackStep
<1> QED BY <1>0, <1>1, StackAssumption DEF BusInv

\* A stack's step moves either its containers or its bus, and its broker only
\* with `compose up` and `compose down`.
LEMMA StackStepUsers ==
    ASSUME StackTypeOK, ComposeWorks, NEW s \in Stacks, StackStep(s)
    PROVE  /\ \A r \in Stacks \ {s} : /\ Up(r)' = Up(r)
                                       /\ BrokerUp(r)' = BrokerUp(r)
                                       /\ bus'[r] = bus[r]
           /\ pc[s] \notin {"up", "down"} => BrokerUp(s)' = BrokerUp(s)
           /\ pc[s] \notin {"up", "monitor"} => (Up(s)' => Up(s))
           /\ pc[s] # "attach" => (bus'[s] = "open" => bus[s] = "open")
           /\ pc[s] = "attach" => (bus[s] = "open" => bus'[s] = "open")
           /\ pc[s] \in {"up", "monitor"} => bus'[s] = bus[s]
           /\ s \notin Attached => bus'[s] = bus[s]
<1>1. \A r \in Stacks \ {s} : /\ Up(r)' = Up(r)
                              /\ BrokerUp(r)' = BrokerUp(r)
                              /\ bus'[r] = bus[r]
  <2>1. \A r \in Stacks \ {s} : bus'[r] = bus[r]
    BY DEF StackTypeOK, StackStep, CheckImages, ComposeUp, DiscoverPorts,
       Attach, PublishMonitoringUrl, CaptureLogs, Detach, ComposeDown, Release
  <2> QED BY <2>1, OtherStacks DEF Up, BrokerUp
<1>2. CASE ComposeUp(s)
  BY <1>1, <1>2 DEF ComposeUp
<1>3. CASE PublishMonitoringUrl(s)
  <2>1. docker'[s]["rabbitmq"] = docker[s]["rabbitmq"]
    <3>1. docker'[s] = docker[s]
          \/ \E generation \in 0..2 : docker'[s] = Recreated(s, generation)
      BY <1>3 DEF PublishMonitoringUrl, StackTypeOK
    <3>2. \A generation \in 0..2 :
             Recreated(s, generation)["rabbitmq"] = docker[s]["rabbitmq"]
      BY StackAssumption DEF Recreated, StackTypeOK, Containers
    <3> QED BY <3>1, <3>2
  <2> QED BY <1>1, <1>3, <2>1 DEF PublishMonitoringUrl, BrokerUp
<1>4. CASE ComposeDown(s)
  <2>1. docker' = [docker EXCEPT ![s] = Nothing] /\ bus' = bus /\ pc[s] = "down"
    BY <1>4 DEF ComposeDown, ComposeWorks
  <2>2. ~ Up(s)'
    BY <2>1, NothingIsDown DEF StackTypeOK
  <2> QED BY <1>1, <2>1, <2>2
<1>5. CASE Attach(s) \/ Detach(s)
  <2>1. docker' = docker /\ pc[s] \in {"attach", "detach"}
    BY <1>5 DEF Attach, Detach
  <2>2. Up(s)' = Up(s) /\ BrokerUp(s)' = BrokerUp(s)
    BY <2>1 DEF Up, BrokerUp
  <2>3. CASE Attach(s)
    BY <1>1, <2>1, <2>2, <2>3 DEF Attach, StackTypeOK
  <2>4. CASE Detach(s)
    BY <1>1, <2>1, <2>2, <2>4 DEF Detach, StackTypeOK
  <2> QED BY <1>5, <2>3, <2>4
<1>6. CASE CheckImages(s) \/ DiscoverPorts(s) \/ CaptureLogs(s) \/ Release(s)
  <2>1. UNCHANGED <<docker, bus>>
    BY <1>6 DEF CheckImages, DiscoverPorts, CaptureLogs, Release
  <2> QED BY <2>1, <1>1 DEF Up, BrokerUp
<1> QED BY <1>2, <1>3, <1>4, <1>5, <1>6 DEF StackStep

-----------------------------------------------------------------------------
(* What a stack's steps are of RunnerContract's.                           *)

\* No step creates a container of a service that is not the project's.
LEMMA StackStepServices ==
    ASSUME StackTypeOK, ServicesInv, NEW s \in Stacks, StackStep(s)
    PROVE  ServicesInv'
<1>1. ASSUME NEW c \in Services, docker'[s][c] > 0 PROVE c \in ServicesOf(s)
  <2>1. CASE ComposeUp(s)
    <3>1. \E some \in SUBSET ServicesOf(s) : docker'[s] = Created(some)
      BY <2>1 DEF ComposeUp, StackTypeOK
    <3> QED BY <1>1, <3>1 DEF Created
  <2>2. CASE PublishMonitoringUrl(s)
    <3>1. \/ docker'[s] = docker[s]
          \/ /\ RepublishesChatUI(s)
             /\ \E generation \in 0..2 : docker'[s] = Recreated(s, generation)
      BY <2>2 DEF PublishMonitoringUrl, StackTypeOK
    <3>2. /\ docker[s] \in [Services -> 0..2]
          /\ \A generation \in 0..2 : c # "chatui" =>
                Recreated(s, generation)[c] = docker[s][c]
      BY DEF Recreated, StackTypeOK, Containers
    <3>3. docker'[s][c] = docker[s][c]
            \/ (c = "chatui" /\ RepublishesChatUI(s))
      BY <3>1, <3>2
    <3> QED BY <1>1, <3>3 DEF ServicesInv, RepublishesChatUI, ServicesOf
  <2>3. CASE ComposeDown(s)
    <3>1. \/ docker'[s] = Nothing
          \/ \E some \in SUBSET ServicesOf(s) : docker'[s] = Left(s, some)
      BY <2>3 DEF ComposeDown, StackTypeOK
    <3>2. docker'[s][c] = 0 \/ c \in ServicesOf(s)
      BY <3>1 DEF Nothing, Left
    <3> QED BY <1>1, <3>2
  <2>4. CASE CheckImages(s) \/ DiscoverPorts(s) \/ Attach(s) \/ CaptureLogs(s)
             \/ Detach(s) \/ Release(s)
    <3>1. docker' = docker
      BY <2>4 DEF CheckImages, DiscoverPorts, Attach, CaptureLogs, Detach, Release
    <3> QED BY <1>1, <3>1 DEF ServicesInv
  <2> QED BY <2>1, <2>2, <2>3, <2>4 DEF StackStep
<1>2. \A r \in Stacks : ServicesOf(r)' = ServicesOf(r)
  BY DEF ServicesOf
<1> QED BY <1>1, <1>2, OtherStacks DEF ServicesInv

\* Before its stop() a stack loses none of its project, and in it it brings
\* nothing up; and only a stack in start() or stop() takes a step.
LEMMA StackStepParts ==
    ASSUME StackTypeOK, SpawnInv, RunningInv, NEW s \in Stacks, StackStep(s)
    PROVE  /\ pc[s] \in Busy
           /\ pc[s] \notin Stopping => (Up(s) => Up(s)')
           /\ pc[s] \in Stopping => pc'[s] \in Stopping /\ (Up(s)' => Up(s))
           /\ \A r \in Stacks \ {s} : pc'[r] = pc[r] /\ Up(r)' = Up(r)
<1>1. CASE ComposeUp(s)
  <2>1. pc[s] = "up" /\ ~ Up(s)
    BY <1>1 DEF ComposeUp, SpawnInv
  <2> QED BY <2>1, OtherStacks DEF Busy, PCs, Stopping, Up
<1>2. CASE PublishMonitoringUrl(s)
  <2>1. pc[s] = "monitor"
    BY <1>2 DEF PublishMonitoringUrl
  <2>2. CASE docker' = docker
    BY <2>1, <2>2, OtherStacks DEF Busy, PCs, Stopping, Up
  <2>3. ASSUME NEW generation \in 0..2, RepublishesChatUI(s),
               docker' = [docker EXCEPT ![s] = Recreated(s, generation)]
        PROVE  Up(s)'
    <3>1. "monitoring" \in ServicesOf(s) /\ "monitoring" \in Services
      BY <2>3, StackAssumption DEF RepublishesChatUI, ServicesOf
    <3>2. docker[s]["monitoring"] > 0
      BY <2>1, <3>1 DEF RunningInv
    <3>3. docker'[s] = Recreated(s, generation)
      BY <2>3 DEF StackTypeOK
    <3>4. docker'[s]["monitoring"] = docker[s]["monitoring"]
      BY <3>1, <3>3 DEF Recreated, StackTypeOK, Containers
    <3> QED BY <3>1, <3>2, <3>4 DEF Up
  <2>4. docker' = docker \/ Up(s)'
    BY <1>2, <2>3 DEF PublishMonitoringUrl
  <2> QED BY <2>1, <2>2, <2>4, OtherStacks DEF Busy, PCs, Stopping, Up
<1>3. CASE ComposeDown(s)
  <2>1. pc[s] = "down" /\ pc'[s] = "release"
    BY <1>3 DEF ComposeDown, StackTypeOK
  <2>2. \/ docker'[s] = Nothing
        \/ \E some \in SUBSET ServicesOf(s) : docker'[s] = Left(s, some)
    BY <1>3 DEF ComposeDown, StackTypeOK
  <2>3. \A c \in Services : docker'[s][c] = 0 \/ docker'[s][c] = docker[s][c]
    BY <2>2 DEF Nothing, Left
  <2> QED BY <2>1, <2>3, OtherStacks DEF Busy, PCs, Stopping, Up
<1>4. CASE CheckImages(s) \/ DiscoverPorts(s) \/ Attach(s)
  <2>1. pc[s] \in {"images", "ports", "attach"} /\ docker' = docker
    BY <1>4 DEF CheckImages, DiscoverPorts, Attach
  <2> QED BY <2>1, OtherStacks DEF Busy, PCs, Stopping, Up
<1>5. CASE CaptureLogs(s) \/ Detach(s) \/ Release(s)
  <2>1. /\ pc[s] \in {"logs", "detach", "release"} /\ docker' = docker
        /\ pc'[s] \in {"detach", "down", "release", "stopped"}
    BY <1>5 DEF CaptureLogs, Detach, Release, StackTypeOK
  <2> QED BY <2>1, OtherStacks DEF Busy, PCs, Stopping, Up
<1> QED BY <1>1, <1>2, <1>3, <1>4, <1>5 DEF StackStep

=============================================================================
