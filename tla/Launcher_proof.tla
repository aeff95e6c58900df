--------------------------- MODULE Launcher_proof ---------------------------
(***************************************************************************)
(* The launcher, for any devices, any demos that need any of them, and any *)
(* number of signals.                                                      *)
(***************************************************************************)
EXTENDS Demo, TLAPS

\* The launcher's bounds are numbers.
LEMMA Bounds == Len(Devices) \in Nat /\ MaxSignals \in Nat
BY LauncherAssumption

\* The devices a demo needs are devices.
LEMMA NeededTyped ==
  demo \in Demos => /\ Needed \subseteq STRING
                    /\ \A d \in Needed :
                          \E i \in 1..Len(Devices) : Devices[i] = d
BY LauncherAssumption DEF Needed

\* In the initial state no device listens and no runner exists.
LEMMA LauncherInit == Init => LauncherInv
<1> SUFFICES ASSUME Init PROVE LauncherInv
  OBVIOUS
<1>1. TypeOK
  <2>1. next \in 0..Len(Devices) + 1 /\ signals \in 0..MaxSignals
    BY Bounds DEF Init
  <2> QED BY <2>1 DEF Init, TypeOK
<1>2. next = 1 /\ 1..next - 1 = {} /\ pc = "enter"
  BY DEF Init
<1> QED BY <1>1, <1>2 DEF Init, LauncherInv, Running

\* The way in: the loop over the devices covers all that are needed.
LEMMA EnterStep ==
  demo' = demo /\ LauncherInv /\ (EnterDevice \/ Entered \/ Build)
  => LauncherInv'
<1> SUFFICES ASSUME demo' = demo
             PROVE  LauncherInv /\ (EnterDevice \/ Entered \/ Build)
                       => LauncherInv'
  OBVIOUS
<1>0. Needed' = Needed
  BY DEF Needed
<1> USE <1>0, Bounds DEF LauncherInv, TypeOK, Running, Leave, AllEntered,
           WithListening
<1>1. ASSUME LauncherInv, EnterDevice PROVE LauncherInv'
  <2>1. /\ next \in 1..Len(Devices) /\ Len(Devices) \in Nat
        /\ next' \in 0..Len(Devices) + 1
    BY <1>1 DEF EnterDevice
  <2>2. CASE /\ listening' = WithListening(Devices[next])
             /\ next' = next + 1
             /\ UNCHANGED <<pc, exc>>
    <3>1. \A i \in 1..next' - 1 : i \in 1..next - 1 \/ i = next
      BY <2>1, <2>2
    <3> QED BY <1>1, <2>1, <2>2, <3>1 DEF EnterDevice
  <2>3. CASE Leave(next - 1, "failure") /\ UNCHANGED listening
    BY <1>1, <2>1, <2>3 DEF EnterDevice
  <2> QED BY <1>1, <2>2, <2>3 DEF EnterDevice
<1>2. ASSUME LauncherInv, Entered PROVE LauncherInv'
  <2>1. Needed \subseteq listening
    BY <1>2, NeededTyped DEF Entered
  <2> QED BY <1>2, <2>1 DEF Entered
<1>3. ASSUME LauncherInv, Build PROVE LauncherInv'
  BY <1>3 DEF Build
<1> QED BY <1>1, <1>2, <1>3

\* The body, and the way out.
LEMMA BodyStep ==
  /\ demo' = demo /\ LauncherInv
  /\ \/ StartRunner \/ RunnerStarted \/ EnterTry
     \/ OpenScenario \/ Install \/ Wait \/ StopRunner \/ LeaveDevice
  => LauncherInv'
<1> SUFFICES ASSUME demo' = demo
             PROVE  /\ LauncherInv
                    /\ \/ StartRunner \/ RunnerStarted \/ EnterTry
                       \/ OpenScenario \/ Install \/ Wait
                       \/ StopRunner \/ LeaveDevice
                    => LauncherInv'
  OBVIOUS
<1>0. Needed' = Needed
  BY DEF Needed
<1> USE <1>0, Bounds DEF LauncherInv, TypeOK, Running, Leave
<1>1. ASSUME LauncherInv, StartRunner PROVE LauncherInv'
  BY <1>1 DEF StartRunner
<1>2. ASSUME LauncherInv, RunnerStarted PROVE LauncherInv'
  BY <1>2 DEF RunnerStarted, StartFails
<1>3. ASSUME LauncherInv, EnterTry \/ OpenScenario PROVE LauncherInv'
  BY <1>3 DEF EnterTry, OpenScenario
<1>4. ASSUME LauncherInv, Install PROVE LauncherInv'
  <2>1. \A i \in 1..Len(Handlers) : Handlers[i] \in Signals
    BY DEF Handlers, Signals
  <2>2. handled' \subseteq Signals
    BY <1>4, <2>1 DEF Install
  <2> QED BY <1>4, <2>2 DEF Install
<1>5. ASSUME LauncherInv, Wait PROVE LauncherInv'
  BY <1>5 DEF Wait
<1>6. ASSUME LauncherInv, StopRunner PROVE LauncherInv'
  BY <1>6 DEF StopRunner
<1>7. ASSUME LauncherInv, LeaveDevice PROVE LauncherInv'
  BY <1>7 DEF LeaveDevice, WithoutListening
<1> QED BY <1>1, <1>2, <1>3, <1>4, <1>5, <1>6, <1>7

\* A signal, wherever it arrives.
LEMMA SignalStep == demo' = demo /\ LauncherInv /\ Signal => LauncherInv'
<1> SUFFICES ASSUME demo' = demo, LauncherInv, Signal PROVE LauncherInv'
  OBVIOUS
<1>0. Needed' = Needed
  BY DEF Needed
<1> USE <1>0, Bounds DEF LauncherInv, TypeOK, Running, Leave
<1>1. pc # "ended" /\ signals' \in 0..MaxSignals
  BY DEF Signal
<1>2. CASE Killed
  BY <1>1, <1>2 DEF Killed
<1>3. CASE \E s \in Signals : Handled(s)
  BY <1>1, <1>3 DEF Handled
<1>4. CASE Interrupted /\ InterruptedLauncher
  <2>1. CASE pc = "enter"
    BY <1>1, <1>4, <2>1 DEF Interrupted, InterruptedLauncher, WithListening
  <2>2. CASE pc = "build" \/ (pc = "start" /\ runner = "built")
    BY <1>1, <1>4, <2>2 DEF Interrupted, InterruptedLauncher
  <2>3. CASE pc = "started"
    BY <1>1, <1>4, <2>3 DEF Interrupted, InterruptedLauncher
  <2>4. CASE pc \in {"open", "install"}
    BY <1>1, <1>4, <2>4 DEF Interrupted, InterruptedLauncher
  <2>5. CASE pc = "leave" /\ next > 0
    BY <1>1, <1>4, <2>5 DEF Interrupted, InterruptedLauncher,
       WithoutListening
  <2> QED BY <1>4, <2>1, <2>2, <2>3, <2>4, <2>5 DEF InterruptedLauncher
<1>5. CASE Interrupted /\ InterruptedRunner /\ UNCHANGED listening
  <2>1. CASE /\ pc = "start" /\ runner = "starting"
             /\ StartFails("interrupt")
             /\ UNCHANGED cut
    <3>1. /\ pc' = "start" /\ runner' = "aborting" /\ exc' = "interrupt"
          /\ UNCHANGED <<next, listening, given, handled, stop, cut>>
      BY <1>5, <2>1 DEF Interrupted, StartFails
    <3>2. listening = Needed /\ given = Needed
      BY <2>1
    <3> QED BY <1>1, <3>1, <3>2
  <2>2. CASE /\ runner' = "left" /\ cut' = TRUE
             /\ Leave(Len(Devices), "interrupt")
    BY <1>1, <1>5, <2>2 DEF Interrupted
  <2> QED BY <1>5, <2>1, <2>2 DEF InterruptedRunner
<1> QED BY <1>2, <1>3, <1>4, <1>5 DEF Signal, Interrupted

\* What the launcher holds at each of its stages.
THEOREM LauncherCorrect == Spec => []LauncherInv
<1>1. LauncherInv /\ [Next]_vars => LauncherInv'
  <2> SUFFICES ASSUME LauncherInv, [Next]_vars PROVE LauncherInv'
    OBVIOUS
  <2>1. CASE UNCHANGED vars
    BY <2>1 DEF vars, LauncherInv, TypeOK, Needed
  <2> QED BY <2>1, EnterStep, BodyStep, SignalStep DEF Next, Main
<1> QED BY <1>1, LauncherInit, PTL DEF Spec

\* The type invariant of the launcher.
THEOREM LauncherTypeCorrect == Spec => []TypeOK
<1>1. LauncherInv => TypeOK
  BY DEF LauncherInv
<1> QED BY <1>1, LauncherCorrect, PTL

\* As long as modules may run, the devices they were configured with listen.
THEOREM LauncherDevices == Spec => []DevicesOutliveModules
<1>1. LauncherInv => DevicesOutliveModules
  BY DEF LauncherInv, TypeOK, DevicesOutliveModules, Running
<1> QED BY <1>1, LauncherCorrect, PTL

\* A runner that was started is stopped at the end, except where an interrupt
\* hit it while nobody was there to repair that.
THEOREM LauncherEndsStopped == Spec => []EndsStopped
<1>1. LauncherInv => EndsStopped
  BY DEF LauncherInv, TypeOK, EndsStopped, Running
<1> QED BY <1>1, LauncherCorrect, PTL

-----------------------------------------------------------------------------
(* The handlers, and what they keep signals from.                          *)

\* The two handlers are those of the two signals.
LEMMA BothHandlers == Len(Handlers) = 2 /\ Signals = {Handlers[1], Handlers[2]}
BY DEF Handlers, Signals

\* Every step of the main thread keeps that the handlers are installed before
\* anything is waited for.
LEMMA MainHandlers == LauncherInv /\ HandlersInv /\ Main => HandlersInv'
<1> SUFFICES ASSUME LauncherInv, HandlersInv, Main PROVE HandlersInv'
  OBVIOUS
<1> USE DEF LauncherInv, TypeOK, HandlersInv, Leave
<1>1. CASE EnterDevice \/ Entered \/ Build
  BY <1>1 DEF EnterDevice, Entered, Build
<1>2. CASE StartRunner \/ RunnerStarted \/ EnterTry \/ OpenScenario
  BY <1>2 DEF StartRunner, RunnerStarted, StartFails, EnterTry, OpenScenario
<1>3. CASE Install
  <2>1. /\ pc = "install" /\ UNCHANGED <<runner, exc>>
        /\ pc' = "wait" => Signals \subseteq handled'
    <3>1. PICK i \in 1..Len(Handlers) :
             /\ \A j \in 1..i - 1 : Handlers[j] \in handled
             /\ handled' = handled \cup {Handlers[i]}
             /\ pc' = IF i = Len(Handlers) THEN "wait" ELSE "install"
      BY <1>3 DEF Install
    <3>2. pc' = "wait" => i = 2 /\ 1 \in 1..i - 1
      BY <3>1, BothHandlers
    <3>3. pc' = "wait" => Handlers[1] \in handled' /\ Handlers[2] \in handled'
      BY <3>1, <3>2
    <3> QED BY <1>3, <3>3, BothHandlers DEF Install
  <2>2. pc' \in {"wait", "install"}
    BY <1>3 DEF Install
  <2> QED BY <2>1, <2>2
<1>4. CASE Wait \/ StopRunner \/ LeaveDevice
  BY <1>4 DEF Wait, StopRunner, LeaveDevice, Running
<1> QED BY <1>1, <1>2, <1>3, <1>4 DEF Main

\* And so does every signal.
LEMMA SignalHandlers == LauncherInv /\ HandlersInv /\ Signal => HandlersInv'
<1> SUFFICES ASSUME LauncherInv, HandlersInv, Signal PROVE HandlersInv'
  OBVIOUS
<1> USE DEF LauncherInv, TypeOK, HandlersInv, Leave
<1>1. CASE Killed
  BY <1>1 DEF Killed
<1>2. CASE Interrupted
  BY <1>2 DEF Interrupted, InterruptedLauncher, InterruptedRunner, StartFails
<1>3. CASE \E s \in Signals : Handled(s)
  BY <1>3 DEF Handled
<1> QED BY <1>1, <1>2, <1>3 DEF Signal

\* From when main() waits on, and unless it is unwinding an exception
\* already, no number of signals interrupts or kills it.
THEOREM LauncherSignalsOnlyStop == Spec => SignalsOnlyStop
<1>1. Init => HandlersInv
  BY DEF Init, HandlersInv
<1>2. LauncherInv /\ HandlersInv /\ [Next]_vars => HandlersInv'
  <2>1. HandlersInv /\ UNCHANGED vars => HandlersInv'
    BY DEF HandlersInv, vars
  <2> QED BY <2>1, MainHandlers, SignalHandlers DEF Next
<1>3. /\ LauncherInv /\ HandlersInv /\ [Next]_vars
      => [exc = "none" /\ pc \in {"wait", "stop", "leave"} =>
             exc' \notin {"interrupt", "killed"}]_vars
  <2> SUFFICES ASSUME LauncherInv, HandlersInv, Next, exc = "none",
                      pc \in {"wait", "stop", "leave"}
               PROVE  exc' \notin {"interrupt", "killed"}
    OBVIOUS
  <2>1. "SIGINT" \in handled /\ "SIGTERM" \in handled
    BY DEF HandlersInv, Signals
  <2>2. CASE Signal
    BY <2>1, <2>2 DEF Signal, Killed, Interrupted, Handled
  <2>3. CASE Main
    BY <2>3 DEF Main, EnterDevice, Entered, Build, StartRunner, RunnerStarted,
       EnterTry, OpenScenario, Install, Wait, StopRunner, LeaveDevice, Leave
  <2> QED BY <2>2, <2>3 DEF Next
<1> QED BY <1>1, <1>2, <1>3, LauncherCorrect, PTL DEF Spec, SignalsOnlyStop

-----------------------------------------------------------------------------
(* The demos: what a backend dials is what the launcher has started.       *)

\* It makes no difference which of three files are merged first.
LEMMA OverAssociative ==
  ASSUME NEW f, NEW g, NEW h
  PROVE  Over(Over(f, g), h) = Over(f, Over(g, h))
BY DEF Over

\* A container reads its two files as this process reads the three.
LEMMA ContainerAgrees ==
  ASSUME NEW topology
  PROVE  ContainerConfig(topology) = MergedConfig(topology, "compose")
BY OverAssociative DEF ContainerConfig, MergedConfig

\* What the backend of a topology dials is what the launcher finds it to need.
LEMMA DialsNeeded ==
  ASSUME NEW topology, NEW tier \in Tiers
  PROVE  Dials(topology, tier) =
            {x \in Range(AllDevices) :
                CASE x = "microphone" -> NeedsMicrophone(topology, tier)
                  [] x = "speaker" -> NeedsSpeaker(topology, tier)
                  [] x = "camera" -> NeedsCamera(topology, tier)}
<1> DEFINE config == IF tier = "compose" THEN ContainerConfig(topology)
                                         ELSE MergedConfig(topology, tier)
           Dialled(x) == CASE x = "microphone" -> config.mic # ""
                           [] x = "speaker" -> config.tts # ""
                           [] x = "camera" -> config.rate > 0
           Wanted(x) == CASE x = "microphone" -> NeedsMicrophone(topology, tier)
                          [] x = "speaker" -> NeedsSpeaker(topology, tier)
                          [] x = "camera" -> NeedsCamera(topology, tier)
<1>1. config = MergedConfig(topology, tier)
  BY ContainerAgrees DEF Tiers
<1>2. \A x \in Range(AllDevices) : x \in {"microphone", "speaker", "camera"}
  BY DEF Range, AllDevices
<1>3. Dials(topology, tier) =
         {x \in Range(AllDevices) : "backend" \in Runs(topology) /\ Dialled(x)}
  BY DEF Dials
<1> HIDE DEF config
<1>4. ASSUME NEW x \in Range(AllDevices)
      PROVE  ("backend" \in Runs(topology) /\ Dialled(x)) <=> Wanted(x)
  <2>1. CASE x = "microphone"
    BY <1>1, <2>1 DEF NeedsMicrophone
  <2>2. CASE x = "speaker"
    BY <1>1, <2>2 DEF NeedsSpeaker
  <2>3. CASE x = "camera"
    BY <1>1, <2>3 DEF NeedsCamera
  <2> QED BY <1>2, <2>1, <2>2, <2>3
<1> HIDE DEF Dialled, Wanted
<1>5. Dials(topology, tier) = {x \in Range(AllDevices) : Wanted(x)}
  BY <1>3, <1>4
<1> QED BY <1>5 DEF Wanted

\* The devices of a demo are those that the backends in it dial.
LEMMA DevicesDialled ==
  ASSUME NEW d \in AllDemos
  PROVE  /\ d.tier \in Tiers
         /\ DevicesOf(d) = UNION {Dials(t, d.tier) : t \in TopologiesOf(d.name)}
<1>1. d.tier \in Tiers
  BY DEF AllDemos, Tiers
<1> DEFINE Wanted(t) ==
             {x \in Range(AllDevices) :
                CASE x = "microphone" -> NeedsMicrophone(t, d.tier)
                  [] x = "speaker" -> NeedsSpeaker(t, d.tier)
                  [] x = "camera" -> NeedsCamera(t, d.tier)}
<1>2. DevicesOf(d) = UNION {Wanted(t) : t \in TopologiesOf(d.name)}
  BY DEF DevicesOf
<1>3. \A t : Dials(t, d.tier) = Wanted(t)
  BY <1>1, DialsNeeded
<1> HIDE DEF Wanted
<1> QED BY <1>1, <1>2, <1>3

\* The servers of the registered deployments dial nothing: no overlay of
\* theirs switches a device on, or they have no backend.
LEMMA ServersDialNothing ==
  ASSUME NEW tier \in Tiers,
         NEW server \in {"csplit_server", "csplit_audio_server",
                         "multitenant_server"}
  PROVE  Dials(server, tier) = {}
<1>1. CASE server = "multitenant_server"
  <2>1. TOPOLOGIES["multitenant_server"] = <<"eliza">>
    BY DEF TOPOLOGIES
  <2>2. Runs("multitenant_server") = {"eliza"}
    BY <2>1 DEF Runs, Range
  <2>3. "backend" \notin Runs(server)
    BY <1>1, <2>2
  <2> QED BY <2>3 DEF Dials
<1>2. CASE server \in {"csplit_server", "csplit_audio_server"}
  <2>1. Overlay(server) = Gated
    BY <1>2 DEF Overlay, Overlays
  <2>2. TIER_CONFIG[tier] = <<>> /\ DOMAIN <<>> = {}
    BY DEF TIER_CONFIG, Tiers
  <2>3. /\ DOMAIN BASE_CONFIG = {"mic", "tts", "rate", "gate"}
        /\ BASE_CONFIG["mic"] = "" /\ BASE_CONFIG["tts"] = ""
        /\ BASE_CONFIG["rate"] = 0
        /\ DOMAIN Gated = {"gate"}
    BY DEF BASE_CONFIG, Gated
  <2>4. /\ MergedConfig(server, tier).mic = ""
        /\ MergedConfig(server, tier).tts = ""
        /\ MergedConfig(server, tier).rate = 0
    BY <2>1, <2>2, <2>3 DEF MergedConfig, Over
  <2>5. ~ NeedsMicrophone(server, tier)
    BY <2>4 DEF NeedsMicrophone
  <2>6. ~ NeedsSpeaker(server, tier)
    BY <2>4 DEF NeedsSpeaker
  <2>7. ~ NeedsCamera(server, tier)
    <3>1. ~ (0 > 0)
      OBVIOUS
    <3> QED BY <2>4, <3>1, Zenon DEF NeedsCamera
  <2>8. ASSUME NEW x \in Dials(server, tier) PROVE FALSE
    <3>1. /\ x \in Range(AllDevices)
          /\ CASE x = "microphone" -> NeedsMicrophone(server, tier)
               [] x = "speaker" -> NeedsSpeaker(server, tier)
               [] x = "camera" -> NeedsCamera(server, tier)
      BY DialsNeeded
    <3>2. x \in {"microphone", "speaker", "camera"}
      BY <3>1 DEF Range, AllDevices
    <3>3. CASE x = "microphone" BY <2>5, <3>1, <3>3
    <3>4. CASE x = "speaker" BY <2>6, <3>1, <3>4
    <3>5. CASE x = "camera" BY <2>7, <3>1, <3>5
    <3> QED BY <3>2, <3>3, <3>4, <3>5
  <2> QED BY <2>8
<1> QED BY <1>1, <1>2

\* Who dials has been given the addresses.
LEMMA DialersGiven ==
  ASSUME NEW d \in AllDemos, NEW t \in TopologiesOf(d.name),
         NEW x \in Dials(t, d.tier)
  PROVE  t \in GivenTo(d.name)
<1>1. t \notin {"csplit_server", "csplit_audio_server", "multitenant_server"}
  BY ServersDialNothing, DevicesDialled
<1>2. CASE d.name \in DOMAIN DEPLOYMENTS
  BY <1>1, <1>2 DEF TopologiesOf, GivenTo, DEPLOYMENTS
<1>3. CASE d.name \notin DOMAIN DEPLOYMENTS /\ d.name \in DOMAIN TENANT_DEPLOYMENTS
  BY <1>1, <1>3 DEF TopologiesOf, GivenTo, TENANT_DEPLOYMENTS
<1>4. CASE d.name \notin DOMAIN DEPLOYMENTS \cup DOMAIN TENANT_DEPLOYMENTS
  BY <1>4 DEF TopologiesOf, GivenTo
<1> QED BY <1>2, <1>3, <1>4

-----------------------------------------------------------------------------
(* The devices and demos of __main__.py.                                   *)

\* A stub listens where the containers of its tier, or this process, dial it.
LEMMA DialHostReaches ==
  ASSUME NEW tier \in Tiers
  PROVE  Reaches(DialHost(tier), BindHost(tier))
BY DEF Reaches, DialHost, BindHost, Tiers

\* With the devices and the demos of the tables, what every backend dials is
\* bound and given while modules may run, and nothing else is started.
THEOREM DemoDialsAnswered ==
  ASSUME Demos = AllDemos, Needs = DeviceNeeds
  PROVE  Spec => []DialsAnswered
<1>1. ASSUME LauncherInv PROVE DialsAnswered
  <2> SUFFICES ASSUME runner \in Running, exc # "killed"
               PROVE  /\ \A t \in TopologiesOf(demo.name) :
                            \A x \in Dials(t, demo.tier) :
                               /\ x \in listening \cap given
                               /\ t \in GivenTo(demo.name)
                               /\ Reaches(DialHost(demo.tier),
                                          BindHost(demo.tier))
                      /\ \A x \in listening :
                            \E t \in TopologiesOf(demo.name) :
                               x \in Dials(t, demo.tier)
    BY DEF DialsAnswered
  <2>1. demo \in AllDemos
    BY <1>1 DEF LauncherInv, TypeOK
  <2>2. listening = Needed /\ given = Needed
    BY <1>1 DEF LauncherInv, TypeOK, Running
  <2>3. Needed = DevicesOf(demo)
    BY <2>1 DEF Needed, DeviceNeeds
  <2>4. /\ demo.tier \in Tiers
        /\ DevicesOf(demo) =
              UNION {Dials(t, demo.tier) : t \in TopologiesOf(demo.name)}
    BY <2>1, DevicesDialled
  <2> QED BY <2>1, <2>2, <2>3, <2>4, DialersGiven, DialHostReaches
<1>2. Spec => []LauncherInv
  BY LauncherCorrect
<1> QED BY <1>1, <1>2, PTL

=============================================================================
