----------------------- MODULE InProcessRunner_proof ------------------------
(***************************************************************************)
(* What one topology leaves for the next, for any number of topologies,    *)
(* any of which may serve HTTP, and every failure the module knows.        *)
(***************************************************************************)
EXTENDS InProcessRunner, TLAPS

\* The type invariant of the runners and of the process they share.
THEOREM InProcessTypeCorrect == Spec => []TypeOK
<1>1. Init => TypeOK
  BY InProcessAssumption DEF Init, TypeOK, PCs
<1>2. TypeOK /\ [Next]_vars => TypeOK'
  <2> SUFFICES ASSUME TypeOK, [Next]_vars PROVE TypeOK'
    OBVIOUS
  <2> USE InProcessAssumption DEF TypeOK, PCs, Goto
  <2>1. ASSUME NEW r \in Runners, NEW fault \in FaultPoints, Fail(r, fault)
        PROVE failed' \in [Runners -> SUBSET FaultPoints]
    BY <2>1 DEF Fail
  <2>2. ASSUME NEW r \in Runners, NEW fault, Raise(r, fault)
        PROVE /\ failed' \in [Runners -> SUBSET FaultPoints]
              /\ pc' \in [Runners -> PCs]
    BY <2>1, <2>2 DEF Raise, StopEntry
  <2>3. {"serve", "probe", "stop", "shutdown"} \subseteq FaultPoints
    BY DEF FaultPoints
  <2>4. ASSUME NEW r \in Runners, Start(r) \/ Stop(r) PROVE TypeOK'
    BY <2>4 DEF Start, Stop, StopEntry
  <2>5. ASSUME NEW r \in Runners, Prepare(r) PROVE TypeOK'
    BY <2>2, <2>5 DEF Prepare, ResetBefore
  <2>6. ASSUME NEW r \in Runners, Serve(r) PROVE TypeOK'
    BY <2>1, <2>2, <2>3, <2>6 DEF Serve, StopEntry
  <2>7. ASSUME NEW r \in Runners, StartWorkers(r) PROVE TypeOK'
    BY <2>1, <2>2, <2>3, <2>7 DEF StartWorkers
  <2>8. ASSUME NEW r \in Runners, StopWorkers(r) PROVE TypeOK'
    BY <2>1, <2>3, <2>8 DEF StopWorkers
  <2>9. ASSUME NEW r \in Runners, ShutdownServer(r) PROVE TypeOK'
    BY <2>1, <2>3, <2>9 DEF ShutdownServer, Unclosed
  <2>10. ASSUME NEW r \in Runners, Clear(r) PROVE TypeOK'
    BY <2>10 DEF Clear, Restored
  <2>11. CASE UNCHANGED vars
    BY <2>11 DEF vars
  <2> QED BY <2>4, <2>5, <2>6, <2>7, <2>8, <2>9, <2>10, <2>11
          DEF Next, RunnerStep
<1> QED BY <1>1, <1>2, PTL DEF Spec

\* The first topology begins in a clean process.
LEMMA OwnInit == Init => OwnInv
BY DEF Init, OwnInv, GlobalsInv, OwnGlobals, OthersRest, Between

\* start() is only called when nothing else is active, and every step of a
\* runner is taken while the others rest.
LEMMA OwnStep == TypeOK /\ OwnInv /\ [Next]_vars => OwnInv'
<1> SUFFICES ASSUME TypeOK, OwnInv, [Next]_vars PROVE OwnInv'
  OBVIOUS
<1> USE DEF OwnInv, GlobalsInv, OwnGlobals, OthersRest, Between, TypeOK,
            Goto, Fail, Raise, StopEntry
<1>1. ASSUME NEW r \in Runners, Start(r) PROVE OwnInv'
  BY <1>1 DEF Start
<1>2. ASSUME NEW r \in Runners, Prepare(r) PROVE OwnInv'
  BY <1>2 DEF Prepare, ResetBefore
<1>3. ASSUME NEW r \in Runners, Serve(r) PROVE OwnInv'
  BY <1>3 DEF Serve
<1>4. ASSUME NEW r \in Runners, StartWorkers(r) PROVE OwnInv'
  BY <1>4 DEF StartWorkers
<1>5. ASSUME NEW r \in Runners, Stop(r) PROVE OwnInv'
  BY <1>5 DEF Stop
<1>6. ASSUME NEW r \in Runners, StopWorkers(r) PROVE OwnInv'
  BY <1>6 DEF StopWorkers
<1>7. ASSUME NEW r \in Runners, ShutdownServer(r) PROVE OwnInv'
  BY <1>7 DEF ShutdownServer
<1>8. ASSUME NEW r \in Runners, Clear(r) PROVE OwnInv'
  BY <1>8 DEF Clear, Restored
<1>9. CASE UNCHANGED vars
  BY <1>9 DEF vars
<1> QED BY <1>1, <1>2, <1>3, <1>4, <1>5, <1>6, <1>7, <1>8, <1>9
        DEF Next, RunnerStep

\* Nothing of a stopped topology is left in os.environ or in the registry.
THEOREM InProcessGlobalsRestored == Spec => []GlobalsRestored
<1>1. OwnInv => GlobalsRestored
  BY DEF OwnInv, GlobalsInv, GlobalsRestored, Between
<1> QED BY <1>1, OwnInit, OwnStep, InProcessTypeCorrect, PTL DEF Spec

\* A topology only ever finds its own configuration, services and variables.
THEOREM InProcessOwnGlobals == Spec => []OwnGlobals
<1>1. OwnInv => OwnGlobals
  BY DEF OwnInv
<1> QED BY <1>1, OwnInit, OwnStep, InProcessTypeCorrect, PTL DEF Spec

-----------------------------------------------------------------------------
(* What a runner holds.                                                    *)

\* What has failed in a runner stays on record.
LEMMA FailKeeps ==
    ASSUME TypeOK, NEW r \in Runners, NEW fault,
           Fail(r, fault)
    PROVE  /\ \A q \in Runners : failed[q] \subseteq failed'[q]
           /\ fault \in failed'[r]
           /\ \A q \in Runners \ {r} : failed'[q] = failed[q]
BY DEF TypeOK, Fail

\* No runner holds anything before it starts.
LEMMA HoldsInit == Init => HoldsInv
BY InProcessAssumption DEF Init, HoldsInv

\* Every step moves the port, _server, the workers and _started together.
LEMMA HoldsStep == TypeOK /\ OwnInv /\ HoldsInv /\ [Next]_vars => HoldsInv'
<1> SUFFICES ASSUME TypeOK, OwnInv, HoldsInv, [Next]_vars PROVE HoldsInv'
  OBVIOUS
<1> USE DEF HoldsInv, LeftWorkers, Goto
<1>t. /\ pc \in [Runners -> PCs] /\ Free \notin Runners
      /\ \A r \in started :
            pc[r] \in {"running", "stop_workers", "shutdown", "clear"}
  BY InProcessAssumption DEF TypeOK, OwnInv
<1>1. ASSUME NEW r \in Runners, Start(r) PROVE HoldsInv'
  BY <1>1, <1>t DEF Start
<1>2. ASSUME NEW r \in Runners, Prepare(r) PROVE HoldsInv'
  <2>1. CASE Raise(r, "prepare")
    BY <1>2, <2>1, <1>t, FailKeeps DEF Prepare, Raise, StopEntry
  <2>2. CASE Goto(r, "serve") /\ UNCHANGED failed
    BY <1>2, <2>2, <1>t DEF Prepare
  <2> QED BY <1>2, <2>1, <2>2 DEF Prepare
<1>3. ASSUME NEW r \in Runners, Serve(r) PROVE HoldsInv'
  <2>1. CASE r \in Routed /\ port = Free /\ port' = r
             /\ server' = server \cup {r}
    <3>1. CASE Goto(r, "workers") /\ UNCHANGED failed
      BY <1>3, <2>1, <3>1, <1>t DEF Serve
    <3>2. CASE Raise(r, "serve_thread")
      BY <1>3, <2>1, <3>2, <1>t, FailKeeps DEF Serve, Raise, StopEntry
    <3> QED BY <1>3, <2>1, <3>1, <3>2 DEF Serve
  <2>2. CASE r \notin Routed /\ Goto(r, "workers")
             /\ UNCHANGED <<port, server, failed>>
    BY <1>3, <2>2, <1>t DEF Serve
  <2>3. CASE Fail(r, "serve") /\ Goto(r, StopEntry(r))
             /\ UNCHANGED <<port, server>>
    BY <1>3, <2>3, <1>t, FailKeeps DEF Serve, StopEntry
  <2> QED BY <1>3, <2>1, <2>2, <2>3 DEF Serve, Raise
<1>4. ASSUME NEW r \in Runners, StartWorkers(r) PROVE HoldsInv'
  <2>1. CASE Goto(r, "running") /\ UNCHANGED failed
    BY <1>4, <2>1, <1>t DEF StartWorkers, Raise, StopEntry
  <2>4. CASE /\ Fail(r, "probe") /\ Goto(r, "stop_workers")
             /\ workers' = workers \cup {r} /\ started' = started \cup {r}
    BY <1>4, <2>4, <1>t, FailKeeps DEF StartWorkers
  <2>2. CASE Raise(r, "workers") /\ UNCHANGED <<workers, started>>
    BY <1>4, <2>2, <1>t, FailKeeps DEF StartWorkers, Raise, StopEntry
  <2>3. CASE Raise(r, "some_workers") /\ workers' = workers \cup {r}
             /\ UNCHANGED started
    BY <1>4, <2>3, <1>t, FailKeeps DEF StartWorkers, Raise, StopEntry
  <2> QED BY <1>4, <2>1, <2>2, <2>3, <2>4 DEF StartWorkers
<1>5. ASSUME NEW r \in Runners, Stop(r) PROVE HoldsInv'
  <2>1. \A q \in Runners : LeftWorkers(q)' <=> LeftWorkers(q)
    BY <1>5 DEF Stop, TypeOK
  <2> QED BY <1>5, <2>1, <1>t DEF Stop, StopEntry, TypeOK
<1>6. ASSUME NEW r \in Runners, StopWorkers(r) PROVE HoldsInv'
  <2>1. CASE workers' = workers \ {r} /\ UNCHANGED failed
    BY <1>6, <2>1, <1>t DEF StopWorkers
  <2>2. CASE Fail(r, "stop") /\ UNCHANGED workers
    BY <1>6, <2>2, <1>t, FailKeeps DEF StopWorkers
  <2> QED BY <1>6, <2>1, <2>2 DEF StopWorkers
<1>7. ASSUME NEW r \in Runners, ShutdownServer(r) PROVE HoldsInv'
  <2>1. CASE r \in server /\ server' = server \ {r} /\ port' = Free
             /\ UNCHANGED failed
    <3>1. \A q \in Runners \ {r} :
             ~ (pc[q] \in {"workers", "running", "stop_workers"})
      BY <1>7 DEF ShutdownServer, OwnInv, GlobalsInv, OthersRest
    <3> QED BY <1>7, <2>1, <3>1, <1>t DEF ShutdownServer
  <2>2. CASE r \notin server /\ UNCHANGED <<server, port, failed>>
    BY <1>7, <2>2, <1>t DEF ShutdownServer
  <2>3. CASE Fail(r, "shutdown") /\ UNCHANGED <<server, port>>
    BY <1>7, <2>3, <1>t, FailKeeps DEF ShutdownServer
  <2> QED BY <1>7, <2>1, <2>2, <2>3 DEF ShutdownServer, Unclosed
<1>8. ASSUME NEW r \in Runners, Clear(r) PROVE HoldsInv'
  BY <1>8, <1>t DEF Clear
<1>9. CASE UNCHANGED vars
  BY <1>9 DEF vars
<1> QED BY <1>1, <1>2, <1>3, <1>4, <1>5, <1>6, <1>7, <1>8, <1>9
        DEF Next, RunnerStep

\* The two invariants together hold of every behaviour.
LEMMA HoldsCorrect == Spec => [](OwnInv /\ HoldsInv)
BY OwnInit, OwnStep, HoldsInit, HoldsStep, InProcessTypeCorrect, PTL DEF Spec

\* Workers only run while the endpoint they fetch from is up, unless a failed
\* start() or stop() of the container has left them.
THEOREM InProcessEndpointUnderWorkers == Spec => []EndpointUnderWorkers
<1>1. TypeOK /\ HoldsInv => EndpointUnderWorkers
  BY DEF TypeOK, HoldsInv, EndpointUnderWorkers
<1> QED BY <1>1, HoldsCorrect, InProcessTypeCorrect, PTL

\* A stopped runner holds nothing but what a failure it could not undo has
\* left it with.
THEOREM InProcessStoppedHoldsNothing == Spec => []StoppedHoldsNothing
<1>1. HoldsInv => StoppedHoldsNothing
  BY DEF HoldsInv, StoppedHoldsNothing
<1> QED BY <1>1, HoldsCorrect, PTL

-----------------------------------------------------------------------------
(* Every runner implements RunnerContract, whatever fails.                 *)

\* Only a topology that serves HTTP listens.
RoutedInv == port \in Routed \cup {Free}

LEMMA RoutedInvCorrect == Spec => []RoutedInv
<1>1. Init => RoutedInv
  BY DEF Init, RoutedInv
<1>2. RoutedInv /\ [Next]_vars => RoutedInv'
  BY DEF RoutedInv, Next, RunnerStep, Start, Stop, Prepare, Serve,
         StartWorkers, StopWorkers, ShutdownServer, Clear, vars
<1> QED BY <1>1, <1>2, PTL DEF Spec

\* The parts of a runner: its workers, and its endpoint if it has one.
PartsOf(r) == {"workers"} \cup (IF r \in Routed THEN {"endpoint"} ELSE {})
PartsNow(r) == (IF r \in workers THEN {"workers"} ELSE {}) \cup
               (IF port = r THEN {"endpoint"} ELSE {})

\* What a step does to them follows from the workers and the port.
LEMMA PartsNowMoves ==
    ASSUME NEW r \in Runners
    PROVE  /\ (r \in workers => r \in workers') /\ (port = r => port' = r)
                 => PartsNow(r) \subseteq PartsNow(r)'
           /\ (r \in workers' => r \in workers) /\ (port' = r => port = r)
                 => PartsNow(r)' \subseteq PartsNow(r)
           /\ RoutedInv => PartsNow(r) \subseteq PartsOf(r)
           /\ RoutedInv' => PartsNow(r)' \subseteq PartsOf(r)
           /\ r \in workers' /\ (r \in Routed => port' = r)
                 => PartsOf(r) \subseteq PartsNow(r)'
<1>1. Free \notin Runners
  BY InProcessAssumption
<1> QED BY <1>1 DEF PartsNow, PartsOf, RoutedInv

\* A step of one runner leaves the parts of another alone.
LEMMA OtherRunners ==
    ASSUME TypeOK, HoldsInv, NEW q \in Runners, NEW r \in Runners \ {q},
           Start(q) \/ Stop(q) \/ RunnerStep(q)
    PROVE  UNCHANGED Contract(r)!vars
<1>1. /\ pc'[r] = pc[r]
      /\ r \in workers' <=> r \in workers
  BY DEF TypeOK, Start, Stop, RunnerStep, Prepare, Serve, StartWorkers,
         StopWorkers, ShutdownServer, Clear, Raise, Goto
<1>2. port' = r <=> port = r
  <2>1. CASE Serve(q)
    BY <2>1, InProcessAssumption DEF Serve
  <2>2. CASE ShutdownServer(q)
    BY <2>2, InProcessAssumption DEF ShutdownServer, HoldsInv
  <2>3. CASE UNCHANGED port
    BY <2>3
  <2> QED BY <2>1, <2>2, <2>3
          DEF Start, Stop, RunnerStep, Prepare, StartWorkers, StopWorkers, Clear
<1> QED BY <1>1, <1>2 DEF Contract!vars

\* start() adds to the parts until it returns with all of them or raises; a
\* stop() only takes from them.
LEMMA OwnContract ==
    ASSUME TypeOK, OwnInv, HoldsInv, RoutedInv, RoutedInv', NEW r \in Runners,
           Start(r) \/ Stop(r) \/ RunnerStep(r)
    PROVE  Contract(r)!Next
<1> DEFINE Phase == PhaseOf(pc[r])
           Now == PartsNow(r)
           All == PartsOf(r)
           Grows == Now \subseteq Now' /\ Now' \subseteq All
           Shrinks == Now' \subseteq Now
<1>t. pc \in [Runners -> PCs] /\ Free \notin Runners
  BY InProcessAssumption DEF TypeOK
<1>a. Now \subseteq All
  BY PartsNowMoves
<1>k. /\ Phase = "new" /\ Phase' = "starting" /\ Now' = Now
            => Contract(r)!Next
      /\ Phase = "starting" /\ Phase' \in {"starting", "ending"} /\ Grows
            => Contract(r)!Next
      /\ Phase = "starting" /\ Phase' = "up" /\ Now' = All
            => Contract(r)!Next
      /\ Phase \in {"up", "stopped"} /\ Phase' = "ending" /\ Now' = Now
            => Contract(r)!Next
      /\ Phase = "ending" /\ Phase' = "ending" /\ Shrinks
            => Contract(r)!Next
      /\ Phase = "ending" /\ Phase' = "stopped" /\ Now' = Now
            => Contract(r)!Next
  BY <1>a
  DEF Contract!Next, Contract!Start, Contract!Grow, Contract!Ready,
      Contract!Fail, Contract!Stop, Contract!Shrink, Contract!Stopped,
      PartsOf, PartsNow
<1>u. UNCHANGED <<workers, port>> => Now' = Now
  BY DEF PartsNow
<1>1. CASE Start(r)
  <2>1. Phase = "new" /\ Phase' = "starting"
    BY <1>1, <1>t DEF Start, Goto, PhaseOf
  <2> QED BY <1>1, <2>1, <1>k, <1>u DEF Start
<1>2. CASE Prepare(r)
  <2>1. Phase = "starting" /\ Phase' \in {"starting", "ending"}
    BY <1>2, <1>t DEF Prepare, Raise, StopEntry, Goto, PhaseOf
  <2>2. Grows
    BY <1>2, <1>a, <1>u DEF Prepare
  <2> QED BY <2>1, <2>2, <1>k
<1>3. CASE Serve(r)
  <2>1. Phase = "starting" /\ Phase' \in {"starting", "ending"}
    BY <1>3, <1>t DEF Serve, Raise, StopEntry, Goto, PhaseOf
  <2>2. (r \in workers => r \in workers') /\ (port = r => port' = r)
    BY <1>3, <1>t DEF Serve
  <2>3. Grows
    BY <2>2, PartsNowMoves
  <2> QED BY <2>1, <2>3, <1>k
<1>4. CASE StartWorkers(r)
  <2>1. CASE Goto(r, "running") /\ workers' = workers \cup {r}
    <3>1. Phase = "starting" /\ Phase' = "up"
      BY <1>4, <2>1, <1>t DEF StartWorkers, Goto, PhaseOf
    <3>2. r \in workers' /\ (r \in Routed => port' = r)
      BY <1>4, <2>1 DEF StartWorkers, HoldsInv
    <3>3. Now' = All
      BY <3>2, PartsNowMoves
    <3> QED BY <3>1, <3>3, <1>k
  <2>2. CASE Goto(r, StopEntry(r)) \/ Goto(r, "stop_workers")
    <3>1. Phase = "starting" /\ Phase' = "ending"
      BY <1>4, <2>2, <1>t DEF StartWorkers, StopEntry, Goto, PhaseOf
    <3>2. (r \in workers => r \in workers') /\ (port = r => port' = r)
      BY <1>4 DEF StartWorkers
    <3>3. Grows
      BY <3>2, PartsNowMoves
    <3> QED BY <3>1, <3>3, <1>k
  <2> QED BY <1>4, <2>1, <2>2 DEF StartWorkers, Raise
<1>5. CASE Stop(r)
  <2>1. Phase \in {"up", "stopped"} /\ Phase' = "ending"
    BY <1>5, <1>t DEF Stop, StopEntry, Goto, PhaseOf
  <2> QED BY <1>5, <2>1, <1>k, <1>u DEF Stop
<1>6. CASE StopWorkers(r) \/ ShutdownServer(r)
  <2>1. Phase = "ending" /\ Phase' = "ending"
    BY <1>6, <1>t DEF StopWorkers, ShutdownServer, Goto, PhaseOf
  <2>2. (r \in workers' => r \in workers) /\ (port' = r => port = r)
    BY <1>6, <1>t DEF StopWorkers, ShutdownServer
  <2>3. Shrinks
    BY <2>2, PartsNowMoves
  <2> QED BY <2>1, <2>3, <1>k
<1>7. CASE Clear(r)
  <2>1. Phase = "ending" /\ Phase' = "stopped"
    BY <1>7, <1>t DEF Clear, Goto, PhaseOf
  <2> QED BY <1>7, <2>1, <1>k, <1>u DEF Clear
<1> QED BY <1>1, <1>2, <1>3, <1>4, <1>5, <1>6, <1>7 DEF RunnerStep

\* Whatever fails and however often a runner is stopped: neither endpoint nor
\* workers come up after a failure, and start() returns with both.
THEOREM InProcessKeepsContract == Spec => ContractKept
<1>1. Init => \A r \in Runners : Contract(r)!Init
  BY InProcessAssumption DEF Init, Contract!Init, PhaseOf
<1>2. TypeOK /\ OwnInv /\ HoldsInv /\ RoutedInv /\ RoutedInv' /\ [Next]_vars
         => [\A r \in Runners :
                Contract(r)!Next \/ UNCHANGED Contract(r)!vars]_vars
  BY OwnContract, OtherRunners DEF Next
<1> QED BY <1>1, <1>2, HoldsCorrect, RoutedInvCorrect, InProcessTypeCorrect, PTL
        DEF Spec, ContractKept

=============================================================================
