------------------------------- MODULE Launcher -------------------------------
(***************************************************************************)
(* __main__.py: a demo.  The stub devices are brought up, a runner is      *)
(* built with their addresses and started, a scenario is opened, and the   *)
(* process waits for a signal; then the runner is stopped and the devices  *)
(* go.  (drivers/audio.py, tts.py and camera.py have the same lifecycle.)  *)
(*                                                                         *)
(* One thread runs all of it, and a signal may arrive at any step: until   *)
(* _wait() has installed the handlers, SIGINT raises KeyboardInterrupt     *)
(* where that thread is, and SIGTERM ends the process.  What a runner does *)
(* in start() and stop() is the subject of the other modules.              *)
(***************************************************************************)
EXTENDS Naturals, Sequences

CONSTANTS
    Devices,    \* the with statement's devices, in its order
    Demos,      \* what one may ask for: a scenario, and its tier
    Needs,      \* per demo: the devices that something in it will look for
    MaxSignals  \* bound: how many signals arrive

ASSUME LauncherAssumption ==
    /\ Devices \in Seq(STRING)
    /\ Needs \in [Demos -> SUBSET STRING]
    /\ \A m \in Demos : \A d \in Needs[m] :
          \E i \in 1..Len(Devices) : Devices[i] = d
    /\ MaxSignals \in Nat

VARIABLES
    demo,       \* the one that is run
    pc,         \* where main() is
    next,       \* the device that is entered or left next
    listening,  \* the devices whose socket is bound
    given,      \* the devices whose address is in the runner's environment
    runner,     \* what the runner is doing
    exc,        \* what main() is unwinding
    handled,    \* the signals whose handler is installed
    stop,       \* the Event the handlers set
    signals,    \* how many signals have arrived
    cut         \* history: an interrupt hit the runner where nobody repairs it

vars == <<demo, pc, next, listening, given, runner, exc, handled, stop,
          signals, cut>>

Needed == Needs[demo]

Signals == {"SIGINT", "SIGTERM"}
Running == {"starting", "up", "stopping", "aborting"}

TypeOK ==
    /\ demo \in Demos
    /\ pc \in {"enter", "build", "start", "started", "open", "install",
               "wait", "stop", "leave", "ended"}
    /\ next \in 0..Len(Devices) + 1
    /\ listening \subseteq Needed
    /\ given \subseteq Needed
    /\ runner \in {"none", "built", "stopped", "left"} \cup Running
    /\ exc \in {"none", "failure", "interrupt", "killed"}
    /\ handled \subseteq Signals
    /\ stop \in BOOLEAN
    /\ signals \in 0..MaxSignals
    /\ cut \in BOOLEAN

Init ==
    /\ demo \in Demos
    /\ pc = "enter" /\ next = 1
    /\ listening = {} /\ given = {}
    /\ runner = "none" /\ exc = "none"
    /\ handled = {} /\ stop = FALSE
    /\ signals = 0 /\ cut = FALSE

-----------------------------------------------------------------------------
(* The with statement, on its way in.                                      *)

\* Out of it, through the devices that have been entered.
Leave(entered, why) ==
    /\ pc' = "leave"
    /\ next' = entered
    /\ exc' = why

\* A stub's start(): its socket is bound when that returns, and a device that
\* is not needed is _Nothing.
WithListening(d) == listening \cup ({d} \cap Needed)

\* Its stop().
WithoutListening(d) == listening \ {d}

\* Mutant: the last device is not waited for.
AllEnteredShort == next >= Len(Devices)
AllEntered == next > Len(Devices)

\* _microphone, _speaker, _camera: a stub if the scenario needs one.
EnterDevice ==
    /\ pc = "enter"
    /\ ~ AllEntered
    /\ \/ /\ listening' = WithListening(Devices[next])
          /\ next' = next + 1
          /\ UNCHANGED <<pc, exc>>
       \/ /\ Devices[next] \in Needed
          /\ Leave(next - 1, "failure")
          /\ UNCHANGED listening
    /\ UNCHANGED <<given, runner, handled, stop, signals, cut>>

Entered ==
    /\ pc = "enter"
    /\ AllEntered
    /\ pc' = "build"
    /\ UNCHANGED <<next, listening, given, runner, exc, handled, stop,
                   signals, cut>>

\* _build: the runner, with the address of every device that is there.
Build ==
    /\ pc = "build"
    /\ given' = listening
    /\ runner' = "built"
    /\ pc' = "start"
    /\ UNCHANGED <<next, listening, exc, handled, stop, signals, cut>>

-----------------------------------------------------------------------------
(* The body.                                                               *)

StartRunner ==
    /\ pc = "start"
    /\ runner = "built"
    /\ runner' = "starting"
    /\ UNCHANGED <<pc, next, listening, given, exc, handled, stop, signals,
                   cut>>

\* Mutant: start() raises and leaves what it has started.
StartFailsUnstopped(why) ==
    /\ runner' = "left"
    /\ Leave(Len(Devices), why)

\* Every runner's start() calls its stop() on any exception.
StartFails(why) ==
    /\ runner' = "aborting"
    /\ exc' = why
    /\ UNCHANGED <<pc, next>>

\* start() returns, or has stopped what it had started and raises.
RunnerStarted ==
    /\ pc = "start"
    /\ \/ /\ runner = "starting"
          /\ runner' = "up"
          /\ pc' = "started"
          /\ UNCHANGED <<next, exc>>
       \/ runner = "starting" /\ StartFails("failure")
       \/ /\ runner = "aborting"
          /\ runner' = "stopped"
          /\ Leave(Len(Devices), exc)
    /\ UNCHANGED <<listening, given, handled, stop, signals, cut>>

\* Past the except clause and into the try statement that has the finally.
EnterTry ==
    /\ pc = "started"
    /\ pc' = "open"
    /\ UNCHANGED <<next, listening, given, runner, exc, handled, stop,
                   signals, cut>>

\* _open_scenario, the demo's status and display, and the report.
OpenScenario ==
    /\ pc = "open"
    /\ \/ pc' = "install" /\ UNCHANGED exc
       \/ pc' = "stop" /\ exc' = "failure"
    /\ UNCHANGED <<next, listening, given, runner, handled, stop, signals,
                   cut>>

\* Mutant: SIGTERM keeps its default.
HandlersIntOnly == <<"SIGINT">>

\* The handlers of _wait(), in the order it installs them.
Handlers == <<"SIGINT", "SIGTERM">>

\* Mutant: the Event is created when the handlers are there.
InstallThenCreate ==
    /\ pc = "install"
    /\ \E i \in 1..Len(Handlers) :
          /\ \A j \in 1..i - 1 : Handlers[j] \in handled
          /\ Handlers[i] \notin handled
          /\ handled' = handled \cup {Handlers[i]}
          /\ stop' = (stop /\ i < Len(Handlers))
          /\ pc' = IF i = Len(Handlers) THEN "wait" ELSE "install"
    /\ UNCHANGED <<next, listening, given, runner, exc, signals, cut>>

Install ==
    /\ pc = "install"
    /\ \E i \in 1..Len(Handlers) :
          /\ \A j \in 1..i - 1 : Handlers[j] \in handled
          /\ Handlers[i] \notin handled
          /\ handled' = handled \cup {Handlers[i]}
          /\ pc' = IF i = Len(Handlers) THEN "wait" ELSE "install"
    /\ UNCHANGED <<next, listening, given, runner, exc, stop, signals, cut>>

Wait ==
    /\ pc = "wait"
    /\ stop
    /\ pc' = "stop"
    /\ UNCHANGED <<next, listening, given, runner, exc, handled, stop,
                   signals, cut>>

-----------------------------------------------------------------------------
(* The finally, and the with statement on its way out.                     *)

\* stop() returns or raises; it has then done what it could.
StopRunner ==
    /\ pc = "stop"
    /\ \/ /\ runner = "up"
          /\ runner' = "stopping"
          /\ UNCHANGED <<pc, next, exc>>
       \/ /\ runner = "stopping"
          /\ runner' = "stopped"
          /\ Leave(Len(Devices), exc) \/ Leave(Len(Devices), "failure")
    /\ UNCHANGED <<listening, given, handled, stop, signals, cut>>

LeaveDevice ==
    /\ pc = "leave"
    /\ IF next = 0
       THEN pc' = "ended" /\ UNCHANGED <<next, listening>>
       ELSE /\ listening' = WithoutListening(Devices[next])
            /\ next' = next - 1
            /\ UNCHANGED pc
    /\ UNCHANGED <<given, runner, exc, handled, stop, signals, cut>>

-----------------------------------------------------------------------------
(* Signals.                                                                *)

Handled(signal) ==
    /\ signal \in handled
    /\ stop' = TRUE
    /\ UNCHANGED <<pc, next, listening, given, runner, exc, handled, cut>>

\* The default of SIGTERM.
Killed ==
    /\ "SIGTERM" \notin handled
    /\ pc' = "ended"
    /\ exc' = "killed"
    /\ listening' = {}
    /\ UNCHANGED <<next, given, runner, handled, stop, cut>>

\* KeyboardInterrupt outside the runner.  In a device's own start() or stop()
\* its socket may already be, or still be, there; between start() and the try
\* statement the runner is up and nobody stops it.
InterruptedLauncher ==
    \/ /\ pc = "enter"
       /\ listening' \in {listening} \cup
             (IF AllEntered THEN {} ELSE {WithListening(Devices[next])})
       /\ Leave(next - 1, "interrupt")
       /\ UNCHANGED <<runner, cut>>
    \/ /\ pc = "build" \/ (pc = "start" /\ runner = "built")
       /\ Leave(Len(Devices), "interrupt")
       /\ UNCHANGED <<listening, runner, cut>>
    \/ /\ pc = "started"
       /\ runner' = "left" /\ cut' = TRUE
       /\ Leave(Len(Devices), "interrupt")
       /\ UNCHANGED listening
    \/ /\ pc \in {"open", "install"}
       /\ pc' = "stop" /\ exc' = "interrupt"
       /\ UNCHANGED <<next, listening, runner, cut>>
    \/ /\ pc = "leave" /\ next > 0
       /\ listening' \in {listening, WithoutListening(Devices[next])}
       /\ Leave(next - 1, "interrupt")
       /\ UNCHANGED <<runner, cut>>

\* KeyboardInterrupt inside it: start() goes on to stop(), but a stop() that is
\* interrupted skips what it was doing.
InterruptedRunner ==
    \/ /\ pc = "start" /\ runner = "starting"
       /\ StartFails("interrupt")
       /\ UNCHANGED cut
    \/ /\ \/ pc = "start" /\ runner = "aborting"
          \/ pc = "stop" /\ runner \in {"up", "stopping"}
       /\ runner' = "left" /\ cut' = TRUE
       /\ Leave(Len(Devices), "interrupt")

Interrupted ==
    /\ "SIGINT" \notin handled
    /\ InterruptedLauncher \/ (InterruptedRunner /\ UNCHANGED listening)
    /\ UNCHANGED <<given, handled, stop>>

Signal ==
    /\ pc # "ended"
    /\ signals < MaxSignals
    /\ signals' = signals + 1
    /\ Killed \/ Interrupted \/ \E s \in Signals : Handled(s)

Main ==
    \/ EnterDevice \/ Entered \/ Build
    \/ StartRunner \/ RunnerStarted \/ EnterTry
    \/ OpenScenario \/ Install \/ Wait
    \/ StopRunner \/ LeaveDevice

Next == (Main \/ Signal) /\ UNCHANGED demo

Spec == Init /\ [][Next]_vars

\* The thread keeps running, and every start() and stop() returns.
FairSpec == Spec /\ WF_vars(Main /\ UNCHANGED demo)

-----------------------------------------------------------------------------
(* Properties.                                                             *)

\* As long as modules may run, the devices they were configured with listen
\* (_microphone: "Started before the runner ... the port is only known once
\* the socket is bound"), unless the process was killed.
DevicesOutliveModules ==
    runner \in Running /\ exc # "killed" => given = Needed /\ listening = Needed

\* Whatever fails or interrupts main(), the runner it has started is stopped
\* when it ends; what can prevent that is SIGTERM before the handlers are
\* there, or an interrupt in a stop() or just before the try (main).
EndsStopped ==
    pc = "ended" /\ exc # "killed" /\ ~ cut =>
        runner \in {"none", "built", "stopped"}

\* From when it waits on, no number of signals gets in the way of that: the
\* handlers stay, so a second Ctrl-C does not interrupt the teardown (_wait).
SignalsOnlyStop ==
    [][exc = "none" /\ pc \in {"wait", "stop", "leave"} =>
           exc' \notin {"interrupt", "killed"}]_vars

\* A demo that was asked to end does, and nothing but waiting lasts.
SignalEnds ==
    /\ stop ~> pc = "ended"
    /\ pc # "wait" ~> pc \in {"wait", "ended"}

-----------------------------------------------------------------------------
(* Why the first two hold, as an invariant every step preserves.           *)

\* On the way in every needed device so far listens; in the body all of them
\* do, and the runner knows all of them; on the way out it runs no more, and
\* it has only been left where the history says so.
LauncherInv ==
    /\ TypeOK
    /\ pc = "enter" => /\ next > 0
                       /\ \A i \in 1..next - 1 :
                             Devices[i] \in Needed => Devices[i] \in listening
    /\ pc \in {"enter", "build"} => runner = "none"
    /\ pc \in {"build", "start", "started", "open", "install", "wait", "stop"}
          => listening = Needed
    /\ pc \in {"start", "started", "open", "install", "wait", "stop"}
          => given = Needed
    /\ pc = "leave" => next <= Len(Devices) /\ runner \notin Running
    /\ pc = "ended" => exc = "killed" \/ runner \notin Running
    /\ exc = "killed" => pc = "ended"
    /\ runner = "left" => cut

\* And why the third does: who gets to where a signal must not interrupt
\* without an exception has come through _wait(), with both handlers.
HandlersInv ==
    /\ runner = "aborting" => exc # "none"
    /\ exc = "none" /\ pc \in {"wait", "stop", "leave"} => Signals \subseteq handled

=============================================================================
