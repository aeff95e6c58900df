# TLA+ models of the Leolani integration harness

This repository holds the integration harness of the Leolani platform
(`src/integration`): it composes the platform's modules into *topologies*, brings
those up in the test process or as docker compose projects, and lets tests drive
them over an event bus. The platform modules themselves live in git submodules
whose sources are not here. What is modelled is therefore the harness: who brings
what up and down in which order, what is left when something fails on the way, and
what a test may conclude from what it has waited for.

The models are plain TLA+, checked with TLC, and proved about with TLAPS where that
is possible. `PROJECT.json` lists the runs, the mutants that show each property can
fail, the source lines every definition models, the disagreements found, the hazards
and the theorems.

## The system

| part | code | state it keeps | operations | talks to |
|---|---|---|---|---|
| `ComposeStack` | `runner/compose.py` | `_started`, `_ports`, `_environment`; the containers | `start`, `stop` | docker; `os.environ` (reads) |
| `ComposeRunner` | `runner/compose.py` | the above, `_environ_backup`, the probe's container and bus | `_attach`, `_detach`, `_release`, `binding_*` | RabbitMQ; the DI registry, the loaded configuration and `os.environ` of the process |
| `TenantRunner` | `runner/tenants.py` | `_server`, `_stacks`, `_views`, `_deployment_bindings` | `start`, `stop` | one `ComposeRunner`, one `ComposeStack` and one tenanted bus per tenant |
| `SplitRunner` | `runner/split.py` | `_server`, `_client` | `start`, `stop` | one `ComposeRunner`, one `ComposeStack` |
| `InProcessRunner` | `runner/inprocess.py` | `_started`, `_server`, `_environ_backup`; the process globals | `start`, `stop` | the modules' DI containers, one HTTP port |
| `EventProbe` | `runner/api.py` | `_events`, `_arrived`, `_topics` | `subscribe`, `_record`, `await_event`, `clear` | the bus's threads call `_record` |
| demo launcher | `__main__.py` | -- | `main`, `_wait` | stub devices, a runner, signals |
| stub devices | `drivers/audio.py`, `camera.py`, `tts.py` | a counter or a list under a lock, a server thread | `start`, `stop`, `await_*` | the backend's HTTP clients |
| conversation driver | `drivers/conversation.py`, `bdi.py`, `chat.py` | chat id, sequence number | `open`, `confirm`, `say`, `replies` | bus, probe, chat UI |
| deployments | `topology.py`, `modules.py`, `config/` | immutable | constructors that validate, the merging of configurations | launcher, runners |
| serialization | `serialization.py` | `_registered` | `register_event_types` | emissor's global registry |
| module registry, images, fixtures | `modules.py`, `images.py`, `fixtures.py` | constants | -- | -- |

What is hard here:

* **Cleaning up.** `start()` calls `stop()` on any exception, fixtures call it again,
  and every stage of it can fail in turn. What may not be left: containers, a
  consumer reconnecting to a broker that is gone, a bound port, worker threads,
  variables in `os.environ`, singletons in the DI registry.
* **Process globals.** `os.environ`, the registry and the configuration are shared by
  everything that runs in the process. `ComposeStack` copies `os.environ` for every
  compose command, so whatever one runner writes there reaches the containers of the
  next unless it is overridden.
* **A subscription that returns too early.** `KombuEventBus.subscribe` returns before
  the broker has bound the queue; what is published in between is dropped. The harness
  counts the queues of a routing key to find out when it may go on.
* **Two threads on one record.** The bus records events while a test waits for one and
  clears the record for the next.
* **One exchange for several tenants.** What keeps tenants apart is only the routing key:
  the topic, followed by the tenant's id or by `#`. Whether that is enough depends on
  the ids and the modules a deployment is written down with, which the constructors
  check, and on every stack having been started under its own tenant.
* **Queues of their own.** A probe and a chat UI that wait for the same event get it from
  different queues, so neither tells what the other has seen.

## The modules

`ComposeStack` is a library of steps with one program counter per project; it has no
specification of its own. `TenantRunner` and `SplitRunner` extend it and conjoin its
calls to their own steps, with the program counter `rpc`. The test process has one
thread there, so at most one stack is ever in the middle of anything; the interleaving
that matters is that of failures with stages.

```
BrokerLease     <==implements==  TenantRunner --+
                <==implements==  SplitRunner  --+-- EXTENDS ComposeStack

RunnerContract  <==implements==  TenantRunner, SplitRunner, InProcessRunner

EventRecord     <==implements==  EventProbe

Deployments <--+-- Demo --> Launcher
               +-- Conversation

BindingReadiness
```

`BrokerLease`, `RunnerContract` and `EventRecord` are abstract: they say what a part of
the harness promises and model no line of it. Each is the `PROPERTY` of a run of every
module that implements it, under a refinement mapping that stands in that module.

Each module `M` that is checked has an `MCM`; each one that is proved about an
`M_proof`. `ComposeStack_proof` holds the lemmas both runners use.

### ComposeStack (`runner/compose.py`)

| state | code |
|---|---|
| `pc`, `exc` | where a project is in `start()` or `stop()`, and the exception it is raising |
| `started`, `ports`, `environment` | `_started`, `_ports`, `_environment` |
| `docker` | what docker runs, per service: 0, or the generation of the container (2 after a `--force-recreate`) |
| `spawn` | the environment of the `compose up` that created the containers |
| `bus` | the bus this process opened: the probe's, or the one of a `TenantView` |
| `environ`, `backup` | `os.environ`, `_environ_backup` |

`start()` is `CheckImages`, `ComposeUp`, `DiscoverPorts`, `PublishMonitoringUrl`,
`Attach`; `stop()` is `CaptureLogs`, `Detach`, `ComposeDown`, `Release`, each in the
`finally` of the one before it. A failure is a disjunct of its step with what it leaves
half done: any subset of the containers for `up` and `down`, any subset of the ports
for `_discover_ports`. The constant `Faults` says which failures a model admits, so
that a run can say precisely under which of them something holds.

Environments are functions from the few variables that matter to values; `Unset` is a
variable that is missing. Images, configuration directories and command lines are left
out, except that they may fail.

An exception in `bus.close()` (`"close"`) is logged and swallowed; an interrupt there
(`"close_interrupt"`) is no `Exception`, so it leaves the bus open, `stop()` still runs
`down` in its `finally`, and raises. In `TenantRunner.stop` it also ends the loop over
the views. When the ports are read a second time, for the recreated chat UI, a failure
leaves some of them new and the others old (`PartlyReread`).

### TenantRunner, SplitRunner, BrokerLease and RunnerContract

One action per call and per return of `start()` and `stop()`. `cursor` is the tenant
the current loop stands at; `stacks` and `views` are `_stacks` and `_views`; `shell`
is a history variable, `os.environ` as the test process found it.

`BrokerLease` says what a runner promises about its broker: it comes up before anything
uses it and goes down after everything has left. Both runners are checked to implement
it under the refinement `broker <- the server's rabbitmq runs`, `users <- the projects
that have containers and the buses that are open`.

`RunnerContract` says what fixtures and launcher take any runner to be: `start()` brings
its parts up, loses none on the way and returns only with all of them; while the runner
is up it neither adds nor takes away; and once anything has failed, or `stop()` was
called, nothing is brought up any more. Each of the three runners writes this sequence
for itself, with its own nesting of `try` and `finally`. The parts of `TenantRunner` and
`SplitRunner` are the projects with containers, and `phase` is `"ending"` as soon as the
project that the runner waits for is in its own `stop()`, before the runner itself has
noticed. What the contract leaves open is what a failing `stop()` may leave behind; that
is what `NothingLeftBehind` and `StoppedHoldsNothing` are about.

### BindingReadiness (`compose.py`, `api.py`, `tenants.py`)

`bound` is the set of queues that exist at the broker, module queues and probe queues
alike; they get bound at any moment (`BindModule`, `BindProbe`). The test's thread runs
`_await_tenant_bindings`, the snapshot, and then any sequence of `subscribe()` calls on
the server's and the tenants' probes: `Subscribe`, `CountBefore`, `SubscribeAll`,
`Poll` or `PollTimeout`. A count is `Cardinality` of the queues of a key: a key may have
any number of module queues, and every request, those of the baseline, of a poll and of
the snapshot, may fail and is then an empty count. A `subscribe()` that has raised leaves
its topics in `_topics`, and the next one for them returns at once. `masked` is a history
variable: the subscriptions, not bound yet, whose readiness a wrong answer may stand for,
because the baseline was not the count, a module of the key was bound since, or an earlier
`subscribe()` raised.

### EventProbe (`api.py`)

What a method does under the lock is one action; what it does outside is another. So
`_record` is `Append` and `SetArrived`, `clear` is `ClearEvents` and `ClearArrived`,
and the loop of `await_event` is `Scan`, `CheckDeadline`, `Wait`, `ResetArrived`, with
`Expire` for the time that passes. `Wait` may end at any time, as a wait of at most
50 ms does.

`EventRecord` is what a test takes a probe to be: a record in which an event is or is not,
which is emptied at one moment, and a call that finds a match or misses it at one moment
and gives up only if it has missed one since it last slept and its time is over.
`EventProbe` implements it with `record <- _events`: `Append` is the delivery and
`ClearEvents` the emptying, whatever the other thread does in between, and everything
that concerns `_arrived` is a stutter. `missed` holds from a scan that found nothing until
the deadline has been checked: who is not late by then goes to sleep, and has to look
again before giving up.

### InProcessRunner (`inprocess.py`)

Several topologies in one process, one after another: `Start` and `Stop` need the other
runners at rest, which is how the `inprocess` fixture and every test use them. A runner
that has failed or was stopped may be stopped again. Before any of them a test may have
built a container by hand, whose services are then in the registry (`Stray`). Each
runner implements `RunnerContract`, with the workers and, if it serves HTTP, the endpoint
as its parts.

`server` is `_server`, and `serving` the runners whose thread is in `serve_forever()`: the
fault `"serve_thread"` is a failure, or an interrupt, between the two, and
`ShutdownServer` waits for a loop that never began. The fault `"probe"` is one after
`_started` has been set. `Unclosed` is `_server` after a close that raised, which the
next `stop()` tries again.

### Launcher (`__main__.py`, `drivers/`)

`main()` from the `with` statement on: `EnterDevice`, `Build`, `StartRunner`,
`RunnerStarted`, `EnterTry`, `OpenScenario`, `Install`, `Wait`, `StopRunner`,
`LeaveDevice`. The runner is one variable (`starting`, `up`, `stopping`, `aborting` for
the `stop()` its own `start()` calls). A signal may arrive in every state: `Handled`
once the handler is installed, before that `Killed` for SIGTERM and `Interrupted` for
SIGINT, whose outcome depends on where the thread is. The history variable `cut` marks
an interrupt that hits the runner where nothing in the code repairs it: in a `stop()`,
or between the return of `start()` and the `try` statement that follows.

### Deployments and Demo (`topology.py`, `modules.py`, `__main__.py`)

`Deployments` is the tables of `topology.py` and `modules.py`: the registered topologies
and deployments, what `Topology`, `Deployment` and `TenantDeployment` refuse in their
`__post_init__`, and the merging `base < tier < overlay` (`Over(later, earlier)`). A configuration is reduced to
the four settings something depends on: the microphone's and the speaker's topic, the
camera's rate, and what gates eliza. That the constructors accept everything that is
registered is an assumption TLC evaluates.

`Demo` puts `Launcher` over these tables: which devices each demo needs, where the stubs
bind, which container gets their addresses, and which of them the backend in each
container then dials by its *own* two configuration files. `DialsAnswered` relates the
two sides, which the code computes separately.

### Conversation (`drivers/`, `runner/tenants.py`)

Conversations over the broker, in a deployment that `Deployments` accepts: a single
stack, a split, or a server and its tenants.

| state | code |
|---|---|
| `system` | the deployment, chosen in `Init` from those the constructors accept |
| `queue`, `unbound` | one queue per subscription, and the queues not bound yet |
| `seen` | per probe, what it has recorded |
| `chat` | per chat UI, whether it has a scenario, and the utterances it shows |
| `pc`, `initial` | where each `Conversation` is, and the client's `initial_sequence` |
| `active` | the workers gated on an intention (InitService, and eliza where it is gated) that it has activated |
| `lost` | history: an event was lost to a module: its queue was not bound, its worker not active, or its buffer overwritten |

Routing keys are sequences of words, and `Matches` is a topic exchange's matching with
`*` and `#`: whether two tenants mix is decided by matching, not assumed. `PublishTo`
routes one event to every queue that is bound and matches. The driver is
`Open`, `Await`, `AwaitScenario`, `StartSession`, `Send`, `Receive`, in the order of
`open()`, `confirm()`, `say()` and `replies()`. `Handle` takes an event off any queue:
different queues are served in any order. The modules (`Context`, `InitService`, `Eliza`,
`ChatUI`) are external, and do what the drivers' docstrings, the configuration and the
design document say of them:

* InitService is gated on the intention `init`, with a queue of its own per topic. What
  comes to it before the activation is dropped, with nothing logged (`Drop`).
* A gated eliza is subscribed to the intention topic twice (`"eliza"` and `"again"`): once
  out of the list of its topics, once as its intention topic. Both deliver the activation.
* A worker's buffer has one slot: with the fault `"overwrite"` an event may be swallowed
  by the next one its worker accepts (`Overwritten`).

## The runs

| run | asks | expect |
|---|---|---|
| `tenants` | every failure but those of `compose up` and `compose down`, of a bus that does not close, and an interrupt in `stop()`: type invariant, nothing left behind, up means up, `BrokerLease`, the broker comes down | pass |
| `tenants_faults` | every failure: `os.environ` restored, the right tenant and broker in every container, current ports, `RunnerContract` | pass |
| `tenants_up_failure` | `compose up` fails after creating containers | violation of `NothingLeftBehind` |
| `tenants_down_failure` | one tenant's `compose down` times out | violation of `NoStackAbandoned` |
| `split` | every failure but those of `compose up` and `compose down` and of a bus that does not close, an interrupt in the capture of the logs included: both halves stopped, `os.environ` restored, each half's own environment, `BrokerLease`, `RunnerContract` | pass |
| `readiness` | several queues on a key, every request may fail: every tenant heard before `start()` returns, no queue of the test's in the snapshot, the three reasons why a `subscribe()` may return too early and no other, and that the waits end | pass |
| `readiness_early` | the baseline request fails, or a module binds between baseline and poll | violation of `ReadyMeansBound` |
| `probe` | recording against waiting and clearing: no lost wake-up, `EventRecord`, a wait ends | pass |
| `inprocess` | every failure: globals restored, every topology its own, endpoint under workers, nothing held after `stop()`, `RunnerContract` | pass |
| `launcher` | every demo on every tier, failures and signals at every step: devices outlive modules, every dialled device is bound, reachable and announced, the runner is stopped, signals only stop | pass |
| `conversation` | every deployment the constructors accept, out of eight, with a queue bound late and buffers overwritten: tenants kept apart, relays find back, no greeting, comment or answer twice, conversations get to their end unless an event is lost | pass |
| `conversation_replies` | the greeting reaches the chat UI after `start_session()` | violation of `RepliesNotGreeting` |

The type invariants of `SplitRunner`, `EventProbe`, `InProcessRunner` and `Launcher` are
not among the properties of their runs: they are proved for every instance. So is that of
`TenantRunner`, whose run checks it because it is also that of the stacks both runners
extend.

The violations are disagreements between the code and its own documentation; each is a
finding in `PROJECT.json` with the sentence it contradicts. Two more, which no run shows
because they are about names and words: `config/base.config:57` refers to a
`topology.validate_config` that does not exist, and `topology.py:173` says two tenants
with one id would "split the traffic", where lines 123-126 say of the same situation
that an event is "delivered to both" -- in `Conversation` it is delivered to both.

`EndpointUnderWorkers` and `StoppedHoldsNothing` are conditional on what has failed
before, which the history variable `failed` records: a container that leaves workers
behind when its `start()` or `stop()` raises, and a socket that does not close, are
beyond what a runner can repair, and everything else is not.

`ConversationsComplete` excepts a behaviour in which an event was lost to a module
(`lost`): one published before its queue was bound (a presence check per key says nothing
of a second queue on that key), one that came to InitService before its activation, one
that was overwritten in eliza's buffer. Nothing in the driver sends an event again. The
hazards at `tenants.py:315`, `conversation.py:45` and `text_pipeline.config:13` are these.

`ReadyUnlessMasked` excepts three causes for which `subscribe()` does return too early;
the finding of `readiness_early` describes the first two. The property is that there is no
fourth.

What the models have and no property asks for, because the code does not promise it or
does not keep it:

* That every module is bound when `start()` returns, as the docstring at `tenants.py:303`
  has it. A registered tenant has several subscribers on `text_in` and on `intention`, and
  `_await_tenant_bindings` is content with one per key. `EveryTenantHeard` is what remains.
* That the snapshot is complete, as `test_multitenant.py:222-225` asserts for `text_out`
  and `scenario`, too: nothing waits for those, and a failed request leaves it empty.
* That eliza opens once. With two subscriptions it opens twice, as the design document
  (lines 673-691) and the strict xfail at `test_intention_routing.py:82` record;
  `AnsweredOnce` is about everything else that is said.
* That the handshake completes once all queues are bound. It stalls when the scenario
  comes to InitService before its activation (design document, lines 569-574).
* That `InProcessRunner.start()` ends. With `"serve_thread"` its own `stop()` does not return:
  `shutdown()` waits for a `serve_forever()` that never began (`inprocess.py:289-299`).
* That a bus goes before its broker if `close()` does not close it (`compose.py:456-463`,
  `tenants.py:191`): with `"close"` or `"close_interrupt"` among the `Faults`, `LeaseKept`
  is violated by either runner.

### Bounds, and why they are enough

* Two tenants (the minimum `TenantDeployment` accepts, so every loop has a first and a
  last); one runner; the services that tell the branches of the code apart: the broker,
  one module, and a chat UI with its monitoring, which is what makes
  `_publish_monitoring_url` do anything. One start and one stop per stack, which is what
  fixtures do, plus the second `stop()` after a failed `start()`.
* Readiness: two tenants, and of the topics `text_in`, which has more than one subscriber
  per tenant, and the server's shared eliza on a key of its own. Whether a queue too many
  can stand in for another one depends on one key only, and keys enough to wait for are
  there with two tenants. (With two topics the three invariants hold as well, in 3.6
  million states; that is too many for `ReadinessReached`. The theorems are for any number.)
* Probe: three events, two of which match: the one that is in time, the one that is
  late, and one that only wakes the waiter up.
* In-process: three runners, one of which serves no HTTP. A state that leaks from one
  topology is seen by the next; the third sees what two leave.
* Conversation: the registered deployments that hold a text conversation, and those that
  somebody might write down instead (an id of two words or of a wildcard, one id twice,
  an eliza on both sides of a deployment or a split), of which the constructors have to
  refuse the ones that mix. Two tenants, one conversation each: isolation is about pairs.
  At most one queue is late, one of the server or of the tenant that came up last, which
  is what `tenants.py` says the race is; a second one would be late for the same reason. One
  test drives all conversations, a call at a time, as the suite's tests do.
* Launcher: two devices out of three, so that one is skipped between two others, and
  three signals: one in `start()`, one in the `stop()` that follows, and one more.

### Fairness

* `TenantRunner`: `WF_vars(Next)`. One thread runs everything. `compose up` and
  `compose down` have a timeout; that `docker image inspect` (`compose.py:78`) and
  `bus.close()`, which have none, return is an assumption.
* `BindingReadiness`: weak fairness of the waiting thread's steps (it polls ten times a
  second) and of the consumers' bindings. A single request may fail any number of times,
  but not for ever. The timeouts
  are not fair: `ReadinessReached` says that the right key is waited for and that the
  count can be reached, not that a timeout ends the wait.
* `EventProbe`: weak fairness of the loop and of time. None of the bus.
* `SplitRunner`, `InProcessRunner`: none, no run asks them for liveness.
* `Conversation`: `WF_vars(Next)`: something happens as long as something can, in any order.
  Queues are served, and the driver polls; its timeouts are taken to be long enough, so
  that a conversation that cannot go on is one that waits for ever.
* `Launcher`: weak fairness of the main thread's steps: every `start()` and `stop()` of a
  runner returns (the runs above), and nothing makes a signal arrive.

## What is proved

For every value of the constants that satisfies the modules' assumptions.

| theorem | says | assumes |
|---|---|---|
| `TenantTypeCorrect`, `SplitTypeCorrect` | the type invariants | -- |
| `TenantEnvironRestored`, `SplitEnvironRestored` | `os.environ` is restored | -- |
| `TenantOwnTenant`, `SplitOwnEnvironment` | containers run in the environment stated for them | -- |
| `TenantPortsCurrent` | `url()` answers with the current ports | -- |
| `TenantUpMeansUp` | `start()` returns only when everything is up | -- |
| `SplitTornDown` | both halves are stopped | -- |
| `TenantTornDown` | no stack is abandoned | no `stop()` of a stack raises (`StopReturns`) |
| `TenantLeavesNothing` | no container is left | also, compose does what it says (`ComposeWorks`) |
| `TenantKeepsLease` | the runner implements `BrokerLease` | both, and a closed bus is closed (`BusCloses`) |
| `SplitKeepsLease` | the runner implements `BrokerLease`, also when the capture of the logs in `stop()` is interrupted | `ComposeWorks`, `BusCloses` (no failure and no interrupt in the bus's `close()`) |
| `TenantKeepsContract`, `SplitKeepsContract`, `InProcessKeepsContract` | the runner implements `RunnerContract` | -- |
| `ReadinessTypeCorrect` | the type invariant | -- |
| `TenantsHeard` | when `start()` returns every tenant has a module bound on every topic waited for | -- |
| `SnapshotSound` | no queue of the test process is in the snapshot | -- |
| `ReadinessSound` | a `subscribe()` that returns can receive, unless one of the three causes is there | -- |
| `ProbeTypeCorrect`, `ProbeWakesUp` | the safety of the probe | -- |
| `ProbeActsAtomically` | the probe implements `EventRecord` | -- |
| `LauncherTypeCorrect`, `LauncherDevices`, `LauncherEndsStopped` | devices outlive modules; the runner is stopped | -- |
| `LauncherSignalsOnlyStop` | from when the demo waits on, signals only end it | -- |
| `DemoDialsAnswered` | what a container dials is bound, reachable and announced | demos and devices are those of the tables (`AllDemos`, `DeviceNeeds`) |
| `InProcessTypeCorrect`, `InProcessGlobalsRestored`, `InProcessOwnGlobals` | the safety of the process globals | -- |
| `InProcessEndpointUnderWorkers`, `InProcessStoppedHoldsNothing` | the safety of the port and the workers | -- |
| `ConversationTypeCorrect`, `TenantsKeptApart` | a tenant gets only its own, in any deployment the constructors accept | -- |
| `ConversationAnsweredOnce` | no greeting, comment or answer is shown twice, in any deployment the constructors accept | -- |
| `ServerRelays` | what the server relays has its tenant | the chat UIs are the tenants', and a shared eliza is not gated (`OnlyRelays`) |

The assumptions of `TenantTornDown` and `TenantLeavesNothing` are the ones the runs
`tenants_down_failure` and `tenants_up_failure` show to be necessary, and without
`BusCloses` neither runner keeps its lease.

* **Types.** `ComposeStack_proof` proves once that a call and a step of a stack preserve
  `StackTypeOK`; the runners add their own variables. `TenantRunner` needs that the
  loops stand at a tenant whenever they use `cursor` (`TypeInv`).
* **`os.environ`.** `EnvironInv`: once the server's runner has been called its backup is
  the environment the process found, and that environment is in force whenever the
  server is not in the middle of something. The property alone is not inductive, since
  it says nothing before the end.
* **Stacks on their own.** `PortsInv`, `SpawnInv`, `RunningInv` and `BusInv` say what a
  stack's program counter means for its ports, the environment of its containers, their
  presence and its bus. They are proved about calls and steps in `ComposeStack_proof`
  and carried into the runners, where `EnvironmentInv` adds what each was called with.
* **Torn down.** `LoopInv`: a tenant is at rest, or in `_stacks`, or the one the loop
  stands at, and the loop over `reversed(tenants)` leaves none of `_stacks` behind it.
* **Up.** `ReachedInv`: the loops of `start()` pass no tenant that is not running, and no
  tenant without a view.
* **Nothing left.** `ContainersInv` ties `_started` to the containers, stage by stage.
* **The lease.** `LeaseInv`: the server is busy only while the runner waits for it, before
  any tenant or after all of them. Every step then either leaves the broker alone while
  users join a broker that is up or leave, or moves the broker when there are none.
* **Readiness.** `Known` and `NobodyYet`: what is bound are modules and probes that have been
  subscribed, and nobody has subscribed before the snapshot is taken, which therefore
  counts modules only. `AwaitedSoFar`: the loop has heard of every tenant it has passed.
  For the probes, `Handshake` (`Heard`, `Asking`, `Baseline`): as long as a subscription
  is neither bound nor masked, the baseline of its key is what the key has, so that the
  count cannot have risen. No hypothesis on the deployment or the failures is needed.
* **Wake-up.** `WakeupInv` extends `NoLostWakeup` to the step between a scan that found
  nothing and the wait: a match that came in between came with the flag.
* **Globals.** `OwnInv`: at most one runner is active, every backup is the environment
  the process started with, and a runner counts as started only while it has something
  to stop. `HoldsInv` ties the port, `_server` and the workers to the stages.
* **Launcher.** `LauncherInv` says stage by stage which devices listen: on the way in
  those the loop has passed, in the body all that are needed, on the way out none that a
  module could still dial.
* **Tenants.** An event's tenant is that of the conversation it belongs to, or empty only
  as long as it is in the hands of its own tenant (`InHands`, `Shown`); and the ids the
  constructor accepts are single words that are no wildcards, so a tenant's key matches
  no other tenant's.

* **The contract.** `TurnInv` (in `SplitRunner`, `LeaseInv`): at most one project is in the
  middle of anything, and it is the one `rpc` and `cursor` name, in its `start()` or its
  `stop()` as they say. So a step of a project is the runner's own: before it begins to
  stop it loses no container (`StackStepParts`, which needs that the recreated chat UI is
  never the only one), and from then on it brings none up. `PartsInv` adds that a runner
  that is up has all of its parts, and no project has a container of a service it was not
  written with (`ServicesInv`). In `InProcessRunner` it is `HoldsInv` that says which
  parts there are at each stage, and `RoutedInv` that nobody listens who has no routes.
  None of the three needs an assumption on what may fail.
* **The atomic record.** Step by step: an action of `_record`, `clear` or `await_event`
  is one action of `EventRecord` or a stutter. What makes it go through is the type
  invariant and that `missed` is read off the program counter: the loop reaches
  `CheckDeadline` only from a scan that found nothing.
* **Signals.** `HandlersInv`: a demo that waits, or that stops after it has waited, has
  both handlers installed.
* **What is dialled.** Merging is associative (`OverAssociative`), so the container, which
  merges the tier and the overlay first, reads what the test process reads
  (`ContainerAgrees`), and what it dials is what the demo needs (`DialsNeeded`); the
  servers of the splits dial nothing (`ServersDialNothing`), so everybody who dials has
  been given the addresses (`DialersGiven`). With `DevicesOutliveModules` that is the
  property, for the demos and the devices of the tables; the two hypotheses say no more
  than that these constants are those tables.
* **Answered once.** `OnceInv`: an event, eliza's openings excepted, waits in a queue once,
  and only until its subscriber has reacted to it (`Fresh`, with `ReactionOf` for whose
  reaction it is); an answer is either waiting for the chat UI or shown, once
  (`ShownOnce`); an event has happened only after its cause; and what a conversation has
  yet to do has not happened. Eliza's second subscription reacts to activations alone, so
  that only openings come twice. That everything else has one reader that reacts is where
  the constructors come in: the two sides of a deployment have no module in common, and
  two tenants' keys match nothing of each other's.

Only model-checked: what is stated under fairness (`BrokerComesDown`, `SignalEnds`,
`ReadinessReached`, `AwaitEnds`, `ConversationsComplete`), which needs `ENABLED` and
liveness reasoning that the installed provers do not do. Every safety
property and every refinement that a run checks is stated by a theorem.

## Not modelled

* The platform modules, `KombuEventBus` and the DI container: their sources are not in
  this repository. Where the harness depends on them, the model has the behaviour the
  harness's own comments and calls rely on, marked external.
* Two `ComposeRunner`s that overlap in one process (`test_two_stacks_can_run_at_once`).
  They meet in the DI registry, whose behaviour is the platform's; `ComposeRunner`'s own
  docstring says of a second one that it "silently takes the first one's place". The
  hazards at `compose.py:459` and `conftest.py:88` are therefore without a property.
* The connections of the stub microphone and camera, and their counters: the backend's
  HTTP clients, which decide how often they reconnect, are not here.
* `register_event_types`: a guarded initialisation under a lock, of a registry that is the
  platform's.
* `leaked_threads`, which reports and changes nothing.
* Signal synthesis, image and text formatting, command lines, logging, and the settings
  of the configuration files that decide nothing here: data without control.
* Read-only accessors (`url`, `port`, `logs`, `service_command`).

## Plan

What could follow, in this order:

1. `SharedProcess`: two overlapping `ComposeStack`s over one registry and one
   `os.environ`, once the registry's own source is at hand; the fixture's teardown loop.
2. The counters of the stub devices, with `await_connection` and `await_capture`.
3. A driver of several threads in `Conversation`, and more than one late queue.
4. Runs for what the section on the runs lists as not promised or not kept.
