-------------------------- MODULE BindingReadiness --------------------------
(***************************************************************************)
(* How the test process learns that a subscription can receive.            *)
(* KombuEventBus.subscribe returns before the broker has bound the queue,  *)
(* so a runner asks the broker's management API how many queues each       *)
(* routing key has: TenantRunner waits for the tenants' modules and takes  *)
(* a snapshot of what the deployment binds, and EventProbe.subscribe waits *)
(* until the counts of its own topics have risen.  (runner/api.py,         *)
(* runner/compose.py, runner/tenants.py)                                   *)
(*                                                                         *)
(* One thread runs all of that, against a broker on which queues get bound *)
(* whenever their consumer thread, in a container or here, gets to it.     *)
(***************************************************************************)
EXTENDS Integers, FiniteSets

CONSTANTS
    NTenants,     \* tenants are 1..NTenants
    Topics,       \* the topics a test subscribes its probes to
    ReadyTopics,  \* TENANT_READY_TOPICS
    Modules,      \* the queues the deployment's modules bind
    Faults        \* what may go wrong in this model

Untenanted == 0
Tenants == 1..NTenants
Buses == {Untenanted} \cup Tenants

\* A probe per bus: the server's, and one for each tenant.
Probe(bus, topic) == [owner |-> "probe", topic |-> topic, tenant |-> bus]
ProbeQueues == {Probe(b, t) : b \in Buses, t \in Topics}

ASSUME ReadinessAssumption ==
    /\ NTenants \in Nat \ {0}
    /\ IsFiniteSet(Topics) /\ IsFiniteSet(Modules)
    /\ ReadyTopics \subseteq Topics
    /\ \A q \in Modules : q.topic \in Topics /\ q.tenant \in Buses
    /\ Modules \cap ProbeQueues = {}
    /\ Faults \subseteq {"before", "poll", "snapshot", "timeout"}

VARIABLES
    bound,      \* the queues the broker has bound
    starting,   \* the probe queues whose consumer thread is on its way
    topics,     \* EventProbe._topics, per probe
    pc,         \* what the thread does
    bus,        \* whose modules, or whose probe, it does it for
    pending,    \* subscribe()'s topics that are not in _topics yet
    before,     \* binding_counts() as binding_readiness found them
    snapshot,   \* TenantRunner._deployment_bindings
    promised,   \* history: what subscribe() has returned for, per probe
    masked      \* history: the subscriptions, not bound yet, that a wrong count
                \* may answer for

vars == <<bound, starting, topics, pc, bus, pending, before, snapshot,
          promised, masked>>

\* Mutant: a tenanted queue is waited for under the untenanted key.
KeyUntenanted(topic, tenant) == <<topic, Untenanted>>

\* ComposeRunner.binding_key: `topic.tenant`, or `topic.#`.
Key(topic, tenant) == <<topic, tenant>>

BoundKey(queue) == <<queue.topic, queue.tenant>>
Keys == Topics \X Buses
NoCounts == [k \in Keys |-> 0]
CountsOf(queues) ==
    [k \in Keys |-> Cardinality({q \in queues : BoundKey(q) = k})]

\* binding_counts(): a request that fails is answered with an empty mapping.
BindingCounts(failure) ==
    {CountsOf(bound)} \cup (IF failure \in Faults THEN {NoCounts} ELSE {})

\* Mutant: a key that already has a queue is enough.
SufficesPresent(counts, from, some) == \A k \in some : counts[k] >= 1

\* await_bindings' condition: every key has one more than before.
Suffices(counts, from, some) == \A k \in some : counts[k] >= from[k] + 1

TypeOK ==
    /\ bound \subseteq Modules \cup ProbeQueues
    /\ starting \subseteq ProbeQueues
    /\ topics \in [Buses -> SUBSET Topics]
    /\ pc \in {"await", "snapshot", "ready", "before", "subscribe", "poll",
               "failed"}
    /\ bus \in Buses
    /\ pending \subseteq Topics
    /\ before \in [Keys -> Nat]
    /\ snapshot \in [Keys -> Nat]
    /\ promised \in [Buses -> SUBSET Topics]
    /\ masked \subseteq Buses \X Topics

Init ==
    /\ bound = {}
    /\ starting = {}
    /\ topics = [b \in Buses |-> {}]
    /\ pc = "await"
    /\ bus = 1
    /\ pending = {}
    /\ before = NoCounts
    /\ snapshot = NoCounts
    /\ promised = [b \in Buses |-> {}]
    /\ masked = {}

-----------------------------------------------------------------------------
(* The broker.                                                             *)

\* A module's consumer gets its queue bound.  Between a subscription's baseline
\* and its last poll it raises the count of its key in the probe's place.
BindModule ==
    /\ \E q \in Modules \ bound :
          /\ bound' = bound \cup {q}
          /\ masked' = masked \cup
                (IF pc \in {"subscribe", "poll"}
                 THEN {<<bus, t>> : t \in {u \in pending :
                             /\ Key(u, bus) = BoundKey(q)
                             /\ Probe(bus, u) \notin bound}}
                 ELSE {})
    /\ UNCHANGED <<starting, topics, pc, bus, pending, before, snapshot,
                   promised>>

\* A probe's consumer thread does.
BindProbe ==
    /\ \E q \in starting :
          /\ bound' = bound \cup {q}
          /\ starting' = starting \ {q}
          /\ masked' = masked \ {<<q.tenant, q.topic>>}
    /\ UNCHANGED <<topics, pc, bus, pending, before, snapshot, promised>>

-----------------------------------------------------------------------------
(* TenantRunner.start, once every stack is up.                             *)

\* Mutant: the loop over the tenants ends after the first one.
LastAwaited == 1

\* Mutant: it runs one past the last.
LastTenantPlusOne == NTenants + 1

\* The last tenant of the loop in _await_tenant_bindings.
LastTenant == NTenants

\* One tenant's await_bindings against an all-zero baseline.
AwaitTenant ==
    /\ pc = "await"
    /\ \E counts \in BindingCounts("poll") :
          Suffices(counts, NoCounts, {Key(t, bus) : t \in ReadyTopics})
    /\ IF bus < LastTenant
       THEN bus' = bus + 1 /\ UNCHANGED pc
       ELSE pc' = "snapshot" /\ UNCHANGED bus
    /\ UNCHANGED <<bound, starting, topics, pending, before, snapshot,
                   promised, masked>>

\* BINDING_TIMEOUT: ComposeError, and the runner stops again.
AwaitTimeout ==
    /\ pc = "await"
    /\ "timeout" \in Faults
    /\ pc' = "failed"
    /\ UNCHANGED <<bound, starting, topics, bus, pending, before, snapshot,
                   promised, masked>>

\* Mutant: it is taken whenever it is asked for.
TakeSnapshotLazily ==
    /\ pc \in {"snapshot", "ready"}
    /\ pc' = "ready"
    /\ snapshot' \in BindingCounts("snapshot")
    /\ UNCHANGED <<bound, starting, topics, bus, pending, before, promised,
                   masked>>

\* The snapshot is taken before any probe subscribes, with one request.
TakeSnapshot ==
    /\ pc = "snapshot"
    /\ pc' = "ready"
    /\ snapshot' \in BindingCounts("snapshot")
    /\ UNCHANGED <<bound, starting, topics, bus, pending, before, promised,
                   masked>>

-----------------------------------------------------------------------------
(* EventProbe.subscribe, on the probe of bus b.                            *)

\* Topics subscribed to earlier are left out, also those a subscribe() that has
\* raised was for; if that is all of them there is nothing to do.
Subscribe(b, asked) ==
    /\ pc = "ready"
    /\ IF asked \subseteq topics[b]
       THEN /\ promised' = [promised EXCEPT ![b] = @ \cup asked]
            /\ UNCHANGED <<pc, bus, pending>>
       ELSE /\ pending' = asked \ topics[b]
            /\ bus' = b
            /\ pc' = "before"
            /\ UNCHANGED promised
    /\ UNCHANGED <<bound, starting, topics, before, snapshot, masked>>

\* binding_readiness up to its yield.
CountBefore ==
    /\ pc = "before"
    /\ before' \in BindingCounts("before")
    /\ masked' = masked \cup
          {<<bus, t>> : t \in {u \in pending :
                        before'[Key(u, bus)] # CountsOf(bound)[Key(u, bus)]}}
    /\ pc' = "subscribe"
    /\ UNCHANGED <<bound, starting, topics, bus, pending, snapshot, promised>>

\* The body of the with statement: each subscription starts a consumer thread.
SubscribeAll ==
    /\ pc = "subscribe"
    /\ starting' = starting \cup {Probe(bus, t) : t \in pending}
    /\ topics' = [topics EXCEPT ![bus] = @ \cup pending]
    /\ pc' = "poll"
    /\ UNCHANGED <<bound, bus, pending, before, snapshot, promised, masked>>

\* subscribe() is left, and its local variables with it.
Leave ==
    /\ pc' = "ready"
    /\ bus' = Untenanted
    /\ pending' = {}
    /\ before' = NoCounts

\* await_bindings returns, and so does subscribe().  (The topics it was asked
\* for that were not pending have been promised before.)
Poll ==
    /\ pc = "poll"
    /\ \E counts \in BindingCounts("poll") :
          Suffices(counts, before, {Key(t, bus) : t \in pending})
    /\ promised' = [promised EXCEPT ![bus] = @ \cup pending]
    /\ Leave
    /\ UNCHANGED <<bound, starting, topics, snapshot, masked>>

\* BINDING_TIMEOUT: ComposeError out of subscribe(), with the topics already in
\* _topics: a later subscribe() takes them for subscribed.
PollTimeout ==
    /\ pc = "poll"
    /\ "timeout" \in Faults
    /\ masked' = masked \cup {<<bus, t>> : t \in {u \in pending :
                                               Probe(bus, u) \notin bound}}
    /\ Leave
    /\ UNCHANGED <<bound, starting, topics, snapshot, promised>>

Broker == BindModule \/ BindProbe
Waiting == AwaitTenant \/ TakeSnapshot \/ CountBefore \/ SubscribeAll \/ Poll

Next ==
    \/ Broker
    \/ Waiting
    \/ AwaitTimeout \/ PollTimeout
    \/ \E b \in Buses, asked \in SUBSET Topics \ {{}} : Subscribe(b, asked)

Spec == Init /\ [][Next]_vars

\* Every consumer thread gets its queue bound in the end, and a loop that
\* polls ten times a second finds the broker answering in the end.
FairSpec ==
    /\ Spec
    /\ WF_vars(Waiting)
    /\ WF_vars(BindModule)
    /\ WF_vars(BindProbe)

-----------------------------------------------------------------------------
(* Properties.                                                             *)

\* What subscribe() has returned for can receive (EventProbe.subscribe: "do
\* not return until the subscription can receive").
ReadyMeansBound ==
    \A b \in Buses : \A t \in promised[b] : Probe(b, t) \in bound

\* Where it cannot, that has one of three causes: the baseline was not the
\* count, a module took the probe's place in the count, or an earlier
\* subscribe() to the topic has raised.  A poll that fails, the queues that
\* were bound before, and what other tenants bind never are the cause
\* (ComposeRunner.binding_readiness, await_bindings).
ReadyUnlessMasked ==
    \A b \in Buses : \A t \in promised[b] :
        Probe(b, t) \in bound \/ <<b, t>> \in masked

Started == pc \in {"ready", "before", "subscribe", "poll"}

\* What start() does wait for: of every tenant, the last one included, some
\* module is bound on each of those topics, whichever polls have failed
\* (_await_tenant_bindings).
EveryTenantHeard ==
    Started => \A n \in Tenants, t \in ReadyTopics :
                   \E q \in Modules \cap bound : BoundKey(q) = Key(t, n)

\* Whenever the snapshot was taken and whatever it has missed, no queue of the
\* test process is in it (TenantRunner._start: "so that an assertion about what
\* the deployment routes on is not answered partly by the test process's own
\* queues").
SnapshotNoProbe ==
    Started => \A k \in Keys : snapshot[k] <= CountsOf(Modules)[k]

\* Left to wait, start() and every subscribe() return: the key that is waited
\* for is the key that gets bound, and a count that includes the modules is one
\* that can still rise.  (The timeouts are not fair: a wait that nothing can
\* end but its timeout is not one that is sure to end.)
ReadinessReached == pc # "ready" ~> pc \in {"ready", "failed"}

=============================================================================
