----------------------- MODULE BindingReadiness_proof -----------------------
(***************************************************************************)
(* Proofs about BindingReadiness, for any number of tenants, topics and    *)
(* queues, any deployment and every failure: what the counts of queues do  *)
(* tell a runner, and where alone they can mislead a probe.                *)
(***************************************************************************)
EXTENDS BindingReadiness, FiniteSetTheorems, TLAPS

-----------------------------------------------------------------------------
(* Counting.                                                               *)

\* The queues that a key has.
On(k, queues) == {q \in queues : BoundKey(q) = k}

\* A probe has one queue per key.
LEMMA ProbeKeys ==
    ASSUME NEW b \in Buses, NEW t \in Topics, NEW q \in ProbeQueues,
           BoundKey(q) = Key(t, b)
    PROVE  q = Probe(b, t)
  <1>1. PICK c \in Buses, u \in Topics : q = Probe(c, u)
    BY DEF ProbeQueues
  <1>2. q.topic = u /\ q.tenant = c
    BY <1>1 DEF Probe
  <1>3. c = b /\ u = t
    BY <1>2 DEF BoundKey, Key
  <1> QED
    BY <1>1, <1>3

\* The queue a probe declares for a topic is bound on that topic's key.
LEMMA ProbeKey ==
    ASSUME NEW b, NEW t
    PROVE  BoundKey(Probe(b, t)) = Key(t, b)
  <1> QED
    BY DEF BoundKey, Key, Probe

\* However many tenants there are, a key has finitely many queues.
LEMMA FewOnAKey ==
    ASSUME NEW queues \in SUBSET (Modules \cup ProbeQueues), NEW k \in Keys
    PROVE  /\ IsFiniteSet(On(k, queues))
           /\ Cardinality(On(k, queues)) \in Nat
  <1>1. PICK t \in Topics, b \in Buses : k = <<t, b>>
    BY DEF Keys
  <1>2. IsFiniteSet(Modules \cup {Probe(b, t)})
    BY ReadinessAssumption, FS_AddElement
  <1>3. On(k, queues) \subseteq Modules \cup {Probe(b, t)}
    BY <1>1, ProbeKeys DEF On, Key
  <1>4. IsFiniteSet(On(k, queues))
    BY <1>2, <1>3, FS_Subset
  <1> QED
    BY <1>4, FS_CardinalityType

\* A count is the number of the queues bound on the key.
LEMMA Counting ==
    ASSUME NEW queues \in SUBSET (Modules \cup ProbeQueues)
    PROVE  /\ CountsOf(queues) \in [Keys -> Nat]
           /\ \A k \in Keys : CountsOf(queues)[k] = Cardinality(On(k, queues))
  <1>1. CountsOf(queues) = [k \in Keys |-> Cardinality(On(k, queues))]
    BY DEF CountsOf, On
  <1>2. \A k \in Keys : Cardinality(On(k, queues)) \in Nat
    BY FewOnAKey
  <1> HIDE DEF On
  <1> QED
    BY <1>1, <1>2

\* A key with a count has a queue.
LEMMA SomeOnAKey ==
    ASSUME NEW queues \in SUBSET (Modules \cup ProbeQueues), NEW k \in Keys,
           CountsOf(queues)[k] >= 1
    PROVE  \E q \in queues : BoundKey(q) = k
  <1>1. Cardinality(On(k, queues)) >= 1
    BY Counting
  <1>2. On(k, queues) # {}
    BY <1>1, FS_EmptySet
  <1> QED
    BY <1>2 DEF On

\* The keys of the topics are keys.
LEMMA KeysAreKeys == \A t \in Topics, b \in Buses : Key(t, b) \in Keys
  <1> QED
    BY DEF Key, Keys

\* A request that fails counts nothing.
LEMMA NoCountsAreCounts == NoCounts \in [Keys -> Nat] /\ \A k \in Keys : NoCounts[k] = 0
  <1> QED
    BY DEF NoCounts

-----------------------------------------------------------------------------
(* Types.                                                                  *)

\* The initial state has the types.
LEMMA InitTypeOK == Init => TypeOK
  <1> SUFFICES ASSUME Init PROVE TypeOK
    OBVIOUS
  <1>1. 1 \in Buses
    BY ReadinessAssumption DEF Buses, Tenants
  <1> QED
    BY <1>1, NoCountsAreCounts DEF Init, TypeOK

\* Every step keeps the types.
LEMMA NextTypeOK ==
    ASSUME TypeOK, [Next]_vars
    PROVE  TypeOK'
  <1> USE DEF TypeOK
  <1>0. \A failure : BindingCounts(failure) \subseteq [Keys -> Nat]
    BY Counting, NoCountsAreCounts DEF BindingCounts
  <1>1. CASE BindModule
    <2>1. \A some \in SUBSET pending : {<<bus, t>> : t \in some} \subseteq Buses \X Topics
      OBVIOUS
    <2>2. masked' \subseteq Buses \X Topics
      BY <1>1, <2>1 DEF BindModule
    <2> QED
      BY <1>1, <2>2 DEF BindModule
  <1>2. CASE BindProbe
    BY <1>2 DEF BindProbe
  <1>3. CASE AwaitTenant
    <2>1. bus < LastTenant => bus + 1 \in Buses
      BY ReadinessAssumption DEF Buses, Tenants, Untenanted, LastTenant
    <2> QED
      BY <1>3, <2>1 DEF AwaitTenant
  <1>4. CASE TakeSnapshot
    BY <1>0, <1>4 DEF TakeSnapshot
  <1>5. CASE CountBefore
    <2>1. before' \in [Keys -> Nat]
      BY <1>0, <1>5 DEF CountBefore
    <2>2. masked' \subseteq Buses \X Topics
      BY <1>5 DEF CountBefore
    <2> QED
      BY <1>5, <2>1, <2>2 DEF CountBefore
  <1>6. CASE SubscribeAll
    <2>1. {Probe(bus, t) : t \in pending} \subseteq ProbeQueues
      BY DEF ProbeQueues
    <2>2. topics' \in [Buses -> SUBSET Topics]
      BY <1>6 DEF SubscribeAll
    <2> QED
      BY <1>6, <2>1, <2>2 DEF SubscribeAll
  <1>7. CASE Poll
    <2>1. promised' \in [Buses -> SUBSET Topics]
      BY <1>7 DEF Poll
    <2> QED
      BY <1>7, <2>1, NoCountsAreCounts DEF Poll, Leave, Buses
  <1>8. CASE AwaitTimeout
    BY <1>8 DEF AwaitTimeout
  <1>9. CASE PollTimeout
    <2>1. masked' \subseteq Buses \X Topics
      BY <1>9 DEF PollTimeout
    <2> QED
      BY <1>9, <2>1, NoCountsAreCounts DEF PollTimeout, Leave, Buses
  <1>10. ASSUME NEW b \in Buses, NEW asked \in SUBSET Topics \ {{}},
                Subscribe(b, asked)
         PROVE  TypeOK'
    <2>1. promised' \in [Buses -> SUBSET Topics]
      BY <1>10 DEF Subscribe
    <2>2. pc' \in {"ready", "before"} /\ bus' \in Buses /\ pending' \in SUBSET Topics
      BY <1>10 DEF Subscribe
    <2> QED
      BY <1>10, <2>1, <2>2 DEF Subscribe
  <1>11. CASE UNCHANGED vars
    BY <1>11 DEF vars
  <1> QED
    BY <1>1, <1>2, <1>3, <1>4, <1>5, <1>6, <1>7, <1>8, <1>9, <1>10, <1>11
    DEF Next, Broker, Waiting

\* The type invariant of the handshake, for any deployment and every failure.
THEOREM ReadinessTypeCorrect == Spec => []TypeOK
  <1> QED
    BY InitTypeOK, NextTypeOK, PTL DEF Spec

-----------------------------------------------------------------------------
(* What start() has waited for.                                            *)

\* A module of tenant n is bound on topic t.
HasQueue(n, t) == \E q \in Modules \cap bound : BoundKey(q) = Key(t, n)

\* A probe's queue is one that the probe knows of.
Known ==
    \A b \in Buses, t \in Topics :
        Probe(b, t) \in bound \cup starting => t \in topics[b]

\* Nobody subscribes before start() has returned.
NobodyYet == pc \in {"await", "snapshot"} => \A b \in Buses : topics[b] = {}

\* The loop over the tenants has got this far.
AwaitedSoFar ==
    /\ pc = "await" =>
          /\ bus >= 1
          /\ \A n \in Tenants, t \in ReadyTopics : n < bus => HasQueue(n, t)
    /\ pc \notin {"await", "failed"} =>
          \A n \in Tenants, t \in ReadyTopics : HasQueue(n, t)

Inv == TypeOK /\ Known /\ NobodyYet /\ AwaitedSoFar /\ SnapshotNoProbe

\* At first nothing is bound and nobody knows of anything.
LEMMA InitInv == Init => Inv
  <1> SUFFICES ASSUME Init PROVE Inv
    OBVIOUS
  <1>1. TypeOK
    BY InitTypeOK
  <1>2. Known /\ NobodyYet /\ SnapshotNoProbe
    BY DEF Init, Known, NobodyYet, SnapshotNoProbe, Started
  <1>3. AwaitedSoFar
    <2>1. \A n \in Tenants : ~(n < 1)
      BY DEF Tenants
    <2> QED
      BY <2>1 DEF Init, AwaitedSoFar
  <1> QED
    BY <1>1, <1>2, <1>3 DEF Inv

\* Until a probe subscribes, what is bound is the deployment's.
LEMMA OnlyModules ==
    ASSUME TypeOK, Known, NobodyYet, pc \in {"await", "snapshot"}
    PROVE  bound \subseteq Modules
  <1> SUFFICES ASSUME NEW q \in bound, q \in ProbeQueues PROVE FALSE
    BY DEF TypeOK
  <1>1. PICK b \in Buses, t \in Topics : q = Probe(b, t)
    BY DEF ProbeQueues
  <1> QED
    BY <1>1 DEF Known, NobodyYet

\* A count of some of the deployment's queues is at most that of all of them.
LEMMA FewerCountLess ==
    ASSUME NEW queues \in SUBSET Modules, NEW k \in Keys
    PROVE  CountsOf(queues)[k] <= CountsOf(Modules)[k]
  <1>1. On(k, queues) \subseteq On(k, Modules)
    BY DEF On
  <1>2. IsFiniteSet(On(k, Modules))
    BY FewOnAKey
  <1>3. Cardinality(On(k, queues)) <= Cardinality(On(k, Modules))
    BY <1>1, <1>2, FS_Subset
  <1> QED
    BY <1>3, Counting

\* A tenant that await_bindings is content with has a queue on every topic.
LEMMA AwaitedHasQueues ==
    ASSUME Inv, AwaitTenant, NEW t \in ReadyTopics
    PROVE  HasQueue(bus, t)
  <1>1. t \in Topics /\ bus \in Buses /\ pc = "await"
    BY ReadinessAssumption DEF Inv, TypeOK, AwaitTenant
  <1>2. Key(t, bus) \in Keys
    BY <1>1, KeysAreKeys
  <1>3. PICK counts \in BindingCounts("poll") :
           Suffices(counts, NoCounts, {Key(u, bus) : u \in ReadyTopics})
    BY DEF AwaitTenant
  <1>4. counts[Key(t, bus)] >= 1
    BY <1>2, <1>3, NoCountsAreCounts DEF Suffices
  <1>5. counts = CountsOf(bound)
    BY <1>2, <1>3, <1>4, NoCountsAreCounts DEF BindingCounts
  <1>6. bound \subseteq Modules /\ bound \in SUBSET (Modules \cup ProbeQueues)
    BY <1>1, OnlyModules DEF Inv
  <1>7. PICK q \in bound : BoundKey(q) = Key(t, bus)
    BY <1>2, <1>4, <1>5, <1>6, SomeOnAKey
  <1> QED
    BY <1>6, <1>7 DEF HasQueue

\* Every step keeps what has been waited for, and a snapshot of the deployment.
LEMMA NextInv ==
    ASSUME Inv, [Next]_vars
    PROVE  Inv'
  <1> USE DEF Inv
  <1>1. TypeOK'
    BY NextTypeOK
  <1>2. bound \subseteq bound' => \A n, t : HasQueue(n, t) => HasQueue(n, t)'
    BY DEF HasQueue, BoundKey, Key
  <1> HIDE DEF HasQueue
  <1>3. ASSUME bound \subseteq bound', UNCHANGED <<pc, bus, snapshot, topics>>, Known'
        PROVE  Inv'
    <2>1. NobodyYet' /\ SnapshotNoProbe'
      BY <1>3 DEF NobodyYet, SnapshotNoProbe, Started
    <2>2. AwaitedSoFar'
      BY <1>2, <1>3 DEF AwaitedSoFar
    <2> QED
      BY <1>1, <1>3, <2>1, <2>2
  <1>4. CASE BindModule
    <2>1. Known'
      BY <1>4, ReadinessAssumption DEF BindModule, Known, ProbeQueues
    <2> QED
      BY <1>3, <1>4, <2>1 DEF BindModule
  <1>5. CASE BindProbe
    <2>1. Known'
      BY <1>5 DEF BindProbe, Known
    <2> QED
      BY <1>3, <1>5, <2>1 DEF BindProbe
  <1>6. CASE AwaitTenant
    <2> USE <1>6
    <2>1. UNCHANGED <<bound, starting, topics, snapshot>> /\ pc = "await"
      BY DEF AwaitTenant
    <2>2. \A t \in ReadyTopics : HasQueue(bus, t)
      BY AwaitedHasQueues
    <2>3. bus \in Nat /\ bus >= 1 /\ NTenants \in Nat /\ Tenants = 1..NTenants
      BY <2>1, ReadinessAssumption
      DEF AwaitedSoFar, TypeOK, Buses, Tenants, Untenanted
    <2>4. \A n \in Tenants, t \in ReadyTopics : n <= bus => HasQueue(n, t)
      <3> SUFFICES ASSUME NEW n \in Tenants, NEW t \in ReadyTopics, n <= bus
                   PROVE  HasQueue(n, t)
        OBVIOUS
      <3>1. n = bus \/ n < bus
        BY <2>3
      <3> QED
        BY <2>1, <2>2, <3>1 DEF AwaitedSoFar
    <2>5. \A n, t : HasQueue(n, t) => HasQueue(n, t)'
      BY <1>2, <2>1
    <2>6. AwaitedSoFar'
      <3>1. CASE bus < LastTenant
        <4>1. pc' = "await" /\ bus' = bus + 1
          BY <3>1, <2>1 DEF AwaitTenant
        <4>2. \A n \in Tenants : n < bus' => n <= bus
          BY <2>3, <4>1
        <4>3. bus' >= 1
          BY <2>3, <4>1
        <4> QED
          BY <2>4, <2>5, <4>1, <4>2, <4>3 DEF AwaitedSoFar
      <3>2. CASE ~(bus < LastTenant)
        <4>1. pc' = "snapshot"
          BY <2>1, <3>2 DEF AwaitTenant
        <4>2. \A n \in Tenants : n <= bus
          BY <2>3, <3>2 DEF LastTenant
        <4> QED
          BY <2>4, <2>5, <4>1, <4>2 DEF AwaitedSoFar
      <3> QED
        BY <3>1, <3>2
    <2>7. pc' \in {"await", "snapshot"}
      BY DEF AwaitTenant
    <2> QED
      BY <1>1, <2>1, <2>6, <2>7 DEF Known, NobodyYet, SnapshotNoProbe, Started
  <1>7. CASE TakeSnapshot
    <2>1. /\ pc = "snapshot" /\ pc' = "ready"
          /\ snapshot' \in BindingCounts("snapshot")
          /\ UNCHANGED <<bound, starting, topics>>
      BY <1>7 DEF TakeSnapshot
    <2>2. bound \subseteq Modules
      BY <2>1, OnlyModules
    <2>3. \A k \in Keys : snapshot'[k] <= CountsOf(Modules)[k]
      <3> SUFFICES ASSUME NEW k \in Keys PROVE snapshot'[k] <= CountsOf(Modules)[k]
        OBVIOUS
      <3>1. CASE snapshot' = CountsOf(bound)
        BY <2>2, <3>1, FewerCountLess
      <3>2. CASE snapshot' = NoCounts
        <4>1. snapshot'[k] = 0
          BY <3>2, NoCountsAreCounts
        <4>2. CountsOf(Modules)[k] \in Nat
          BY Counting
        <4> QED
          BY <4>1, <4>2
      <3> QED
        BY <2>1, <3>1, <3>2 DEF BindingCounts
    <2>4. SnapshotNoProbe'
      BY <2>3 DEF SnapshotNoProbe, CountsOf, Keys, BoundKey
    <2>5. AwaitedSoFar'
      BY <1>2, <2>1 DEF AwaitedSoFar
    <2> QED
      BY <1>1, <2>1, <2>4, <2>5 DEF Known, NobodyYet
  <1>8. ASSUME pc' \in {"ready", "before", "subscribe", "poll"},
               pc \in {"ready", "before", "subscribe", "poll"},
               UNCHANGED <<bound, snapshot>>, Known'
        PROVE  Inv'
    <2>1. SnapshotNoProbe' /\ NobodyYet'
      BY <1>8 DEF SnapshotNoProbe, Started, NobodyYet
    <2>2. AwaitedSoFar'
      BY <1>2, <1>8 DEF AwaitedSoFar
    <2> QED
      BY <1>1, <1>8, <2>1, <2>2
  <1>9. CASE CountBefore
    BY <1>8, <1>9 DEF CountBefore, Known
  <1>10. CASE SubscribeAll
    <2>1. Known'
      <3> SUFFICES ASSUME NEW b \in Buses, NEW t \in Topics,
                          Probe(b, t) \in bound' \cup starting'
                   PROVE  t \in topics'[b]
        BY DEF Known
      <3>1. /\ starting' = starting \cup {Probe(bus, u) : u \in pending}
            /\ topics' = [topics EXCEPT ![bus] = @ \cup pending] /\ bound' = bound
        BY <1>10 DEF SubscribeAll
      <3>2. CASE Probe(b, t) \in bound \cup starting
        BY <3>1, <3>2 DEF Known, TypeOK
      <3>3. CASE Probe(b, t) \in {Probe(bus, u) : u \in pending}
        BY <3>1, <3>3 DEF Probe, TypeOK
      <3> QED
        BY <3>1, <3>2, <3>3
    <2> QED
      BY <1>8, <1>10, <2>1 DEF SubscribeAll
  <1>11. CASE Poll
    BY <1>8, <1>11 DEF Poll, Leave, Known
  <1>12. CASE PollTimeout
    BY <1>8, <1>12 DEF PollTimeout, Leave, Known
  <1>13. ASSUME NEW b \in Buses, NEW asked \in SUBSET Topics \ {{}},
                Subscribe(b, asked)
         PROVE  Inv'
    BY <1>8, <1>13 DEF Subscribe, Known
  <1>14. CASE AwaitTimeout
    BY <1>1, <1>14
    DEF AwaitTimeout, Known, NobodyYet, AwaitedSoFar, SnapshotNoProbe, Started
  <1>15. CASE UNCHANGED vars
    BY <1>3, <1>15 DEF vars, Known
  <1> QED
    BY <1>4, <1>5, <1>6, <1>7, <1>9, <1>10, <1>11, <1>12, <1>13, <1>14, <1>15
    DEF Next, Broker, Waiting

\* Once start() has returned, every tenant has some module bound on each of the
\* topics it is driven by, whichever polls have failed.
THEOREM TenantsHeard == Spec => []EveryTenantHeard
  <1>1. Init => Inv
    BY InitInv
  <1>2. Inv /\ [Next]_vars => Inv'
    BY NextInv
  <1>3. Inv => EveryTenantHeard
    BY DEF Inv, AwaitedSoFar, HasQueue, EveryTenantHeard, Started
  <1> QED
    BY <1>1, <1>2, <1>3, PTL DEF Spec

\* And the snapshot, whatever it has missed, has no queue of a probe in it.
THEOREM SnapshotSound == Spec => []SnapshotNoProbe
  <1>1. Init => Inv
    BY InitInv
  <1>2. Inv /\ [Next]_vars => Inv'
    BY NextInv
  <1>3. Inv => SnapshotNoProbe
    BY DEF Inv
  <1> QED
    BY <1>1, <1>2, <1>3, PTL DEF Spec

-----------------------------------------------------------------------------
(* The handshake of subscribe().                                           *)

\* What a probe knows of is bound, or miscounted, or subscribe() is on it.
Heard ==
    \A b \in Buses : \A t \in topics[b] :
        \/ Probe(b, t) \in bound
        \/ <<b, t>> \in masked
        \/ pc = "poll" /\ b = bus /\ t \in pending

\* What subscribe() asks for is new to the probe.
Asking == pc \in {"before", "subscribe"} => pending \cap topics[bus] = {}

\* As long as a subscription is neither bound nor miscounted, the baseline of
\* its key is what the key has.
Baseline ==
    pc \in {"subscribe", "poll"} =>
        \A t \in pending :
            Probe(bus, t) \notin bound /\ <<bus, t>> \notin masked =>
                before[Key(t, bus)] = Cardinality(On(Key(t, bus), bound))

Handshake == Heard /\ Asking /\ Baseline /\ ReadyUnlessMasked

\* A count above the baseline is the probe's own queue, or a miscounted one.
LEMMA RisenIsOwn ==
    ASSUME TypeOK, Baseline, pc = "poll", NEW t \in pending,
           NEW counts \in BindingCounts("poll"),
           counts[Key(t, bus)] >= before[Key(t, bus)] + 1
    PROVE  Probe(bus, t) \in bound \/ <<bus, t>> \in masked
  <1> SUFFICES ASSUME Probe(bus, t) \notin bound, <<bus, t>> \notin masked
               PROVE  FALSE
    OBVIOUS
  <1>1. /\ t \in Topics /\ bus \in Buses /\ before \in [Keys -> Nat]
        /\ bound \in SUBSET (Modules \cup ProbeQueues)
    BY DEF TypeOK
  <1>2. PICK k \in Keys : k = Key(t, bus)
    BY <1>1, KeysAreKeys
  <1>3. before[k] = Cardinality(On(k, bound))
    BY <1>2 DEF Baseline
  <1>4. before[k] \in Nat /\ counts[k] >= before[k] + 1
    BY <1>1, <1>2
  <1>5. counts # NoCounts
    BY <1>4, NoCountsAreCounts
  <1>6. counts[k] = Cardinality(On(k, bound))
    BY <1>1, <1>5, Counting DEF BindingCounts
  <1> QED
    BY <1>3, <1>4, <1>6

\* A queue of another key is not in the count.
LEMMA OtherKey ==
    ASSUME NEW queues, NEW q, NEW k, BoundKey(q) # k
    PROVE  On(k, queues \cup {q}) = On(k, queues)
  <1> QED
    BY DEF On

\* No step of the broker, of start() or of subscribe() loses a subscription
\* that is not accounted for.
LEMMA NextHandshake ==
    ASSUME Inv, Handshake, [Next]_vars
    PROVE  Handshake'
  <1> USE DEF Handshake
  <1>0. TypeOK /\ Known
    BY DEF Inv
  <1>1. CASE BindModule
    <2>1. PICK q \in Modules \ bound :
             /\ bound' = bound \cup {q}
             /\ masked' = masked \cup
                   (IF pc \in {"subscribe", "poll"}
                    THEN {<<bus, t>> : t \in {u \in pending :
                                /\ Key(u, bus) = BoundKey(q)
                                /\ Probe(bus, u) \notin bound}}
                    ELSE {})
      BY <1>1 DEF BindModule
    <2>2. /\ bound \subseteq bound' /\ masked \subseteq masked'
          /\ UNCHANGED <<topics, pc, bus, pending, before, promised>>
      BY <1>1, <2>1 DEF BindModule
    <2>3. ASSUME pc \in {"subscribe", "poll"}, NEW t \in pending,
                 Probe(bus, t) \notin bound', <<bus, t>> \notin masked'
          PROVE  before[Key(t, bus)] = Cardinality(On(Key(t, bus), bound'))
      <3>1. Probe(bus, t) \notin bound /\ <<bus, t>> \notin masked
        BY <2>2, <2>3
      <3>2. BoundKey(q) # Key(t, bus)
        BY <2>1, <2>3, <3>1
      <3> QED
        BY <2>1, <2>3, <3>1, <3>2, OtherKey DEF Baseline
    <2>4. Baseline'
      BY <2>2, <2>3 DEF Baseline, Key
    <2> QED
      BY <2>2, <2>4 DEF Heard, Asking, ReadyUnlessMasked
  <1>2. CASE BindProbe
    <2>1. PICK q \in starting :
             bound' = bound \cup {q} /\ masked' = masked \ {<<q.tenant, q.topic>>}
      BY <1>2 DEF BindProbe
    <2>2. /\ bound \subseteq bound'
          /\ UNCHANGED <<topics, pc, bus, pending, before, promised>>
      BY <1>2, <2>1 DEF BindProbe
    <2>3. PICK c \in Buses, u \in Topics : q = Probe(c, u)
      BY <1>0 DEF TypeOK, ProbeQueues
    <2>4. q.tenant = c /\ q.topic = u
      BY <2>3 DEF Probe
    <2>5. ASSUME NEW b \in Buses, NEW t \in Topics,
                 Probe(b, t) \in bound \/ <<b, t>> \in masked
          PROVE  Probe(b, t) \in bound' \/ <<b, t>> \in masked'
      <3>1. CASE b = c /\ t = u
        BY <2>1, <2>3, <3>1
      <3>2. CASE ~(b = c /\ t = u)
        <4>1. <<b, t>> # <<c, u>>
          BY <3>2
        <4> QED
          BY <2>1, <2>2, <2>4, <2>5, <4>1
      <3> QED
        BY <3>1, <3>2
    <2>6. Heard'
      <3> SUFFICES ASSUME NEW b \in Buses, NEW t \in topics[b]
                   PROVE  \/ Probe(b, t) \in bound' \/ <<b, t>> \in masked'
                          \/ pc = "poll" /\ b = bus /\ t \in pending
        BY <2>2 DEF Heard
      <3>1. t \in Topics
        BY <1>0 DEF TypeOK
      <3> QED
        BY <2>5, <3>1 DEF Heard
    <2>7. ReadyUnlessMasked'
      <3> SUFFICES ASSUME NEW b \in Buses, NEW t \in promised[b]
                   PROVE  Probe(b, t) \in bound' \/ <<b, t>> \in masked'
        BY <2>2 DEF ReadyUnlessMasked
      <3>1. t \in Topics
        BY <1>0 DEF TypeOK
      <3> QED
        BY <2>5, <3>1 DEF ReadyUnlessMasked
    <2>8. ASSUME pc \in {"subscribe", "poll"}, NEW t \in pending,
                 Probe(bus, t) \notin bound', <<bus, t>> \notin masked'
          PROVE  before[Key(t, bus)] = Cardinality(On(Key(t, bus), bound'))
      <3>1. bus \in Buses /\ t \in Topics
        BY <1>0 DEF TypeOK
      <3>2. Probe(bus, t) \notin bound /\ <<bus, t>> \notin masked
        BY <2>5, <2>8, <3>1
      <3>3. q \in ProbeQueues /\ q # Probe(bus, t)
        BY <1>0, <2>1, <2>8 DEF TypeOK
      <3>4. BoundKey(q) # Key(t, bus)
        BY <3>1, <3>3, ProbeKeys
      <3> QED
        BY <2>1, <2>8, <3>2, <3>4, OtherKey DEF Baseline
    <2>9. Baseline'
      BY <2>2, <2>8 DEF Baseline, Key
    <2> QED
      BY <2>2, <2>6, <2>7, <2>9 DEF Asking
  <1>3. CASE AwaitTenant \/ TakeSnapshot \/ AwaitTimeout
    <2>1. /\ UNCHANGED <<bound, topics, promised, masked>>
          /\ pc \in {"await", "snapshot"} /\ pc' \in {"await", "snapshot", "ready", "failed"}
      BY <1>3 DEF AwaitTenant, TakeSnapshot, AwaitTimeout
    <2> QED
      BY <2>1 DEF Heard, Asking, Baseline, ReadyUnlessMasked
  <1>4. CASE CountBefore
    <2>1. /\ UNCHANGED <<bound, topics, bus, pending, promised>>
          /\ pc = "before" /\ pc' = "subscribe"
          /\ masked \subseteq masked'
          /\ \A t \in pending : <<bus, t>> \notin masked' =>
                before'[Key(t, bus)] = CountsOf(bound)[Key(t, bus)]
      BY <1>4 DEF CountBefore
    <2>2. ASSUME NEW t \in pending, <<bus, t>> \notin masked'
          PROVE  before'[Key(t, bus)] = Cardinality(On(Key(t, bus), bound))
      <3>1. t \in Topics /\ bus \in Buses /\ bound \in SUBSET (Modules \cup ProbeQueues)
        BY <1>0 DEF TypeOK
      <3> QED
        BY <2>1, <2>2, <3>1, KeysAreKeys, Counting
    <2>3. Baseline'
      BY <2>1, <2>2 DEF Baseline, Key
    <2>4. Heard' /\ Asking' /\ ReadyUnlessMasked'
      BY <2>1 DEF Heard, Asking, ReadyUnlessMasked
    <2> QED
      BY <2>3, <2>4
  <1>5. CASE SubscribeAll
    <2>1. /\ UNCHANGED <<bound, bus, pending, before, promised, masked>>
          /\ topics' = [topics EXCEPT ![bus] = @ \cup pending]
          /\ pc = "subscribe" /\ pc' = "poll"
      BY <1>5 DEF SubscribeAll
    <2>2. Heard'
      BY <1>0, <2>1 DEF Heard, TypeOK
    <2>3. Asking' /\ Baseline' /\ ReadyUnlessMasked'
      BY <2>1 DEF Asking, Baseline, ReadyUnlessMasked, Key
    <2> QED
      BY <2>2, <2>3
  <1>6. CASE Poll
    <2>1. /\ UNCHANGED <<bound, topics, masked>>
          /\ promised' = [promised EXCEPT ![bus] = @ \cup pending]
          /\ pc = "poll" /\ pc' = "ready"
      BY <1>6 DEF Poll, Leave
    <2>2. PICK counts \in BindingCounts("poll") :
             Suffices(counts, before, {Key(t, bus) : t \in pending})
      BY <1>6 DEF Poll
    <2>3. ASSUME NEW t \in pending
          PROVE  Probe(bus, t) \in bound \/ <<bus, t>> \in masked
      <3>1. counts[Key(t, bus)] >= before[Key(t, bus)] + 1
        BY <2>2 DEF Suffices
      <3> QED
        BY <1>0, <2>1, <3>1, RisenIsOwn
    <2>4. Heard'
      BY <2>1, <2>3 DEF Heard
    <2>5. ReadyUnlessMasked'
      BY <1>0, <2>1, <2>3 DEF ReadyUnlessMasked, TypeOK
    <2> QED
      BY <2>1, <2>4, <2>5 DEF Asking, Baseline
  <1>7. CASE PollTimeout
    <2>1. /\ UNCHANGED <<bound, topics, promised>>
          /\ pc = "poll" /\ pc' = "ready" /\ masked \subseteq masked'
          /\ \A t \in pending : Probe(bus, t) \in bound \/ <<bus, t>> \in masked'
      BY <1>7 DEF PollTimeout, Leave
    <2> QED
      BY <2>1 DEF Heard, Asking, Baseline, ReadyUnlessMasked
  <1>8. ASSUME NEW b \in Buses, NEW asked \in SUBSET Topics \ {{}},
               Subscribe(b, asked)
        PROVE  Handshake'
    <2>1. UNCHANGED <<bound, topics, masked>> /\ pc = "ready"
      BY <1>8 DEF Subscribe
    <2>2. CASE asked \subseteq topics[b]
      <3>1. /\ UNCHANGED <<pc, bus, pending>>
            /\ promised' = [promised EXCEPT ![b] = @ \cup asked]
        BY <1>8, <2>2 DEF Subscribe
      <3>2. \A t \in asked : Probe(b, t) \in bound \/ <<b, t>> \in masked
        BY <2>1, <2>2 DEF Heard
      <3>3. ReadyUnlessMasked'
        BY <1>0, <2>1, <3>1, <3>2 DEF ReadyUnlessMasked, TypeOK
      <3> QED
        BY <2>1, <3>1, <3>3 DEF Heard, Asking, Baseline
    <2>3. CASE ~(asked \subseteq topics[b])
      <3>1. /\ promised' = promised /\ pc' = "before"
            /\ bus' = b /\ pending' = asked \ topics[b]
        BY <1>8, <2>3 DEF Subscribe
      <3> QED
        BY <2>1, <3>1 DEF Heard, Asking, Baseline, ReadyUnlessMasked
    <2> QED
      BY <2>2, <2>3
  <1>9. CASE UNCHANGED vars
    BY <1>9 DEF vars, Heard, Asking, Baseline, ReadyUnlessMasked, Key
  <1> QED
    BY <1>1, <1>2, <1>3, <1>4, <1>5, <1>6, <1>7, <1>8, <1>9
    DEF Next, Broker, Waiting

\* Where subscribe() has returned for a topic that cannot receive, the baseline
\* was wrong, a module was bound in the meantime, or an earlier subscribe() to
\* it has raised: no other interleaving or failure does that.
THEOREM ReadinessSound == Spec => []ReadyUnlessMasked
  <1>1. Init => Handshake
    BY DEF Init, Handshake, Heard, Asking, Baseline, ReadyUnlessMasked
  <1>2. Init => Inv
    BY InitInv
  <1>3. Inv /\ Handshake /\ [Next]_vars => (Inv /\ Handshake)'
    BY NextInv, NextHandshake
  <1>4. Handshake => ReadyUnlessMasked
    BY DEF Handshake
  <1> QED
    BY <1>1, <1>2, <1>3, <1>4, PTL DEF Spec

=============================================================================
