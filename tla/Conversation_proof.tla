------------------------- MODULE Conversation_proof -------------------------
(***************************************************************************)
(* Proofs about Conversation: its types, that the tenants of every         *)
(* deployment that its constructor has accepted are kept apart, and that   *)
(* nobody in it is answered twice.                                         *)
(***************************************************************************)
EXTENDS Conversation, SequenceTheorems, TLAPS

-----------------------------------------------------------------------------
(* Routing.                                                                *)

\* Nothing but relaying is done on the server: it talks to nobody, and its
\* eliza, if it has one, is ungated (multitenant_server.config).
OnlyRelays(s) ==
    /\ "chatui" \notin s.server
    /\ "eliza" \in s.server => ~s.gated

\* What belongs into the hands of stack s: of several tenants, its own events;
\* and whatever has a tenant has that of the person it is about.
OwnOf(s) ==
    {e \in Events : system.kind = "tenants" =>
                       /\ e.tenant \in {<<>>, TenantOf(e.home)}
                       /\ s # 0 => e.home = s
                       /\ OnlyRelays(system) => e.tenant = TenantOf(e.home)}

\* What stack s may publish: its bus adds its own tenant, if it has one.
OnBehalfOf(s) ==
    {e \in Events : system.kind = "tenants" =>
                       /\ e.tenant \in {<<>>, TenantOf(e.home)}
                       /\ s # 0 => e.home = s
                       /\ OnlyRelays(system) /\ s = 0 => e.tenant = TenantOf(e.home)}

\* The deployment is one that the constructors have let pass.
Accepted == system \in Systems /\ SystemOk(system)

\* The stacks are numbered, and the tenants' are those of the list.
LEMMA StacksAreNumbers ==
    ASSUME Accepted
    PROVE  /\ Stacks \subseteq Nat
           /\ 0 \in Stacks
           /\ Homes \subseteq Stacks
           /\ \A h \in Homes : Side(h) \in Probes
           /\ Probes \subseteq Stacks
           /\ system.kind = "tenants" =>
                 \A s \in Stacks \ {0} : s \in DOMAIN system.tenants
  <1> USE SystemsAssumption DEF Accepted
  <1>1. Len(system.tenants) \in Nat /\ DOMAIN system.tenants = 1..Len(system.tenants)
    OBVIOUS
  <1>2. Stacks \subseteq Nat /\ 0 \in Stacks
    BY <1>1 DEF Stacks
  <1>3. system.kind = "tenants" => \A s \in Stacks \ {0} : s \in DOMAIN system.tenants
    BY <1>1 DEF Stacks
  <1>4. Homes \subseteq Stacks /\ \A h \in Homes : Side(h) \in Probes
    BY DEF Homes, Probes
  <1>5. Probes \subseteq Stacks
    BY <1>2, <1>4 DEF Probes, Side
  <1> QED
    BY <1>2, <1>3, <1>4, <1>5

\* A tenant's id is one word that is not a wildcard.
LEMMA TenantIds ==
    ASSUME Accepted, system.kind = "tenants", NEW s \in Stacks, s # 0
    PROVE  /\ TenantOf(s) = system.tenants[s]
           /\ TenantOf(s) \in Seq(STRING)
           /\ IdOk(TenantOf(s))
           /\ TenantOf(s) # <<>>
  <1>1. s \in DOMAIN system.tenants
    BY StacksAreNumbers
  <1>2. s > 0
    BY StacksAreNumbers
  <1>3. TenantOf(s) = system.tenants[s]
    BY <1>2 DEF TenantOf
  <1>4. system.tenants[s] \in Seq(STRING)
    BY <1>1, SystemsAssumption, LenProperties, ElementOfSeq DEF Accepted
  <1>5. IdOk(system.tenants[s])
    BY <1>1 DEF Accepted, SystemOk, TenantDeploymentOk
  <1> QED
    BY <1>3, <1>4, <1>5 DEF IdOk

\* TenantDeployment.__post_init__: no id is given to two tenants.
LEMMA TenantsDiffer ==
    ASSUME Accepted, system.kind = "tenants",
           NEW s \in Stacks, NEW t \in Stacks, TenantOf(s) = TenantOf(t)
    PROVE  s = t
  <1>1. CASE s # 0 /\ t # 0
    <2>1. s \in DOMAIN system.tenants /\ t \in DOMAIN system.tenants
      BY <1>1, StacksAreNumbers
    <2>2. system.tenants[s] = system.tenants[t]
      BY <1>1, TenantIds
    <2>3. IsInjective(system.tenants)
      BY DEF Accepted, SystemOk, TenantDeploymentOk
    <2> QED
      BY <2>1, <2>2, <2>3 DEF IsInjective
  <1>2. CASE s = 0 \/ t = 0
    <2>1. TenantOf(0) = <<>>
      BY DEF TenantOf
    <2> QED
      BY <1>2, <2>1, TenantIds
  <1> QED
    BY <1>1, <1>2

\* An id that the constructor accepts matches itself only.
LEMMA IdsMatchThemselves ==
    ASSUME NEW id \in Seq(STRING), IdOk(id), NEW key \in Seq(STRING),
           Matches(id, key)
    PROVE  id = key
  <1>1. Len(id) = 1 /\ id[1] \notin {"*", "#"}
    BY DEF IdOk
  <1>2. PICK upto \in [0..Len(id) -> 0..Len(key)] :
           /\ upto[0] = 0 /\ upto[Len(id)] = Len(key)
           /\ \A i \in 1..Len(id) :
                 /\ upto[i - 1] <= upto[i]
                 /\ id[i] # "#" =>
                       /\ upto[i] = upto[i - 1] + 1
                       /\ id[i] \in {"*", key[upto[i]]}
    BY DEF Matches
  <1>3. /\ id[1] # "#" => /\ upto[1] = upto[1 - 1] + 1
                           /\ id[1] \in {"*", key[upto[1]]}
    BY <1>1, <1>2
  <1>4. upto[1] = upto[0] + 1 /\ id[1] = key[upto[1]]
    BY <1>1, <1>3
  <1>5. Len(key) = 1 /\ id[1] = key[1]
    BY <1>1, <1>2, <1>4
  <1>6. \A i \in 1..Len(id) : id[i] = key[i]
    BY <1>1, <1>5
  <1> QED
    BY <1>1, <1>5, <1>6, SeqEqual

\* What an event carries is the tenant of a stack, or none.
LEMMA EventTenants ==
    ASSUME Accepted
    PROVE  /\ TenantOf(0) = <<>>
           /\ \A s \in Stacks : TenantOf(s) \in Seq(STRING)
           /\ \A e \in Events : e.tenant \in Seq(STRING)
           /\ system.kind # "tenants" => \A s \in Stacks : TenantOf(s) = <<>>
  <1>1. TenantOf(0) = <<>> /\ <<>> \in Seq(STRING)
    BY DEF TenantOf
  <1>2. system.kind # "tenants" => \A s \in Stacks : TenantOf(s) = <<>>
    BY DEF TenantOf
  <1>3. \A s \in Stacks : TenantOf(s) \in Seq(STRING)
    BY <1>1, <1>2, TenantIds
  <1> QED
    BY <1>1, <1>2, <1>3 DEF Events

\* Whoever may publish an event, it gets into the hands of those it is for.
LEMMA Routing ==
    ASSUME Accepted, NEW s \in Stacks, NEW bus \in Stacks, NEW e \in OnBehalfOf(s),
           Matches(BoundSuffix(TenantOf(bus)), PublishedAs(TenantOf(s), e.tenant))
    PROVE  [e EXCEPT !.tenant = PublishedAs(TenantOf(s), e.tenant)] \in OwnOf(bus)
  <1> DEFINE tenant == PublishedAs(TenantOf(s), e.tenant)
             sent == [e EXCEPT !.tenant = tenant]
  <1>1. e \in Events /\ e.home \in Homes
    BY DEF OnBehalfOf, Events
  <1>2. tenant \in {<<>>} \cup {TenantOf(t) : t \in Stacks}
    BY <1>1 DEF PublishedAs, Events
  <1>3. sent \in Events /\ sent.tenant = tenant /\ sent.home = e.home
    BY <1>1, <1>2 DEF Events
  <1>4. CASE system.kind # "tenants"
    BY <1>3, <1>4 DEF OwnOf
  <1>5. CASE system.kind = "tenants"
    <2>1. e.tenant \in {<<>>, TenantOf(e.home)} /\ (s # 0 => e.home = s)
      BY <1>5 DEF OnBehalfOf
    <2>2. tenant \in {<<>>, TenantOf(e.home)}
      <3>1. CASE s = 0
        BY <2>1, <3>1, EventTenants DEF PublishedAs
      <3>2. CASE s # 0
        BY <2>1, <3>2 DEF PublishedAs
      <3> QED
        BY <3>1, <3>2
    <2>3. bus # 0 => e.home = bus
      <3> SUFFICES ASSUME bus # 0 PROVE e.home = bus
        OBVIOUS
      <3>1. /\ TenantOf(bus) \in Seq(STRING) /\ IdOk(TenantOf(bus))
            /\ TenantOf(bus) # <<>>
        BY <1>5, TenantIds
      <3>2. BoundSuffix(TenantOf(bus)) = TenantOf(bus)
        BY <3>1 DEF BoundSuffix
      <3>3. tenant \in Seq(STRING)
        BY <1>3, EventTenants
      <3>4. TenantOf(bus) = tenant
        BY <3>1, <3>2, <3>3, IdsMatchThemselves
      <3>5. TenantOf(bus) = TenantOf(e.home)
        BY <2>2, <3>1, <3>4
      <3> QED
        BY <1>1, <1>5, <3>5, TenantsDiffer, StacksAreNumbers
    <2>4. OnlyRelays(system) => tenant = TenantOf(e.home)
      <3>1. CASE s = 0
        BY <1>5, <3>1, EventTenants DEF PublishedAs, OnBehalfOf
      <3>2. CASE s # 0
        BY <1>5, <2>1, <3>2, TenantIds DEF PublishedAs
      <3> QED
        BY <3>1, <3>2
    <2> QED
      BY <1>3, <1>5, <2>2, <2>3, <2>4 DEF OwnOf
  <1> QED
    BY <1>4, <1>5

-----------------------------------------------------------------------------
(* The invariant: everybody has only what is theirs.                       *)

InHands ==
    /\ queue \in [Queues -> Seq(Events)]
    /\ \A q \in Queues : queue[q] \in Seq(OwnOf(q[1]))
    /\ seen \in [Probes -> SUBSET Events]
    /\ \A p \in Probes : seen[p] \subseteq OwnOf(p)

Shown ==
    /\ chat \in [Homes -> [scenario : BOOLEAN, said : Seq(Events)]]
    /\ \A h \in Homes : chat[h].said \in Seq(OnBehalfOf(h))

Inv == TypeOK /\ InHands /\ Shown

\* The sets of a deployment are its own for ever.
LEMMA Fixed ==
    ASSUME system' = system
    PROVE  /\ Stacks' = Stacks /\ Homes' = Homes /\ Probes' = Probes
           /\ Queues' = Queues /\ Events' = Events
           /\ \A s : OwnOf(s)' = OwnOf(s) /\ OnBehalfOf(s)' = OnBehalfOf(s)
           /\ Accepted' = Accepted /\ SystemOk(system)' = SystemOk(system)
  <1> USE DEF Stacks, ModulesOf, TenantOf, Reads
  <1>1. Stacks' = Stacks /\ Homes' = Homes
    BY DEF Homes
  <1>2. Probes' = Probes
    BY <1>1 DEF Probes, Side
  <1>3. Queues' = Queues
    BY <1>1 DEF Queues
  <1>4. Events' = Events
    BY <1>1 DEF Events
  <1>5. \A s : OwnOf(s)' = OwnOf(s) /\ OnBehalfOf(s)' = OnBehalfOf(s)
    BY <1>4 DEF OwnOf, OnBehalfOf, OnlyRelays
  <1>6. Accepted' = Accepted /\ SystemOk(system)' = SystemOk(system)
    BY DEF Accepted, SystemOk
  <1> QED
    BY <1>1, <1>2, <1>3, <1>4, <1>5, <1>6

\* Publishing keeps everybody's hands clean, whatever the publisher has left
\* of its own queue.
LEMMA PublishInHands ==
    ASSUME Accepted, system' = system,
           NEW s \in Stacks, NEW e \in OnBehalfOf(s), NEW rest \in [Queues -> Seq(Events)],
           \A q \in Queues : rest[q] \in Seq(OwnOf(q[1])),
           seen \in [Probes -> SUBSET Events],
           \A p \in Probes : seen[p] \subseteq OwnOf(p),
           lost \in BOOLEAN,
           PublishTo(rest, s, e)
    PROVE  InHands' /\ lost' \in BOOLEAN
  <1> DEFINE sent == [e EXCEPT !.tenant = PublishedAs(TenantOf(s), e.tenant)]
             Hears(bus) == Matches(BoundSuffix(TenantOf(bus)), sent.tenant)
             readers == {q \in Queues :
                           q[3] = sent.topic /\ Hears(q[1]) /\ Minds(q[2], sent)}
  <1>1. sent.tenant = PublishedAs(TenantOf(s), e.tenant)
    BY DEF OnBehalfOf, Events
  <1>2. \A bus \in Stacks : Hears(bus) => sent \in OwnOf(bus)
    BY <1>1, Routing
  <1>3. \A q \in Queues : q[1] \in Stacks
    BY DEF Queues
  <1>4. \A bus \in Stacks : OwnOf(bus) \subseteq Events
    BY DEF OwnOf
  <1>5. queue' = [q \in Queues |-> IF q \in readers \ unbound
                                   THEN Append(rest[q], sent) ELSE rest[q]]
    BY DEF PublishTo
  <1>6. seen' = [p \in Probes |-> IF Hears(p) THEN seen[p] \cup {sent} ELSE seen[p]]
    BY DEF PublishTo
  <1>7. lost' = (lost \/ readers \cap unbound # {})
    BY DEF PublishTo
  <1> HIDE DEF sent
  <1>8. \A q \in Queues : queue'[q] \in Seq(OwnOf(q[1])) /\ queue'[q] \in Seq(Events)
    <2> SUFFICES ASSUME NEW q \in Queues
                 PROVE  queue'[q] \in Seq(OwnOf(q[1])) /\ queue'[q] \in Seq(Events)
      OBVIOUS
    <2>1. rest[q] \in Seq(OwnOf(q[1])) /\ rest[q] \in Seq(Events)
      OBVIOUS
    <2>2. q \in readers => sent \in OwnOf(q[1]) /\ sent \in Events
      BY <1>2, <1>3, <1>4
    <2>3. queue'[q] = IF q \in readers \ unbound THEN Append(rest[q], sent) ELSE rest[q]
      BY <1>5
    <2> HIDE DEF readers
    <2>4. CASE q \in readers \ unbound
      <3>1. sent \in OwnOf(q[1]) /\ sent \in Events
        BY <2>2, <2>4
      <3>2. queue'[q] = Append(rest[q], sent)
        BY <2>3, <2>4
      <3>3. Append(rest[q], sent) \in Seq(OwnOf(q[1]))
        BY <2>1, <3>1, AppendProperties
      <3>4. Append(rest[q], sent) \in Seq(Events)
        BY <2>1, <3>1, AppendProperties
      <3> QED
        BY <3>2, <3>3, <3>4
    <2>5. CASE q \notin readers \ unbound
      BY <2>1, <2>3, <2>5
    <2> QED
      BY <2>4, <2>5
  <1>9. \A p \in Probes : seen'[p] \subseteq OwnOf(p) /\ seen'[p] \subseteq Events
    BY <1>2, <1>4, <1>6, StacksAreNumbers
  <1>10. DOMAIN queue' = Queues /\ queue' \in [Queues -> Seq(Events)]
    BY <1>5, <1>8
  <1>11. seen' \in [Probes -> SUBSET Events]
    BY <1>6, <1>9
  <1> HIDE DEF Hears, readers
  <1> QED
    BY <1>7, <1>8, <1>9, <1>10, <1>11, Fixed DEF InHands

-----------------------------------------------------------------------------
(* The modules.                                                            *)

\* A reply to one's own event is one's own.
LEMMA SourcedIsOwn ==
    ASSUME NEW s, NEW e \in OwnOf(s), NEW topic \in Topics, NEW what \in Happenings
    PROVE  Sourced(e, topic, what) \in OnBehalfOf(s)
  <1> DEFINE reply == Sourced(e, topic, what)
  <1>1. e \in Events
    BY DEF OwnOf
  <1>2. reply = [topic |-> topic, what |-> what, tenant |-> e.tenant, home |-> e.home]
    BY DEF Sourced, Event
  <1>3. reply \in Events /\ reply.tenant = e.tenant /\ reply.home = e.home
    BY <1>1, <1>2 DEF Events
  <1> SUFFICES reply \in OnBehalfOf(s)
    OBVIOUS
  <1> HIDE DEF reply
  <1> QED
    BY <1>3 DEF OwnOf, OnBehalfOf

\* A line of one's own, without a tenant, is about whomever one talks to.
LEMMA OwnLine ==
    ASSUME NEW s, NEW h \in Homes, system.kind = "tenants" => s = h \/ s = 0,
           system.kind = "tenants" /\ OnlyRelays(system) => s # 0,
           NEW topic \in Topics, NEW what \in Happenings
    PROVE  Event(topic, what, <<>>, h) \in OnBehalfOf(s)
  <1> DEFINE line == Event(topic, what, <<>>, h)
  <1>1. line = [topic |-> topic, what |-> what, tenant |-> <<>>, home |-> h]
    BY DEF Event
  <1>2. line \in Events /\ line.tenant = <<>> /\ line.home = h
    BY <1>1 DEF Events
  <1> SUFFICES line \in OnBehalfOf(s)
    OBVIOUS
  <1> HIDE DEF line
  <1> QED
    BY <1>2 DEF OnBehalfOf

\* Nobody talks to a server that only relays.
LEMMA NobodyAtTheServer ==
    ASSUME OnlyRelays(system), NEW h \in Homes
    PROVE  h # 0
  <1> QED
    BY DEF OnlyRelays, Homes, ModulesOf

\* What cltl-context reacts with.
LEMMA ContextIsOwn ==
    ASSUME NEW s, NEW e \in OwnOf(s)
    PROVE  ContextReaction(e) = <<>> \/ \E r \in OnBehalfOf(s) : ContextReaction(e) = <<r>>
  <1>1. CASE e.what = "init"
    <2>1. ContextReaction(e) = <<Sourced(e, "scenario", "started")>>
      BY <1>1 DEF ContextReaction
    <2> QED
      BY <2>1, SourcedIsOwn DEF Topics, Happenings
  <1>2. CASE e.what = "initialized"
    <2>1. ContextReaction(e) = <<Sourced(e, "intention", "eliza")>>
      BY <1>2 DEF ContextReaction
    <2> QED
      BY <2>1, SourcedIsOwn DEF Topics, Happenings
  <1>3. CASE e.what \notin {"init", "initialized"}
    BY <1>3 DEF ContextReaction
  <1> QED
    BY <1>1, <1>2, <1>3

\* And its InitService.
LEMMA InitIsOwn ==
    ASSUME NEW s, NEW e \in OwnOf(s)
    PROVE  InitReaction(e) = <<>> \/ \E r \in OnBehalfOf(s) : InitReaction(e) = <<r>>
  <1>1. CASE e.what = "started"
    <2>1. InitReaction(e) = <<Sourced(e, "text_out", "greeting")>>
      BY <1>1 DEF InitReaction
    <2> QED
      BY <2>1, SourcedIsOwn DEF Topics, Happenings
  <1>2. CASE e.what = "yes"
    <2>1. InitReaction(e) = <<Sourced(e, "desire", "initialized")>>
      BY <1>2 DEF InitReaction
    <2> QED
      BY <2>1, SourcedIsOwn DEF Topics, Happenings
  <1>3. CASE e.what \notin {"started", "yes"}
    BY <1>3 DEF InitReaction
  <1> QED
    BY <1>1, <1>2, <1>3

\* Who subscribes: a module of the stack, to what it reads.
LEMMA Subscribed ==
    ASSUME NEW q \in Queues
    PROVE  /\ q = <<q[1], q[2], q[3]>> /\ q[1] \in Stacks
           /\ q[2] \in {"context", "init", "chatui", "eliza", "again"}
           /\ ModuleWith(q[2]) \in ModulesOf(q[1]) /\ q[3] \in Reads(q[2])
  <1>1. /\ q \in Stacks \X {"context", "init", "chatui", "eliza", "again"} \X Topics
        /\ ModuleWith(q[2]) \in ModulesOf(q[1]) /\ q[3] \in Reads(q[2])
    BY DEF Queues
  <1> QED
    BY <1>1

\* Eliza's two subscribers read intentions if it is gated, and one of them
\* what people say.
LEMMA ElizaReads ==
    ASSUME NEW q \in Queues, q[2] \in {"eliza", "again"}
    PROVE  /\ "eliza" \in ModulesOf(q[1])
           /\ \/ q[3] = "text_in" /\ q[2] = "eliza"
              \/ q[3] = "intention" /\ system.gated
  <1>1. "eliza" \in ModulesOf(q[1])
    <2>1. ModuleWith(q[2]) \in ModulesOf(q[1])
      BY Subscribed
    <2>2. ModuleWith("eliza") = "eliza" /\ ModuleWith("again") = "eliza"
      BY DEF ModuleWith
    <2> QED
      BY <2>1, <2>2
  <1>2. \A topic \in Gating : topic = "intention" /\ system.gated
    BY DEF Gating
  <1>3. CASE q[2] = "eliza"
    <2>1. q[3] = "text_in" \/ q[3] \in Gating
      BY <1>3, Subscribed DEF Reads
    <2>2. CASE q[3] = "text_in"
      BY <1>1, <1>3, <2>2
    <2>3. CASE q[3] \in Gating
      BY <1>1, <1>2, <2>3
    <2> QED
      BY <2>1, <2>2, <2>3
  <1>4. CASE q[2] = "again"
    <2>1. q[3] \in Gating
      BY <1>4, Subscribed DEF Reads
    <2> QED
      BY <1>1, <1>2, <1>4, <2>1
  <1>5. q[2] = "eliza" \/ q[2] = "again"
    OBVIOUS
  <1> QED
    BY <1>3, <1>4, <1>5

\* What cltl-eliza reacts with, on a stack or on the server.
LEMMA ElizaIsOwn ==
    ASSUME NEW q \in Queues, q[2] \in {"eliza", "again"}, NEW e \in OwnOf(q[1])
    PROVE  \/ ElizaReaction(q, e) = <<>>
           \/ \E r \in OnBehalfOf(q[1]) : ElizaReaction(q, e) = <<r>>
  <1>1. e.home \in Homes /\ (system.kind = "tenants" => q[1] = e.home \/ q[1] = 0)
    BY DEF OwnOf, Events
  <1>2. CASE q[3] = "intention" /\ e.what = "eliza"
    <2>1. ElizaReaction(q, e) = <<Event("text_out", "opening", <<>>, e.home)>>
      BY <1>2 DEF ElizaReaction
    <2>2. "eliza" \in ModulesOf(q[1])
      BY ElizaReads
    <2>3. system.gated
      BY <1>2, ElizaReads
    <2>4. OnlyRelays(system) => q[1] # 0
      BY <2>2, <2>3 DEF OnlyRelays, ModulesOf
    <2> QED
      BY <1>1, <2>1, <2>4, OwnLine DEF Topics, Happenings
  <1>3. CASE q[3] = "text_in" /\ (system.gated => Worker(q) \in active)
    <2> DEFINE what == IF e.what = "talk" THEN "answer" ELSE "comment"
    <2>1. ElizaReaction(q, e) = <<Sourced(e, "text_out", what)>>
      BY <1>3 DEF ElizaReaction
    <2>2. what \in Happenings
      BY DEF Happenings
    <2> QED
      BY <2>1, <2>2, SourcedIsOwn DEF Topics
  <1>4. CASE /\ ~(q[3] = "intention" /\ e.what = "eliza")
             /\ ~(q[3] = "text_in" /\ (system.gated => Worker(q) \in active))
    BY <1>4 DEF ElizaReaction
  <1> QED
    BY <1>2, <1>3, <1>4

\* The next event of a queue, and what is left of it.
LEMMA TakenOff ==
    ASSUME InHands, NEW q \in Queues, queue[q] # <<>>
    PROVE  /\ Head(queue[q]) \in OwnOf(q[1])
           /\ [queue EXCEPT ![q] = Tail(@)] \in [Queues -> Seq(Events)]
           /\ \A r \in Queues :
                 [queue EXCEPT ![q] = Tail(@)][r] \in Seq(OwnOf(r[1]))
  <1>1. /\ queue \in [Queues -> Seq(Events)] /\ queue[q] \in Seq(OwnOf(q[1]))
        /\ \A r \in Queues : queue[r] \in Seq(OwnOf(r[1]))
    BY DEF InHands
  <1>2. Head(queue[q]) \in OwnOf(q[1]) /\ Tail(queue[q]) \in Seq(OwnOf(q[1]))
    BY <1>1, HeadTailProperties
  <1>3. queue[q] \in Seq(Events)
    BY <1>1
  <1>4. Tail(queue[q]) \in Seq(Events)
    BY <1>3, HeadTailProperties
  <1> QED
    BY <1>1, <1>2, <1>4

\* A module takes an event off, and what it reacts with is its own.
LEMMA ReactInHands ==
    ASSUME Accepted, system' = system, InHands, lost \in BOOLEAN,
           NEW q \in Queues, queue[q] # <<>>,
           NEW reaction,
           reaction = <<>> \/ \E r \in OnBehalfOf(q[1]) : reaction = <<r>>,
           React(q, reaction)
    PROVE  InHands' /\ lost' \in BOOLEAN
  <1> DEFINE rest == [queue EXCEPT ![q] = Tail(@)]
  <1>1. /\ rest \in [Queues -> Seq(Events)]
        /\ \A r \in Queues : rest[r] \in Seq(OwnOf(r[1]))
    BY TakenOff
  <1>2. /\ seen \in [Probes -> SUBSET Events]
        /\ \A p \in Probes : seen[p] \subseteq OwnOf(p)
    BY DEF InHands
  <1>3. CASE reaction = <<>>
    <2>1. queue' = rest /\ seen' = seen /\ lost' = lost
      BY <1>3 DEF React
    <2> HIDE DEF rest
    <2> QED
      BY <1>1, <1>2, <2>1, Fixed DEF InHands
  <1>4. CASE reaction # <<>>
    <2>1. PICK r \in OnBehalfOf(q[1]) : reaction = <<r>>
      BY <1>4
    <2>2. PublishTo(rest, q[1], r)
      BY <1>4, <2>1 DEF React
    <2>3. q[1] \in Stacks
      BY DEF Queues
    <2> HIDE DEF rest
    <2> QED
      BY <1>1, <1>2, <2>2, <2>3, PublishInHands
  <1> QED
    BY <1>3, <1>4

\* Or it drops the event.
LEMMA DropInHands ==
    ASSUME system' = system, InHands, NEW q \in Queues, queue[q] # <<>>, Drop(q)
    PROVE  InHands' /\ lost' \in BOOLEAN
  <1> DEFINE rest == [queue EXCEPT ![q] = Tail(@)]
  <1>1. /\ rest \in [Queues -> Seq(Events)]
        /\ \A r \in Queues : rest[r] \in Seq(OwnOf(r[1]))
    BY TakenOff
  <1>2. queue' = rest /\ seen' = seen /\ lost' = TRUE
    BY DEF Drop
  <1> HIDE DEF rest
  <1> QED
    BY <1>1, <1>2, Fixed DEF InHands

\* The gated workers are those of InitService and eliza.
LEMMA WorkersActive ==
    ASSUME NEW q \in Queues, q[2] \in {"init", "eliza", "again"}, NEW e,
           active \subseteq Stacks \X {"init", "eliza"}
    PROVE  ActiveAfter(q, e) \subseteq Stacks \X {"init", "eliza"}
  <1>1. Worker(q) \in Stacks \X {"init", "eliza"}
    BY Subscribed DEF Worker
  <1> QED
    BY <1>1 DEF ActiveAfter

-----------------------------------------------------------------------------
(* The invariant is inductive.                                             *)

Statuses == BetweenCalls \cup {"opening", "scenario", "greeted", "online",
                               "confirming", "desired", "refused"}

Counted ==
    /\ initial \in [Homes -> Nat]
    /\ \A h \in Homes : initial[h] <= Len(chat[h].said)

\* What a step of an accepted deployment has to keep.
LEMMA Kept ==
    ASSUME Accepted, system' = system, InHands', Shown', unbound' \subseteq Queues,
           active' \subseteq Stacks \X {"init", "eliza"}, pc' \in [Homes -> Statuses],
           initial' \in [Homes -> Nat],
           \A h \in Homes : initial'[h] <= Len(chat'[h].said),
           lost' \in BOOLEAN
    PROVE  Inv'
  <1>1. TypeOK'
    <2>1. system' \in Systems /\ SystemOk(system)'
      BY Fixed DEF Accepted
    <2>2. /\ unbound' \subseteq Queues' /\ active' \subseteq Stacks' \X {"init", "eliza"}
          /\ pc' \in [Homes' -> Statuses] /\ initial' \in [Homes' -> Nat]
          /\ \A h \in Homes' : initial'[h] <= Len(chat'[h].said)
      BY Fixed
    <2>3. /\ queue' \in [Queues' -> Seq(Events')]
          /\ seen' \in [Probes' -> SUBSET Events']
          /\ chat' \in [Homes' -> [scenario : BOOLEAN, said : Seq(Events')]]
      BY DEF InHands, Shown
    <2> QED
      BY <2>1, <2>2, <2>3 DEF TypeOK, Statuses, BetweenCalls
  <1> QED
    BY <1>1 DEF Inv

\* A chat UI that is not touched shows what it showed.
LEMMA StillShown ==
    ASSUME Shown, system' = system, chat' = chat
    PROVE  Shown'
  <1> QED
    BY Fixed DEF Shown

\* In the initial state nothing is in anybody's hands.
LEMMA InitInv == Init => Inv
  <1> SUFFICES ASSUME Init PROVE Inv
    OBVIOUS
  <1>1. Accepted
    BY DEF Init, Accepted
  <1>2. \A S : <<>> \in Seq(S)
    OBVIOUS
  <1>3. InHands
    <2>1. queue = [q \in Queues |-> <<>>] /\ seen = [p \in Probes |-> {}]
      BY DEF Init
    <2> QED
      BY <1>2, <2>1 DEF InHands
  <1>4. Shown
    <2>1. chat = [h \in Homes |-> [scenario |-> FALSE, said |-> <<>>]]
      BY DEF Init
    <2> QED
      BY <1>2, <2>1 DEF Shown
  <1>5. unbound \subseteq Queues
    <2>1. Late \subseteq Queues
      BY DEF Late
    <2>2. unbound = {} \/ \E q \in Late : unbound = {q}
      BY DEF Init
    <2> QED
      BY <2>1, <2>2
  <1>6. /\ pc \in [Homes -> Statuses] /\ initial \in [Homes -> Nat]
        /\ active \subseteq Stacks \X {"init", "eliza"} /\ lost \in BOOLEAN
    BY DEF Init, Statuses, BetweenCalls
  <1>7. \A h \in Homes : initial[h] <= Len(chat[h].said)
    <2>1. \A h \in Homes : initial[h] = 0 /\ chat[h].said = <<>>
      BY DEF Init
    <2> QED
      BY <2>1
  <1> QED
    BY <1>1, <1>3, <1>4, <1>5, <1>6, <1>7
    DEF Inv, TypeOK, InHands, Shown, Accepted, Statuses, BetweenCalls

\* What the steps start from.
LEMMA Given ==
    ASSUME Inv
    PROVE  /\ Accepted /\ InHands /\ Shown /\ unbound \subseteq Queues
           /\ active \subseteq Stacks \X {"init", "eliza"} /\ pc \in [Homes -> Statuses]
           /\ Counted /\ lost \in BOOLEAN
  <1> QED
    BY DEF Inv, TypeOK, Accepted, Counted, Statuses, BetweenCalls

\* A module's step.
LEMMA HandleInv ==
    ASSUME Inv, Handle
    PROVE  Inv'
  <1>1. /\ system' = system /\ unbound' = unbound /\ pc' = pc /\ initial' = initial
    BY DEF Handle
  <1>2. PICK q \in Queues : /\ queue[q] # <<>>
                            /\ Context(q) \/ InitService(q) \/ Eliza(q) \/ ChatUI(q)
    BY DEF Handle
  <1>3. /\ q[1] \in Stacks /\ Head(queue[q]) \in OwnOf(q[1])
        /\ Head(queue[q]) \in OnBehalfOf(q[1])
    BY <1>2, Given, TakenOff, Subscribed DEF OwnOf, OnBehalfOf
  <1> USE Given
  <1>4. CASE Context(q)
    <2>1. InHands' /\ lost' \in BOOLEAN
      BY <1>1, <1>2, <1>3, <1>4, ContextIsOwn, ReactInHands DEF Context
    <2>2. chat' = chat /\ active' = active
      BY <1>4 DEF Context
    <2> QED
      BY <1>1, <2>1, <2>2, StillShown, Kept DEF Counted
  <1>5. CASE InitService(q)
    <2>1. InHands' /\ lost' \in BOOLEAN
      BY <1>1, <1>2, <1>3, <1>5, InitIsOwn, ReactInHands, DropInHands DEF InitService
    <2>2. chat' = chat /\ active' \subseteq Stacks \X {"init", "eliza"}
      BY <1>5, WorkersActive DEF InitService
    <2> QED
      BY <1>1, <2>1, <2>2, StillShown, Kept DEF Counted
  <1>6. CASE Eliza(q)
    <2>1. InHands' /\ lost' \in BOOLEAN
      BY <1>1, <1>2, <1>3, <1>6, ElizaIsOwn, ReactInHands, DropInHands DEF Eliza
    <2>2. chat' = chat /\ active' \subseteq Stacks \X {"init", "eliza"}
      BY <1>6, WorkersActive DEF Eliza
    <2> QED
      BY <1>1, <2>1, <2>2, StillShown, Kept DEF Counted
  <1>7. CASE ChatUI(q)
    <2>1. InHands' /\ lost' \in BOOLEAN
      BY <1>1, <1>2, <1>7, ReactInHands DEF ChatUI
    <2>2. q[1] \in Homes
      BY <1>7, Subscribed DEF ChatUI, ModuleWith, Homes
    <2>3. active' = active
      BY <1>7 DEF ChatUI
    <2>4. chat' \in [Homes -> [scenario : BOOLEAN, said : Seq(Events)]]
      <3>1. chat[q[1]] \in [scenario : BOOLEAN, said : Seq(Events)]
        BY <2>2 DEF Shown
      <3>2. Append(chat[q[1]].said, Head(queue[q])) \in Seq(Events)
        BY <1>3, <3>1, AppendProperties DEF OwnOf
      <3> QED
        BY <1>7, <2>2, <3>1, <3>2 DEF ChatUI, Shown
    <2>5. \A h \in Homes : /\ chat'[h].said \in Seq(OnBehalfOf(h))
                            /\ Len(chat[h].said) <= Len(chat'[h].said)
      <3> SUFFICES ASSUME NEW h \in Homes
                   PROVE  /\ chat'[h].said \in Seq(OnBehalfOf(h))
                          /\ Len(chat[h].said) <= Len(chat'[h].said)
        OBVIOUS
      <3>1. chat[h].said \in Seq(OnBehalfOf(h)) /\ Len(chat[h].said) \in Nat
        BY DEF Shown
      <3>2. CASE h = q[1] /\ q[3] # "scenario"
        <4>1. chat'[h].said = Append(chat[h].said, Head(queue[q]))
          BY <1>7, <3>2 DEF ChatUI, Shown
        <4> QED
          BY <1>3, <3>1, <3>2, <4>1, AppendProperties
      <3>3. CASE ~(h = q[1] /\ q[3] # "scenario")
        <4>1. chat'[h].said = chat[h].said
          BY <1>7, <3>3 DEF ChatUI, Shown
        <4> QED
          BY <3>1, <4>1
      <3> QED
        BY <3>2, <3>3
    <2>6. Shown'
      BY <1>1, <2>4, <2>5, Fixed DEF Shown
    <2>7. \A h \in Homes : initial'[h] <= Len(chat'[h].said)
      <3>1. \A h \in Homes : Len(chat'[h].said) \in Nat /\ Len(chat[h].said) \in Nat
        BY <2>5 DEF Shown
      <3> QED
        BY <1>1, <2>5, <3>1 DEF Counted
    <2> QED
      BY <1>1, <2>1, <2>3, <2>6, <2>7, Kept DEF Counted
  <1> QED
    BY <1>2, <1>4, <1>5, <1>6, <1>7

\* A call that leaves the broker alone.
LEMMA QuietCall ==
    ASSUME Inv, NEW h \in Homes, NEW from, NEW to \in Statuses, Step(h, from, to),
           UNCHANGED <<system, unbound, queue, seen, chat, active, lost>>,
           initial' \in [Homes -> Nat],
           \A g \in Homes : initial'[g] <= Len(chat[g].said)
    PROVE  Inv'
  <1> USE Given
  <1>1. pc' \in [Homes -> Statuses]
    BY DEF Step
  <1>2. InHands'
    BY Fixed DEF InHands
  <1> QED
    BY <1>1, <1>2, StillShown, Kept

\* Conversation.open.
LEMMA OpenInv ==
    ASSUME Inv, NEW h \in Homes, Open(h)
    PROVE  Inv'
  <1> USE Given
  <1>1. system' = system /\ UNCHANGED <<unbound, chat, active, initial>>
    BY DEF Open
  <1>2. pc' \in [Homes -> Statuses]
    BY DEF Open, Step, Statuses
  <1>3. Side(h) \in Stacks
    BY StacksAreNumbers
  <1>4. Event("intention", "init", <<>>, h) \in OnBehalfOf(Side(h))
    BY OwnLine, NobodyAtTheServer DEF Side, Topics, Happenings
  <1>5. PublishTo(queue, Side(h), Event("intention", "init", <<>>, h))
    BY DEF Open
  <1>6. InHands' /\ lost' \in BOOLEAN
    BY <1>1, <1>3, <1>4, <1>5, PublishInHands DEF InHands
  <1> QED
    BY <1>1, <1>2, <1>6, StillShown, Kept DEF Counted

\* ChatClient.send.
LEMMA SendInv ==
    ASSUME Inv, NEW h \in Homes, NEW from, NEW what \in Happenings,
           NEW to \in Statuses, Send(h, from, what, to)
    PROVE  Inv'
  <1> USE Given
  <1> DEFINE e == Event("text_in", what, <<>>, h)
  <1>1. system' = system /\ UNCHANGED <<unbound, active, initial>>
    BY DEF Send
  <1>2. h \in Stacks /\ e \in OnBehalfOf(h) /\ e \in Events
    <2>1. e \in OnBehalfOf(h)
      BY OwnLine, NobodyAtTheServer DEF Topics
    <2> QED
      BY <2>1, StacksAreNumbers DEF OnBehalfOf
  <1>3. CASE chat[h].scenario
    <2>1. /\ Step(h, from, to) /\ PublishTo(queue, h, e)
          /\ chat' = [chat EXCEPT ![h].said = Append(@, e)]
      BY <1>3 DEF Send
    <2> HIDE DEF e
    <2>2. pc' \in [Homes -> Statuses]
      BY <2>1 DEF Step
    <2>3. InHands' /\ lost' \in BOOLEAN
      BY <1>1, <1>2, <2>1, PublishInHands DEF InHands
    <2>4. chat' \in [Homes -> [scenario : BOOLEAN, said : Seq(Events)]]
      <3>1. chat[h] \in [scenario : BOOLEAN, said : Seq(Events)]
        BY DEF Shown
      <3>2. Append(chat[h].said, e) \in Seq(Events)
        BY <1>2, <3>1, AppendProperties
      <3> QED
        BY <2>1, <3>1, <3>2 DEF Shown
    <2>5. \A g \in Homes : /\ chat'[g].said \in Seq(OnBehalfOf(g))
                            /\ Len(chat[g].said) <= Len(chat'[g].said)
      <3> SUFFICES ASSUME NEW g \in Homes
                   PROVE  /\ chat'[g].said \in Seq(OnBehalfOf(g))
                          /\ Len(chat[g].said) <= Len(chat'[g].said)
        OBVIOUS
      <3>1. chat[g].said \in Seq(OnBehalfOf(g)) /\ Len(chat[g].said) \in Nat
        BY DEF Shown
      <3>2. CASE g = h
        <4>1. chat'[g].said = Append(chat[g].said, e)
          BY <2>1, <3>2 DEF Shown
        <4> QED
          BY <1>2, <3>1, <3>2, <4>1, AppendProperties
      <3>3. CASE g # h
        <4>1. chat'[g].said = chat[g].said
          BY <2>1, <3>3 DEF Shown
        <4> QED
          BY <3>1, <4>1
      <3> QED
        BY <3>2, <3>3
    <2>6. Shown'
      BY <1>1, <2>4, <2>5, Fixed DEF Shown
    <2>7. \A g \in Homes : initial'[g] <= Len(chat'[g].said)
      <3>1. \A g \in Homes : Len(chat'[g].said) \in Nat /\ Len(chat[g].said) \in Nat
        BY <2>5 DEF Shown
      <3> QED
        BY <1>1, <2>5, <3>1 DEF Counted
    <2> QED
      BY <1>1, <2>2, <2>3, <2>6, <2>7, Kept DEF Counted
  <1>4. CASE ~chat[h].scenario
    <2>1. Step(h, from, "refused") /\ UNCHANGED <<chat, queue, seen, lost>>
      BY <1>4 DEF Send
    <2>2. "refused" \in Statuses
      BY DEF Statuses
    <2> QED
      BY <1>1, <2>1, <2>2, QuietCall DEF Counted
  <1> QED
    BY <1>3, <1>4

\* A call of the driver.
LEMMA DriveInv ==
    ASSUME Inv, NEW h \in Homes, Drive(h)
    PROVE  Inv'
  <1> USE Given
  <1>1. CASE Open(h)
    BY <1>1, OpenInv
  <1>2. ASSUME NEW from, NEW topic, NEW what, NEW to \in Statuses,
               Await(h, from, topic, what, to)
        PROVE  Inv'
    BY <1>2, QuietCall DEF Await, Counted
  <1>3. CASE AwaitScenario(h)
    BY <1>3, QuietCall DEF AwaitScenario, Counted, Statuses
  <1>4. CASE StartSession(h)
    <2>1. \A g \in Homes : Len(chat[g].said) \in Nat
      BY DEF Shown
    <2>2. /\ initial' \in [Homes -> Nat]
          /\ \A g \in Homes : initial'[g] <= Len(chat[g].said)
      BY <1>4, <2>1 DEF StartSession, Counted
    <2>3. Step(h, "online", "opened") /\ "opened" \in Statuses
      BY <1>4 DEF StartSession, Statuses, BetweenCalls
    <2> QED
      BY <1>4, <2>2, <2>3, QuietCall DEF StartSession
  <1>5. CASE Receive(h)
    <2>1. Step(h, "said", "done") /\ "done" \in Statuses
      BY <1>5 DEF Receive, Statuses, BetweenCalls
    <2> QED
      BY <1>5, <2>1, QuietCall DEF Receive, Counted
  <1>6. CASE Send(h, "opened", "yes", "confirming")
    BY <1>6, SendInv DEF Happenings, Statuses
  <1>7. CASE Send(h, "confirmed", "talk", "said")
    BY <1>7, SendInv DEF Happenings, Statuses, BetweenCalls
  <1>8. CASE \/ Await(h, "opening", "scenario", "started", "scenario")
             \/ Await(h, "scenario", "text_out", "greeting", "greeted")
             \/ Await(h, "confirming", "desire", "initialized", "desired")
             \/ Await(h, "desired", "intention", "eliza", "confirmed")
    <2>1. {"scenario", "greeted", "desired", "confirmed"} \subseteq Statuses
      BY DEF Statuses, BetweenCalls
    <2> QED
      BY <1>2, <1>8, <2>1
  <1> QED
    BY <1>1, <1>3, <1>4, <1>5, <1>6, <1>7, <1>8 DEF Drive

\* Every step keeps every event with its tenant.
LEMMA NextInv ==
    ASSUME Inv, [Next]_vars
    PROVE  Inv'
  <1> USE Given
  <1>1. CASE Handle
    BY <1>1, HandleInv
  <1>2. CASE BindLate
    <2>1. /\ unbound' = {}
          /\ UNCHANGED <<system, queue, seen, chat, active, pc, initial, lost>>
      BY <1>2 DEF BindLate
    <2>2. InHands'
      BY <2>1, Fixed DEF InHands
    <2> QED
      BY <2>1, <2>2, StillShown, Kept DEF Counted
  <1>3. ASSUME NEW h \in Homes, Drive(h) PROVE Inv'
    BY <1>3, DriveInv
  <1>4. CASE UNCHANGED vars
    <2>1. UNCHANGED <<system, unbound, queue, seen, chat, active, pc, initial, lost>>
      BY <1>4 DEF vars
    <2>2. InHands'
      BY <2>1, Fixed DEF InHands
    <2> QED
      BY <2>1, <2>2, StillShown, Kept DEF Counted
  <1> QED
    BY <1>1, <1>2, <1>3, <1>4 DEF Next

-----------------------------------------------------------------------------
(* Theorems.                                                               *)

\* The type invariant of the conversations, for all deployments.
THEOREM ConversationTypeCorrect == Spec => []TypeOK
  <1>1. Init => Inv
    BY InitInv
  <1>2. Inv /\ [Next]_vars => Inv'
    BY NextInv
  <1>3. Inv => TypeOK
    BY DEF Inv
  <1> QED
    BY <1>1, <1>2, <1>3, PTL DEF Spec

\* Tenants are kept apart in every deployment whose constructor has let it
\* pass, with any number of tenants, and with any modules on either side:
\* what reaches a tenant's person and probe is its own.
THEOREM TenantsKeptApart == Spec => []OwnTenantOnly
  <1>1. Init => Inv
    BY InitInv
  <1>2. Inv /\ [Next]_vars => Inv'
    BY NextInv
  <1>3. Inv => OwnTenantOnly
    <2> SUFFICES ASSUME Inv, system.kind = "tenants"
                 PROVE  /\ \A p \in Probes \ {0} : \A e \in seen[p] : e.home = p
                        /\ \A h \in Homes \ {0} : \A e \in Range(chat[h].said) :
                              e.home = h
      BY DEF OwnTenantOnly
    <2>1. \A s : s # 0 => \A e \in OwnOf(s) \cup OnBehalfOf(s) : e.home = s
      BY DEF OwnOf, OnBehalfOf
    <2>2. \A p \in Probes \ {0} : \A e \in seen[p] : e.home = p
      BY <2>1, Given DEF InHands
    <2>3. ASSUME NEW h \in Homes \ {0}, NEW e \in Range(chat[h].said)
          PROVE  e.home = h
      <3>1. chat[h].said \in Seq(OnBehalfOf(h))
        BY Given DEF Shown
      <3>2. PICK i \in DOMAIN chat[h].said : e = chat[h].said[i]
        BY DEF Range
      <3>3. e \in OnBehalfOf(h)
        BY <3>1, <3>2, LenProperties, ElementOfSeq
      <3> QED
        BY <2>1, <3>3
    <2> QED
      BY <2>2, <2>3
  <1> QED
    BY <1>1, <1>2, <1>3, PTL DEF Spec

\* A server that only relays finds everybody again: nothing that it sees is
\* without a tenant or under another's, in every deployment that puts its
\* chat UIs with the tenants and does not gate the eliza they share.
THEOREM ServerRelays ==
    ASSUME \A s \in Systems : s.kind = "tenants" => OnlyRelays(s)
    PROVE  Spec => []RelayedToItself
  <1>1. Init => Inv
    BY InitInv
  <1>2. Inv /\ [Next]_vars => Inv'
    BY NextInv
  <1>3. Inv => RelayedToItself
    <2> SUFFICES ASSUME Inv, system.kind = "tenants", NEW e \in seen[0]
                 PROVE  e.tenant = system.tenants[e.home]
      BY DEF RelayedToItself
    <2>1. OnlyRelays(system)
      BY DEF Inv, TypeOK
    <2>2. e \in OwnOf(0)
      BY Given DEF InHands, Probes
    <2>3. e.home \in Homes /\ e.tenant = TenantOf(e.home)
      BY <2>1, <2>2 DEF OwnOf, Events
    <2>4. e.home # 0 /\ e.home \in Stacks
      BY <2>1, <2>3, NobodyAtTheServer, Given, StacksAreNumbers
    <2> QED
      BY <2>3, <2>4, Given, TenantIds
  <1> QED
    BY <1>1, <1>2, <1>3, PTL DEF Spec

-----------------------------------------------------------------------------
(* Nothing is answered twice.                                              *)

\* The probe of stack 0 hears everything: its bus has no tenant.
LEMMA EverythingHeard ==
    ASSUME NEW key \in Seq(STRING)
    PROVE  Matches(BoundSuffix(TenantOf(0)), key)
  <1> DEFINE upto == [i \in 0..1 |-> IF i = 0 THEN 0 ELSE Len(key)]
  <1>1. BoundSuffix(TenantOf(0)) = <<"#">>
    BY DEF TenantOf, BoundSuffix
  <1>2. Len(key) \in Nat /\ Len(<<"#">>) = 1 /\ <<"#">>[1] = "#"
    OBVIOUS
  <1>3. upto \in [0..1 -> 0..Len(key)]
    BY <1>2
  <1>4. upto[0] = 0 /\ upto[1] = Len(key)
    OBVIOUS
  <1>5. \A i \in 1..1 : i = 1 /\ i - 1 = 0
    OBVIOUS
  <1>6. \A i \in 1..1 : upto[i - 1] <= upto[i] /\ <<"#">>[i] = "#"
    BY <1>2, <1>4, <1>5
  <1> HIDE DEF upto
  <1> QED
    BY <1>1, <1>2, <1>3, <1>4, <1>6 DEF Matches

\* Of the stacks that have a module, one gets to hear of a home.
LEMMA OneReader ==
    ASSUME Accepted, NEW q \in Queues, NEW r \in Queues, q[2] = r[2], q[3] = r[3],
           NEW d \in OwnOf(q[1]), NEW e \in OwnOf(r[1]), d.home = e.home
    PROVE  q = r
  <1> DEFINE module == ModuleWith(q[2])
  <1>1. /\ q[1] \in Stacks /\ r[1] \in Stacks
        /\ module \in ModulesOf(q[1]) /\ module \in ModulesOf(r[1])
        /\ q = <<q[1], q[2], q[3]>> /\ r = <<r[1], r[2], r[3]>>
    <2>1. module = ModuleWith(r[2])
      OBVIOUS
    <2> QED
      BY <2>1, Subscribed
  <1> HIDE DEF module
  <1>2. q[1] = 0 \/ r[1] = 0 => q[1] = r[1] \/ module \in system.server \cap system.client
    BY <1>1 DEF ModulesOf
  <1>6. module # "backend"
    <2>1. q[2] \in {"context", "init", "chatui", "eliza", "again"}
      BY Subscribed
    <2> QED
      BY <2>1 DEF module, ModuleWith
  <1>3. CASE system.kind = "tenants"
    <2>1. system.server \cap system.client = {}
      BY <1>3 DEF Accepted, SystemOk, TenantDeploymentOk
    <2>2. q[1] # 0 /\ r[1] # 0 => q[1] = r[1]
      BY <1>3 DEF OwnOf
    <2> QED
      BY <1>1, <1>2, <2>1, <2>2
  <1>4. CASE system.kind = "split"
    <2>1. system.server \cap system.client \subseteq {"backend"}
      BY <1>4 DEF Accepted, SystemOk, DeploymentOk
    <2>2. Stacks = 0..1
      BY <1>4 DEF Stacks
    <2>3. q[1] = r[1]
      BY <1>1, <1>2, <1>6, <2>1, <2>2
    <2> QED
      BY <1>1, <2>3
  <1>5. CASE system.kind = "single"
    <2>1. Stacks = 0..0
      BY <1>5 DEF Stacks
    <2> QED
      BY <1>1, <2>1
  <1> QED
    BY <1>3, <1>4, <1>5, SystemsAssumption DEF Accepted

\* What the broker does with an event: the probe of stack 0 sees it, and a
\* queue is as its publisher left it, or has the event behind that.
LEMMA Published ==
    ASSUME Accepted, NEW s \in Stacks, NEW e \in OnBehalfOf(s),
           NEW rest \in [Queues -> Seq(Events)],
           seen \in [Probes -> SUBSET Events], PublishTo(rest, s, e)
    PROVE  \E sent \in Events :
              /\ SameHappening(sent, e) /\ sent.topic = e.topic
              /\ seen'[0] = seen[0] \cup {sent}
              /\ \A q \in Queues : \/ queue'[q] = rest[q]
                                   \/ /\ queue'[q] = Append(rest[q], sent)
                                      /\ q[3] = sent.topic
  <1> DEFINE tenant == PublishedAs(TenantOf(s), e.tenant)
             sent == [e EXCEPT !.tenant = tenant]
             Hears(bus) == Matches(BoundSuffix(TenantOf(bus)), sent.tenant)
             readers == {q \in Queues :
                           q[3] = sent.topic /\ Hears(q[1]) /\ Minds(q[2], sent)}
  <1>1. e \in Events
    BY DEF OnBehalfOf
  <1>2. tenant \in {<<>>} \cup {TenantOf(t) : t \in Stacks}
    BY <1>1 DEF PublishedAs, Events
  <1>3. /\ sent \in Events /\ sent.tenant = tenant /\ sent.home = e.home
        /\ sent.what = e.what /\ sent.topic = e.topic
    BY <1>1, <1>2 DEF Events
  <1>4. Hears(0)
    BY <1>3, EventTenants, EverythingHeard
  <1>5. seen' = [p \in Probes |-> IF Hears(p) THEN seen[p] \cup {sent} ELSE seen[p]]
    BY DEF PublishTo
  <1>6. seen'[0] = seen[0] \cup {sent}
    BY <1>4, <1>5 DEF Probes
  <1>7. queue' = [q \in Queues |-> IF q \in readers \ unbound
                                   THEN Append(rest[q], sent) ELSE rest[q]]
    BY DEF PublishTo
  <1>8. \A q \in Queues : \/ queue'[q] = rest[q]
                          \/ queue'[q] = Append(rest[q], sent) /\ q[3] = sent.topic
    <2> HIDE DEF sent, Hears
    <2> QED
      BY <1>7
  <1> HIDE DEF sent, Hears, readers
  <1> QED
    BY <1>3, <1>6, <1>8 DEF SameHappening

\* What is left of a queue is as fresh as it was, and does not hold what has
\* been taken off, unless it is an opening line.
LEMMA FreshTail ==
    ASSUME NEW all, NEW q, NEW waiting \in Seq(Events), waiting # <<>>,
           Fresh(all, q, waiting)
    PROVE  /\ Fresh(all, q, Tail(waiting))
           /\ Head(waiting).what # "opening" =>
                 \A i \in DOMAIN Tail(waiting) :
                    ~ SameHappening(Head(waiting), Tail(waiting)[i])
  <1>1. /\ Head(waiting) = waiting[1] /\ 1 \in DOMAIN waiting
        /\ \A i \in DOMAIN Tail(waiting) :
              /\ Tail(waiting)[i] = waiting[i + 1]
              /\ i + 1 \in DOMAIN waiting /\ i + 1 # 1 /\ i \in Nat
    BY HeadTailProperties
  <1>2. \A i, j \in DOMAIN waiting :
           waiting[i].what # "opening" /\ SameHappening(waiting[i], waiting[j]) => i = j
    BY DEF Fresh
  <1>3. Fresh(all, q, Tail(waiting))
    <2> SUFFICES ASSUME NEW i \in DOMAIN Tail(waiting)
                 PROVE  LET w == Tail(waiting) IN
                        /\ w[i] \in all /\ w[i].topic = q[3]
                        /\ \A j \in DOMAIN w :
                              w[i].what # "opening" /\ SameHappening(w[i], w[j]) => i = j
                        /\ \A what \in Happenings :
                              CauseOf(what) = w[i].what /\ ReactionOf(what) = q[2] =>
                                 ~ Happened(all, what, w[i].home)
      BY DEF Fresh
    <2>1. Tail(waiting)[i].what # "opening" =>
             \A j \in DOMAIN Tail(waiting) :
                SameHappening(Tail(waiting)[i], Tail(waiting)[j]) => i = j
      <3> SUFFICES ASSUME NEW j \in DOMAIN Tail(waiting),
                          Tail(waiting)[i].what # "opening",
                          SameHappening(Tail(waiting)[i], Tail(waiting)[j])
                   PROVE  i = j
        OBVIOUS
      <3>1. i + 1 = j + 1 /\ i \in Nat /\ j \in Nat
        BY <1>1, <1>2
      <3> QED
        BY <3>1
    <2> QED
      BY <1>1, <2>1 DEF Fresh
  <1> QED
    BY <1>1, <1>2, <1>3

\* An event that happens leaves a queue fresh, if nothing waits there that it
\* is the reaction to.
LEMMA FreshStill ==
    ASSUME NEW all, NEW q, NEW waiting, Fresh(all, q, waiting), NEW sent,
           \A i \in DOMAIN waiting :
              ~ (/\ CauseOf(sent.what) = waiting[i].what /\ ReactionOf(sent.what) = q[2]
                 /\ sent.home = waiting[i].home)
    PROVE  Fresh(all \cup {sent}, q, waiting)
  <1> QED
    BY DEF Fresh, Happened

\* And it is fresh itself where it is put, as long as nothing happens without
\* its cause.  (An opening line has none of its own.)
LEMMA FreshAppend ==
    ASSUME NEW all, NEW q, NEW waiting \in Seq(Events), Fresh(all, q, waiting),
           NEW sent \in Events, sent.topic = q[3],
           sent.what = "opening" \/ ~ Happened(all, sent.what, sent.home),
           \A d \in all :
              CauseOf(d.what) # "none" => Happened(all, CauseOf(d.what), d.home),
           \A i \in DOMAIN waiting :
              ~ (/\ CauseOf(sent.what) = waiting[i].what /\ ReactionOf(sent.what) = q[2]
                 /\ sent.home = waiting[i].home)
    PROVE  Fresh(all \cup {sent}, q, Append(waiting, sent))
  <1> DEFINE more == Append(waiting, sent)
             last == Len(waiting) + 1
  <1>1. /\ DOMAIN more = DOMAIN waiting \cup {last}
        /\ more[last] = sent
        /\ \A i \in DOMAIN waiting : more[i] = waiting[i]
    BY AppendProperties
  <1>2. \A i \in DOMAIN waiting :
           waiting[i].what # "opening" => ~ SameHappening(waiting[i], sent)
    BY DEF Fresh, Happened, SameHappening
  <1>3. \A what \in Happenings : CauseOf(what) = sent.what =>
           ~ Happened(all \cup {sent}, what, sent.home)
    <2> SUFFICES ASSUME NEW what \in Happenings, CauseOf(what) = sent.what,
                        NEW d \in all \cup {sent}, d.what = what, d.home = sent.home
                 PROVE  FALSE
      BY DEF Happened
    <2>1. CauseOf(what) # what /\ CauseOf(what) # "opening"
      BY DEF CauseOf, Happenings
    <2>2. sent.what # "none"
      BY DEF Events, Happenings
    <2>3. d \in all
      BY <2>1
    <2> QED
      BY <2>1, <2>2, <2>3
  <1>4. \A i, j \in DOMAIN more :
           more[i].what # "opening" /\ SameHappening(more[i], more[j]) => i = j
    <2>1. sent.what # "opening" =>
             \A i \in DOMAIN waiting : ~ SameHappening(sent, waiting[i])
      BY <1>2 DEF SameHappening
    <2> HIDE DEF more
    <2> QED
      BY <1>1, <1>2, <2>1 DEF Fresh
  <1>5. Fresh(all \cup {sent}, q, waiting)
    BY FreshStill
  <1> HIDE DEF more, last
  <1>6. ASSUME NEW i \in DOMAIN more
        PROVE  /\ more[i] \in all \cup {sent} /\ more[i].topic = q[3]
               /\ \A what \in Happenings :
                     CauseOf(what) = more[i].what /\ ReactionOf(what) = q[2] =>
                        ~ Happened(all \cup {sent}, what, more[i].home)
    <2>1. CASE i \in DOMAIN waiting
      BY <1>1, <1>5, <2>1 DEF Fresh
    <2>2. CASE i = last
      BY <1>1, <1>3, <2>2
    <2> QED
      BY <1>1, <2>1, <2>2
  <1>7. Fresh(all \cup {sent}, q, more)
    BY <1>4, <1>6 DEF Fresh
  <1> QED
    BY <1>7 DEF more

\* What happens for the first time does not disturb what is shown, and neither
\* does another opening line.
LEMMA ShownStill ==
    ASSUME NEW all, NEW said, NEW waiting \in Seq(Events), ShownOnce(all, said, waiting),
           NEW sent \in Events,
           sent.what = "opening" \/ ~ Happened(all, sent.what, sent.home)
    PROVE  /\ ShownOnce(all \cup {sent}, said, waiting)
           /\ ShownOnce(all \cup {sent}, said, Append(waiting, sent))
  <1> DEFINE more == Append(waiting, sent)
             last == Len(waiting) + 1
  <1>1. /\ DOMAIN more = DOMAIN waiting \cup {last}
        /\ more[last] = sent
        /\ \A i \in DOMAIN waiting : more[i] = waiting[i]
    BY AppendProperties
  <1>2. \A d \in all : d.what # "opening" => ~ SameHappening(d, sent)
    BY DEF Happened, SameHappening
  <1>3. ShownOnce(all \cup {sent}, said, waiting)
    BY DEF ShownOnce
  <1> HIDE DEF more, last
  <1>4. ShownOnce(all \cup {sent}, said, more)
    BY <1>1, <1>2 DEF ShownOnce
  <1> QED
    BY <1>3, <1>4 DEF more

\* The chat UI takes off what it shows.
LEMMA ShownNext ==
    ASSUME NEW all, NEW q, NEW waiting \in Seq(Events), waiting # <<>>,
           Fresh(all, q, waiting), NEW said \in Seq(Events),
           ShownOnce(all, said, waiting)
    PROVE  ShownOnce(all, Append(said, Head(waiting)), Tail(waiting))
  <1> DEFINE more == Append(said, Head(waiting))
             last == Len(said) + 1
             left == Tail(waiting)
  <1>1. /\ Head(waiting) = waiting[1] /\ 1 \in DOMAIN waiting /\ Head(waiting) \in Events
        /\ \A i \in DOMAIN left : left[i] = waiting[i + 1] /\ i + 1 \in DOMAIN waiting
    BY HeadTailProperties
  <1>2. Head(waiting).what # "opening" =>
           \A i \in DOMAIN left : ~ SameHappening(Head(waiting), left[i])
    BY FreshTail
  <1>3. /\ DOMAIN more = DOMAIN said \cup {last}
        /\ more[last] = Head(waiting)
        /\ \A i \in DOMAIN said : more[i] = said[i]
    BY <1>1, AppendProperties
  <1>4. Head(waiting) \in all
    BY <1>1 DEF Fresh
  <1>5. \A i \in DOMAIN said : said[i].topic = "text_out" /\ said[i].what # "opening" =>
           /\ ~ SameHappening(said[i], Head(waiting))
           /\ ~ SameHappening(Head(waiting), said[i])
    BY <1>1 DEF ShownOnce, SameHappening
  <1>6. \A i \in DOMAIN said : said[i].topic = "text_out" /\ said[i].what # "opening" =>
           /\ said[i] \in all
           /\ \A j \in DOMAIN left : ~ SameHappening(said[i], left[j])
           /\ \A j \in DOMAIN said :
                 said[j].topic = "text_out" /\ SameHappening(said[i], said[j]) => i = j
    BY <1>1 DEF ShownOnce
  <1> HIDE DEF more, last, left
  <1>7. ShownOnce(all, more, left)
    <2> SUFFICES ASSUME NEW i \in DOMAIN more, more[i].topic = "text_out",
                        more[i].what # "opening"
                 PROVE  /\ more[i] \in all
                        /\ \A j \in DOMAIN more :
                              more[j].topic = "text_out" /\ SameHappening(more[i], more[j])
                                 => i = j
                        /\ \A j \in DOMAIN left : ~ SameHappening(more[i], left[j])
      BY DEF ShownOnce
    <2>1. CASE i = last
      BY <1>2, <1>3, <1>4, <1>5, <2>1 DEF SameHappening
    <2>2. CASE i \in DOMAIN said
      BY <1>3, <1>5, <1>6, <2>2
    <2> QED
      BY <1>3, <2>1, <2>2
  <1> QED
    BY <1>7 DEF more, left

\* A person's own line is not the agent's.
LEMMA ShownOwn ==
    ASSUME NEW all, NEW said \in Seq(Events), NEW waiting, ShownOnce(all, said, waiting),
           NEW line \in Events, line.topic # "text_out"
    PROVE  ShownOnce(all, Append(said, line), waiting)
  <1> DEFINE more == Append(said, line)
             last == Len(said) + 1
  <1>1. /\ DOMAIN more = DOMAIN said \cup {last}
        /\ more[last] = line
        /\ \A i \in DOMAIN said : more[i] = said[i]
    BY AppendProperties
  <1> HIDE DEF more, last
  <1>2. ShownOnce(all, more, waiting)
    BY <1>1 DEF ShownOnce
  <1> QED
    BY <1>2 DEF more

\* Where a person's chat UI waits for what the agent says.
TextOut(h) == <<h, "chatui", "text_out">>

\* Nothing happens without its cause.
Caused(all) ==
    \A e \in all :
       /\ e.topic = TopicOf(e.what)
       /\ CauseOf(e.what) # "none" => Happened(all, CauseOf(e.what), e.home)

\* Queues and chat UIs that hold everything once.
HeldOnce(all, held, shown) ==
    /\ \A q \in Queues : Fresh(all, q, held[q])
    /\ \A h \in Homes : ShownOnce(all, shown[h].said, held[TextOut(h)])

\* Every chat UI is a queue's.
LEMMA TextOutQueues == \A h \in Homes : TextOut(h) \in Queues
  <1> SUFFICES ASSUME NEW h \in Homes PROVE TextOut(h) \in Queues
    OBVIOUS
  <1>1. /\ h \in Stacks /\ ModuleWith("chatui") \in ModulesOf(h)
        /\ "text_out" \in Reads("chatui")
    BY DEF Homes, Reads, ModuleWith
  <1> QED
    BY <1>1 DEF TextOut, Queues, Topics

\* An event that happens for the first time (or opens), and whose cause has
\* been taken off, is held once wherever the broker puts it.
LEMMA PublishOnce ==
    ASSUME Accepted, NEW s \in Stacks, NEW e \in OnBehalfOf(s),
           NEW rest \in [Queues -> Seq(Events)], seen \in [Probes -> SUBSET Events],
           NEW shown, HeldOnce(seen[0], rest, shown), Caused(seen[0]),
           e.topic = TopicOf(e.what),
           e.what = "opening" \/ ~ Happened(seen[0], e.what, e.home),
           CauseOf(e.what) # "none" => Happened(seen[0], CauseOf(e.what), e.home),
           \A q \in Queues : \A i \in DOMAIN rest[q] :
              ~ (/\ CauseOf(e.what) = rest[q][i].what /\ ReactionOf(e.what) = q[2]
                 /\ e.home = rest[q][i].home),
           PublishTo(rest, s, e)
    PROVE  /\ HeldOnce(seen'[0], queue', shown)
           /\ Caused(seen'[0])
           /\ \A what, h : Happened(seen'[0], what, h) =>
                 Happened(seen[0], what, h) \/ (what = e.what /\ h = e.home)
  <1>1. PICK sent \in Events :
           /\ SameHappening(sent, e) /\ sent.topic = e.topic
           /\ seen'[0] = seen[0] \cup {sent}
           /\ \A q \in Queues : \/ queue'[q] = rest[q]
                                \/ /\ queue'[q] = Append(rest[q], sent)
                                   /\ q[3] = sent.topic
    BY Published
  <1>2. sent.what = e.what /\ sent.home = e.home
    BY <1>1 DEF SameHappening
  <1>3. sent.what = "opening" \/ ~ Happened(seen[0], sent.what, sent.home)
    BY <1>2
  <1>4. ASSUME NEW q \in Queues PROVE Fresh(seen'[0], q, queue'[q])
    <2>1. rest[q] \in Seq(Events) /\ Fresh(seen[0], q, rest[q])
      BY DEF HeldOnce
    <2>2. \A i \in DOMAIN rest[q] :
             ~ (/\ CauseOf(sent.what) = rest[q][i].what /\ ReactionOf(sent.what) = q[2]
                /\ sent.home = rest[q][i].home)
      BY <1>2
    <2>3. CASE queue'[q] = rest[q]
      BY <1>1, <2>1, <2>2, <2>3, FreshStill
    <2>4. CASE queue'[q] = Append(rest[q], sent) /\ q[3] = sent.topic
      <3>1. \A d \in seen[0] :
               CauseOf(d.what) # "none" => Happened(seen[0], CauseOf(d.what), d.home)
        BY DEF Caused
      <3>2. Fresh(seen[0] \cup {sent}, q, Append(rest[q], sent))
        BY <1>3, <2>1, <2>2, <2>4, <3>1, FreshAppend
      <3> QED
        BY <1>1, <2>4, <3>2
    <2> QED
      BY <1>1, <2>3, <2>4
  <1>5. ASSUME NEW h \in Homes
        PROVE  ShownOnce(seen'[0], shown[h].said, queue'[TextOut(h)])
    <2>1. /\ rest[TextOut(h)] \in Seq(Events)
          /\ ShownOnce(seen[0], shown[h].said, rest[TextOut(h)])
          /\ \/ queue'[TextOut(h)] = rest[TextOut(h)]
             \/ queue'[TextOut(h)] = Append(rest[TextOut(h)], sent)
      BY <1>1, TextOutQueues DEF HeldOnce
    <2>2. /\ ShownOnce(seen[0] \cup {sent}, shown[h].said, rest[TextOut(h)])
          /\ ShownOnce(seen[0] \cup {sent}, shown[h].said,
                       Append(rest[TextOut(h)], sent))
      BY <1>3, <2>1, ShownStill
    <2>3. seen'[0] = seen[0] \cup {sent}
      BY <1>1
    <2> QED
      BY <2>1, <2>2, <2>3
  <1>6. Caused(seen'[0])
    <2>1. \A what, h : Happened(seen[0], what, h) => Happened(seen'[0], what, h)
      BY <1>1 DEF Happened
    <2> QED
      BY <1>1, <1>2, <2>1 DEF Caused
  <1>7. \A what, h : Happened(seen'[0], what, h) =>
           Happened(seen[0], what, h) \/ (what = e.what /\ h = e.home)
    BY <1>1, <1>2 DEF Happened
  <1> QED
    BY <1>4, <1>5, <1>6, <1>7 DEF HeldOnce

-----------------------------------------------------------------------------
(* The steps.                                                              *)

\* What the driver has not published has not happened.
NotYet(where, all) ==
    \A h \in Homes, what \in DOMAIN Before :
       where[h] \in Before[what] => ~ Happened(all, what, h)

\* The parts of the invariant.
LEMMA OnceParts ==
    OnceInv <=> /\ HeldOnce(seen[0], queue, chat)
                /\ Caused(seen[0])
                /\ NotYet(pc, seen[0])
  <1> QED
    BY DEF OnceInv, HeldOnce, TextOut, Caused, NotYet

\* And what a step has to keep of them.
LEMMA OnceKept ==
    ASSUME system' = system, HeldOnce(seen'[0], queue', chat'),
           Caused(seen'[0]), NotYet(pc', seen'[0])
    PROVE  OnceInv'
  <1>1. Queues' = Queues /\ Homes' = Homes
    BY Fixed
  <1> QED
    BY <1>1 DEF OnceInv, HeldOnce, TextOut, Caused, NotYet

\* A module that takes its next event off leaves everything held once, and
\* nothing that this event may be taken for.
LEMMA TakenOnce ==
    ASSUME Inv, OnceInv, NEW q \in Queues, queue[q] # <<>>
    PROVE  LET e == Head(queue[q])
               rest == [queue EXCEPT ![q] = Tail(@)]
           IN  /\ e \in seen[0] /\ e.topic = q[3] /\ e \in Events
               /\ \A what \in Happenings :
                     CauseOf(what) = e.what /\ ReactionOf(what) = q[2] =>
                        ~ Happened(seen[0], what, e.home)
               /\ HeldOnce(seen[0], rest, chat)
               /\ \A r \in Queues : r[2] = q[2] /\ e.what # "opening" =>
                     \A i \in DOMAIN rest[r] : ~ SameHappening(e, rest[r][i])
  <1> DEFINE e == Head(queue[q])
             rest == [queue EXCEPT ![q] = Tail(@)]
  <1>1. /\ queue \in [Queues -> Seq(Events)]
        /\ \A r \in Queues : queue[r] \in Seq(OwnOf(r[1]))
    BY Given DEF InHands
  <1>2. /\ e = queue[q][1] /\ 1 \in DOMAIN queue[q] /\ e \in Events
        /\ \A i \in DOMAIN Tail(queue[q]) :
              Tail(queue[q])[i] = queue[q][i + 1] /\ i + 1 \in DOMAIN queue[q]
    BY <1>1, HeadTailProperties
  <1>3. Fresh(seen[0], q, queue[q])
    BY DEF OnceInv
  <1>4. /\ e \in seen[0] /\ e.topic = q[3]
        /\ \A what \in Happenings :
              CauseOf(what) = e.what /\ ReactionOf(what) = q[2] =>
                 ~ Happened(seen[0], what, e.home)
    BY <1>2, <1>3 DEF Fresh
  <1>5. /\ Fresh(seen[0], q, Tail(queue[q]))
        /\ e.what # "opening" =>
              \A i \in DOMAIN Tail(queue[q]) : ~ SameHappening(e, Tail(queue[q])[i])
    BY <1>1, <1>3, FreshTail
  <1>6. rest[q] = Tail(queue[q]) /\ \A r \in Queues : r # q => rest[r] = queue[r]
    BY <1>1
  <1> HIDE DEF rest
  <1>7. \A r \in Queues : Fresh(seen[0], r, rest[r])
    BY <1>5, <1>6 DEF OnceInv
  <1>8. \A h \in Homes : ShownOnce(seen[0], chat[h].said, rest[TextOut(h)])
    <2> SUFFICES ASSUME NEW h \in Homes
                 PROVE  ShownOnce(seen[0], chat[h].said, rest[TextOut(h)])
      OBVIOUS
    <2>1. ShownOnce(seen[0], chat[h].said, queue[TextOut(h)]) /\ TextOut(h) \in Queues
      BY TextOutQueues DEF OnceInv, TextOut
    <2>2. CASE TextOut(h) = q
      <3>1. ShownOnce(seen[0], chat[h].said, Tail(queue[q]))
        BY <1>2, <2>1, <2>2 DEF ShownOnce
      <3> QED
        BY <1>6, <2>2, <3>1
    <2> QED
      BY <1>6, <2>1, <2>2
  <1>9. ASSUME NEW r \in Queues, r[2] = q[2], e.what # "opening", NEW i \in DOMAIN rest[r]
        PROVE  ~ SameHappening(e, rest[r][i])
    <2>1. CASE r = q
      BY <1>5, <1>6, <1>9, <2>1
    <2>2. CASE r # q
      <3> SUFFICES ASSUME SameHappening(e, queue[r][i]) PROVE FALSE
        BY <1>6, <2>2
      <3>1. i \in DOMAIN queue[r]
        BY <1>6, <2>2
      <3>2. queue[r][i] \in OwnOf(r[1]) /\ e \in OwnOf(q[1])
        BY <1>1, <1>2, <3>1, LenProperties, ElementOfSeq
      <3>3. queue[r][i] \in seen[0] /\ queue[r][i].topic = r[3]
        BY <3>1 DEF OnceInv, Fresh
      <3>4. r[3] = q[3]
        BY <1>4, <3>3 DEF OnceInv, SameHappening
      <3> QED
        BY <1>9, <2>2, <3>2, <3>4, OneReader, Given DEF SameHappening
    <2> QED
      BY <2>1, <2>2
  <1> QED
    BY <1>2, <1>4, <1>7, <1>8, <1>9 DEF HeldOnce, rest

\* A reaction: it is its cause's, and its subscriber's if it does not open.
ReactionTo(r, e, subscriber) ==
    /\ r.topic = TopicOf(r.what) /\ r.home = e.home
    /\ CauseOf(r.what) = e.what /\ e.what \notin {"none", "opening"}
    /\ r.what # "opening" => ReactionOf(r.what) = subscriber

\* What the driver publishes is nobody's reaction.
LEMMA DriverSpeaks == DOMAIN Before = {"init", "yes", "talk"}
                      /\ \A what \in DOMAIN Before : CauseOf(what) = "none"
  <1> QED
    BY DEF Before, CauseOf

\* A module's reaction to what it has taken off is the first.
LEMMA ReactOnce ==
    ASSUME Inv, OnceInv, NEW q \in Queues, queue[q] # <<>>, NEW reaction,
           \/ reaction = <<>>
           \/ \E r \in OnBehalfOf(q[1]) : /\ reaction = <<r>>
                                          /\ ReactionTo(r, Head(queue[q]), q[2]),
           React(q, reaction)
    PROVE  /\ HeldOnce(seen'[0], queue', chat) /\ Caused(seen'[0])
           /\ NotYet(pc, seen'[0])
  <1> DEFINE e == Head(queue[q])
             rest == [queue EXCEPT ![q] = Tail(@)]
  <1>1. /\ e \in seen[0] /\ e.topic = q[3] /\ e \in Events
        /\ \A what \in Happenings :
              CauseOf(what) = e.what /\ ReactionOf(what) = q[2] =>
                 ~ Happened(seen[0], what, e.home)
        /\ HeldOnce(seen[0], rest, chat)
        /\ \A r \in Queues : r[2] = q[2] /\ e.what # "opening" =>
              \A i \in DOMAIN rest[r] : ~ SameHappening(e, rest[r][i])
    BY TakenOnce
  <1>2. Caused(seen[0]) /\ NotYet(pc, seen[0])
    BY OnceParts
  <1>3. CASE reaction = <<>>
    <2>1. queue' = rest /\ seen' = seen
      BY <1>3 DEF React
    <2> HIDE DEF rest
    <2> QED
      BY <1>1, <1>2, <2>1
  <1>4. CASE reaction # <<>>
    <2>1. PICK r \in OnBehalfOf(q[1]) : reaction = <<r>> /\ ReactionTo(r, e, q[2])
      BY <1>4
    <2>2. PublishTo(rest, q[1], r)
      BY <1>4, <2>1 DEF React
    <2>3. /\ r.topic = TopicOf(r.what) /\ r.home = e.home
          /\ CauseOf(r.what) = e.what /\ e.what # "opening"
          /\ r.what # "opening" => ReactionOf(r.what) = q[2]
          /\ CauseOf(r.what) # "none"
      BY <2>1 DEF ReactionTo
    <2>4. r.what \in Happenings
      BY DEF OnBehalfOf, Events
    <2>5. r.what = "opening" \/ ~ Happened(seen[0], r.what, r.home)
      BY <1>1, <2>3, <2>4
    <2>6. Happened(seen[0], CauseOf(r.what), r.home)
      BY <1>1, <2>3 DEF Happened
    <2>7. /\ rest \in [Queues -> Seq(Events)] /\ seen \in [Probes -> SUBSET Events]
          /\ Accepted /\ q[1] \in Stacks
      BY Given, TakenOff, Subscribed DEF InHands
    <2> HIDE DEF rest, e
    <2>8. \A p \in Queues : \A i \in DOMAIN rest[p] :
             ~ (/\ CauseOf(r.what) = rest[p][i].what /\ ReactionOf(r.what) = p[2]
                /\ r.home = rest[p][i].home)
      <3>1. CASE r.what = "opening"
        <4>1. ReactionOf(r.what) = "none"
          BY <3>1 DEF ReactionOf
        <4>2. \A p \in Queues : p[2] # "none"
          BY Subscribed
        <4> QED
          BY <4>1, <4>2
      <3>2. CASE r.what # "opening"
        BY <1>1, <2>3, <3>2 DEF SameHappening
      <3> QED
        BY <3>1, <3>2
    <2>9. /\ HeldOnce(seen'[0], queue', chat)
          /\ Caused(seen'[0])
          /\ \A what, h : Happened(seen'[0], what, h) =>
                Happened(seen[0], what, h) \/ (what = r.what /\ h = r.home)
      BY <1>1, <1>2, <2>2, <2>3, <2>5, <2>6, <2>7, <2>8, PublishOnce
    <2>10. NotYet(pc, seen'[0])
      BY <1>2, <2>3, <2>9, DriverSpeaks DEF NotYet
    <2> QED
      BY <2>9, <2>10
  <1> QED
    BY <1>3, <1>4

\* And so it is when the event is dropped.
LEMMA DropOnce ==
    ASSUME Inv, OnceInv, NEW q \in Queues, queue[q] # <<>>, Drop(q)
    PROVE  /\ HeldOnce(seen'[0], queue', chat) /\ Caused(seen'[0])
           /\ NotYet(pc, seen'[0])
  <1> DEFINE rest == [queue EXCEPT ![q] = Tail(@)]
  <1>1. HeldOnce(seen[0], rest, chat)
    BY TakenOnce
  <1>2. Caused(seen[0]) /\ NotYet(pc, seen[0])
    BY OnceParts
  <1>3. queue' = rest /\ seen' = seen
    BY DEF Drop
  <1> HIDE DEF rest
  <1> QED
    BY <1>1, <1>2, <1>3

\* What cltl-context says is a reaction to what it has read.
LEMMA ContextReacts ==
    ASSUME NEW s, NEW e \in OwnOf(s)
    PROVE  \/ ContextReaction(e) = <<>>
           \/ \E r \in OnBehalfOf(s) : /\ ContextReaction(e) = <<r>>
                                       /\ ReactionTo(r, e, "context")
  <1> SUFFICES ASSUME NEW r \in OnBehalfOf(s), ContextReaction(e) = <<r>>
               PROVE  ReactionTo(r, e, "context")
    BY ContextIsOwn
  <1> USE DEF ReactionTo, TopicOf, CauseOf, ReactionOf, Sourced, Event, ContextReaction
  <1>1. CASE e.what = "init"
    BY <1>1
  <1>2. CASE e.what = "initialized"
    BY <1>2
  <1>3. CASE e.what \notin {"init", "initialized"}
    BY <1>3
  <1> QED
    BY <1>1, <1>2, <1>3

\* And what its InitService says.
LEMMA InitReacts ==
    ASSUME NEW s, NEW e \in OwnOf(s)
    PROVE  \/ InitReaction(e) = <<>>
           \/ \E r \in OnBehalfOf(s) : /\ InitReaction(e) = <<r>>
                                       /\ ReactionTo(r, e, "init")
  <1> SUFFICES ASSUME NEW r \in OnBehalfOf(s), InitReaction(e) = <<r>>
               PROVE  ReactionTo(r, e, "init")
    BY InitIsOwn
  <1> USE DEF ReactionTo, TopicOf, CauseOf, ReactionOf, Sourced, Event, InitReaction
  <1>1. CASE e.what = "started"
    BY <1>1
  <1>2. CASE e.what = "yes"
    BY <1>2
  <1>3. CASE e.what \notin {"started", "yes"}
    BY <1>3
  <1> QED
    BY <1>1, <1>2, <1>3

\* And so is what cltl-eliza says.
LEMMA ElizaReacts ==
    ASSUME NEW q \in Queues, q[2] \in {"eliza", "again"}, NEW e \in OwnOf(q[1]),
           e.topic = q[3], e.topic = TopicOf(e.what)
    PROVE  \/ ElizaReaction(q, e) = <<>>
           \/ \E r \in OnBehalfOf(q[1]) : /\ ElizaReaction(q, e) = <<r>>
                                          /\ ReactionTo(r, e, q[2])
  <1> SUFFICES ASSUME NEW r \in OnBehalfOf(q[1]), ElizaReaction(q, e) = <<r>>
               PROVE  ReactionTo(r, e, q[2])
    BY ElizaIsOwn
  <1>1. CASE q[3] = "intention" /\ e.what = "eliza"
    BY <1>1 DEF ElizaReaction, ReactionTo, TopicOf, CauseOf, ReactionOf, Event
  <1>2. CASE q[3] = "text_in" /\ (system.gated => Worker(q) \in active)
    <2>1. e.what \in {"yes", "talk"}
      BY <1>2 DEF TopicOf
    <2>2. r = Sourced(e, "text_out", IF e.what = "talk" THEN "answer" ELSE "comment")
      BY <1>2 DEF ElizaReaction
    <2>3. q[2] = "eliza"
      BY <1>2, ElizaReads
    <2> QED
      BY <2>1, <2>2, <2>3 DEF ReactionTo, TopicOf, CauseOf, ReactionOf, Sourced, Event
  <1>3. CASE /\ ~(q[3] = "intention" /\ e.what = "eliza")
             /\ ~(q[3] = "text_in" /\ (system.gated => Worker(q) \in active))
    BY <1>3 DEF ElizaReaction
  <1> QED
    BY <1>1, <1>2, <1>3

\* A module's step.
LEMMA HandleOnce ==
    ASSUME Inv, OnceInv, Handle
    PROVE  OnceInv'
  <1>1. system' = system /\ pc' = pc
    BY DEF Handle
  <1>2. PICK q \in Queues : /\ queue[q] # <<>>
                            /\ Context(q) \/ InitService(q) \/ Eliza(q) \/ ChatUI(q)
    BY DEF Handle
  <1> DEFINE e == Head(queue[q])
             rest == [queue EXCEPT ![q] = Tail(@)]
  <1>3. e \in OwnOf(q[1])
    BY <1>2, Given, TakenOff
  <1>4. /\ e \in seen[0] /\ e.topic = q[3] /\ e \in Events
        /\ HeldOnce(seen[0], rest, chat)
    BY <1>2, TakenOnce
  <1>5. e.topic = TopicOf(e.what) /\ Caused(seen[0]) /\ NotYet(pc, seen[0])
    BY <1>4, OnceParts DEF Caused
  <1>6. CASE Context(q)
    <2>1. q[2] = "context" /\ React(q, ContextReaction(e)) /\ chat' = chat
      BY <1>6 DEF Context
    <2> QED
      BY <1>1, <1>2, <1>3, <2>1, ContextReacts, ReactOnce, OnceKept
  <1>7. CASE Eliza(q)
    <2>1. /\ q[2] \in {"eliza", "again"} /\ chat' = chat
          /\ React(q, ElizaReaction(q, e)) \/ Drop(q)
      BY <1>7 DEF Eliza
    <2>2. HeldOnce(seen'[0], queue', chat) /\ Caused(seen'[0]) /\ NotYet(pc, seen'[0])
      BY <1>2, <1>3, <1>4, <1>5, <2>1, ElizaReacts, ReactOnce, DropOnce
    <2> QED
      BY <1>1, <2>1, <2>2, OnceKept
  <1>9. CASE InitService(q)
    <2>1. /\ q[2] = "init" /\ chat' = chat
          /\ React(q, InitReaction(e)) \/ Drop(q)
      BY <1>9 DEF InitService
    <2>2. HeldOnce(seen'[0], queue', chat) /\ Caused(seen'[0]) /\ NotYet(pc, seen'[0])
      BY <1>2, <1>3, <2>1, InitReacts, ReactOnce, DropOnce
    <2> QED
      BY <1>1, <2>1, <2>2, OnceKept
  <1>8. CASE ChatUI(q)
    <2>1. /\ q[2] = "chatui" /\ queue' = rest /\ seen' = seen
          /\ chat' = IF q[3] = "scenario"
                     THEN [chat EXCEPT ![q[1]].scenario = TRUE]
                     ELSE [chat EXCEPT ![q[1]].said = Append(@, e)]
      BY <1>8 DEF ChatUI, React
    <2>2. /\ q[1] \in Homes /\ q[3] \in {"scenario", "text_out"}
          /\ q = <<q[1], q[2], q[3]>>
      BY <2>1, Subscribed DEF ModuleWith, Homes, Reads
    <2>3. chat \in [Homes -> [scenario : BOOLEAN, said : Seq(Events)]]
      BY Given DEF Shown
    <2>4. ASSUME NEW h \in Homes
          PROVE  ShownOnce(seen[0], chat'[h].said, rest[TextOut(h)])
      <3>1. ShownOnce(seen[0], chat[h].said, rest[TextOut(h)])
        BY <1>4 DEF HeldOnce
      <3>2. CASE h = q[1] /\ q[3] # "scenario"
        <4>1. q = TextOut(h)
          BY <2>1, <2>2, <3>2 DEF TextOut
        <4>2. /\ queue[q] \in Seq(Events) /\ chat[h].said \in Seq(Events)
              /\ rest[q] = Tail(queue[q])
          BY <2>3, Given DEF InHands
        <4>3. Fresh(seen[0], q, queue[q]) /\ ShownOnce(seen[0], chat[h].said, queue[q])
          BY <4>1 DEF OnceInv, TextOut
        <4>4. ShownOnce(seen[0], Append(chat[h].said, e), Tail(queue[q]))
          BY <1>2, <4>2, <4>3, ShownNext
        <4>5. chat'[h].said = Append(chat[h].said, e)
          BY <2>1, <2>3, <3>2
        <4> QED
          BY <4>1, <4>2, <4>4, <4>5
      <3>3. CASE ~(h = q[1] /\ q[3] # "scenario")
        <4>1. chat'[h].said = chat[h].said
          BY <2>1, <2>3, <3>3
        <4> QED
          BY <3>1, <4>1
      <3> QED
        BY <3>2, <3>3
    <2> HIDE DEF rest, e
    <2>5. HeldOnce(seen'[0], queue', chat')
      BY <1>4, <2>1, <2>4 DEF HeldOnce
    <2> QED
      BY <1>1, <1>5, <2>1, <2>5, OnceKept
  <1> QED
    BY <1>2, <1>6, <1>7, <1>8, <1>9

\* A call that leaves the broker alone, and is none of those that publish.
LEMMA QuietOnce ==
    ASSUME Inv, OnceInv, NEW h \in Homes, NEW from, NEW to, Step(h, from, to),
           \A what \in DOMAIN Before : to \in Before[what] => from \in Before[what],
           UNCHANGED <<system, queue, seen, chat>>
    PROVE  OnceInv'
  <1>1. HeldOnce(seen[0], queue, chat) /\ Caused(seen[0]) /\ NotYet(pc, seen[0])
    BY OnceParts
  <1>2. pc[h] = from /\ pc' = [pc EXCEPT ![h] = to]
    BY DEF Step
  <1>3. NotYet(pc', seen[0])
    BY <1>1, <1>2, Given DEF NotYet
  <1> QED
    BY <1>1, <1>3, OnceKept

\* A call that publishes something for the first time, and shows no more than
\* a person's own line.
LEMMA SpokenOnce ==
    ASSUME Inv, OnceInv, system' = system, NEW h \in Homes, NEW from, NEW to,
           Step(h, from, to), NEW what \in DOMAIN Before,
           from \in Before[what], to \notin Before[what],
           \A w \in DOMAIN Before : to \in Before[w] => from \in Before[w],
           NEW s \in Stacks, NEW e \in OnBehalfOf(s), PublishTo(queue, s, e),
           e.what = what, e.home = h, e.topic = TopicOf(what),
           \A g \in Homes : \/ chat'[g].said = chat[g].said
                            \/ chat'[g].said = Append(chat[g].said, e)
    PROVE  OnceInv'
  <1>1. HeldOnce(seen[0], queue, chat) /\ Caused(seen[0]) /\ NotYet(pc, seen[0])
    BY OnceParts
  <1>2. pc[h] = from /\ pc' = [pc EXCEPT ![h] = to]
    BY DEF Step
  <1>3. /\ queue \in [Queues -> Seq(Events)] /\ seen \in [Probes -> SUBSET Events]
        /\ chat \in [Homes -> [scenario : BOOLEAN, said : Seq(Events)]]
        /\ Accepted /\ e \in Events
    BY Given DEF InHands, Shown, OnBehalfOf
  <1>4. ~ Happened(seen[0], e.what, e.home)
    BY <1>1, <1>2 DEF NotYet
  <1>5. CauseOf(e.what) = "none" /\ e.topic # "text_out"
    BY DriverSpeaks DEF TopicOf
  <1>6. \A q \in Queues : \A i \in DOMAIN queue[q] : queue[q][i].what # "none"
    <2> SUFFICES ASSUME NEW q \in Queues, NEW i \in DOMAIN queue[q]
                 PROVE  queue[q][i].what # "none"
      OBVIOUS
    <2>1. queue[q] \in Seq(Events)
      BY <1>3
    <2>2. queue[q][i] \in Events
      BY <2>1, LenProperties, ElementOfSeq
    <2> QED
      BY <2>2 DEF Events, Happenings
  <1>7. /\ HeldOnce(seen'[0], queue', chat)
        /\ Caused(seen'[0])
        /\ \A w, g : Happened(seen'[0], w, g) =>
              Happened(seen[0], w, g) \/ (w = e.what /\ g = e.home)
    <2>1. \A q \in Queues : \A i \in DOMAIN queue[q] :
             ~ (/\ CauseOf(e.what) = queue[q][i].what /\ ReactionOf(e.what) = q[2]
                /\ e.home = queue[q][i].home)
      BY <1>5, <1>6
    <2>2. e.topic = TopicOf(e.what) /\ CauseOf(e.what) = "none"
      BY <1>5
    <2> QED
      BY <1>1, <1>3, <1>4, <2>1, <2>2, PublishOnce
  <1>8. ASSUME NEW g \in Homes
        PROVE  ShownOnce(seen'[0], chat'[g].said, queue'[TextOut(g)])
    <2>1. ShownOnce(seen'[0], chat[g].said, queue'[TextOut(g)])
      BY <1>7 DEF HeldOnce
    <2>2. chat[g].said \in Seq(Events)
      BY <1>3
    <2>3. ShownOnce(seen'[0], Append(chat[g].said, e), queue'[TextOut(g)])
      BY <1>3, <1>5, <2>1, <2>2, ShownOwn
    <2>4. chat'[g].said \in {chat[g].said, Append(chat[g].said, e)}
      OBVIOUS
    <2> QED
      BY <2>1, <2>3, <2>4
  <1>9. HeldOnce(seen'[0], queue', chat')
    BY <1>7, <1>8 DEF HeldOnce
  <1>10. NotYet(pc', seen'[0])
    <2> SUFFICES ASSUME NEW g \in Homes, NEW w \in DOMAIN Before,
                        pc'[g] \in Before[w], Happened(seen'[0], w, g)
                 PROVE  FALSE
      BY DEF NotYet
    <2>1. pc[g] \in Before[w]
      BY <1>2, Given
    <2>2. w = what /\ g = h
      BY <1>1, <1>7, <2>1 DEF NotYet
    <2> QED
      BY <1>2, <2>2, Given
  <1> QED
    BY <1>7, <1>9, <1>10, OnceKept

\* A call of the driver.
LEMMA DriveOnce ==
    ASSUME Inv, OnceInv, NEW h \in Homes, Drive(h)
    PROVE  OnceInv'
  <1>1. CASE Open(h)
    <2> DEFINE e == Event("intention", "init", <<>>, h)
    <2>1. /\ system' = system /\ chat' = chat /\ Step(h, "closed", "opening")
          /\ PublishTo(queue, Side(h), e)
      BY <1>1 DEF Open
    <2>2. Side(h) \in Stacks
      BY Given, StacksAreNumbers
    <2>3. e \in OnBehalfOf(Side(h))
      BY OwnLine, NobodyAtTheServer DEF Side, Topics, Happenings
    <2>4. e.what = "init" /\ e.home = h /\ e.topic = TopicOf("init")
      BY DEF Event, TopicOf
    <2>5. /\ "init" \in DOMAIN Before /\ "closed" \in Before["init"]
          /\ "opening" \notin Before["init"]
          /\ \A w \in DOMAIN Before : "opening" \in Before[w] => "closed" \in Before[w]
      BY DEF Before
    <2> HIDE DEF e
    <2> QED
      BY <2>1, <2>2, <2>3, <2>4, <2>5, SpokenOnce
  <1>2. ASSUME NEW from, NEW what, NEW to, Send(h, from, what, to),
               <<from, what, to>> \in {<<"opened", "yes", "confirming">>,
                                       <<"confirmed", "talk", "said">>}
        PROVE  OnceInv'
    <2> DEFINE e == Event("text_in", what, <<>>, h)
    <2>1. system' = system
      BY <1>2 DEF Send
    <2>2. what \in Happenings /\ what \in {"yes", "talk"}
      BY <1>2 DEF Happenings
    <2>3. CASE chat[h].scenario
      <3>1. /\ Step(h, from, to) /\ PublishTo(queue, h, e)
            /\ chat' = [chat EXCEPT ![h].said = Append(@, e)]
        BY <1>2, <2>3 DEF Send
      <3>2. h \in Stacks
        BY Given, StacksAreNumbers
      <3>3. e \in OnBehalfOf(h)
        BY <2>2, OwnLine, NobodyAtTheServer DEF Topics
      <3>4. e.what = what /\ e.home = h /\ e.topic = TopicOf(what)
        BY <2>2 DEF Event, TopicOf
      <3> HIDE DEF e
      <3>5. /\ what \in DOMAIN Before /\ from \in Before[what] /\ to \notin Before[what]
            /\ \A w \in DOMAIN Before : to \in Before[w] => from \in Before[w]
        BY <1>2 DEF Before
      <3>6. \A g \in Homes : \/ chat'[g].said = chat[g].said
                             \/ chat'[g].said = Append(chat[g].said, e)
        BY <3>1, Given DEF Shown
      <3> QED
        BY <2>1, <3>1, <3>2, <3>3, <3>4, <3>5, <3>6, SpokenOnce
    <2>4. CASE ~ chat[h].scenario
      <3>1. Step(h, from, "refused") /\ UNCHANGED <<system, queue, seen, chat>>
        BY <1>2, <2>4 DEF Send
      <3>2. \A w \in DOMAIN Before : "refused" \notin Before[w]
        BY DEF Before
      <3> QED
        BY <3>1, <3>2, QuietOnce
    <2> QED
      BY <2>3, <2>4
  <1>3. ASSUME NEW from, NEW to, Step(h, from, to),
               UNCHANGED <<system, queue, seen, chat>>,
               <<from, to>> \in {<<"opening", "scenario">>, <<"scenario", "greeted">>,
                                 <<"greeted", "online">>, <<"online", "opened">>,
                                 <<"confirming", "desired">>,
                                 <<"desired", "confirmed">>, <<"said", "done">>}
        PROVE  OnceInv'
    <2>1. \A w \in DOMAIN Before : to \in Before[w] => from \in Before[w]
      BY <1>3 DEF Before
    <2> QED
      BY <1>3, <2>1, QuietOnce
  <1>4. CASE \/ Await(h, "opening", "scenario", "started", "scenario")
             \/ Await(h, "scenario", "text_out", "greeting", "greeted")
             \/ Await(h, "confirming", "desire", "initialized", "desired")
             \/ Await(h, "desired", "intention", "eliza", "confirmed")
    BY <1>3, <1>4 DEF Await
  <1>5. CASE AwaitScenario(h) \/ StartSession(h) \/ Receive(h)
    BY <1>3, <1>5 DEF AwaitScenario, StartSession, Receive
  <1>6. CASE Send(h, "opened", "yes", "confirming") \/ Send(h, "confirmed", "talk", "said")
    BY <1>2, <1>6
  <1> QED
    BY <1>1, <1>4, <1>5, <1>6 DEF Drive

\* Every step keeps everything from happening twice.
LEMMA NextOnce ==
    ASSUME Inv, OnceInv, [Next]_vars
    PROVE  OnceInv'
  <1>1. CASE UNCHANGED <<system, queue, seen, chat, pc>>
    <2>1. HeldOnce(seen[0], queue, chat) /\ Caused(seen[0]) /\ NotYet(pc, seen[0])
      BY OnceParts
    <2> QED
      BY <1>1, <2>1, OnceKept
  <1>2. CASE Handle
    BY <1>2, HandleOnce
  <1>3. ASSUME NEW h \in Homes, Drive(h) PROVE OnceInv'
    BY <1>3, DriveOnce
  <1> QED
    BY <1>1, <1>2, <1>3 DEF Next, BindLate, vars

\* At first nothing has happened.
LEMMA InitOnce == Init => OnceInv
  <1> SUFFICES ASSUME Init PROVE OnceInv
    OBVIOUS
  <1>1. /\ seen[0] = {} /\ \A q \in Queues : queue[q] = <<>>
        /\ \A h \in Homes : chat[h].said = <<>>
    BY DEF Init, Probes
  <1>2. \A q \in Queues : Fresh(seen[0], q, queue[q])
    BY <1>1 DEF Fresh
  <1>3. \A h \in Homes : ShownOnce(seen[0], chat[h].said, queue[TextOut(h)])
    BY <1>1 DEF ShownOnce
  <1>4. HeldOnce(seen[0], queue, chat)
    BY <1>2, <1>3 DEF HeldOnce
  <1>5. Caused(seen[0]) /\ NotYet(pc, seen[0])
    BY <1>1 DEF Caused, NotYet, Happened
  <1> QED
    BY <1>4, <1>5, OnceParts

\* No greeting, comment or answer is shown twice, in every deployment that the
\* constructors accept, with any number of tenants and any modules on either
\* side.  (Eliza's opening line is.)
THEOREM ConversationAnsweredOnce == Spec => []AnsweredOnce
  <1>1. Init => Inv /\ OnceInv
    BY InitInv, InitOnce
  <1>2. Inv /\ OnceInv /\ [Next]_vars => (Inv /\ OnceInv)'
    BY NextInv, NextOnce
  <1>3. Inv /\ OnceInv => AnsweredOnce
    <2> SUFFICES ASSUME OnceInv, NEW h \in Homes,
                        NEW i \in DOMAIN chat[h].said, NEW j \in DOMAIN chat[h].said,
                        chat[h].said[i] = chat[h].said[j],
                        chat[h].said[i].topic = "text_out",
                        chat[h].said[i].what # "opening"
                 PROVE  i = j
      BY DEF AnsweredOnce
    <2>1. ShownOnce(seen[0], chat[h].said, queue[TextOut(h)])
      BY DEF OnceInv, TextOut
    <2> QED
      BY <2>1 DEF ShownOnce, SameHappening
  <1> QED
    BY <1>1, <1>2, <1>3, PTL DEF Spec

=============================================================================
