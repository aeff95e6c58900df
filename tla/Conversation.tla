---------------------------- MODULE Conversation ----------------------------
(***************************************************************************)
(* Conversations held through the broker (drivers/conversation.py, chat.py,*)
(* bdi.py), in a deployment that topology.py has accepted: one stack, a    *)
(* client/server split, or a server and its tenants (tenants.py).          *)
(*                                                                         *)
(* A stack's bus has a tenant or has none, and that decides which routing  *)
(* keys it publishes on and binds.  Every subscription is a queue of its   *)
(* own, so what arrives on two topics may be handled in either order.      *)
(* Probes only record, which is done on delivery here: whoever reads one   *)
(* may be late.  The modules are external: they do what the driver's       *)
(* documentation and the configuration say of them.                        *)
(*                                                                         *)
(* Stack 0 is the server, or the only one.  An event carries its topic,    *)
(* its tenant, and (history) the stack whose conversation it belongs to.   *)
(***************************************************************************)
EXTENDS Deployments

CONSTANTS
    Systems,    \* the deployments somebody may write down
    Faults      \* what may go wrong in this model

\* A stack's modules are a set of keys, and a tenant id a sequence of words.
ASSUME SystemsAssumption ==
    /\ Faults \subseteq {"unbound", "overwrite"}
    /\ \A s \in Systems : /\ s.kind \in {"tenants", "split", "single"}
                          /\ s.tenants \in Seq(Seq(STRING))

VARIABLES
    system,     \* the one that is deployed
    unbound,    \* the queues the broker has not bound yet
    queue,      \* per queue: what was routed to it
    seen,       \* per probe: what it holds
    chat,       \* per chat UI: its scenario, and the utterances it shows
    active,     \* the gated workers that an intention has activated
    pc,         \* per conversation: where its driver is
    initial,    \* its client's initial_sequence
    lost        \* history: whether an event was dropped that a module waits for

vars == <<system, unbound, queue, seen, chat, active, pc, initial, lost>>

-----------------------------------------------------------------------------
(* Deployments and their buses.                                            *)

SystemOk(s) ==
    CASE s.kind = "tenants" -> TenantDeploymentOk(s.server, s.client, s.tenants)
      [] s.kind = "split" -> DeploymentOk(s.server, s.client)
      [] s.kind = "single" -> TRUE

Stacks == 0..(CASE system.kind = "tenants" -> Len(system.tenants)
                [] system.kind = "split" -> 1
                [] system.kind = "single" -> 0)

ModulesOf(s) == IF s = 0 THEN system.server ELSE system.client

\* The stacks that a person talks to.
Homes == {s \in Stacks : "chatui" \in ModulesOf(s)}

\* The bus and the probe a conversation is driven with: its TenantView's, or
\* the server's.
Side(h) == IF system.kind = "tenants" THEN h ELSE 0

Probes == {0} \cup {Side(h) : h \in Homes}

\* Mutant: CLTL_TENANT is not passed to a tenant's stack.
TenantOfNone(s) == <<>>

\* CLTL_TENANT of a stack: <<>> if it is empty.
TenantOf(s) ==
    IF system.kind = "tenants" /\ s > 0 THEN system.tenants[s] ELSE <<>>

\* binding_key: what follows the topic in the key that a bus binds.
BoundSuffix(bus) == IF bus = <<>> THEN <<"#">> ELSE bus

\* The tenant an event goes out with: the bus's, or else its own.
PublishedAs(bus, tenant) == IF bus = <<>> THEN tenant ELSE bus

\* A topic exchange: * stands for one word and # for any number of them.
Matches(pattern, key) ==
    \E upto \in [0..Len(pattern) -> 0..Len(key)] :
        /\ upto[0] = 0 /\ upto[Len(pattern)] = Len(key)
        /\ \A i \in 1..Len(pattern) :
              /\ upto[i - 1] <= upto[i]
              /\ pattern[i] # "#" =>
                    /\ upto[i] = upto[i - 1] + 1
                    /\ pattern[i] \in {"*", key[upto[i]]}

-----------------------------------------------------------------------------
(* Subscriptions, from base.config and the overlays.                       *)

Gating == IF system.gated THEN {"intention"} ELSE {}

\* cltl-context's ContextService and BDIService, its InitService, cltl-chat-ui,
\* and cltl-eliza: "again" is the second subscription of its TopicWorker, which
\* takes the intention topic from the list of its topics and then once more.
Reads(subscriber) ==
    CASE subscriber = "context" -> {"intention", "desire"}
      [] subscriber = "init" -> {"intention", "scenario", "text_in"}
      [] subscriber = "chatui" -> {"scenario", "text_out"}
      [] subscriber = "eliza" -> {"text_in"} \cup Gating
      [] subscriber = "again" -> Gating

ModuleWith(subscriber) ==
    CASE subscriber = "init" -> "context"
      [] subscriber = "again" -> "eliza"
      [] OTHER -> subscriber

Topics == {"intention", "scenario", "desire", "text_in", "text_out"}

Queues == {q \in Stacks \X {"context", "init", "chatui", "eliza", "again"} \X Topics :
              ModuleWith(q[2]) \in ModulesOf(q[1]) /\ q[3] \in Reads(q[2])}

\* TENANT_READY_TOPICS.
ReadyTopics == {"intention", "text_in"}

\* What else listens there: cltl-emissor-data, and cltl-context's other services.
AlsoRead(s) ==
    (IF "emissor" \in ModulesOf(s) THEN {"text_in"} ELSE {})
        \cup (IF "context" \in ModulesOf(s) THEN ReadyTopics ELSE {})

\* _await_tenant_bindings: somebody is bound on each of them, per tenant.
Started(missing) ==
    system.kind = "tenants" =>
        \A s \in Stacks \ {0}, t \in ReadyTopics :
            t \in AlsoRead(s) \/ \E q \in Queues \ missing : q[1] = s /\ q[3] = t

\* "The tenant that came up last has had the least time" (tenants.py): a
\* queue of that stack or of the server may be bound later than the others.
Late == {q \in Queues : q[1] = 0 \/ q[1] + 1 \notin Stacks}

Event(topic, what, tenant, home) ==
    [topic |-> topic, what |-> what, tenant |-> tenant, home |-> home]

Init ==
    /\ system \in {s \in Systems : SystemOk(s)}
    /\ unbound \in {{}} \cup (IF "unbound" \in Faults THEN {{q} : q \in Late} ELSE {})
    /\ Started(unbound)
    /\ queue = [q \in Queues |-> <<>>]
    /\ seen = [p \in Probes |-> {}]
    /\ chat = [h \in Homes |-> [scenario |-> FALSE, said |-> <<>>]]
    /\ active = {}
    /\ pc = [h \in Homes |-> "closed"]
    /\ initial = [h \in Homes |-> 0]
    /\ lost = FALSE

\* source=event: the reply has the tenant of what it answers.
Sourced(e, topic, what) == Event(topic, what, e.tenant, e.home)

\* cltl-context: opens the scenario, and hands the conversation over.
ContextReaction(e) ==
    CASE e.what = "init" -> <<Sourced(e, "scenario", "started")>>
      [] e.what = "initialized" -> <<Sourced(e, "intention", "eliza")>>
      [] OTHER -> <<>>

\* Its InitService: greets, and takes the answer.
InitReaction(e) ==
    CASE e.what = "started" -> <<Sourced(e, "text_out", "greeting")>>
      [] e.what = "yes" -> <<Sourced(e, "desire", "initialized")>>
      [] OTHER -> <<>>

\* What cltl-context would ignore is left out of its queues.
Minds(subscriber, e) ==
    CASE subscriber = "context" -> ContextReaction(e) # <<>>
      [] subscriber = "init" -> e.topic = "intention" \/ InitReaction(e) # <<>>
      [] OTHER -> TRUE

\* Publish e on the bus of stack s; `rest` are the queues as the publisher
\* leaves them.
PublishTo(rest, s, e) ==
    LET sent == [e EXCEPT !.tenant = PublishedAs(TenantOf(s), e.tenant)]
        Hears(bus) == Matches(BoundSuffix(TenantOf(bus)), sent.tenant)
        readers == {q \in Queues :
                      q[3] = sent.topic /\ Hears(q[1]) /\ Minds(q[2], sent)}
    IN  /\ queue' = [q \in Queues |->
                        IF q \in readers \ unbound
                        THEN Append(rest[q], sent) ELSE rest[q]]
        /\ seen' = [p \in Probes |->
                        IF Hears(p) THEN seen[p] \cup {sent} ELSE seen[p]]
        /\ lost' = (lost \/ readers \cap unbound # {})

\* The broker binds the last queue.
BindLate ==
    /\ unbound # {}
    /\ unbound' = {}
    /\ UNCHANGED <<system, queue, seen, chat, active, pc, initial, lost>>

-----------------------------------------------------------------------------
(* The modules: take an event off a queue, and react to it.                *)

\* TopicWorker._check_intention: a worker that is gated on an intention is
\* active from when that one is delivered to when another one is.  (Their names
\* are here those of the intentions, "init" and "eliza".)
Worker(q) == <<q[1], IF q[2] = "again" THEN "eliza" ELSE q[2]>>

ActiveAfter(q, e) ==
    IF q[3] # "intention" THEN active
    ELSE IF e.what = Worker(q)[2] THEN active \cup {Worker(q)}
                                  ELSE active \ {Worker(q)}

\* cltl-eliza: a line of its own on activation, and a reply to anything.
ElizaReaction(q, e) ==
    CASE q[3] = "intention" /\ e.what = "eliza" ->
            <<Event("text_out", "opening", <<>>, e.home)>>
      [] q[3] = "text_in" /\ (system.gated => Worker(q) \in active) ->
            <<Sourced(e, "text_out", IF e.what = "talk" THEN "answer"
                                                        ELSE "comment")>>
      [] OTHER -> <<>>

React(q, reaction) ==
    LET rest == [queue EXCEPT ![q] = Tail(@)] IN
    IF reaction = <<>>
    THEN queue' = rest /\ UNCHANGED <<seen, lost>>
    ELSE PublishTo(rest, q[1], reaction[1])

\* The event is dropped, with nothing logged.
Drop(q) ==
    /\ queue' = [queue EXCEPT ![q] = Tail(@)]
    /\ lost' = TRUE
    /\ UNCHANGED seen

Context(q) ==
    /\ q[2] = "context"
    /\ React(q, ContextReaction(Head(queue[q])))
    /\ UNCHANGED <<chat, active>>

\* Gated on `init`: what comes before the activation "is dropped and the
\* handshake stalls with no error" (integration-testing-design.md).
InitService(q) ==
    /\ q[2] = "init"
    /\ IF InitReaction(Head(queue[q])) = <<>> \/ Worker(q) \in active
       THEN React(q, InitReaction(Head(queue[q])))
       ELSE Drop(q)
    /\ active' = ActiveAfter(q, Head(queue[q]))
    /\ UNCHANGED chat

\* The worker's buffer has one slot, which the next event it accepts overwrites.
Overwritten(q) ==
    \E r \in Queues : LET waiting == IF r = q THEN Tail(queue[r]) ELSE queue[r] IN
        Worker(r) = Worker(q) /\ waiting # <<>> /\ Head(waiting).what # "init"

Eliza(q) ==
    LET reaction == ElizaReaction(q, Head(queue[q])) IN
    /\ q[2] \in {"eliza", "again"}
    /\ \/ React(q, reaction)
       \/ "overwrite" \in Faults /\ reaction # <<>> /\ Overwritten(q) /\ Drop(q)
    /\ active' = ActiveAfter(q, Head(queue[q]))
    /\ UNCHANGED chat

\* cltl-chat-ui: knows the scenario from its event, and shows what is said.
ChatUI(q) ==
    LET e == Head(queue[q]) IN
    /\ q[2] = "chatui"
    /\ React(q, <<>>)
    /\ chat' = IF q[3] = "scenario"
               THEN [chat EXCEPT ![q[1]].scenario = TRUE]
               ELSE [chat EXCEPT ![q[1]].said = Append(@, e)]
    /\ UNCHANGED active

Handle ==
    /\ \E q \in Queues : /\ queue[q] # <<>>
                         /\ Context(q) \/ InitService(q) \/ Eliza(q) \/ ChatUI(q)
    /\ UNCHANGED <<system, unbound, pc, initial>>

-----------------------------------------------------------------------------
(* The driver.  One test drives every conversation, one call at a time.    *)

BetweenCalls == {"closed", "opened", "confirmed", "said", "done"}

Step(h, from, to) ==
    /\ \A g \in Homes \ {h} : pc[g] \in BetweenCalls
    /\ pc[h] = from
    /\ pc' = [pc EXCEPT ![h] = to]

\* Conversation.open: publish the init intention.
Open(h) ==
    /\ Step(h, "closed", "opening")
    /\ PublishTo(queue, Side(h), Event("intention", "init", <<>>, h))
    /\ UNCHANGED <<system, unbound, chat, active, initial>>

\* probe.await_event.
Await(h, from, topic, what, to) ==
    /\ Step(h, from, to)
    /\ \E e \in seen[Side(h)] : e.topic = topic /\ e.what = what
    /\ UNCHANGED <<system, unbound, queue, seen, chat, active, initial, lost>>

\* Mutant: await_scenario looks at the chat's id, which is always there.
AwaitScenarioById(h) ==
    /\ Step(h, "greeted", "online")
    /\ UNCHANGED <<system, unbound, queue, seen, chat, active, initial, lost>>

\* ChatClient.await_scenario.
AwaitScenario(h) ==
    /\ Step(h, "greeted", "online")
    /\ chat[h].scenario
    /\ UNCHANGED <<system, unbound, queue, seen, chat, active, initial, lost>>

\* Mutant: initial_sequence is that of the next utterance but one.
StartSessionPast(h) ==
    /\ Step(h, "online", "opened")
    /\ initial' = [initial EXCEPT ![h] = Len(chat[h].said) + 1]
    /\ UNCHANGED <<system, unbound, queue, seen, chat, active, lost>>

\* ChatClient.start_session.
StartSession(h) ==
    /\ Step(h, "online", "opened")
    /\ initial' = [initial EXCEPT ![h] = Len(chat[h].said)]
    /\ UNCHANGED <<system, unbound, queue, seen, chat, active, lost>>

\* ChatClient.send: the chat UI shows the utterance and publishes it; without
\* a scenario it raises ValueError.
Send(h, from, what, to) ==
    LET e == Event("text_in", what, <<>>, h) IN
    /\ IF chat[h].scenario
       THEN /\ Step(h, from, to)
            /\ chat' = [chat EXCEPT ![h].said = Append(@, e)]
            /\ PublishTo(queue, h, e)
       ELSE /\ Step(h, from, "refused")
            /\ UNCHANGED <<chat, queue, seen, lost>>
    /\ UNCHANGED <<system, unbound, active, initial>>

\* What the agent has said since the session was started.
SaidSince(h) ==
    {i \in initial[h] + 1..Len(chat[h].said) : chat[h].said[i].topic = "text_out"}

\* ChatClient.receive.
Receive(h) ==
    /\ Step(h, "said", "done")
    /\ SaidSince(h) # {}
    /\ UNCHANGED <<system, unbound, queue, seen, chat, active, initial, lost>>

\* open(), confirm(), say() and replies().
Drive(h) ==
    \/ Open(h)
    \/ Await(h, "opening", "scenario", "started", "scenario")
    \/ Await(h, "scenario", "text_out", "greeting", "greeted")
    \/ AwaitScenario(h)
    \/ StartSession(h)
    \/ Send(h, "opened", "yes", "confirming")
    \/ Await(h, "confirming", "desire", "initialized", "desired")
    \/ Await(h, "desired", "intention", "eliza", "confirmed")
    \/ Send(h, "confirmed", "talk", "said")
    \/ Receive(h)

Next == Handle \/ BindLate \/ \E h \in Homes : Drive(h)

Spec == Init /\ [][Next]_vars

\* Something happens as long as something can: queues are served, and nobody
\* gives up, every timeout being long enough.
FairSpec == Spec /\ WF_vars(Next)

-----------------------------------------------------------------------------
(* Properties.                                                             *)

Happenings == {"init", "started", "greeting", "yes", "initialized", "eliza",
               "opening", "talk", "answer", "comment"}

Events == [topic : Topics, what : Happenings, home : Homes,
           tenant : {<<>>} \cup {TenantOf(s) : s \in Stacks}]

\* The types of the variables.
TypeOK ==
    /\ system \in Systems /\ SystemOk(system)
    /\ unbound \subseteq Queues
    /\ queue \in [Queues -> Seq(Events)]
    /\ seen \in [Probes -> SUBSET Events]
    /\ chat \in [Homes -> [scenario : BOOLEAN, said : Seq(Events)]]
    /\ active \subseteq Stacks \X {"init", "eliza"}
    /\ pc \in [Homes -> BetweenCalls \cup
                 {"opening", "scenario", "greeted", "online", "confirming",
                  "desired", "refused"}]
    /\ initial \in [Homes -> Nat]
    /\ \A h \in Homes : initial[h] <= Len(chat[h].said)
    /\ lost \in BOOLEAN

\* What reaches a tenant, its person and its probe, is its own: "it can
\* neither reach nor be reached by another tenant" (tenants.py).
OwnTenantOnly ==
    system.kind = "tenants" =>
        /\ \A p \in Probes \ {0} : \A e \in seen[p] : e.home = p
        /\ \A h \in Homes \ {0} : \A e \in Range(chat[h].said) : e.home = h

\* Nothing the server relays is without a tenant, or under another's: all of
\* it finds its way back (test_the_server_relays_each_tenant_to_itself).
RelayedToItself ==
    system.kind = "tenants" => \A e \in seen[0] : e.tenant = system.tenants[e.home]

\* Nobody is greeted twice and no utterance is answered twice: what the
\* constructors refuse would be "delivered to both and processed twice"
\* (topology.py).  Eliza's opening line is excepted: with two
\* subscriptions to the intention topic it is said twice.
AnsweredOnce ==
    \A h \in Homes : \A i, j \in DOMAIN chat[h].said :
        /\ chat[h].said[i] = chat[h].said[j]
        /\ chat[h].said[i].topic = "text_out" /\ chat[h].said[i].what # "opening"
        => i = j

\* Every conversation gets to its end, in whatever order its probe and its
\* chat UI hear of the scenario, and, where eliza is not gated, with an
\* answer to what was said -- unless an event was published before its queue
\* was bound, came to InitService before its activation, or was overwritten in
\* eliza's buffer.
ConversationsComplete ==
    <>(lost \/ \A h \in Homes :
                  /\ pc[h] = "done"
                  /\ ~system.gated =>
                        \E e \in Range(chat[h].said) : e.what = "answer")

\* The sequence number keeps replies() from taking what the agent said
\* "before the test connected (an init greeting, say)" (chat.py,
\* start_session) for a reply.
RepliesNotGreeting ==
    \A h \in Homes : pc[h] = "done" =>
        \E i \in SaidSince(h) : chat[h].said[i].what # "greeting"

-----------------------------------------------------------------------------
(* Why nothing is answered twice (Conversation_proof).                     *)

\* The topic of each happening, what it is the reaction to, and whose.
TopicOf(what) ==
    CASE what \in {"init", "eliza"} -> "intention"
      [] what = "started" -> "scenario"
      [] what = "initialized" -> "desire"
      [] what \in {"yes", "talk"} -> "text_in"
      [] OTHER -> "text_out"

CauseOf(what) ==
    CASE what = "started" -> "init"
      [] what = "greeting" -> "started"
      [] what \in {"initialized", "comment"} -> "yes"
      [] what = "eliza" -> "initialized"
      [] what = "opening" -> "eliza"
      [] what = "answer" -> "talk"
      [] OTHER -> "none"

\* (Both of eliza's subscribers open.)
ReactionOf(what) ==
    CASE what \in {"started", "eliza"} -> "context"
      [] what \in {"greeting", "initialized"} -> "init"
      [] what \in {"comment", "answer"} -> "eliza"
      [] OTHER -> "none"

\* `all` is what the probe of stack 0 has seen: its bus has no tenant, and so
\* that is everything.
Happened(all, what, h) == \E e \in all : e.what = what /\ e.home = h

SameHappening(d, e) == d.what = e.what /\ d.home = e.home

\* Where the driver of a conversation is before it has published something.
Before ==
    LET opened == {"opening", "scenario", "greeted", "online", "opened"}
    IN  [init |-> {"closed"},
         yes |-> {"closed"} \cup opened,
         talk |-> {"closed", "confirming", "desired", "confirmed"} \cup opened]

\* What waits in queue q, eliza's openings apart, is there once, and its
\* subscriber has not reacted to it.
Fresh(all, q, waiting) ==
    \A i \in DOMAIN waiting :
        /\ waiting[i] \in all /\ waiting[i].topic = q[3]
        /\ \A j \in DOMAIN waiting :
              waiting[i].what # "opening" /\ SameHappening(waiting[i], waiting[j]) => i = j
        /\ \A what \in Happenings :
              CauseOf(what) = waiting[i].what /\ ReactionOf(what) = q[2] =>
                 ~ Happened(all, what, waiting[i].home)

\* What the agent says is shown once, and no longer waits to be.
ShownOnce(all, said, waiting) ==
    \A i \in DOMAIN said : said[i].topic = "text_out" /\ said[i].what # "opening" =>
        /\ said[i] \in all
        /\ \A j \in DOMAIN said :
              said[j].topic = "text_out" /\ SameHappening(said[i], said[j]) => i = j
        /\ \A j \in DOMAIN waiting : ~ SameHappening(said[i], waiting[j])

\* Nothing happens without its cause, and so nothing happens twice.
OnceInv ==
    /\ \A q \in Queues : Fresh(seen[0], q, queue[q])
    /\ \A h \in Homes :
          ShownOnce(seen[0], chat[h].said, queue[<<h, "chatui", "text_out">>])
    /\ \A e \in seen[0] :
          /\ e.topic = TopicOf(e.what)
          /\ CauseOf(e.what) # "none" => Happened(seen[0], CauseOf(e.what), e.home)
    /\ \A h \in Homes, what \in DOMAIN Before :
          pc[h] \in Before[what] => ~ Happened(seen[0], what, h)

=============================================================================
