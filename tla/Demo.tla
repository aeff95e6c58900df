-------------------------------- MODULE Demo --------------------------------
(***************************************************************************)
(* The launcher over the deployments it can be asked for: which devices it *)
(* starts, where they listen, which containers it gives their addresses    *)
(* to, and which of those the backend in each container then dials         *)
(* (__main__.py over topology.py and compose.py).                          *)
(***************************************************************************)
EXTENDS Launcher, Deployments

Tiers == {"inprocess", "compose"}

\* scenarios, and what main() refuses: a deployment has no in-process meaning.
AllDemos ==
    {[name |-> n, tier |-> t] : n \in DOMAIN TOPOLOGIES, t \in Tiers}
        \cup {[name |-> n, tier |-> "compose"] :
                 n \in DOMAIN DEPLOYMENTS \cup DOMAIN TENANT_DEPLOYMENTS}

\* _topologies.
TopologiesOf(name) ==
    IF name \in DOMAIN DEPLOYMENTS
    THEN {DEPLOYMENTS[name].server, DEPLOYMENTS[name].client}
    ELSE IF name \in DOMAIN TENANT_DEPLOYMENTS
    THEN {TENANT_DEPLOYMENTS[name].server, TENANT_DEPLOYMENTS[name].client}
    ELSE {name}

\* _microphone, _speaker, _camera: the devices of the with statement, and the
\* ones among them that some topology of a demo needs.
AllDevices == <<"microphone", "speaker", "camera">>

DevicesOf(d) ==
    UNION {{x \in Range(AllDevices) :
               CASE x = "microphone" -> NeedsMicrophone(topology, d.tier)
                 [] x = "speaker" -> NeedsSpeaker(topology, d.tier)
                 [] x = "camera" -> NeedsCamera(topology, d.tier)} :
           topology \in TopologiesOf(d.name)}

DeviceNeeds == [d \in AllDemos |-> DevicesOf(d)]

\* Where a stub binds its socket, and under which name it is dialled.
BindHost(tier) == IF tier = "compose" THEN "0.0.0.0" ELSE "127.0.0.1"
DialHost(tier) ==
    IF tier = "compose" THEN "host.docker.internal" ELSE "127.0.0.1"

\* A container's host.docker.internal is not the loopback interface.
Reaches(host, bound) == bound = "0.0.0.0" \/ host = bound

\* Mutant: the devices belong to the server of a split.
GivenToServer(name) ==
    IF name \in DOMAIN DEPLOYMENTS THEN {DEPLOYMENTS[name].server}
                                   ELSE TopologiesOf(name)

\* _build: whose environment has the addresses of the devices.
GivenTo(name) ==
    IF name \in DOMAIN DEPLOYMENTS THEN {DEPLOYMENTS[name].client}
    ELSE IF name \in DOMAIN TENANT_DEPLOYMENTS
    THEN {TENANT_DEPLOYMENTS[name].client}
    ELSE {name}

\* What a backend dials: BackendService starts a worker per device that its
\* own configuration switches on.
Dials(topology, tier) ==
    LET config == IF tier = "compose" THEN ContainerConfig(topology)
                                      ELSE MergedConfig(topology, tier)
    IN  {x \in Range(AllDevices) :
            /\ "backend" \in Runs(topology)
            /\ CASE x = "microphone" -> config.mic # ""
                 [] x = "speaker" -> config.tts # ""
                 [] x = "camera" -> config.rate > 0}

\* As long as modules may run, every device that the backend of some container
\* dials is bound where that container reaches it, and its address is in that
\* container's environment: otherwise it "retries in a tight loop" or is
\* "silently mute" (needs_microphone, needs_speaker).  And no stub is started
\* that nobody dials.
DialsAnswered ==
    runner \in Running /\ exc # "killed" =>
        /\ \A topology \in TopologiesOf(demo.name) :
              \A x \in Dials(topology, demo.tier) :
                 /\ x \in listening \cap given
                 /\ topology \in GivenTo(demo.name)
                 /\ Reaches(DialHost(demo.tier), BindHost(demo.tier))
        /\ \A x \in listening :
              \E topology \in TopologiesOf(demo.name) :
                 x \in Dials(topology, demo.tier)

=============================================================================
