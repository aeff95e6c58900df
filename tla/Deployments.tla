---------------------------- MODULE Deployments ----------------------------
(***************************************************************************)
(* topology.py and modules.py: what can be deployed, what the constructors *)
(* refuse, and what the configuration files say about it; with the part of *)
(* __main__.py that reads these tables for a demo.                         *)
(*                                                                         *)
(* A configuration is a function from the few settings that decide         *)
(* something here to their values: "" and 0 are settings left empty.       *)
(***************************************************************************)
EXTENDS Naturals, Sequences, Functions

\* The registry, by key.
MODULES == {"eliza", "context", "chatui", "monitoring", "asr", "vad",
            "emissor", "backend"}

\* Topology.__post_init__: what it lets pass.
TopologyOk(modules) ==
    /\ Range(modules) \subseteq MODULES
    /\ IsInjective(modules)

\* The topologies that are registered.
TOPOLOGIES ==
    [eliza |-> <<"eliza">>,
     context |-> <<"context">>,
     eliza_chatui |-> <<"eliza", "chatui">>,
     emissor |-> <<"emissor">>,
     backend |-> <<"backend">>,
     backend_vad |-> <<"backend", "vad">>,
     backend_image |-> <<"backend">>,
     vad_asr |-> <<"backend", "asr">>,
     audio_pipeline |-> <<"backend", "vad", "asr", "eliza", "chatui">>,
     text_pipeline |-> <<"eliza", "context", "chatui">>,
     backend_tts |-> <<"backend", "eliza">>,
     backend_tts_mic |-> <<"backend", "eliza">>,
     spoken_pipeline |->
        <<"backend", "vad", "asr", "context", "eliza", "chatui">>,
     chat_full |-> <<"eliza", "context", "chatui", "monitoring", "backend">>,
     chatui_image |-> <<"chatui", "emissor", "backend">>,
     chatui_monitoring |-> <<"chatui", "monitoring", "backend">>,
     chatui_status |-> <<"chatui">>,
     chatui_display |-> <<"chatui">>,
     csplit_server |-> <<"backend", "emissor", "eliza">>,
     csplit_client |-> <<"backend", "context", "chatui">>,
     csplit_audio_server |-> <<"backend", "emissor", "vad", "asr", "eliza">>,
     csplit_audio_client |-> <<"backend", "context", "chatui">>,
     multitenant_server |-> <<"eliza">>,
     multitenant_tenant |-> <<"context", "chatui", "emissor">>]

-----------------------------------------------------------------------------
(* Deployments: stacks that make one system.                               *)

Runs(topology) == Range(TOPOLOGIES[topology])

\* Mutant: one module may run on both halves.
DeploymentOkShared(server, client) == "backend" \in server

\* Deployment.__post_init__, on the modules of the two halves.
DeploymentOk(server, client) ==
    /\ "backend" \in server
    /\ server \cap client \subseteq {"backend"}

\* A tenant id is a sequence of routing-key words, two of which are AMQP's
\* wildcards; _TENANT_ID accepts a single word that is neither.
IdOk(id) == Len(id) = 1 /\ id[1] \notin {"*", "#"}

\* Mutant: a tenant id may have any form.
TenantDeploymentOkAnyId(server, tenant, tenants) ==
    /\ server # {} /\ tenant # {}
    /\ Len(tenants) >= 2
    /\ IsInjective(tenants)
    /\ server \cap tenant = {}

\* TenantDeployment.__post_init__.
TenantDeploymentOk(server, tenant, tenants) ==
    /\ server # {} /\ tenant # {}
    /\ Len(tenants) >= 2
    /\ IsInjective(tenants)
    /\ \A i \in DOMAIN tenants : IdOk(tenants[i])
    /\ server \cap tenant = {}

DEPLOYMENTS ==
    [csplit |-> [server |-> "csplit_server", client |-> "csplit_client"],
     csplit_audio |-> [server |-> "csplit_audio_server",
                       client |-> "csplit_audio_client"]]

TENANT_DEPLOYMENTS ==
    [multitenant |-> [server |-> "multitenant_server",
                      client |-> "multitenant_tenant",
                      tenants |-> << <<"tenant-a">>, <<"tenant-b">> >>]]

\* The constructors have accepted every one of them.
ASSUME Registered ==
    /\ \A t \in Range(TOPOLOGIES) : TopologyOk(t)
    /\ \A d \in Range(DEPLOYMENTS) : DeploymentOk(Runs(d.server), Runs(d.client))
    /\ \A d \in Range(TENANT_DEPLOYMENTS) :
          TenantDeploymentOk(Runs(d.server), Runs(d.client), d.tenants)

-----------------------------------------------------------------------------
(* Configuration: base < tier < overlay.                                   *)

\* ConfigParser.read: a file read later wins.
Over(later, earlier) ==
    [setting \in DOMAIN later \cup DOMAIN earlier |->
        IF setting \in DOMAIN later THEN later[setting] ELSE earlier[setting]]

BASE_CONFIG == [mic |-> "", tts |-> "", rate |-> 0, gate |-> ""]

\* Neither tier sets any of these.
TIER_CONFIG == [inprocess |-> <<>>, compose |-> <<>>]

Microphone == [mic |-> "cltl.topic.microphone"]
Speaker == [tts |-> "cltl.topic.text_out"]
Gated == [gate |-> "eliza"]

Overlays ==
    [audio_pipeline |-> Microphone,
     backend_image |-> [rate |-> 4],
     backend_tts |-> Speaker,
     backend_tts_mic |-> Over(Speaker, Microphone),
     backend_vad |-> Microphone,
     chat_full |-> Gated,
     csplit_audio_client |-> Microphone,
     csplit_audio_server |-> Gated,
     csplit_server |-> Gated,
     spoken_pipeline |-> Over(Microphone, Gated),
     text_pipeline |-> Gated]

Overlay(topology) ==
    IF topology \in DOMAIN Overlays THEN Overlays[topology] ELSE <<>>

\* merged_config, and load_config in the test process: the overlay is read last.
MergedConfig(topology, tier) ==
    Over(Overlay(topology), Over(TIER_CONFIG[tier], BASE_CONFIG))

\* What a container reads: default.config is the base, and write_config_dir
\* has merged tier and overlay into the one custom.config.
ContainerConfig(topology) ==
    LET default == BASE_CONFIG
        custom == Over(Overlay(topology), TIER_CONFIG["compose"])
    IN  Over(custom, default)

\* needs_microphone, needs_speaker, needs_camera.
NeedsMicrophone(topology, tier) ==
    /\ "backend" \in Runs(topology)
    /\ MergedConfig(topology, tier).mic # ""

NeedsSpeaker(topology, tier) ==
    /\ "backend" \in Runs(topology)
    /\ MergedConfig(topology, tier).tts # ""

\* Mutant: the camera is switched on by the microphone's topic.
NeedsCameraByTopic(topology, tier) == NeedsMicrophone(topology, tier)

NeedsCamera(topology, tier) ==
    /\ "backend" \in Runs(topology)
    /\ MergedConfig(topology, tier).rate > 0

=============================================================================
