--------------------------- MODULE MCConversation ---------------------------
(* The registered deployments that hold a text conversation, and some that *)
(* somebody might write down instead: an id of two words or a wildcard, one *)
(* id for two tenants, an eliza on both sides.                             *)
EXTENDS Conversation

GatedBy(server) == MergedConfig(server, "compose").gate # ""

TextPipeline == [kind |-> "single", server |-> Runs("text_pipeline"), client |-> {},
           tenants |-> <<>>, gated |-> GatedBy("text_pipeline")]

Split(more) ==
    LET d == DEPLOYMENTS.csplit
    IN  [kind |-> "split", server |-> Runs(d.server),
         client |-> Runs(d.client) \cup more,
         tenants |-> <<>>, gated |-> GatedBy(d.server)]

Tenants(ids, more) ==
    LET d == TENANT_DEPLOYMENTS.multitenant
    IN  [kind |-> "tenants", server |-> Runs(d.server),
         client |-> Runs(d.client) \cup more,
         tenants |-> ids, gated |-> GatedBy(d.server)]

MCTextPipeline == {TextPipeline}

MCSystems ==
    MCTextPipeline \cup {Split(more) : more \in {{}, {"eliza"}}}
        \cup {Tenants(ids, {}) : ids \in
                {TENANT_DEPLOYMENTS.multitenant.tenants,
                 << <<"a">>, <<"a">> >>, << <<"a">>, <<"*">> >>,
                 << <<"a", "#">>, <<"a">> >>}}
        \cup {Tenants(TENANT_DEPLOYMENTS.multitenant.tenants, {"eliza"})}

=============================================================================
