--------------------------- MODULE MCTenantRunner ---------------------------
(***************************************************************************)
(* Two tenants: the second tenant's start follows a first tenant that is   *)
(* up, and its stop precedes the first's, which is all the loops tell      *)
(* apart.  The tenants have both the chat UI and the monitoring module, so *)
(* the second `compose up` happens; the server has only the broker and     *)
(* one module.                                                             *)
(***************************************************************************)
EXTENDS TenantRunner

MCStacks == 0..2
MCAttached == {0}
MCServices == {"rabbitmq", "backend", "chatui", "monitoring"}
MCModules == [s \in MCStacks |->
                IF s = 0 THEN {"backend"} ELSE {"chatui", "monitoring"}]
MCEnvVars == {"CLTL_TENANT", "CLTL_AMQP_URL", "CLTL_CONTAINER_AMQP_URL"}
MCTenantId == <<"alice", "bob">>
MCValues == {Unset, "", "broker", "alice", "bob", "exported"}

Plain == [v \in MCEnvVars |-> Unset]
\* A clean shell, and one a developer has exported a tenant and a broker in.
MCShells == {Plain, [v \in MCEnvVars |-> "exported"]}
MCServerEnvironment == Plain
\* The second tenant's caller tries to rename it.
MCTenantEnvironment ==
    <<Plain, [Plain EXCEPT !["CLTL_TENANT"] = "exported"]>>

\* Failures after which compose and every bus still did what they were asked
\* to, and stop() was not interrupted.
CleanFaults == {"images", "ports", "monitor", "attach", "bindings", "view"}
AllFaults == FaultPoints

=============================================================================
