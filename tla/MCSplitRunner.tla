--------------------------- MODULE MCSplitRunner ----------------------------
(***************************************************************************)
(* The csplit deployments: a backend on both halves, the chat UI and the   *)
(* monitoring module on the client, so its second `compose up` happens.    *)
(***************************************************************************)
EXTENDS SplitRunner

MCStacks == {"server", "client"}
MCAttached == {"server"}
MCServices == {"rabbitmq", "backend", "chatui", "monitoring"}
MCModules == [s \in MCStacks |->
    IF s = "server" THEN {"backend"} ELSE {"backend", "chatui", "monitoring"}]
MCEnvVars == {"CLTL_TENANT", "CLTL_AMQP_URL", "CLTL_CONTAINER_AMQP_URL",
              "CLTL_BACKEND_MAIN"}
MCValues == {Unset, "", "broker", "storage_main", "main", "exported"}

Plain == [v \in MCEnvVars |-> Unset]
\* A clean shell, and one everything has been exported in.
MCShells == {Plain, [v \in MCEnvVars |-> "exported"]}

\* Everything but compose commands that leave containers they should not, and
\* a bus that is not closed: with those the broker has users that stay.  What
\* is interrupted in stop() is then the capture of the logs.
LeaseFaults == {"images", "ports", "monitor", "attach", "interrupt"}

=============================================================================
