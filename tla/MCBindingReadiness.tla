------------------------- MODULE MCBindingReadiness -------------------------
(***************************************************************************)
(* Two tenants, so that one is ready before the other, and the topic that  *)
(* has, in the registered deployment, the most subscribers: a tenant's own, *)
(* more than one of them on one key, and the server's shared eliza.        *)
(***************************************************************************)
EXTENDS BindingReadiness

MCTopics == {"text_in"}

Queue(owner, tenant) == [owner |-> owner, topic |-> "text_in", tenant |-> tenant]
MCModules == {Queue("eliza", Untenanted), Queue("emissor", 2)} \cup
             {Queue("init", n) : n \in 1..2}

=============================================================================
