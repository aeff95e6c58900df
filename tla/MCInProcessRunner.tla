------------------------- MODULE MCInProcessRunner --------------------------
(***************************************************************************)
(* Three topologies in one process, one of which serves no HTTP: the state *)
(* a failed one leaves is what the next one starts from.                   *)
(***************************************************************************)
EXTENDS InProcessRunner

CONSTANTS eliza, chatui, backend

MCRunners == {eliza, chatui, backend}
MCRouted == {chatui, backend}

=============================================================================
