----------------------------- MODULE MCLauncher -----------------------------
(* Every demo there is, and three signals: one in start(), one in the      *)
(* stop() it calls, and one more.                                          *)
EXTENDS Demo

=============================================================================
