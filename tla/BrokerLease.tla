---------------------------- MODULE BrokerLease -----------------------------
(***************************************************************************)
(* What a deployment runner promises about its message broker: nothing     *)
(* uses the broker before it is up or after it is down, and a broker that  *)
(* was brought up is eventually taken down.  A user is a compose project   *)
(* whose modules dial the broker, or a bus this process has opened on it.  *)
(***************************************************************************)
CONSTANT Users

VARIABLES broker, users

Init == broker = FALSE /\ users = {}

\* The broker comes up before anybody uses it.
Open == ~ broker /\ users = {} /\ broker' = TRUE /\ users' = {}

Join(some) == broker /\ users' = users \cup some /\ UNCHANGED broker

Leave(some) == users' = users \ some /\ UNCHANGED broker

\* It goes down only when nobody is left on it.
Close == broker /\ users = {} /\ broker' = FALSE /\ UNCHANGED users

Next ==
    \/ Open \/ Close
    \/ \E some \in SUBSET Users : Join(some) \/ Leave(some)

Spec == Init /\ [][Next]_<<broker, users>>

=============================================================================
