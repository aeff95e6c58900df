--------------------------- MODULE RunnerContract ---------------------------
(***************************************************************************)
(* What the fixtures and the launcher take a runner to be (runner/api.py,  *)
(* Runner): start() brings the parts of a system up, loses none of them on *)
(* the way, and returns only with all of them; as long as it is up it      *)
(* neither takes any away nor adds to them; and once anything has failed,  *)
(* or stop() was called, no part is brought up any more.  What a failing   *)
(* stop() may leave is not the subject here.                               *)
(***************************************************************************)
CONSTANT Parts

VARIABLES phase, parts

vars == <<phase, parts>>

Init == phase = "new" /\ parts = {}

Start == phase = "new" /\ phase' = "starting" /\ UNCHANGED parts

Grow ==
    /\ phase = "starting" /\ parts \subseteq parts' /\ parts' \subseteq Parts
    /\ UNCHANGED phase

\* The last of them may come up in the very step that is the end of start().
Ready ==
    /\ phase = "starting" /\ parts \subseteq Parts
    /\ phase' = "up" /\ parts' = Parts

\* What fails may have brought up something before it did.
Fail ==
    /\ phase = "starting" /\ parts \subseteq parts' /\ parts' \subseteq Parts
    /\ phase' = "ending"

\* A runner may be stopped again.
Stop ==
    /\ phase \in {"up", "stopped"}
    /\ phase' = "ending" /\ UNCHANGED parts

Shrink == phase = "ending" /\ parts' \subseteq parts /\ UNCHANGED phase

Stopped == phase = "ending" /\ phase' = "stopped" /\ UNCHANGED parts

Next ==
    \/ Start \/ Grow \/ Ready \/ Fail
    \/ Stop \/ Shrink \/ Stopped

Spec == Init /\ [][Next]_vars

=============================================================================
