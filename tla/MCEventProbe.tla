---------------------------- MODULE MCEventProbe ----------------------------
(***************************************************************************)
(* Three events of which two match: one that is in time and one that is    *)
(* late, next to one that only wakes the waiter up.                        *)
(***************************************************************************)
EXTENDS EventProbe

MCEvents == {"other", "answer", "another"}
MCMatches == {"answer", "another"}

=============================================================================
