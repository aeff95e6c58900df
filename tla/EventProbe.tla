----------------------------- MODULE EventProbe -----------------------------
(***************************************************************************)
(* runner/api.py, EventProbe: the record of what the bus delivered, and a  *)
(* test that waits for an event in it.  The bus calls _record on threads   *)
(* of its own; the test's thread calls await_event and clear.  What is     *)
(* done under the lock is one step, and what is not is a step of its own.  *)
(*                                                                         *)
(* The subscription side of the probe is module BindingReadiness.  The     *)
(* stub loudspeaker's await_text (drivers/tts.py) is the same algorithm.   *)
(***************************************************************************)
CONSTANTS
    Events,   \* what the bus may deliver, each once
    Matches   \* the events on the awaited topic that satisfy the predicate

ASSUME ProbeAssumption == Matches \subseteq Events

VARIABLES
    delivered, \* what the bus has delivered so far
    inflight,  \* recorded, but its _record() has not set the flag yet
    events,    \* EventProbe._events
    arrived,   \* EventProbe._arrived
    pc,        \* where the test's thread is
    expired,   \* the deadline of the current await_event has passed
    result     \* what the last await_event returned, {} if it did not

vars == <<delivered, inflight, events, arrived, pc, expired, result>>

Awaiting == {"scan", "deadline", "wait", "reset"}

TypeOK ==
    /\ delivered \subseteq Events
    /\ inflight \subseteq delivered
    /\ events \subseteq delivered
    /\ arrived \in BOOLEAN
    /\ pc \in {"idle", "clearing", "timeout"} \cup Awaiting
    /\ expired \in BOOLEAN
    /\ result \subseteq Matches

Init ==
    /\ delivered = {} /\ inflight = {}
    /\ events = {} /\ arrived = FALSE
    /\ pc = "idle" /\ expired = FALSE
    /\ result = {}

-----------------------------------------------------------------------------
(* _record, on a thread of the bus.                                        *)

\* Appended under the lock ...
Append(e) ==
    /\ e \in Events \ delivered
    /\ delivered' = delivered \cup {e}
    /\ events' = events \cup {e}
    /\ inflight' = inflight \cup {e}
    /\ UNCHANGED <<arrived, pc, expired, result>>

\* Mutant: only the first event sets the flag.
SetArrivedOnce(e) ==
    /\ e \in inflight
    /\ inflight' = inflight \ {e}
    /\ arrived' = (arrived \/ delivered = {e})
    /\ UNCHANGED <<delivered, events, pc, expired, result>>

\* ... and the flag is set after it.
SetArrived(e) ==
    /\ e \in inflight
    /\ inflight' = inflight \ {e}
    /\ arrived' = TRUE
    /\ UNCHANGED <<delivered, events, pc, expired, result>>

-----------------------------------------------------------------------------
(* await_event.                                                            *)

AwaitEvent ==
    /\ pc \in {"idle", "timeout"}
    /\ pc' = "scan"
    /\ expired' = FALSE
    /\ result' = {}
    /\ UNCHANGED <<delivered, inflight, events, arrived>>

Expire ==
    /\ pc \in Awaiting
    /\ ~ expired
    /\ expired' = TRUE
    /\ UNCHANGED <<delivered, inflight, events, arrived, pc, result>>

\* The events recorded so far, copied under the lock, are looked through.
Scan ==
    /\ pc = "scan"
    /\ \/ \E e \in events \cap Matches : result' = {e} /\ pc' = "idle"
       \/ /\ events \cap Matches = {}
          /\ pc' = "deadline"
          /\ UNCHANGED result
    /\ UNCHANGED <<delivered, inflight, events, arrived, expired>>

\* Mutant: a deadline that has passed is waited out again.
CheckDeadlineNever ==
    /\ pc = "deadline"
    /\ pc' = "wait"
    /\ UNCHANGED <<delivered, inflight, events, arrived, expired, result>>

\* `remaining <= 0` raises ProbeTimeout.
CheckDeadline ==
    /\ pc = "deadline"
    /\ pc' = IF expired THEN "timeout" ELSE "wait"
    /\ UNCHANGED <<delivered, inflight, events, arrived, expired, result>>

\* wait(min(remaining, 0.05)) returns when the flag is set, or after that time.
Wait ==
    /\ pc = "wait"
    /\ pc' = "reset"
    /\ UNCHANGED <<delivered, inflight, events, arrived, expired, result>>

\* Mutant: the deadline is looked at before the record.
ResetArrivedLooksLater ==
    /\ pc = "reset"
    /\ arrived' = FALSE
    /\ pc' = "deadline"
    /\ UNCHANGED <<delivered, inflight, events, expired, result>>

\* Whatever the wait has ended with, the record is looked through once more.
ResetArrived ==
    /\ pc = "reset"
    /\ arrived' = FALSE
    /\ pc' = "scan"
    /\ UNCHANGED <<delivered, inflight, events, expired, result>>

-----------------------------------------------------------------------------
(* clear.                                                                  *)

ClearEvents ==
    /\ pc \in {"idle", "timeout"}
    /\ pc' = "clearing"
    /\ events' = {}
    /\ result' = {}
    /\ UNCHANGED <<delivered, inflight, arrived, expired>>

ClearArrived ==
    /\ pc = "clearing"
    /\ arrived' = FALSE
    /\ pc' = "idle"
    /\ UNCHANGED <<delivered, inflight, events, expired, result>>

AwaitStep == Scan \/ CheckDeadline \/ Wait \/ ResetArrived
Record == \E e \in Events : Append(e) \/ SetArrived(e)

Next ==
    \/ Record
    \/ AwaitEvent \/ AwaitStep \/ Expire
    \/ ClearEvents \/ ClearArrived

Spec == Init /\ [][Next]_vars

\* The test's thread keeps running, every wait ends within 50 ms, and time
\* passes.
FairSpec == Spec /\ WF_vars(AwaitStep) /\ WF_vars(Expire)

-----------------------------------------------------------------------------
(* Properties.                                                             *)

\* A test that is waiting although a match has been recorded is about to be
\* woken: the flag is set, or the _record() of the match is about to set it.
\* The loop's clear() after each wait, and clear() itself, never throw away
\* the one signal that mattered (EventProbe.await_event, _record).
NoLostWakeup ==
    pc = "wait" /\ events \cap Matches # {} =>
        arrived \/ events \cap Matches \cap inflight # {}

\* The probe implements an atomic record: however its steps interleave with
\* the bus, clear() empties it at one moment, and ProbeTimeout means that it
\* held no match after the last wait; an answer that comes while the deadline
\* passes in that wait is still found (EventProbe.await_event, clear).
Atomic == INSTANCE EventRecord WITH
            past <- delivered,
            record <- events,
            test <- IF pc \in Awaiting THEN "asking"
                    ELSE IF pc = "timeout" THEN "given_up" ELSE "resting",
            late <- expired,
            missed <- pc = "deadline",
            answer <- result
ActsAtomically == Atomic!Spec

\* An await_event ends, with an event or with ProbeTimeout.
AwaitEnds == pc = "scan" ~> pc \in {"idle", "timeout"}

-----------------------------------------------------------------------------
(* Why NoLostWakeup holds, as an invariant every step preserves.           *)

\* Between a scan that found nothing and the next one, a match can only have
\* come with a flag that nobody has cleared.
WakeupInv ==
    pc \in {"deadline", "wait"} /\ events \cap Matches # {} =>
        arrived \/ events \cap Matches \cap inflight # {}

=============================================================================
