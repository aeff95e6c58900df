----------------------------- MODULE EventRecord -----------------------------
(***************************************************************************)
(* What EventProbe promises a test: a record into which events come one    *)
(* after another, which is emptied at one moment, and in which a match is  *)
(* found, or found missing, at one moment.  A test that is given up on has *)
(* run out of time, and nothing that matched was in the record when it was *)
(* last looked at, which was after it last slept.                          *)
(***************************************************************************)
CONSTANTS Events, Matches

VARIABLES
    past,    \* what has been delivered so far
    record,  \* what has been since it was last emptied
    test,    \* what the test is doing
    late,    \* its time has run out
    missed,  \* it has looked since it last slept, and found no match
    answer   \* the match it has found last

vars == <<past, record, test, late, missed, answer>>

Init ==
    /\ past = {} /\ record = {}
    /\ test = "resting" /\ late = FALSE /\ missed = FALSE
    /\ answer = {}

Deliver(e) ==
    /\ e \in Events \ past
    /\ past' = past \cup {e}
    /\ record' = record \cup {e}
    /\ UNCHANGED <<test, late, missed, answer>>

Ask ==
    /\ test # "asking"
    /\ test' = "asking" /\ late' = FALSE /\ missed' = FALSE /\ answer' = {}
    /\ UNCHANGED <<past, record>>

RunOut ==
    /\ test = "asking"
    /\ late' = TRUE
    /\ UNCHANGED <<past, record, test, missed, answer>>

Find(e) ==
    /\ test = "asking"
    /\ e \in record \cap Matches
    /\ test' = "resting" /\ answer' = {e}
    /\ UNCHANGED <<past, record, late, missed>>

Miss ==
    /\ test = "asking"
    /\ record \cap Matches = {}
    /\ missed' = TRUE
    /\ UNCHANGED <<past, record, test, late, answer>>

Sleep ==
    /\ test = "asking" /\ missed
    /\ missed' = FALSE
    /\ UNCHANGED <<past, record, test, late, answer>>

GiveUp ==
    /\ test = "asking" /\ late /\ missed
    /\ test' = "given_up" /\ missed' = FALSE
    /\ UNCHANGED <<past, record, late, answer>>

Empty ==
    /\ test # "asking"
    /\ record' = {} /\ test' = "resting" /\ answer' = {}
    /\ UNCHANGED <<past, late, missed>>

Next ==
    \/ \E e \in Events : Deliver(e) \/ Find(e)
    \/ Ask \/ RunOut \/ Miss \/ Sleep \/ GiveUp
    \/ Empty

Spec == Init /\ [][Next]_vars

=============================================================================
