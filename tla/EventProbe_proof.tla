-------------------------- MODULE EventProbe_proof --------------------------
(***************************************************************************)
(* What holds of the probe for every set of events.                        *)
(***************************************************************************)
EXTENDS EventProbe, TLAPS

\* The type invariant of the probe.
THEOREM ProbeTypeCorrect == Spec => []TypeOK
<1>1. Init => TypeOK
  BY DEF Init, TypeOK
<1>2. TypeOK /\ [Next]_vars => TypeOK'
  <2> SUFFICES ASSUME TypeOK, [Next]_vars PROVE TypeOK'
    OBVIOUS
  <2> USE DEF TypeOK, Awaiting
  <2>1. ASSUME NEW e \in Events, Append(e) \/ SetArrived(e) PROVE TypeOK'
    BY <2>1 DEF Append, SetArrived
  <2>2. CASE AwaitEvent \/ Expire
    BY <2>2 DEF AwaitEvent, Expire
  <2>3. CASE Scan
    BY <2>3 DEF Scan
  <2>4. CASE CheckDeadline \/ Wait \/ ResetArrived
    BY <2>4 DEF CheckDeadline, Wait, ResetArrived
  <2>5. CASE ClearEvents \/ ClearArrived
    BY <2>5 DEF ClearEvents, ClearArrived
  <2>6. CASE UNCHANGED vars
    BY <2>6 DEF vars
  <2> QED BY <2>1, <2>2, <2>3, <2>4, <2>5, <2>6 DEF Next, Record, AwaitStep
<1> QED BY <1>1, <1>2, PTL DEF Spec

\* No match that has been recorded waits for the poll to run out.
THEOREM ProbeWakesUp == Spec => []NoLostWakeup
<1>1. Init => WakeupInv
  BY DEF Init, WakeupInv
<1>2. TypeOK /\ WakeupInv /\ [Next]_vars => WakeupInv'
  <2> SUFFICES ASSUME TypeOK, WakeupInv, [Next]_vars PROVE WakeupInv'
    OBVIOUS
  <2> USE DEF WakeupInv
  <2>1. ASSUME NEW e \in Events, Append(e) PROVE WakeupInv'
    BY <2>1 DEF Append
  <2>2. ASSUME NEW e \in Events, SetArrived(e) PROVE WakeupInv'
    BY <2>2 DEF SetArrived
  <2>3. CASE Scan
    BY <2>3 DEF Scan
  <2>4. CASE AwaitEvent \/ Expire \/ CheckDeadline \/ Wait \/ ResetArrived
    BY <2>4 DEF AwaitEvent, Expire, CheckDeadline, Wait, ResetArrived
  <2>5. CASE ClearEvents \/ ClearArrived
    BY <2>5 DEF ClearEvents, ClearArrived
  <2>6. CASE UNCHANGED vars
    BY <2>6 DEF vars
  <2> QED BY <2>1, <2>2, <2>3, <2>4, <2>5, <2>6 DEF Next, Record, AwaitStep
<1>3. WakeupInv => NoLostWakeup
  BY DEF WakeupInv, NoLostWakeup
<1> QED BY <1>1, <1>2, <1>3, ProbeTypeCorrect, PTL DEF Spec

-----------------------------------------------------------------------------
(* The refinement: what each step of the probe is of the atomic record.    *)

\* An empty record that nobody has asked is one.
LEMMA AtomicInit == Init => Atomic!Init
BY DEF Init, Atomic!Init, Awaiting

\* The bus delivers when it appends; the flag is no business of the record.
LEMMA AtomicRecord ==
  ASSUME NEW e \in Events
  PROVE  /\ Append(e) => Atomic!Deliver(e)
         /\ SetArrived(e) => UNCHANGED Atomic!vars
BY DEF Append, SetArrived, Atomic!Deliver, Atomic!vars, Awaiting

\* A test asks, finds, misses, sleeps and gives up in a step of its loop.
LEMMA AtomicAwait ==
  /\ AwaitEvent => Atomic!Ask
  /\ Expire => Atomic!RunOut
  /\ Scan => Atomic!Miss \/ \E e \in Events : Atomic!Find(e)
  /\ TypeOK /\ CheckDeadline => Atomic!GiveUp \/ Atomic!Sleep
  /\ Wait \/ ResetArrived => UNCHANGED Atomic!vars
<1> USE DEF Awaiting
<1>1. AwaitEvent => Atomic!Ask
  BY DEF AwaitEvent, Atomic!Ask
<1>2. Expire => Atomic!RunOut
  BY DEF Expire, Atomic!RunOut
<1>3. Scan => Atomic!Miss \/ \E e \in Events : Atomic!Find(e)
  BY ProbeAssumption DEF Scan, Atomic!Miss, Atomic!Find
<1>4. TypeOK /\ CheckDeadline => Atomic!GiveUp \/ Atomic!Sleep
  BY DEF TypeOK, CheckDeadline, Atomic!GiveUp, Atomic!Sleep
<1>5. Wait \/ ResetArrived => UNCHANGED Atomic!vars
  BY DEF Wait, ResetArrived, Atomic!vars
<1> QED BY <1>1, <1>2, <1>3, <1>4, <1>5

\* clear() empties the record in the first of its two steps.
LEMMA AtomicClear ==
  /\ ClearEvents => Atomic!Empty
  /\ ClearArrived => UNCHANGED Atomic!vars
BY DEF ClearEvents, ClearArrived, Atomic!Empty, Atomic!vars, Awaiting

\* The probe implements the atomic record, for every set of events.
THEOREM ProbeActsAtomically == Spec => ActsAtomically
<1>1. TypeOK /\ [Next]_vars => [Atomic!Next]_(Atomic!vars)
  <2>1. UNCHANGED vars => UNCHANGED Atomic!vars
    BY DEF vars, Atomic!vars
  <2> QED BY <2>1, AtomicRecord, AtomicAwait, AtomicClear
          DEF Next, Record, AwaitStep, Atomic!Next
<1> QED BY <1>1, AtomicInit, ProbeTypeCorrect, PTL
        DEF Spec, ActsAtomically, Atomic!Spec

=============================================================================
