------------------------ MODULE WorkerProcessProofs -------------------------
(***************************************************************************)
(* The circuit breaker and the drain of one worker process, for any number *)
(* of workers, any threshold and any size of the token bucket.             *)
(***************************************************************************)
EXTENDS WorkerProcess, FiniteSetTheorems, TLAPS

Step(w) == Run(w) \/ Wait(w) \/ IsAllowed(w) \/ Execute(w) \/ Record(w)

(* A step of a worker keeps the types.                                     *)
LEMMA StepTypes ==
  ASSUME TypeOK, NEW w \in Workers, Step(w)
  PROVE  TypeOK'
<1> USE ProcessAssumption DEF TypeOK, Executing, Goto, At, Up1, breakerVars, shutdownVars
<1>1. CASE Run(w)
  BY <1>1 DEF Run, Poll, NoJob, TakeJob, Leave
<1>2. CASE Wait(w)
  BY <1>2 DEF Wait, WaitFirst, WaitDone, WaitToken
<1>3. CASE IsAllowed(w)
  <2>1. late' \in [Workers -> Nat]
    BY <1>3 DEF IsAllowed, ReadState, ReadLastFailure, HalfOpen, Begin
  <2> QED  BY <1>3, <2>1 DEF IsAllowed, ReadState, ReadLastFailure, HalfOpen
<1>4. CASE Execute(w)
  BY <1>4 DEF Execute
<1>5. CASE RecordSuccess(w)
  <2>1. failures' \in 0 .. Threshold /\ streak' \in 0 .. Threshold
    BY <1>5 DEF RecordSuccess
  <2> QED  BY <1>5, <2>1 DEF RecordSuccess
<1>6. CASE RecordFailure(w)
  <2>1. failures' \in 0 .. Threshold /\ streak' \in 0 .. Threshold
    BY <1>6 DEF RecordFailure
  <2> QED  BY <1>6, <2>1 DEF RecordFailure
<1>7. CASE Trip(w)
  BY <1>7 DEF Trip
<1> QED  BY <1>1, <1>2, <1>3, <1>4, <1>5, <1>6, <1>7 DEF Step, Record

(* So does everything else.                                                *)
LEMMA OtherTypes ==
  ASSUME TypeOK,
         \/ Replenish \/ CooldownPasses \/ Reset
         \/ Signal \/ ShutdownRequest \/ Drained \/ DrainTimeout \/ Exit
         \/ UNCHANGED vars
  PROVE  TypeOK'
<1> USE DEF TypeOK, breakerVars, shutdownVars
<1>1. CASE Replenish
  <2>1. tokens' \in 0 .. Burst
    BY <1>1, ProcessAssumption DEF Replenish
  <2> QED  BY <1>1, <2>1 DEF Replenish
<1>2. CASE CooldownPasses
  BY <1>2 DEF CooldownPasses
<1>3. CASE Reset
  <2>1. failures' \in 0 .. Threshold /\ streak' \in 0 .. Threshold /\ resets' \in 0 .. MaxResets
    BY <1>3, ProcessAssumption DEF Reset
  <2> QED  BY <1>3, <2>1 DEF Reset
<1>4. CASE Signal \/ ShutdownRequest \/ Drained \/ DrainTimeout \/ Exit
  BY <1>4 DEF Signal, ShutdownRequest, Initiate, Drained, DrainTimeout, Exit
<1>5. CASE UNCHANGED vars
  BY <1>5 DEF vars
<1> QED  BY <1>1, <1>2, <1>3, <1>4, <1>5

(* Type correctness: in particular the bucket never holds more than Burst  *)
(* tokens.                                                                 *)
THEOREM ProcessTypeCorrect == Spec => []TypeOK
<1>1. Init => TypeOK
  <2>1. 0 \in 0 .. Threshold /\ 0 \in 0 .. MaxResets /\ Burst \in 0 .. Burst
    BY ProcessAssumption
  <2>2. Init => late \in [Workers -> Nat]
    BY DEF Init
  <2> QED  BY <2>1, <2>2 DEF Init, TypeOK
<1>2. TypeOK /\ [Next]_vars => TypeOK'
  BY StepTypes, OtherTypes DEF Next, Step
<1> QED  BY <1>1, <1>2, PTL DEF Spec

-----------------------------------------------------------------------------
(* The drain.                                                              *)

(* A worker that started an execution after the drain began has no other   *)
(* job at hand, and gets none.                                             *)
DrainInv ==
  \A w \in Workers : /\ late[w] \in {0, 1}
                     /\ late[w] = 1 => Draining /\ pc[w] \in Executing \cup {"idle", "exited"}

(* DrainStartsNothingNew: whatever the plugins, the limiter and the        *)
(* breaker do, each worker of a draining pool begins at most one more      *)
(* execution.                                                              *)
THEOREM DrainStartsNothingNewInvariant == Spec => []DrainStartsNothingNew
<1>1. Init => DrainInv
  BY DEF Init, DrainInv
<1>2. TypeOK /\ DrainInv /\ [Next]_vars => DrainInv'
  <2> SUFFICES ASSUME TypeOK, DrainInv, [Next]_vars PROVE DrainInv'
    OBVIOUS
  <2> USE DEF DrainInv, TypeOK, Draining
  <2>1. ASSUME NEW w \in Workers, Step(w) PROVE DrainInv'
    <3> USE DEF Executing, Goto, At, breakerVars, shutdownVars
    <3>1. CASE Run(w)
      BY <2>1, <3>1 DEF Run, Poll, NoJob, TakeJob, Leave
    <3>2. CASE Wait(w)
      BY <2>1, <3>2 DEF Wait, WaitFirst, WaitDone, WaitToken
    <3>3. CASE IsAllowed(w)
      <4>1. late[w] = 0 /\ phase' = phase
        BY <3>3 DEF IsAllowed, ReadState, ReadLastFailure, HalfOpen
      <4>2. \/ late' = late /\ pc' = [pc EXCEPT ![w] = "idle"]
            \/ late' = late /\ pc' = [pc EXCEPT ![w] = "half"]
            \/ late' = late /\ pc' = [pc EXCEPT ![w] = "cooldown"]
            \/ late' = [late EXCEPT ![w] = IF Draining THEN 1 ELSE 0] /\ pc' = [pc EXCEPT ![w] = "run"]
        BY <3>3, <4>1 DEF IsAllowed, ReadState, ReadLastFailure, HalfOpen, Begin
      <4> QED  BY <4>1, <4>2
    <3>4. CASE Execute(w)
      BY <2>1, <3>4 DEF Execute
    <3>5. CASE Record(w)
      BY <2>1, <3>5 DEF Record, RecordSuccess, RecordFailure, Trip
    <3> QED  BY <2>1, <3>1, <3>2, <3>3, <3>4, <3>5 DEF Step
  <2>2. CASE \/ Replenish \/ CooldownPasses \/ Reset
             \/ Signal \/ ShutdownRequest \/ Drained \/ DrainTimeout \/ Exit \/ UNCHANGED vars
    <3>1. UNCHANGED <<pc, late>> /\ (Draining => Draining')
      BY <2>2 DEF Replenish, CooldownPasses, Reset, Signal, ShutdownRequest, Initiate,
         Drained, DrainTimeout, Exit, vars, breakerVars, shutdownVars
    <3> QED  BY <3>1
  <2> QED  BY <2>1, <2>2 DEF Next, Step
<1>3. DrainInv => DrainStartsNothingNew
  BY DEF DrainInv, DrainStartsNothingNew
<1> QED  BY <1>1, <1>2, <1>3, ProcessTypeCorrect, PTL DEF Spec
-----------------------------------------------------------------------------
(* The circuit breaker.                                                    *)

(* Workers with a panic that the breaker has heard of once and will hear   *)
(* of again.                                                               *)
Panicking == {w \in Workers : pc[w] \in {"tripPanic", "recordAgain"}}

(* A failed execution accounts for at most two recorded failures, one of   *)
(* them ahead of it while its worker panics; what the count is at when     *)
(* the state is written is what opened the circuit.                        *)
BreakerInv ==
  /\ failures <= 2 * streak + Cardinality(Panicking)
  /\ breaker = "open" => failures = Threshold
  /\ breaker = "halfOpen" => failures = Threshold \/ overtaken

(* The panicking workers can be counted.                                   *)
LEMMA PanickingFinite == IsFiniteSet(Panicking) /\ Cardinality(Panicking) \in Nat
<1>1. Panicking \in SUBSET Workers
  BY DEF Panicking
<1> QED  BY <1>1, ProcessAssumption, FS_Subset, FS_CardinalityType

(* A step of one worker, not into nor out of a panic.                      *)
LEMMA PanickingSame ==
  ASSUME TypeOK, NEW w \in Workers, NEW l, pc' = [pc EXCEPT ![w] = l],
         l \in {"tripPanic", "recordAgain"} <=> pc[w] \in {"tripPanic", "recordAgain"}
  PROVE  Panicking' = Panicking
BY DEF Panicking, TypeOK

(* BreakerIsEarned: the circuit opens only after enough failures in a row, *)
(* and a trial that fails opens it again, whichever worker reads the state *)
(* without the lock while another one writes it.                           *)
THEOREM BreakerIsEarnedInvariant == Spec => []BreakerIsEarned
<1>1. Init => BreakerInv
  <2> SUFFICES ASSUME Init PROVE BreakerInv
    OBVIOUS
  <2>1. Cardinality(Panicking) \in Nat
    BY PanickingFinite
  <2> QED  BY <2>1 DEF Init, BreakerInv
<1>2. TypeOK /\ BreakerInv /\ [Next]_vars => BreakerInv'
  <2> SUFFICES ASSUME TypeOK, BreakerInv, [Next]_vars PROVE BreakerInv'
    OBVIOUS
  <2>n. /\ Cardinality(Panicking) \in Nat /\ Cardinality(Panicking') \in Nat
        /\ failures \in Nat /\ streak \in Nat /\ Threshold \in Nat /\ failures <= Threshold
    <3>1. (IsFiniteSet(Panicking) /\ Cardinality(Panicking) \in Nat)'
      BY PanickingFinite, PTL
    <3> QED  BY <3>1, PanickingFinite, ProcessAssumption DEF TypeOK
  <2>1. ASSUME UNCHANGED <<breaker, failures, streak, overtaken>>, Panicking' = Panicking
        PROVE  BreakerInv'
    BY <2>1 DEF BreakerInv
  <2>2. ASSUME failures' = 0, breaker' = "closed", streak' = 0 PROVE BreakerInv'
    BY <2>2, <2>n DEF BreakerInv
  <2>3. ASSUME NEW w \in Workers, Step(w) PROVE BreakerInv'
    <3> USE DEF At, Goto, Executing
    <3>1. CASE Run(w) \/ Wait(w) \/ ReadState(w) \/ ReadLastFailure(w)
      <4>1. PICK l \in {"idle", "dequeue", "wait", "select", "check", "cooldown", "half", "run", "exited"} :
              pc' = [pc EXCEPT ![w] = l]
        BY <3>1 DEF Run, Poll, NoJob, TakeJob, Leave, Wait, WaitFirst, WaitDone, WaitToken,
           ReadState, ReadLastFailure
      <4>2. pc[w] \in {"idle", "dequeue", "wait", "select", "check", "cooldown"}
        BY <3>1 DEF Run, Poll, NoJob, TakeJob, Leave, Wait, WaitFirst, WaitDone, WaitToken,
           ReadState, ReadLastFailure
      <4>3. UNCHANGED <<breaker, failures, streak, overtaken>>
        BY <3>1 DEF Run, Poll, NoJob, TakeJob, Leave, Wait, WaitFirst, WaitDone, WaitToken,
           ReadState, ReadLastFailure, breakerVars
      <4> QED  BY <2>1, <4>1, <4>2, <4>3, PanickingSame
    <3>2. CASE HalfOpen(w)
      <4>1. Panicking' = Panicking
        BY <3>2, PanickingSame DEF HalfOpen
      <4> QED  BY <3>2, <4>1 DEF HalfOpen, BreakerInv, TypeOK
    <3>3. CASE Execute(w)
      <4>1. PICK l \in {"recordSuccess", "recordFailure", "recordPanic", "idle"} :
              pc' = [pc EXCEPT ![w] = l]
        BY <3>3 DEF Execute
      <4>2. Panicking' = Panicking
        BY <3>3, <4>1, PanickingSame DEF Execute
      <4> QED  BY <2>1, <3>3, <4>2 DEF Execute, breakerVars
    <3>4. CASE RecordSuccess(w)
      BY <2>2, <3>4 DEF RecordSuccess
    <3>5. CASE RecordFailure(w) /\ pc[w] = "recordPanic"
      <4>1. Panicking' = Panicking \cup {w} /\ w \notin Panicking
        BY <3>5 DEF RecordFailure, Panicking, TypeOK
      <4>2. Cardinality(Panicking') = Cardinality(Panicking) + 1
        BY <4>1, PanickingFinite, FS_AddElement
      <4>3. breaker' = breaker /\ streak' = streak /\ overtaken' = overtaken /\ failures' = Up1(failures)
        BY <3>5 DEF RecordFailure
      <4> QED  BY <2>n, <4>2, <4>3 DEF BreakerInv, Up1
    <3>6. CASE RecordFailure(w) /\ pc[w] # "recordPanic"
      <4>1. Panicking' = Panicking \ {w}
        BY <3>6 DEF RecordFailure, Panicking, TypeOK
      <4>2. Cardinality(Panicking') >= Cardinality(Panicking) - 1
        BY <4>1, <2>n, PanickingFinite, FS_RemoveElement
      <4>3. breaker' = breaker /\ overtaken' = overtaken /\ failures' = Up1(failures) /\ streak' = Up1(streak)
        BY <3>6 DEF RecordFailure
      <4>4. streak <= Threshold
        BY ProcessAssumption DEF TypeOK
      <4> QED  BY <2>n, <4>2, <4>3, <4>4 DEF BreakerInv, Up1
    <3>7. CASE Trip(w)
      <4>1. Panicking' = Panicking
        BY <3>7 DEF Trip, Panicking, TypeOK
      <4>2. failures' = failures /\ streak' = streak
        BY <3>7 DEF Trip
      <4>3. CASE failures = Threshold
        BY <2>n, <3>7, <4>1, <4>2, <4>3 DEF Trip, BreakerInv
      <4>4. CASE failures < Threshold
        <5>1. breaker' = breaker /\ (overtaken => overtaken')
          <6>1. ~ (failures >= Threshold)
            BY <2>n, <4>4
          <6> QED  BY <3>7, <4>4, <6>1, Zenon DEF Trip
        <5> QED  BY <4>1, <4>2, <5>1 DEF BreakerInv
      <4> QED  BY <2>n, <4>3, <4>4
    <3> QED  BY <2>3, <3>1, <3>2, <3>3, <3>4, <3>5, <3>6, <3>7 DEF Step, IsAllowed, Record
  <2>4. CASE Reset
    BY <2>2, <2>4 DEF Reset
  <2>5. CASE \/ Replenish \/ CooldownPasses \/ Signal \/ ShutdownRequest \/ Drained
             \/ DrainTimeout \/ Exit \/ UNCHANGED vars
    <3>1. pc' = pc /\ UNCHANGED <<breaker, failures, streak, overtaken>>
      BY <2>5 DEF Replenish, CooldownPasses, Signal, ShutdownRequest, Drained, DrainTimeout, Exit,
         vars, breakerVars
    <3> QED  BY <2>1, <3>1 DEF Panicking
  <2> QED  BY <2>3, <2>4, <2>5 DEF Next, Step
<1>3. TypeOK /\ BreakerInv => BreakerIsEarned
  BY PanickingFinite, ProcessAssumption DEF TypeOK, BreakerInv, BreakerIsEarned, Panicking
<1> QED  BY <1>1, <1>2, <1>3, ProcessTypeCorrect, PTL DEF Spec
=============================================================================
