-------------------------- MODULE TaskQueueProofs ---------------------------
(***************************************************************************)
(* Proofs of the safety invariants of TaskQueue that concern one job and   *)
(* the worker that holds it, for every number of jobs, workers and         *)
(* processes and every bound: types and the frame of a worker's step, the  *)
(* in-flight records, the delays, the results, and cancellation.  Each     *)
(* section strengthens its invariant until it is inductive relative to     *)
(* Base, which BaseInvariant establishes.                                  *)
(***************************************************************************)
EXTENDS TaskQueue, TLAPS

(* Types.                                                                  *)

(* Enqueue keeps the broker's keys well typed.                             *)
LEMMA EnqueueType ==
  ASSUME QueueTypeOK, NEW j \in Jobs, NEW r \in Retries, Enqueue(j, r)
  PROVE  QueueTypeOK'
<1>a. Append(queue[j], r) \in Seq(Retries) /\ Append(delayed[j], r) \in Seq(Retries)
  BY DEF QueueTypeOK
<1>1. CASE j \in future
  BY <1>1, <1>a, Zenon DEF QueueTypeOK, Enqueue
<1>2. CASE j \notin future
  BY <1>2, <1>a, Zenon DEF QueueTypeOK, Enqueue
<1> QED  BY <1>1, <1>2, Zenon

(* A pop keeps the broker's keys well typed.                               *)
LEMMA BRPopType ==
  ASSUME QueueTypeOK, NEW j \in Jobs, BRPop(j)
  PROVE  QueueTypeOK' /\ Head(queue[j]) \in Retries
<1>1. queue[j] \in Seq(Retries) /\ queue[j] # << >>
  BY Zenon DEF QueueTypeOK, BRPop
<1>2. Head(queue[j]) \in Retries /\ Tail(queue[j]) \in Seq(Retries)
  BY <1>1
<1> QED  BY <1>2, Zenon DEF QueueTypeOK, BRPop

(* So does tracking a job in flight.                                       *)
LEMMA TrackType ==
  ASSUME QueueTypeOK, NEW j \in Jobs, NEW r \in Retries, Track(j, r)
  PROVE  QueueTypeOK'
BY Zenon DEF QueueTypeOK, Track

(* So does removing the in-flight record.                                  *)
LEMMA UntrackType ==
  ASSUME QueueTypeOK, NEW j \in Jobs, Untrack(j)
  PROVE  QueueTypeOK'
BY Zenon DEF QueueTypeOK, Untrack

(* So does the push to the dead-letter list.                               *)
LEMMA PushDeadLetterType ==
  ASSUME QueueTypeOK, NEW j \in Jobs, PushDeadLetter(j)
  PROVE  QueueTypeOK'
BY QueueAssumption DEF QueueTypeOK, PushDeadLetter, Trim

(* So does the idempotency marker.                                         *)
LEMMA MarkProcessedType ==
  ASSUME QueueTypeOK, NEW j \in Jobs, MarkProcessed(j)
  PROVE  QueueTypeOK'
BY Zenon DEF QueueTypeOK, MarkProcessed

(* So does the promotion of scheduled jobs.                                *)
LEMMA PromoteType ==
  ASSUME QueueTypeOK, PromoteScheduledJobs
  PROVE  QueueTypeOK'
BY DEF QueueTypeOK, PromoteScheduledJobs

(* So does the reclaim of jobs that timed out.                             *)
LEMMA ReclaimType ==
  ASSUME QueueTypeOK, ReclaimTimedOutJobs
  PROVE  QueueTypeOK'
BY DEF QueueTypeOK, ReclaimTimedOutJobs

(* So does the passing of time.                                            *)
LEMMA TickType ==
  ASSUME QueueTypeOK, NEW j \in Jobs, VisibilityTimeout(j) \/ RunAtReached(j)
  PROVE  QueueTypeOK'
BY Zenon DEF QueueTypeOK, VisibilityTimeout, RunAtReached
-----------------------------------------------------------------------------
(* Type correctness.                                                       *)

(* A worker holds a job exactly while it is inside ProcessOnce.            *)
HoldsJob == \A w \in Workers : job[w] = NoJob <=> pc[w] \in {"brpop", "exited"}

(* The building blocks of the worker's actions keep the worker and store   *)
(* variables well typed.                                                   *)
WorkerTypeOK ==
  /\ pc \in [Workers -> Calls]
  /\ job \in [Workers -> Jobs \cup {NoJob}]
  /\ tries \in [Workers -> Retries]
  /\ ctx \in [Workers -> {"none", "live", "cancelled"}]
  /\ HoldsJob

(* A worker that goes on to its next call still holds its job.             *)
LEMMA GotoType ==
  ASSUME WorkerTypeOK, NEW w \in Workers, NEW c \in Owning \cup Closing, Goto(w, c),
         pc[w] \in Owning \cup Closing
  PROVE  WorkerTypeOK'
BY Zenon DEF WorkerTypeOK, HoldsJob, Goto, Calls, Owning, Closing

(* A worker that returns holds none.                                       *)
LEMMA ReturnType ==
  ASSUME WorkerTypeOK, active \in [Instances -> [Jobs -> Workers \cup {NoWorker}]],
         NEW w \in Workers, Return(w)
  PROVE  WorkerTypeOK' /\ active' \in [Instances -> [Jobs -> Workers \cup {NoWorker}]]
<1>1. WorkerTypeOK'
  BY QueueAssumption, SystemAssumption
  DEF WorkerTypeOK, HoldsJob, Return, Calls, Owning, Closing, Retries
<1>2. active' \in [Instances -> [Jobs -> Workers \cup {NoWorker}]]
  BY SystemAssumption, Zenon DEF Return
<1> QED  BY <1>1, <1>2, Zenon

(* A step that leaves the broker alone keeps its types.                    *)
LEMMA QueueUnchangedType ==
  ASSUME QueueTypeOK, UNCHANGED redisVars
  PROVE  QueueTypeOK'
BY Zenon DEF QueueTypeOK, redisVars

(* The rest of the type invariant: the store, the pools and the history.   *)
RestTypeOK ==
  /\ status \in [Jobs -> Statuses]
  /\ owner \in [Jobs -> Workers \cup {NoWorker}]
  /\ api \in [Jobs -> {"none", "enqueue", "cancelAck", "cancelPublish"}]
  /\ paused \subseteq Jobs
  /\ up \in [Instances -> {"up", "draining", "down"}]
  /\ active \in [Instances -> [Jobs -> Workers \cup {NoWorker}]]
  /\ cancelMsgs \in [Instances -> SUBSET Jobs]
  /\ used \in [FaultKinds -> Nat]
  /\ failures \in [Jobs -> 0 .. Exhausted]
  /\ succeeded \subseteq Jobs
  /\ copied \subseteq Jobs
  /\ cancelled \subseteq Jobs
  /\ quiet \subseteq Jobs

TypeInv == QueueTypeOK /\ WorkerTypeOK /\ RestTypeOK

(* The parts of the type invariant imply the whole.                        *)
LEMMA TypeInvImpliesTypeOK == TypeInv => TypeOK /\ HoldsJob
BY Zenon DEF TypeInv, TypeOK, WorkerTypeOK, RestTypeOK

(* Counting a fault keeps the counters natural numbers.                    *)
LEMMA SpendType ==
  ASSUME used \in [FaultKinds -> Nat], NEW k \in FaultKinds, Spend(k)
  PROVE  used' \in [FaultKinds -> Nat]
BY DEF Spend

(* A step that leaves store and pools alone keeps their types.             *)
LEMMA RestUnchangedType ==
  ASSUME RestTypeOK, UNCHANGED <<storeVars, poolVars, history>>
  PROVE  RestTypeOK'
BY Zenon DEF RestTypeOK, storeVars, poolVars, history

(* A write of a status keeps the store well typed.                         *)
LEMMA SetStatusType ==
  ASSUME RestTypeOK, NEW j \in Jobs, NEW s \in Statuses, NEW w \in Workers, SetStatus(j, s, w),
         UNCHANGED <<poolVars, history>>
  PROVE  RestTypeOK'
BY Zenon DEF RestTypeOK, SetStatus, poolVars, history

(* A step that leaves the workers alone keeps their types.                 *)
LEMMA WorkersUnchangedType ==
  ASSUME WorkerTypeOK, UNCHANGED workerVars
  PROVE  WorkerTypeOK'
BY Zenon DEF WorkerTypeOK, HoldsJob, workerVars

(* A step of the API keeps the types.                                      *)
LEMMA ApiStepType ==
  ASSUME TypeInv, NEW j \in Jobs, ApiStep(j)
  PROVE  TypeInv'
<1> USE DEF TypeInv
<1>w. WorkerTypeOK'
  <2>1. UNCHANGED workerVars
    BY Zenon DEF ApiStep, CreateJob, ReplayJob, ApiEnqueue, CancelJob, CancelAck, CancelPublish,
           ApiCrash, PauseJobType, ResumeJobType
  <2> QED  BY <2>1, WorkersUnchangedType, Zenon
<1>q. QueueTypeOK'
  <2>1. CASE ApiEnqueue(j)
    BY <2>1, EnqueueType, QueueAssumption DEF ApiEnqueue, Retries
  <2>2. CASE CancelAck(j)
    BY <2>2, UntrackType, Zenon DEF CancelAck, Ack
  <2>3. CASE ~ ApiEnqueue(j) /\ ~ CancelAck(j)
    BY <2>3, QueueUnchangedType, Zenon
   DEF ApiStep, CreateJob, ReplayJob, CancelJob, CancelPublish, ApiCrash,
        PauseJobType, ResumeJobType
  <2> QED  BY <2>1, <2>2, <2>3, Zenon
<1>r. RestTypeOK'
  <2>1. CASE CreateJob(j)
    BY <2>1, Zenon DEF CreateJob, RestTypeOK, poolVars, history, Statuses, Terminal
  <2>2. CASE ReplayJob(j)
    BY <2>2, SpendType, Zenon DEF ReplayJob, RestTypeOK, poolVars, Statuses, Terminal, FaultKinds
  <2>3. CASE ApiEnqueue(j)
    BY <2>3, Zenon DEF ApiEnqueue, RestTypeOK, poolVars, history
  <2>4. CASE CancelJob(j)
    BY <2>4, SpendType, Zenon DEF CancelJob, RestTypeOK, poolVars, Statuses, Terminal, FaultKinds
  <2>5. CASE CancelAck(j)
    BY <2>5, Zenon DEF CancelAck, RestTypeOK, poolVars, history
  <2>6. CASE CancelPublish(j)
    BY <2>6, Zenon DEF CancelPublish, RestTypeOK, history
  <2>7. CASE ApiCrash(j)
    BY <2>7, SpendType, Zenon DEF ApiCrash, RestTypeOK, poolVars, FaultKinds
  <2>8. CASE PauseJobType(j)
    BY <2>8, Zenon DEF PauseJobType, RestTypeOK, poolVars, history
  <2>9. CASE ResumeJobType(j)
    BY <2>9, Zenon DEF ResumeJobType, RestTypeOK, poolVars, history
  <2> QED  BY <2>1, <2>2, <2>3, <2>4, <2>5, <2>6, <2>7, <2>8, <2>9, Zenon DEF ApiStep
<1> QED  BY <1>w, <1>q, <1>r, Zenon

(* A step of a worker keeps the types, one case for each call.             *)
LEMMA ProcessOnceType ==
  ASSUME TypeInv, NEW w \in Workers, ProcessOnce(w)
  PROVE  TypeInv'
<1> USE DEF TypeInv
<1>j. pc[w] \in Owning \cup Closing => job[w] \in Jobs
  BY Zenon DEF WorkerTypeOK, HoldsJob, Owning, Closing
<1>d. ASSUME NEW j \in Jobs, Dequeue(w, j)
      PROVE  TypeInv'
  <2>1. QueueTypeOK' /\ Head(queue[j]) \in Retries
    BY <1>d, BRPopType, Zenon DEF Dequeue
  <2>2. WorkerTypeOK'
    BY <1>d, <2>1, SystemAssumption, Zenon DEF Dequeue, WorkerTypeOK, HoldsJob, Calls, Owning
  <2>3. RestTypeOK'
    BY <1>d, RestUnchangedType, Zenon DEF Dequeue
  <2> QED  BY <2>1, <2>2, <2>3, Zenon
<1>1. CASE TrackInFlight(w)
  <2>1. QueueTypeOK'
    BY <1>1, <1>j, TrackType, Zenon DEF TrackInFlight, At, Owning, WorkerTypeOK
  <2>2. WorkerTypeOK'
    BY <1>1, GotoType, Zenon DEF TrackInFlight, At, Owning, Closing
  <2>3. RestTypeOK'
    BY <1>1, RestUnchangedType, Zenon DEF TrackInFlight
  <2> QED  BY <2>1, <2>2, <2>3, Zenon
<1>2. CASE DropOnDrain(w)
  <2>1. QueueTypeOK'
    BY <1>2, QueueUnchangedType, Zenon DEF DropOnDrain
  <2>2. WorkerTypeOK'
    BY <1>2, ReturnType, Zenon DEF DropOnDrain, RestTypeOK
  <2>3. RestTypeOK'
    BY <1>2, ReturnType, Zenon DEF DropOnDrain, Return, RestTypeOK, storeVars, history
  <2> QED  BY <2>1, <2>2, <2>3, Zenon
<1>3. CASE CheckIsProcessed(w)
  <2>1. QueueTypeOK'
    BY <1>3, QueueUnchangedType, Zenon DEF CheckIsProcessed
  <2>2. WorkerTypeOK'
    BY <1>3, GotoType, Zenon DEF CheckIsProcessed, At, Owning, Closing
  <2>3. RestTypeOK'
    BY <1>3, RestUnchangedType, Zenon DEF CheckIsProcessed
  <2> QED  BY <2>1, <2>2, <2>3, Zenon
<1>4. CASE CheckIsPaused(w)
  <2>1. QueueTypeOK'
    BY <1>4, QueueUnchangedType, Zenon DEF CheckIsPaused
  <2>2. WorkerTypeOK'
    BY <1>4, GotoType, Zenon DEF CheckIsPaused, At, Owning, Closing
  <2>3. RestTypeOK'
    BY <1>4, RestUnchangedType, Zenon DEF CheckIsPaused
  <2> QED  BY <2>1, <2>2, <2>3, Zenon
<1>5. CASE CheckStatus(w)
  <2>1. QueueTypeOK'
    BY <1>5, QueueUnchangedType, Zenon DEF CheckStatus
  <2>2. WorkerTypeOK'
    BY <1>5, GotoType, Zenon DEF CheckStatus, At, Owning, Closing
  <2>3. RestTypeOK'
    BY <1>5, RestUnchangedType, Zenon DEF CheckStatus
  <2> QED  BY <2>1, <2>2, <2>3, Zenon
<1>6. CASE SkipAck(w)
  <2>1. QueueTypeOK'
    BY <1>6, <1>j, UntrackType, QueueUnchangedType, Zenon DEF SkipAck, At, Closing, Ack
  <2>2. WorkerTypeOK'
    BY <1>6, ReturnType, Zenon DEF SkipAck, RestTypeOK
  <2>3. RestTypeOK'
    BY <1>6, ReturnType, Zenon DEF SkipAck, Return, RestTypeOK, storeVars, history
  <2> QED  BY <2>1, <2>2, <2>3, Zenon
<1>7. CASE SetProcessing(w)
  <2>1. QueueTypeOK'
    BY <1>7, QueueUnchangedType, Zenon DEF SetProcessing
  <2>2. WorkerTypeOK'
    BY <1>7, GotoType, Zenon DEF SetProcessing, At, Owning, Closing
  <2>3. RestTypeOK'
    BY <1>7, <1>j, SetStatusType, RestUnchangedType, Zenon DEF SetProcessing, At, Owning, Statuses, Terminal
  <2> QED  BY <2>1, <2>2, <2>3, Zenon
<1>8. CASE AbandonAtLimiter(w)
  <2>1. QueueTypeOK'
    BY <1>8, QueueUnchangedType, Zenon DEF AbandonAtLimiter
  <2>2. WorkerTypeOK'
    BY <1>8, ReturnType, Zenon DEF AbandonAtLimiter, RestTypeOK
  <2>3. RestTypeOK'
    BY <1>8, ReturnType, Zenon DEF AbandonAtLimiter, Return, RestTypeOK, storeVars, history
  <2> QED  BY <2>1, <2>2, <2>3, Zenon
<1>9. CASE StartExecution(w)
  <2>1. QueueTypeOK'
    BY <1>9, QueueUnchangedType, Zenon DEF StartExecution
  <2>2. WorkerTypeOK'
    BY <1>9, Zenon DEF StartExecution, At, WorkerTypeOK, HoldsJob, Calls, Owning
  <2>3. RestTypeOK'
    BY <1>9, <1>j, SystemAssumption, Zenon DEF StartExecution, At, Owning, RestTypeOK, storeVars, history
  <2> QED  BY <2>1, <2>2, <2>3, Zenon
<1>10. CASE Succeed(w)
  <2>1. QueueTypeOK'
    BY <1>10, QueueUnchangedType, Zenon DEF Succeed
  <2>2. WorkerTypeOK'
    BY <1>10, GotoType, Zenon DEF Succeed, At, Owning, Closing
  <2>3. RestTypeOK'
    BY <1>10, <1>j, Zenon DEF Succeed, At, Owning, RestTypeOK, storeVars, poolVars
  <2> QED  BY <2>1, <2>2, <2>3, Zenon
<1>11. CASE Fault(w)
  <2>1. QueueTypeOK'
    BY <1>11, QueueUnchangedType, Zenon DEF Fault
  <2>2. WorkerTypeOK'
    BY <1>11, QueueAssumption DEF Fault, At, WorkerTypeOK, HoldsJob, Calls, Owning, Retries
  <2>3. RestTypeOK'
    BY <1>11, <1>j, QueueAssumption DEF Fault, At, Owning, RestTypeOK, storeVars, poolVars, Exhausted
  <2> QED  BY <2>1, <2>2, <2>3, Zenon
<1>12. CASE CircuitOpen(w)
  <2>1. QueueTypeOK'
    BY <1>12, QueueUnchangedType, Zenon DEF CircuitOpen
  <2>2. WorkerTypeOK'
    BY <1>12, GotoType, Zenon DEF CircuitOpen, At, Owning, Closing
  <2>3. RestTypeOK'
    BY <1>12, RestUnchangedType, Zenon DEF CircuitOpen
  <2> QED  BY <2>1, <2>2, <2>3, Zenon
<1>13. CASE RecordProcessed(w)
  <2>1. QueueTypeOK'
    BY <1>13, <1>j, MarkProcessedType, QueueUnchangedType, Zenon DEF RecordProcessed, At, Owning
  <2>2. WorkerTypeOK'
    BY <1>13, GotoType, Zenon DEF RecordProcessed, At, Owning, Closing
  <2>3. RestTypeOK'
    BY <1>13, RestUnchangedType, Zenon DEF RecordProcessed
  <2> QED  BY <2>1, <2>2, <2>3, Zenon
<1>14. CASE SaveResult(w)
  <2>1. QueueTypeOK'
    BY <1>14, QueueUnchangedType, Zenon DEF SaveResult
  <2>2. WorkerTypeOK'
    BY <1>14, GotoType, Zenon DEF SaveResult, At, Owning, Closing
  <2>3. RestTypeOK'
    BY <1>14, <1>j, SetStatusType, RestUnchangedType, Zenon DEF SaveResult, At, Owning, Statuses, Terminal
  <2> QED  BY <2>1, <2>2, <2>3, Zenon
<1>15. CASE AckDone(w)
  <2>1. QueueTypeOK'
    BY <1>15, <1>j, UntrackType, QueueUnchangedType, Zenon DEF AckDone, At, Closing, Ack
  <2>2. WorkerTypeOK'
    BY <1>15, ReturnType, Zenon DEF AckDone, RestTypeOK
  <2>3. RestTypeOK'
    BY <1>15, ReturnType, Zenon DEF AckDone, Return, RestTypeOK, storeVars, history
  <2> QED  BY <2>1, <2>2, <2>3, Zenon
<1>16. CASE SetPending(w)
  <2>1. QueueTypeOK'
    BY <1>16, QueueUnchangedType, Zenon DEF SetPending
  <2>2. WorkerTypeOK'
    BY <1>16, GotoType, Zenon DEF SetPending, At, Owning, Closing
  <2>3. RestTypeOK'
    BY <1>16, <1>j, SetStatusType, RestUnchangedType, Zenon DEF SetPending, At, Owning, Statuses, Terminal
  <2> QED  BY <2>1, <2>2, <2>3, Zenon
<1>17. CASE Requeue(w)
  <2>1. QueueTypeOK'
    BY <1>17, <1>j, EnqueueType, Zenon DEF Requeue, At, Owning, WorkerTypeOK
  <2>2. WorkerTypeOK'
    BY <1>17, GotoType, Zenon DEF Requeue, At, Owning, Closing
  <2>3. RestTypeOK'
    BY <1>17, RestUnchangedType, Zenon DEF Requeue
  <2> QED  BY <2>1, <2>2, <2>3, Zenon
<1>18. CASE RequeueFails(w)
  <2>1. QueueTypeOK'
    BY <1>18, QueueUnchangedType, Zenon DEF RequeueFails
  <2>2. WorkerTypeOK'
    BY <1>18, ReturnType, Zenon DEF RequeueFails, RestTypeOK
  <2>3. RestTypeOK'
    BY <1>18, ReturnType, Zenon DEF RequeueFails, Return, RestTypeOK, storeVars, history
  <2> QED  BY <2>1, <2>2, <2>3, Zenon
<1>19. CASE AckRequeued(w)
  <2>1. QueueTypeOK'
    BY <1>19, <1>j, UntrackType, QueueUnchangedType, Zenon DEF AckRequeued, At, Closing, Ack
  <2>2. WorkerTypeOK'
    BY <1>19, ReturnType, Zenon DEF AckRequeued, RestTypeOK
  <2>3. RestTypeOK'
    BY <1>19, ReturnType, Zenon DEF AckRequeued, Return, RestTypeOK, storeVars, history
  <2> QED  BY <2>1, <2>2, <2>3, Zenon
<1>20. CASE SaveFailed(w)
  <2>1. QueueTypeOK'
    BY <1>20, QueueUnchangedType, Zenon DEF SaveFailed
  <2>2. WorkerTypeOK'
    BY <1>20, GotoType, Zenon DEF SaveFailed, At, Owning, Closing
  <2>3. RestTypeOK'
    BY <1>20, <1>j, SetStatusType, RestUnchangedType, Zenon DEF SaveFailed, At, Owning, Statuses, Terminal
  <2> QED  BY <2>1, <2>2, <2>3, Zenon
<1>21. CASE FailRead(w)
  <2>1. QueueTypeOK'
    BY <1>21, QueueUnchangedType, Zenon DEF FailRead
  <2>2. WorkerTypeOK'
    BY <1>21, GotoType, Zenon DEF FailRead, At, Owning, Closing
  <2>3. RestTypeOK'
    BY <1>21, RestUnchangedType, Zenon DEF FailRead
  <2> QED  BY <2>1, <2>2, <2>3, Zenon
<1>22. CASE FailNotFound(w)
  <2>1. QueueTypeOK'
    BY <1>22, QueueUnchangedType, Zenon DEF FailNotFound
  <2>2. WorkerTypeOK'
    BY <1>22, ReturnType, Zenon DEF FailNotFound, RestTypeOK
  <2>3. RestTypeOK'
    BY <1>22, ReturnType, Zenon DEF FailNotFound, Return, RestTypeOK, storeVars, history
  <2> QED  BY <2>1, <2>2, <2>3, Zenon
<1>23. CASE FailRemove(w)
  <2>1. QueueTypeOK'
    BY <1>23, <1>j, UntrackType, QueueUnchangedType, Zenon DEF FailRemove, At, Closing
  <2>2. WorkerTypeOK'
    BY <1>23, GotoType, ReturnType, Zenon DEF FailRemove, At, Closing, RestTypeOK
  <2>3. RestTypeOK'
    <3>1. CASE ExecLive(w)
      BY <1>23, <3>1, RestUnchangedType, Zenon DEF FailRemove
    <3>2. CASE ~ ExecLive(w)
      BY <1>23, <3>2, ReturnType, Zenon DEF FailRemove, Return, RestTypeOK, storeVars, history
    <3> QED  BY <3>1, <3>2, Zenon
  <2> QED  BY <2>1, <2>2, <2>3, Zenon
<1>24. CASE FailPush(w)
  <2>1. QueueTypeOK'
    BY <1>24, <1>j, PushDeadLetterType, QueueUnchangedType, Zenon DEF FailPush, At, Closing
  <2>2. WorkerTypeOK'
    BY <1>24, ReturnType, Zenon DEF FailPush, RestTypeOK
  <2>3. RestTypeOK'
    BY <1>24, ReturnType, Zenon DEF FailPush, Return, RestTypeOK, storeVars, history
  <2> QED  BY <2>1, <2>2, <2>3, Zenon
<1>25. CASE LeaveLoop(w)
  <2>1. QueueTypeOK'
    BY <1>25, QueueUnchangedType, Zenon DEF LeaveLoop
  <2>2. WorkerTypeOK'
    BY <1>25, Zenon DEF LeaveLoop, Goto, At, WorkerTypeOK, HoldsJob, Calls
  <2>3. RestTypeOK'
    BY <1>25, RestUnchangedType, Zenon DEF LeaveLoop
  <2> QED  BY <2>1, <2>2, <2>3, Zenon
<1> QED  BY <1>d, <1>1, <1>2, <1>3, <1>4, <1>5, <1>6, <1>7, <1>8, <1>9, <1>10, <1>11,
         <1>12, <1>13, <1>14, <1>15, <1>16, <1>17, <1>18, <1>19, <1>20, <1>21, <1>22,
         <1>23, <1>24, <1>25 DEF ProcessOnce

(* SetStatus changes the status of one record, when the record is there.   *)
LEMMA SetStatusEffect ==
  ASSUME RestTypeOK, NEW k \in Jobs, NEW st, NEW w, SetStatus(k, st, w), NEW j \in Jobs
  PROVE  status'[j] = IF j = k /\ status[j] # "absent" THEN st ELSE status[j]
<1>1. DOMAIN status = Jobs
  BY Zenon DEF RestTypeOK
<1> QED  BY <1>1, Zenon DEF SetStatus

(* A worker's step changes no other worker and no process.                 *)
LEMMA ProcessOnceFrame ==
  ASSUME WorkerTypeOK, NEW w \in Workers, ProcessOnce(w)
  PROVE  /\ pc[w] # "exited"
         /\ up' = up
         /\ \A v \in Workers \ {w} : /\ pc'[v] = pc[v] /\ job'[v] = job[v]
                                     /\ tries'[v] = tries[v] /\ ctx'[v] = ctx[v]
<1> USE DEF WorkerTypeOK, At, Goto, Return, poolVars
<1>1. CASE \E j \in Jobs : Dequeue(w, j)
  BY <1>1, Zenon DEF Dequeue
<1>2. CASE \/ TrackInFlight(w) \/ DropOnDrain(w) \/ CheckIsProcessed(w) \/ CheckIsPaused(w)
           \/ CheckStatus(w) \/ SkipAck(w) \/ SetProcessing(w) \/ AbandonAtLimiter(w)
           \/ StartExecution(w)
  BY <1>2 DEF TrackInFlight, DropOnDrain, CheckIsProcessed, CheckIsPaused, CheckStatus,
              SkipAck, SetProcessing, AbandonAtLimiter, StartExecution
<1>3. CASE \/ Succeed(w) \/ Fault(w) \/ CircuitOpen(w) \/ RecordProcessed(w) \/ SaveResult(w)
           \/ AckDone(w) \/ SetPending(w)
  BY <1>3 DEF Succeed, Fault, CircuitOpen, RecordProcessed, SaveResult, AckDone, SetPending
<1>4. CASE \/ Requeue(w) \/ RequeueFails(w) \/ AckRequeued(w) \/ SaveFailed(w) \/ FailRead(w)
           \/ FailNotFound(w) \/ FailRemove(w) \/ FailPush(w) \/ LeaveLoop(w)
  BY <1>4 DEF Requeue, RequeueFails, AckRequeued, SaveFailed, FailRead, FailNotFound,
              FailRemove, FailPush, LeaveLoop
<1> QED  BY <1>1, <1>2, <1>3, <1>4 DEF ProcessOnce

(* The call a worker is at, and the actions its step may be there.         *)
Dispatched(w) ==
  \/ pc[w] = "brpop" /\ ((\E j \in Jobs : Dequeue(w, j)) \/ LeaveLoop(w))
  \/ pc[w] = "track" /\ (TrackInFlight(w) \/ DropOnDrain(w))
  \/ pc[w] = "isProcessed" /\ CheckIsProcessed(w)
  \/ pc[w] = "isPaused" /\ CheckIsPaused(w)
  \/ pc[w] = "getStatus" /\ CheckStatus(w)
  \/ pc[w] = "skipAck" /\ SkipAck(w)
  \/ pc[w] = "setProcessing" /\ SetProcessing(w)
  \/ pc[w] = "limiter" /\ (AbandonAtLimiter(w) \/ StartExecution(w))
  \/ pc[w] = "execute" /\ (Succeed(w) \/ Fault(w) \/ CircuitOpen(w))
  \/ pc[w] = "markProcessed" /\ RecordProcessed(w)
  \/ pc[w] = "saveResult" /\ SaveResult(w)
  \/ pc[w] = "ackDone" /\ AckDone(w)
  \/ pc[w] = "setPending" /\ SetPending(w)
  \/ pc[w] = "requeue" /\ (Requeue(w) \/ RequeueFails(w))
  \/ pc[w] = "ackRequeued" /\ AckRequeued(w)
  \/ pc[w] = "saveFailed" /\ SaveFailed(w)
  \/ pc[w] = "failRead" /\ (FailRead(w) \/ FailNotFound(w))
  \/ pc[w] = "failRemove" /\ FailRemove(w)
  \/ pc[w] = "failPush" /\ FailPush(w)

(* The call a worker is at decides which action its step is.               *)
LEMMA DispatchedStep ==
  ASSUME NEW w \in Workers, ProcessOnce(w)
  PROVE  Dispatched(w)
<1>1. CASE (\E j \in Jobs : Dequeue(w, j)) \/ LeaveLoop(w) \/ TrackInFlight(w) \/ DropOnDrain(w)
           \/ CheckIsProcessed(w) \/ CheckIsPaused(w)
  BY <1>1, Zenon DEF Dispatched, At, Dequeue, LeaveLoop, TrackInFlight, DropOnDrain, CheckIsProcessed, CheckIsPaused
<1>2. CASE CheckStatus(w) \/ SkipAck(w) \/ SetProcessing(w) \/ AbandonAtLimiter(w)
           \/ StartExecution(w) \/ Succeed(w) \/ Fault(w) \/ CircuitOpen(w)
  BY <1>2, Zenon DEF Dispatched, At, CheckStatus, SkipAck, SetProcessing, AbandonAtLimiter, StartExecution,
              Succeed, Fault, CircuitOpen
<1>3. CASE RecordProcessed(w) \/ SaveResult(w) \/ AckDone(w) \/ SetPending(w) \/ Requeue(w)
           \/ RequeueFails(w) \/ AckRequeued(w)
  BY <1>3, Zenon DEF Dispatched, At, RecordProcessed, SaveResult, AckDone, SetPending, Requeue, RequeueFails,
              AckRequeued
<1>4. CASE SaveFailed(w) \/ FailRead(w) \/ FailNotFound(w) \/ FailRemove(w) \/ FailPush(w)
  BY <1>4, Zenon DEF Dispatched, At, SaveFailed, FailRead, FailNotFound, FailRemove, FailPush
<1> QED  BY <1>1, <1>2, <1>3, <1>4, Zenon DEF ProcessOnce

(* The same, written out for the proofs that use it.                       *)
LEMMA Dispatch ==
  ASSUME NEW w \in Workers, ProcessOnce(w)
  PROVE  \/ pc[w] = "brpop" /\ ((\E j \in Jobs : Dequeue(w, j)) \/ LeaveLoop(w))
         \/ pc[w] = "track" /\ (TrackInFlight(w) \/ DropOnDrain(w))
         \/ pc[w] = "isProcessed" /\ CheckIsProcessed(w)
         \/ pc[w] = "isPaused" /\ CheckIsPaused(w)
         \/ pc[w] = "getStatus" /\ CheckStatus(w)
         \/ pc[w] = "skipAck" /\ SkipAck(w)
         \/ pc[w] = "setProcessing" /\ SetProcessing(w)
         \/ pc[w] = "limiter" /\ (AbandonAtLimiter(w) \/ StartExecution(w))
         \/ pc[w] = "execute" /\ (Succeed(w) \/ Fault(w) \/ CircuitOpen(w))
         \/ pc[w] = "markProcessed" /\ RecordProcessed(w)
         \/ pc[w] = "saveResult" /\ SaveResult(w)
         \/ pc[w] = "ackDone" /\ AckDone(w)
         \/ pc[w] = "setPending" /\ SetPending(w)
         \/ pc[w] = "requeue" /\ (Requeue(w) \/ RequeueFails(w))
         \/ pc[w] = "ackRequeued" /\ AckRequeued(w)
         \/ pc[w] = "saveFailed" /\ SaveFailed(w)
         \/ pc[w] = "failRead" /\ (FailRead(w) \/ FailNotFound(w))
         \/ pc[w] = "failRemove" /\ FailRemove(w)
         \/ pc[w] = "failPush" /\ FailPush(w)
BY DispatchedStep DEF Dispatched

(* What a worker's step leaves alone, by the call the worker is at.        *)
LEMMA ProcessOnceEffects ==
  ASSUME WorkerTypeOK, NEW w \in Workers, ProcessOnce(w)
  PROVE  /\ UNCHANGED <<future, api, paused, cancelMsgs, used, copied, cancelled, quiet>>
         /\ pc[w] \notin {"brpop", "requeue"} => UNCHANGED <<queue, delayed>>
         /\ pc[w] \notin {"setProcessing", "saveResult", "setPending", "saveFailed"}
              => UNCHANGED <<status, owner>>
         /\ pc[w] # "execute" => UNCHANGED <<failures, succeeded>>
         /\ pc[w] # "markProcessed" => UNCHANGED processed
         /\ \/ UNCHANGED <<payloads, inflight>>
            \/ pc[w] = "track" /\ TrackInFlight(w)
            \/ /\ pc[w] \in Closing
               /\ payloads' = [payloads EXCEPT ![job[w]] = NoPayload]
               /\ inflight' = [inflight EXCEPT ![job[w]] = "none"]
         /\ \/ job'[w] = job[w] /\ pc'[w] \in Owning \cup Closing
            \/ pc[w] = "brpop" /\ pc'[w] = "track" /\ \E j \in Jobs : job'[w] = j /\ Dequeue(w, j)
            \/ job'[w] = NoJob /\ pc'[w] \in {"brpop", "exited"}
<1> USE DEF WorkerTypeOK, HoldsJob, Owning, Closing, At, redisVars, storeVars, poolVars, history
<1>1. CASE pc[w] = "brpop" /\ ((\E j \in Jobs : Dequeue(w, j)) \/ LeaveLoop(w))
  <2>1. CASE LeaveLoop(w)
    BY <1>1, <2>1, Zenon DEF LeaveLoop, Goto
  <2>2. ASSUME NEW j \in Jobs, Dequeue(w, j)
        PROVE  /\ UNCHANGED <<future, api, paused, cancelMsgs, used, copied, cancelled, quiet>>
               /\ UNCHANGED <<status, owner, failures, succeeded, processed, payloads, inflight>>
               /\ pc'[w] = "track" /\ job'[w] = j
    BY <2>2, Zenon DEF Dequeue, BRPop
  <2> QED  BY <1>1, <2>1, <2>2, Zenon
<1>2. CASE \/ pc[w] = "track" /\ (TrackInFlight(w) \/ DropOnDrain(w))
           \/ pc[w] = "isProcessed" /\ CheckIsProcessed(w)
           \/ pc[w] = "isPaused" /\ CheckIsPaused(w)
           \/ pc[w] = "getStatus" /\ CheckStatus(w)
  BY <1>2 DEF TrackInFlight, Track, DropOnDrain, CheckIsProcessed, CheckIsPaused, CheckStatus,
     Goto, Return
<1>3. CASE \/ pc[w] = "skipAck" /\ SkipAck(w)
           \/ pc[w] = "ackDone" /\ AckDone(w)
           \/ pc[w] = "ackRequeued" /\ AckRequeued(w)
  BY <1>3, Zenon DEF SkipAck, AckDone, AckRequeued, Ack, Untrack, Return
<1>4. CASE \/ pc[w] = "setProcessing" /\ SetProcessing(w)
           \/ pc[w] = "saveResult" /\ SaveResult(w)
           \/ pc[w] = "setPending" /\ SetPending(w)
           \/ pc[w] = "saveFailed" /\ SaveFailed(w)
  BY <1>4 DEF SetProcessing, SaveResult, SetPending, SaveFailed, SetStatus, Goto
<1>5. CASE \/ pc[w] = "limiter" /\ (AbandonAtLimiter(w) \/ StartExecution(w))
           \/ pc[w] = "execute" /\ (Succeed(w) \/ Fault(w) \/ CircuitOpen(w))
           \/ pc[w] = "markProcessed" /\ RecordProcessed(w)
  BY <1>5, Zenon DEF AbandonAtLimiter, StartExecution, Succeed, Fault, CircuitOpen, RecordProcessed,
     MarkProcessed, Goto, Return
<1>6. CASE pc[w] = "requeue" /\ (Requeue(w) \/ RequeueFails(w))
  BY <1>6 DEF Requeue, Enqueue, RequeueFails, Goto, Return
<1>7. CASE \/ pc[w] = "failRead" /\ (FailRead(w) \/ FailNotFound(w))
           \/ pc[w] = "failRemove" /\ FailRemove(w)
           \/ pc[w] = "failPush" /\ FailPush(w)
  BY <1>7, Zenon DEF FailRead, FailNotFound, FailRemove, FailPush, PushDeadLetter, Untrack, Goto, Return
<1> QED  BY <1>1, <1>2, <1>3, <1>4, <1>5, <1>6, <1>7, Dispatch, Zenon

(* The job a worker holds, its context and the registry change only when  *)
(* it pops a job, starts to execute it or returns.                         *)
LEMMA ProcessOnceShape ==
  ASSUME NEW w \in Workers, ProcessOnce(w)
  PROVE  \/ \E j \in Jobs : Dequeue(w, j)
         \/ StartExecution(w) \/ Return(w)
         \/ UNCHANGED <<active, job, ctx>>
BY Zenon DEF ProcessOnce, TrackInFlight, DropOnDrain, CheckIsProcessed, CheckIsPaused, CheckStatus, SkipAck,
   SetProcessing, AbandonAtLimiter, Succeed, Fault, CircuitOpen, RecordProcessed, SaveResult, AckDone,
   SetPending, Requeue, RequeueFails, AckRequeued, SaveFailed, FailRead, FailNotFound, FailRemove,
   FailPush, LeaveLoop, Goto, poolVars

(* What the other steps leave alone.                                       *)
LEMMA ApiFrame ==
  ASSUME NEW j \in Jobs, ApiStep(j)
  PROVE  /\ UNCHANGED <<pc, job, tries, ctx, up, active, failures, succeeded, processed, future>>
         /\ ~ ApiEnqueue(j) => UNCHANGED <<queue, delayed>>
         /\ ~ CancelAck(j) => UNCHANGED <<payloads, inflight>>
         /\ ~ CreateJob(j) /\ ~ ReplayJob(j) /\ ~ CancelJob(j) => UNCHANGED <<status, quiet>>
         /\ ~ ReplayJob(j) => UNCHANGED copied
         /\ ~ CancelJob(j) => UNCHANGED cancelled
BY Zenon DEF ApiStep, CreateJob, ReplayJob, ApiEnqueue, Enqueue, CancelJob, CancelAck, Ack, Untrack,
   CancelPublish, ApiCrash, PauseJobType, ResumeJobType, redisVars, workerVars, poolVars, history

(* The scheduler and the clock change the broker only.                     *)
LEMMA ClockFrame ==
  ASSUME SchedulerStep \/ \E j \in Jobs : Tick(j)
  PROVE  UNCHANGED <<processed, status, owner, api, paused, pc, job, tries, ctx, up, active,
                     cancelMsgs, failures, succeeded, cancelled, quiet>>
BY Zenon DEF SchedulerStep, Promote, PromoteScheduledJobs, Reclaim, ReclaimTimedOutJobs, Tick,
   VisibilityTimeout, RunAtReached, storeVars, workerVars, poolVars, history

(* The workers of a process that is down have left their loops.            *)
DownIsEmpty ==
  \A i \in Instances : up[i] = "down" => \A w \in WorkersOf(i) : pc[w] = "exited"

(* Drain, exit, crash, restart and cancellation keep the types.            *)
LEMMA InstanceStepType ==
  ASSUME TypeInv, DownIsEmpty, NEW i \in Instances, InstanceStep(i)
  PROVE  TypeInv'
<1> USE DEF TypeInv
<1>1. ASSUME NEW j \in Jobs, ReceiveCancel(i, j)
      PROVE  TypeInv'
  <2>1. QueueTypeOK'
    BY <1>1, QueueUnchangedType, Zenon DEF ReceiveCancel
  <2>2. WorkerTypeOK'
    BY <1>1, Zenon DEF ReceiveCancel, WorkerTypeOK, HoldsJob
  <2>3. RestTypeOK'
    BY <1>1, Zenon DEF ReceiveCancel, RestTypeOK, storeVars, history
  <2> QED  BY <2>1, <2>2, <2>3, Zenon
<1>2. CASE InitiateDrain(i)
  <2>1. QueueTypeOK' /\ WorkerTypeOK'
    BY <1>2, QueueUnchangedType, WorkersUnchangedType, Zenon DEF InitiateDrain
  <2>2. RestTypeOK'
    BY <1>2, SpendType, Zenon DEF InitiateDrain, RestTypeOK, storeVars, FaultKinds
  <2> QED  BY <2>1, <2>2, Zenon
<1>3. CASE Drained(i)
  <2>1. QueueTypeOK' /\ WorkerTypeOK'
    BY <1>3, QueueUnchangedType, WorkersUnchangedType, Zenon DEF Drained
  <2>2. RestTypeOK'
    BY <1>3, Zenon DEF Drained, RestTypeOK, storeVars, history
  <2> QED  BY <2>1, <2>2, Zenon
<1>4. CASE Crash(i)
  <2>1. QueueTypeOK'
    BY <1>4, QueueUnchangedType, Zenon DEF Crash
  <2>2. WorkerTypeOK'
    BY <1>4, QueueAssumption DEF Crash, WorkerTypeOK, HoldsJob, Calls, Retries
  <2>3. RestTypeOK'
    BY <1>4, SpendType, Zenon DEF Crash, RestTypeOK, storeVars, FaultKinds
  <2> QED  BY <2>1, <2>2, <2>3, Zenon
<1>5. CASE Restart(i)
  <2>1. Orphans(i) = {}
    BY SystemAssumption, Zenon DEF Orphans, RestTypeOK
  <2>2. QueueTypeOK'
    BY <1>5, <2>1, Zenon DEF Restart, QueueTypeOK
  <2>3. WorkerTypeOK'
    BY <1>5, Zenon DEF Restart, DownIsEmpty, WorkersOf, WorkerTypeOK, HoldsJob, Calls
  <2>4. RestTypeOK'
    BY <1>5, <2>1, Zenon DEF Restart, RestTypeOK
  <2> QED  BY <2>2, <2>3, <2>4, Zenon
<1> QED  BY <1>1, <1>2, <1>3, <1>4, <1>5 DEF InstanceStep

(* A step of the scheduler keeps the types.                                *)
LEMMA SchedulerStepType ==
  ASSUME TypeInv, SchedulerStep
  PROVE  TypeInv'
<1> USE DEF TypeInv
<1>1. CASE Promote
  BY <1>1, PromoteType, WorkersUnchangedType, RestUnchangedType, Zenon DEF Promote
<1>2. CASE Reclaim
  <2>1. QueueTypeOK' /\ WorkerTypeOK'
    BY <1>2, ReclaimType, WorkersUnchangedType, Zenon DEF Reclaim
  <2>2. used' \in [FaultKinds -> Nat]
    BY <1>2, SpendType, Zenon DEF Reclaim, RestTypeOK, FaultKinds
  <2>3. RestTypeOK'
    BY <1>2, <2>2, Zenon DEF Reclaim, TimedOut, RestTypeOK, storeVars, poolVars
  <2> QED  BY <2>1, <2>3, Zenon
<1> QED  BY <1>1, <1>2, Zenon DEF SchedulerStep

(* The passing of time keeps the types.                                    *)
LEMMA TickKeepsType ==
  ASSUME TypeInv, NEW j \in Jobs, Tick(j)
  PROVE  TypeInv'
BY TickType, WorkersUnchangedType, RestUnchangedType, Zenon DEF TypeInv, Tick

(* The workers of a process that is down have exited.                      *)
LEMMA DownIsEmptyStep ==
  ASSUME TypeInv, DownIsEmpty, Next
  PROVE  DownIsEmpty'
<1> USE DEF TypeInv
<1>1. ASSUME NEW j \in Jobs, ApiStep(j) \/ Tick(j)
      PROVE  DownIsEmpty'
  <2>1. UNCHANGED <<pc, up>>
    BY <1>1, Zenon DEF ApiStep, CreateJob, ReplayJob, ApiEnqueue, CancelJob, CancelAck, CancelPublish,
                ApiCrash, PauseJobType, ResumeJobType, Tick, workerVars, poolVars
  <2> QED  BY <2>1, Zenon DEF DownIsEmpty, WorkersOf
<1>2. ASSUME NEW w \in Workers, ProcessOnce(w)
      PROVE  DownIsEmpty'
  BY <1>2, ProcessOnceFrame DEF DownIsEmpty, WorkersOf
<1>3. ASSUME NEW i \in Instances, InstanceStep(i)
      PROVE  DownIsEmpty'
  <2>1. CASE \E j \in Jobs : ReceiveCancel(i, j)
    BY <2>1 DEF ReceiveCancel, DownIsEmpty, WorkersOf
  <2>2. CASE InitiateDrain(i)
    BY <2>2, Zenon DEF InitiateDrain, DownIsEmpty, WorkersOf, workerVars, RestTypeOK
  <2>3. CASE Drained(i)
    BY <2>3 DEF Drained, DownIsEmpty, WorkersOf, At, workerVars, RestTypeOK
  <2>4. CASE Crash(i)
    BY <2>4, Zenon DEF Crash, DownIsEmpty, WorkersOf, RestTypeOK
  <2>5. CASE Restart(i)
    BY <2>5, Zenon DEF Restart, DownIsEmpty, WorkersOf, RestTypeOK
  <2> QED  BY <1>3, <2>1, <2>2, <2>3, <2>4, <2>5 DEF InstanceStep
<1>4. CASE SchedulerStep
  BY <1>4, Zenon DEF SchedulerStep, Promote, Reclaim, DownIsEmpty, WorkersOf, workerVars, poolVars
<1> QED  BY <1>1, <1>2, <1>3, <1>4, Zenon DEF Next

(* A stuttering step keeps the types.                                      *)
LEMMA UnchangedType ==
  ASSUME TypeInv, DownIsEmpty, UNCHANGED vars
  PROVE  TypeInv' /\ DownIsEmpty'
<1>1. UNCHANGED redisVars /\ UNCHANGED workerVars /\ UNCHANGED <<storeVars, poolVars, history>>
  BY Zenon DEF vars
<1>2. TypeInv'
  BY <1>1, QueueUnchangedType, WorkersUnchangedType, RestUnchangedType, Zenon DEF TypeInv
<1>3. DownIsEmpty'
  BY <1>1, Zenon DEF DownIsEmpty, WorkersOf, workerVars, poolVars
<1> QED  BY <1>2, <1>3, Zenon

Base == TypeInv /\ DownIsEmpty

(* Every reachable state is well typed, a worker holds a job exactly while *)
(* it is inside ProcessOnce, and a process that is down runs no worker.    *)
THEOREM BaseInvariant == Spec => []Base
<1>1. Init => Base
  <2> SUFFICES ASSUME Init PROVE Base  OBVIOUS
  <2>1. QueueTypeOK
    <3>1. << >> \in Seq(Retries)
      OBVIOUS
    <3> QED  BY <3>1, SystemAssumption DEF Init, QueueInit, QueueTypeOK
  <2>2. WorkerTypeOK
    BY QueueAssumption DEF Init, WorkerTypeOK, HoldsJob, Calls, Retries
  <2>3. RestTypeOK
    BY QueueAssumption DEF Init, RestTypeOK, Statuses, Exhausted
  <2>4. DownIsEmpty
    BY Zenon DEF Init, DownIsEmpty
  <2> QED  BY <2>1, <2>2, <2>3, <2>4, Zenon DEF TypeInv, Base
<1>2. Base /\ [Next]_vars => Base'
  <2> SUFFICES ASSUME Base, [Next]_vars PROVE Base'  OBVIOUS
  <2> USE DEF Base
  <2>1. CASE Next
    <3>1. TypeInv'
      BY <2>1, ApiStepType, TickKeepsType, ProcessOnceType, InstanceStepType, SchedulerStepType, Zenon
     DEF Next
    <3> QED  BY <2>1, <3>1, DownIsEmptyStep, Zenon
  <2>2. CASE UNCHANGED vars
    BY <2>2, UnchangedType, Zenon
  <2> QED  BY <2>1, <2>2, Zenon
<1> QED  BY <1>1, <1>2, PTL DEF Spec

(* The type invariant TLC checks holds in every reachable state.           *)
THEOREM TypeCorrect == Spec => []TypeOK
BY BaseInvariant, TypeInvImpliesTypeOK, PTL DEF Base
-----------------------------------------------------------------------------
(* The invariants of a job and of the worker that holds it.                *)

(* What a process does as a whole (cancel listener, drain, crash, restart) *)
(* changes neither queue nor store, and a worker keeps its job and its     *)
(* place or has none.                                                      *)
LEMMA InstanceFrame ==
  ASSUME Base, NEW i \in Instances, InstanceStep(i)
  PROVE  /\ UNCHANGED <<queue, delayed, payloads, inflight, deadLetter, processed, future>>
         /\ UNCHANGED <<status, owner, api, paused, failures, succeeded, copied, cancelled, quiet>>
         /\ \A w \in Workers :
              \/ job'[w] = job[w] /\ tries'[w] = tries[w] /\ pc'[w] = pc[w]
              \/ job'[w] = NoJob /\ pc'[w] \in {"brpop", "exited"}
<1> USE DEF Base, TypeInv, WorkerTypeOK, RestTypeOK, workerVars, WorkersOf
<1>1. Orphans(i) = {}
  BY SystemAssumption DEF Orphans
<1>2. /\ UNCHANGED <<queue, delayed, payloads, inflight, deadLetter, processed, future>>
      /\ UNCHANGED <<status, owner, api, paused, failures, succeeded, copied, cancelled, quiet>>
  <2>1. CASE Restart(i)
    BY <2>1, <1>1, Zenon DEF Restart, QueueTypeOK
  <2>2. CASE ~ Restart(i)
    BY <2>2, Zenon DEF InstanceStep, ReceiveCancel, InitiateDrain, Drained, Crash, redisVars, storeVars,
       history
  <2> QED  BY <2>1, <2>2, Zenon
<1>3. CASE (\E j \in Jobs : ReceiveCancel(i, j)) \/ InitiateDrain(i) \/ Drained(i)
  BY <1>2, <1>3, Zenon DEF ReceiveCancel, InitiateDrain, Drained
<1>4. CASE Crash(i)
  BY <1>2, <1>4, Zenon DEF Crash
<1>5. CASE Restart(i)
  <2>1. \A w \in Workers : InstanceOf[w] = i => job[w] = NoJob
    BY <1>5, Zenon DEF Restart, DownIsEmpty, HoldsJob
  <2> QED  BY <1>2, <1>5, <2>1, Zenon DEF Restart
<1> QED  BY <1>3, <1>4, <1>5, Zenon DEF InstanceStep

-----------------------------------------------------------------------------
(* In-flight records and payloads come and go together.                    *)

(* InFlightPaired holds: no operation of the queue, worker, API or         *)
(* scheduler separates a payload from its in-flight record.                *)
THEOREM InFlightPairedInvariant == Spec => []InFlightPaired
<1>1. Init => InFlightPaired
  <2> SUFFICES ASSUME Init, NEW j \in Jobs
               PROVE  payloads[j] = NoPayload /\ inflight[j] = "none"
    BY Zenon DEF InFlightPaired
  <2> QED  BY Zenon DEF Init, QueueInit
<1>2. Base /\ InFlightPaired /\ [Next]_vars => InFlightPaired'
  <2> SUFFICES ASSUME Base, InFlightPaired, [Next]_vars PROVE InFlightPaired'
    OBVIOUS
  <2> USE DEF Base, TypeInv, QueueTypeOK, InFlightPaired
  <2>t. ASSUME NEW j, NEW r \in Retries, Track(j, r)
        PROVE  InFlightPaired'
    BY <2>t, QueueAssumption DEF Track, Retries
  <2>u. ASSUME NEW j, Untrack(j)
        PROVE  InFlightPaired'
    BY <2>u, Zenon DEF Untrack
  <2>k. ASSUME UNCHANGED <<payloads, inflight>>
        PROVE  InFlightPaired'
    BY <2>k, Zenon
  <2>1. ASSUME NEW j \in Jobs, ApiStep(j)
        PROVE  InFlightPaired'
    BY <2>1, <2>u, <2>k, Zenon DEF ApiStep, CreateJob, ReplayJob, ApiEnqueue, Enqueue, CancelJob, CancelAck,
       Ack, CancelPublish, ApiCrash, PauseJobType, ResumeJobType, redisVars
  <2>2. ASSUME NEW w \in Workers, ProcessOnce(w)
        PROVE  InFlightPaired'
    <3>1. CASE TrackInFlight(w)
      BY <2>2, <3>1, <2>t, Zenon DEF TrackInFlight, WorkerTypeOK
    <3>2. CASE SkipAck(w) \/ AckDone(w) \/ AckRequeued(w) \/ FailRemove(w)
      BY <3>2, <2>u, <2>k, Zenon DEF SkipAck, AckDone, AckRequeued, FailRemove, Ack, redisVars
    <3>3. CASE ~ TrackInFlight(w) /\ ~ (SkipAck(w) \/ AckDone(w) \/ AckRequeued(w) \/ FailRemove(w))
      <4>1. UNCHANGED <<payloads, inflight>>
        BY <2>2, <3>3, Zenon DEF ProcessOnce, Dequeue, BRPop, DropOnDrain, CheckIsProcessed, CheckIsPaused,
           CheckStatus, SetProcessing, AbandonAtLimiter, StartExecution, Succeed, Fault, CircuitOpen,
           RecordProcessed, MarkProcessed, SaveResult, SetPending, Requeue, Enqueue, RequeueFails,
           SaveFailed, FailRead, FailNotFound, FailPush, PushDeadLetter, LeaveLoop, redisVars
      <4> QED  BY <4>1, <2>k, Zenon
    <3> QED  BY <3>1, <3>2, <3>3, Zenon
  <2>3. ASSUME NEW i \in Instances, InstanceStep(i)
        PROVE  InFlightPaired'
    BY <2>3, <2>k DEF InstanceStep, ReceiveCancel, InitiateDrain, Drained, Crash, Restart, redisVars
  <2>4. CASE SchedulerStep
    BY SMTT(40), <2>4, QueueAssumption DEF SchedulerStep, Promote, PromoteScheduledJobs, Reclaim,
       ReclaimTimedOutJobs, TimedOut
  <2>5. ASSUME NEW j \in Jobs, Tick(j)
        PROVE  InFlightPaired'
    BY <2>5, Zenon DEF Tick, VisibilityTimeout, RunAtReached
  <2>6. CASE UNCHANGED vars
    BY <2>6, <2>k DEF vars, redisVars
  <2> QED  BY <2>1, <2>2, <2>3, <2>4, <2>5, <2>6 DEF Next
<1> QED  BY <1>1, <1>2, BaseInvariant, PTL DEF Spec
-----------------------------------------------------------------------------
(* No job is visible to a worker before its RunAt.                         *)

Hidden(j) == queue[j] = << >> /\ payloads[j] = NoPayload /\ \A w \in Workers : job[w] # j

NeverEarlyInv == \A j \in Jobs : j \in future => Hidden(j)

(* NeverEarly holds.  It is strengthened with "has no payload either",     *)
(* which a reclaim would otherwise push to a list.                         *)
THEOREM NeverEarlyInvariant == Spec => []NeverEarly
<1>1. Init => NeverEarlyInv
  BY SystemAssumption DEF Init, QueueInit, NeverEarlyInv, Hidden
<1>2. Base /\ NeverEarlyInv /\ [Next]_vars => NeverEarlyInv'
  <2> SUFFICES ASSUME Base, NeverEarlyInv, [Next]_vars,
                      NEW j \in Jobs, j \in future'
               PROVE  Hidden(j)'
    BY Zenon DEF NeverEarlyInv
  <2>f. j \in future
    <3>1. ASSUME NEW k \in Jobs, Tick(k) PROVE j \in future
      BY <3>1, Zenon DEF Tick, VisibilityTimeout, RunAtReached
    <3>2. CASE SchedulerStep
      BY <3>2, Zenon DEF SchedulerStep, Promote, PromoteScheduledJobs, Reclaim, ReclaimTimedOutJobs
    <3> QED  BY <3>1, <3>2, ApiFrame, ProcessOnceEffects, InstanceFrame, Zenon
            DEF Next, Base, TypeInv, vars, redisVars
  <2>h. Hidden(j)
    BY <2>f, Zenon DEF NeverEarlyInv
  <2> USE DEF Base, TypeInv, QueueTypeOK, Hidden
  <2>1. ASSUME NEW k \in Jobs, ApiStep(k)
        PROVE  Hidden(j)'
    BY <2>1, <2>f, <2>h, Zenon DEF ApiStep, CreateJob, ReplayJob, ApiEnqueue, Enqueue, CancelJob, CancelAck,
       Ack, Untrack, CancelPublish, ApiCrash, PauseJobType, ResumeJobType, redisVars, workerVars
  <2>2. ASSUME NEW w \in Workers, ProcessOnce(w)
        PROVE  Hidden(j)'
    <3>1. ASSUME NEW k \in Jobs, Dequeue(w, k)
          PROVE  Hidden(j)'
      BY <3>1, <2>h, Zenon DEF Dequeue, BRPop, WorkerTypeOK
    <3>2. CASE TrackInFlight(w) \/ Requeue(w)
      BY <3>2, <2>h, Zenon DEF TrackInFlight, Track, Requeue, Enqueue, Goto
    <3>3. CASE ~ TrackInFlight(w) /\ ~ Requeue(w) /\ ~ \E k \in Jobs : Dequeue(w, k)
      <4>1. queue' = queue
        BY <2>2, <3>3, Dispatch, ProcessOnceEffects, Zenon DEF LeaveLoop, RequeueFails, redisVars
      <4>2. payloads' = payloads \/ payloads' = [payloads EXCEPT ![job[w]] = NoPayload]
        BY <2>2, <3>3, ProcessOnceEffects, Zenon
      <4>3. \A v \in Workers : job'[v] = job[v] \/ job'[v] = NoJob
        <5>1. \A v \in Workers \ {w} : job'[v] = job[v]
          BY <2>2, ProcessOnceFrame, Zenon
        <5>2. job'[w] = job[w] \/ job'[w] = NoJob
          BY <2>2, <3>3, ProcessOnceEffects, Zenon
        <5> QED  BY <5>1, <5>2, Zenon
      <4> QED  BY <4>1, <4>2, <4>3, <2>h, SystemAssumption DEF WorkerTypeOK
    <3> QED  BY <3>1, <3>2, <3>3, Zenon
  <2>3. ASSUME NEW i \in Instances, InstanceStep(i)
        PROVE  Hidden(j)'
    BY <2>3, <2>h, InstanceFrame, SystemAssumption, Zenon
  <2>4. CASE SchedulerStep
    <3>1. CASE Promote
      BY <3>1, <2>f, <2>h, Zenon DEF Promote, PromoteScheduledJobs, Due, workerVars
    <3>2. CASE Reclaim
      BY <3>2, <2>h, Zenon DEF Reclaim, ReclaimTimedOutJobs, workerVars
    <3> QED  BY <2>4, <3>1, <3>2, Zenon DEF SchedulerStep
  <2>5. ASSUME NEW k \in Jobs, Tick(k)
        PROVE  Hidden(j)'
    BY <2>5, <2>h, Zenon DEF Tick, VisibilityTimeout, RunAtReached, workerVars
  <2>6. CASE UNCHANGED vars
    BY <2>6, <2>h, Zenon DEF vars, redisVars, workerVars
  <2> QED  BY <2>1, <2>2, <2>3, <2>4, <2>5, <2>6, Zenon DEF Next
<1>3. Base /\ NeverEarlyInv => NeverEarly
  BY Zenon DEF Base, TypeInv, QueueTypeOK, NeverEarlyInv, Hidden, NeverEarly, Holders
<1> QED  BY <1>1, <1>2, <1>3, BaseInvariant, PTL DEF Spec
-----------------------------------------------------------------------------
(* The store calls a job completed only after a success.                   *)

EarnedSuccessInv ==
  /\ EarnedSuccess
  /\ \A w \in Workers : pc[w] \in {"markProcessed", "saveResult"} => job[w] \in succeeded

(* The steps that neither end an execution nor write the store record      *)
(* nothing about the job.                                                  *)
LEMMA OtherStepsRecordNothing ==
  ASSUME WorkerTypeOK, NEW w \in Workers, ProcessOnce(w), ~ SetProcessing(w), ~ SetPending(w),
         ~ SaveFailed(w), ~ RecordProcessed(w), ~ SaveResult(w), ~ Succeed(w)
  PROVE  UNCHANGED <<status, processed, succeeded>> /\ pc'[w] \notin {"markProcessed", "saveResult"}
<1>0. /\ pc[w] \notin {"setProcessing", "saveResult", "setPending", "saveFailed", "markProcessed"}
      /\ pc[w] = "execute" => Fault(w) \/ CircuitOpen(w)
  BY Dispatch, Zenon
<1>1. UNCHANGED <<status, processed, succeeded>>
  <2>1. UNCHANGED <<status, processed>> /\ (pc[w] # "execute" => UNCHANGED succeeded)
    BY <1>0, ProcessOnceEffects, Zenon
  <2> QED  BY <1>0, <2>1, Zenon DEF Fault, CircuitOpen, history
<1>2. pc'[w] \notin {"markProcessed", "saveResult"}
  <2> USE DEF WorkerTypeOK
  <2>1. CASE pc[w] \in {"brpop", "track", "skipAck", "limiter"}
    BY <2>1, Dispatch, Zenon DEF Goto, Return, Dequeue, TrackInFlight, DropOnDrain, SkipAck,
       AbandonAtLimiter, StartExecution, LeaveLoop
  <2>2. CASE pc[w] \in {"isProcessed", "isPaused", "getStatus", "execute"}
    BY <1>0, <2>2, Dispatch, Zenon DEF Goto, CheckIsProcessed, CheckIsPaused, CheckStatus, Fault, CircuitOpen
  <2>3. CASE pc[w] \in {"ackDone", "requeue", "ackRequeued"}
    BY <2>3, Dispatch, Zenon DEF Goto, Return, AckDone, Requeue, RequeueFails, AckRequeued
  <2>4. CASE pc[w] \in {"failRead", "failRemove", "failPush"}
    BY <2>4, Dispatch, Zenon DEF Goto, Return, FailRead, FailNotFound, FailRemove, FailPush
  <2> QED  BY <1>0, <2>1, <2>2, <2>3, <2>4, Dispatch, Zenon
<1> QED  BY <1>1, <1>2, Zenon

(* EarnedSuccess is strengthened with the workers between a successful     *)
(* execution and the two calls that record it.                             *)
LEMMA EarnedSuccessInductive == Spec => []EarnedSuccessInv
<1>1. Init => EarnedSuccessInv
  BY DEF Init, QueueInit, EarnedSuccessInv, EarnedSuccess
<1>2. Base /\ EarnedSuccessInv /\ [Next]_vars => EarnedSuccessInv'
  <2> SUFFICES ASSUME Base, EarnedSuccessInv, [Next]_vars
               PROVE  EarnedSuccessInv'
    OBVIOUS
  <2> USE DEF Base, TypeInv, QueueTypeOK, RestTypeOK, EarnedSuccessInv, EarnedSuccess
  <2>1. ASSUME NEW k \in Jobs, ApiStep(k)
        PROVE  EarnedSuccessInv'
    BY ZenonT(60), <2>1 DEF ApiStep, CreateJob, ReplayJob, ApiEnqueue, Enqueue, CancelJob, CancelAck, Ack,
       Untrack, CancelPublish, ApiCrash, PauseJobType, ResumeJobType, redisVars, workerVars, history
  <2>2. ASSUME NEW w \in Workers, ProcessOnce(w)
        PROVE  EarnedSuccessInv'
    <3> USE DEF WorkerTypeOK
    <3>0. \A v \in Workers \ {w} : pc'[v] = pc[v] /\ job'[v] = job[v]
      BY <2>2, ProcessOnceFrame, Zenon
    <3>1. CASE SetProcessing(w) \/ SetPending(w) \/ SaveFailed(w)
      BY <3>1 DEF SetProcessing, SetPending, SaveFailed, SetStatus, Goto, history, storeVars, redisVars
    <3>2. CASE RecordProcessed(w)
      BY <3>2 DEF RecordProcessed, MarkProcessed, At, Goto, history, storeVars, redisVars
    <3>3. CASE SaveResult(w)
      BY <3>3 DEF SaveResult, SetStatus, At, Goto, history, storeVars, redisVars
    <3>4. CASE Succeed(w)
      BY <3>4, Zenon DEF Succeed, Goto, history, storeVars, redisVars
    <3>5. CASE ~ SetProcessing(w) /\ ~ SetPending(w) /\ ~ SaveFailed(w) /\ ~ RecordProcessed(w)
               /\ ~ SaveResult(w) /\ ~ Succeed(w)
      <4>1. UNCHANGED <<status, processed, succeeded>> /\ pc'[w] \notin {"markProcessed", "saveResult"}
        BY <2>2, <3>5, OtherStepsRecordNothing
      <4> QED  BY <3>0, <4>1, Zenon
    <3> QED  BY <3>1, <3>2, <3>3, <3>4, <3>5, Zenon
  <2>3. ASSUME NEW i \in Instances, InstanceStep(i)
        PROVE  EarnedSuccessInv'
    BY <2>3, InstanceFrame, Zenon
  <2>4. CASE SchedulerStep
    BY <2>4 DEF SchedulerStep, Promote, PromoteScheduledJobs, Reclaim, ReclaimTimedOutJobs,
       storeVars, workerVars, history
  <2>5. ASSUME NEW k \in Jobs, Tick(k)
        PROVE  EarnedSuccessInv'
    BY <2>5, Zenon DEF Tick, VisibilityTimeout, RunAtReached, storeVars, workerVars, history
  <2>6. CASE UNCHANGED vars
    BY <2>6, Zenon DEF vars, redisVars, storeVars, workerVars, history
  <2> QED  BY <2>1, <2>2, <2>3, <2>4, <2>5, <2>6, Zenon DEF Next
<1> QED  BY <1>1, <1>2, BaseInvariant, PTL DEF Spec

(* The store calls a job completed, and the marker is set, only after an   *)
(* execution that succeeded.                                               *)
THEOREM EarnedSuccessInvariant == Spec => []EarnedSuccess
<1>1. EarnedSuccessInv => EarnedSuccess
  BY Zenon DEF EarnedSuccessInv
<1> QED  BY <1>1, EarnedSuccessInductive, PTL

-----------------------------------------------------------------------------
(* The store calls a job failed only when its retries are used up.         *)

Carries(s, n) == \A k \in 1 .. Len(s) : s[k] <= n

(* What the list operations of the queue preserve.                         *)
LEMMA CarriesOps ==
  ASSUME NEW s \in Seq(Nat), NEW t \in Seq(Nat), NEW r \in Nat, NEW n \in Nat, NEW m \in Nat,
         n <= m, Carries(s, n)
  PROVE  /\ Carries(s, m)
         /\ r <= n => Carries(Append(s, r), n)
         /\ s # << >> => Carries(Tail(s), n) /\ Head(s) <= n
         /\ Carries(t, n) => Carries(s \o t, n)
<1>1. Carries(s, m)
  BY DEF Carries
<1>2. ASSUME r <= n PROVE Carries(Append(s, r), n)
  BY <1>2 DEF Carries
<1>3. ASSUME s # << >> PROVE Carries(Tail(s), n) /\ Head(s) <= n
  BY <1>3 DEF Carries
<1>4. ASSUME Carries(t, n) PROVE Carries(s \o t, n)
  BY <1>4 DEF Carries
<1> QED  BY <1>1, <1>2, <1>3, <1>4, Zenon

(* A pop keeps the bound, and the popped count is within it.               *)
LEMMA CarriesPop ==
  ASSUME NEW s \in Seq(Nat), NEW n \in Nat, Carries(s, n), s # << >>
  PROVE  Carries(Tail(s), n) /\ Head(s) <= n
BY DEF Carries

(* A push (LPUSH, ZADD) of a small enough count keeps the bound.           *)
LEMMA CarriesPush ==
  ASSUME NEW s \in Seq(Nat), NEW n \in Nat, NEW r \in Nat, Carries(s, n), r <= n
  PROVE  Carries(Append(s, r), n)
BY CarriesOps

(* So does moving the due copies of a job into its queue.                  *)
LEMMA CarriesConcat ==
  ASSUME NEW s \in Seq(Nat), NEW t \in Seq(Nat), NEW n \in Nat, Carries(s, n), Carries(t, n)
  PROVE  Carries(s \o t, n)
BY CarriesOps

QueueCarries(j) ==
  /\ Carries(queue[j], failures[j])
  /\ Carries(delayed[j], failures[j])
  /\ payloads[j] # NoPayload => payloads[j] <= failures[j]

WorkerCarries(w) ==
  job[w] # NoJob => /\ tries[w] <= failures[job[w]]
                    /\ pc[w] = "saveFailed" => failures[job[w]] = Exhausted

EarnedFailureInv ==
  /\ \A j \in Jobs : QueueCarries(j)
  /\ \A w \in Workers : WorkerCarries(w)
  /\ EarnedFailure

(* Retries are natural numbers.                                            *)
LEMMA SeqNat == \A s \in Seq(Retries) : s \in Seq(Nat)
<1>1. Retries \subseteq Nat
  BY QueueAssumption DEF Retries
<1>2. ASSUME NEW S, NEW T, S \subseteq T PROVE Seq(S) \subseteq Seq(T)
  BY <1>2
<1> QED  BY <1>1, <1>2, Zenon

(* Enqueue adds one copy, at the end of a list of the job.                 *)
LEMMA EnqueueEffect ==
  ASSUME QueueTypeOK, NEW k \in Jobs, NEW j \in Jobs, NEW r \in Retries, Enqueue(k, r)
  PROVE  /\ queue'[j] \in {queue[j], Append(queue[j], r)}
         /\ delayed'[j] \in {delayed[j], Append(delayed[j], r)}
         /\ payloads' = payloads
<1>1. DOMAIN queue = Jobs /\ DOMAIN delayed = Jobs
  BY Zenon DEF QueueTypeOK
<1>2. CASE j = k
  BY <1>1, <1>2, Zenon DEF Enqueue
<1>3. CASE j # k
  BY <1>1, <1>3, Zenon DEF Enqueue
<1> QED  BY <1>2, <1>3, Zenon

(* An API request copies a job with no retries used.                       *)
LEMMA ApiStepEarned ==
  ASSUME Base, EarnedFailureInv, NEW k \in Jobs, ApiStep(k)
  PROVE  EarnedFailureInv'
<1> USE DEF Base, TypeInv, QueueTypeOK, RestTypeOK, EarnedFailureInv
<1>1. failures' = failures /\ UNCHANGED workerVars
  BY Zenon DEF ApiStep, CreateJob, ReplayJob, ApiEnqueue, CancelJob, CancelAck,
     CancelPublish, ApiCrash, PauseJobType, ResumeJobType, history
<1>2. EarnedFailure'
  BY <1>1 DEF EarnedFailure, ApiStep, CreateJob, ReplayJob, ApiEnqueue, CancelJob, CancelAck,
     CancelPublish, ApiCrash, PauseJobType, ResumeJobType
<1>3. \A w \in Workers : WorkerCarries(w)'
  BY <1>1, Zenon DEF WorkerCarries, workerVars
<1>4. ASSUME NEW j \in Jobs PROVE QueueCarries(j)'
  <2>1. QueueCarries(j)
    OBVIOUS
  <2>2. CASE ApiEnqueue(k)
    <3>1. Carries(Append(queue[j], 0), failures[j]) /\ Carries(Append(delayed[j], 0), failures[j])
      BY <2>1, CarriesOps, SeqNat DEF QueueCarries, Retries, Exhausted
    <3>2. /\ queue'[j] \in {queue[j], Append(queue[j], 0)}
          /\ delayed'[j] \in {delayed[j], Append(delayed[j], 0)}
          /\ payloads' = payloads
      <4>1. Enqueue(k, 0)
        BY <2>2, Zenon DEF ApiEnqueue
      <4>2. 0 \in Retries
        BY QueueAssumption DEF Retries
      <4> QED  BY <4>1, <4>2, EnqueueEffect
    <3> QED  BY <3>1, <3>2, <2>1, <1>1, Zenon DEF QueueCarries
  <2>3. CASE CancelAck(k)
    BY <2>1, <2>3, <1>1, Zenon DEF CancelAck, Ack, Untrack, QueueCarries
  <2>4. CASE UNCHANGED redisVars
    BY <2>1, <2>4, <1>1, Zenon DEF redisVars, QueueCarries
  <2> QED  BY <2>2, <2>3, <2>4, Zenon DEF ApiStep, CreateJob, ReplayJob, CancelJob,
     CancelPublish, ApiCrash, PauseJobType, ResumeJobType
<1> QED  BY <1>2, <1>3, <1>4

(* A failed execution adds one to the failures of the job and at most one  *)
(* to the retries its copy carries.                                        *)
LEMMA FaultEarned ==
  ASSUME Base, EarnedFailureInv, NEW w \in Workers, Fault(w)
  PROVE  EarnedFailureInv'
<1>1. /\ failures \in [Jobs -> 0 .. Exhausted] /\ tries \in [Workers -> Retries]
      /\ pc \in [Workers -> Calls] /\ job \in [Workers -> Jobs \cup {NoJob}]
      /\ queue \in [Jobs -> Seq(Retries)] /\ delayed \in [Jobs -> Seq(Retries)]
      /\ payloads \in [Jobs -> Retries \cup {NoPayload}]
      /\ job[w] \in Jobs /\ job[w] # NoJob
  BY Zenon DEF Base, TypeInv, RestTypeOK, WorkerTypeOK, QueueTypeOK, HoldsJob, Fault, At
<1>2. MaxRetries \in Nat /\ Exhausted = MaxRetries + 1 /\ Retries = 0 .. MaxRetries
  BY QueueAssumption, Zenon DEF Exhausted, Retries
<1> DEFINE f == failures[job[w]]
<1>3. /\ UNCHANGED <<queue, delayed, payloads, status, job>>
      /\ failures' = [failures EXCEPT ![job[w]] = IF f < Exhausted THEN f + 1 ELSE f]
      /\ \/ tries[w] < MaxRetries /\ tries' = [tries EXCEPT ![w] = tries[w] + 1]
            /\ pc' = [pc EXCEPT ![w] = "setPending"]
         \/ ~ (tries[w] < MaxRetries) /\ tries' = tries /\ pc' = [pc EXCEPT ![w] = "saveFailed"]
  BY Zenon DEF Fault, redisVars, storeVars
<1>4. f \in 0 .. Exhausted /\ tries[w] \in Retries /\ tries[w] <= f
  BY <1>1, Zenon DEF EarnedFailureInv, WorkerCarries
<1>5. failures'[job[w]] = IF f < Exhausted THEN f + 1 ELSE f
  BY <1>1, <1>3, Zenon
<1>6. \A j \in Jobs : j # job[w] => failures'[j] = failures[j]
  BY <1>1, <1>3
<1>7. \A j \in Jobs : failures[j] \in Nat /\ failures'[j] \in Nat /\ failures[j] <= failures'[j]
  <2> TAKE j \in Jobs
  <2>1. failures[j] \in 0 .. Exhausted /\ Exhausted \in Nat
    BY <1>1, <1>2
  <2>2. CASE j = job[w]
    BY <1>4, <1>5, <2>1, <2>2
  <2>3. CASE j # job[w]
    BY <1>6, <2>1, <2>3
  <2> QED  BY <2>2, <2>3, Zenon
<1>8. \A j \in Jobs : failures[j] = Exhausted => failures'[j] = Exhausted
  BY <1>2, <1>5, <1>6
<1>9. \A j \in Jobs : QueueCarries(j)'
  <2> TAKE j \in Jobs
  <2>1. queue[j] \in Seq(Nat) /\ delayed[j] \in Seq(Nat)
    BY <1>1, SeqNat, Zenon
  <2>2. Carries(queue[j], failures'[j]) /\ Carries(delayed[j], failures'[j])
    BY <2>1, <1>7, CarriesOps, Zenon DEF EarnedFailureInv, QueueCarries
  <2>3. payloads[j] # NoPayload => payloads[j] \in Nat /\ payloads[j] <= failures[j]
    BY <1>1, <1>2 DEF EarnedFailureInv, QueueCarries
  <2>4. payloads[j] # NoPayload => payloads[j] <= failures'[j]
    <3>1. failures[j] \in Nat /\ failures'[j] \in Nat /\ failures[j] <= failures'[j]
      BY <1>7, Zenon
    <3> QED  BY <2>3, <3>1
  <2> QED  BY <1>3, <2>2, <2>4, Zenon DEF QueueCarries
<1>10. \A v \in Workers : WorkerCarries(v)'
  <2> SUFFICES ASSUME NEW v \in Workers, job[v] # NoJob
               PROVE  /\ tries'[v] <= failures'[job[v]]
                      /\ pc'[v] = "saveFailed" => failures'[job[v]] = Exhausted
    BY <1>3, Zenon DEF WorkerCarries
  <2>1. CASE v = w
    <3>1. CASE tries[w] < MaxRetries
      <4>1. tries'[w] = tries[w] + 1 /\ pc'[w] = "setPending"
        BY <1>1, <1>3, <3>1, Zenon
      <4> QED  BY <2>1, <3>1, <4>1, <1>2, <1>4, <1>5
    <3>2. CASE ~ (tries[w] < MaxRetries)
      <4>1. tries'[w] = tries[w]
        BY <1>3, <3>2, Zenon
      <4> QED  BY <2>1, <3>2, <4>1, <1>2, <1>4, <1>5
    <3> QED  BY <3>1, <3>2, Zenon
  <2>2. CASE v # w
    <3>1. tries'[v] = tries[v] /\ pc'[v] = pc[v] /\ job[v] \in Jobs
      BY <1>1, <1>3, <2>2, Zenon
    <3>2. /\ tries[v] \in Nat /\ tries[v] <= failures[job[v]]
          /\ pc[v] = "saveFailed" => failures[job[v]] = Exhausted
      BY <1>1, <1>2 DEF EarnedFailureInv, WorkerCarries
    <3>3. failures[job[v]] \in Nat /\ failures'[job[v]] \in Nat /\ failures[job[v]] <= failures'[job[v]]
      BY <1>7, <3>1, Zenon
    <3> QED  BY <1>8, <3>1, <3>2, <3>3
  <2> QED  BY <2>1, <2>2, Zenon
<1>11. EarnedFailure'
  BY <1>3, <1>8, Zenon DEF EarnedFailureInv, EarnedFailure
<1> QED  BY <1>9, <1>10, <1>11, Zenon DEF EarnedFailureInv

(* The failures a worker's copy carries are the ones it has seen.          *)
LEMMA ProcessOnceEarned ==
  ASSUME Base, EarnedFailureInv, NEW w \in Workers, ProcessOnce(w)
  PROVE  EarnedFailureInv'
<1> USE DEF Base, TypeInv, QueueTypeOK, RestTypeOK, WorkerTypeOK, EarnedFailureInv
<1>j. pc[w] \notin {"brpop", "exited"} => job[w] \in Jobs /\ job[w] # NoJob
  BY DEF HoldsJob
<1>1. CASE \E k \in Jobs : Dequeue(w, k)
  <2> PICK k \in Jobs : Dequeue(w, k)
    BY <1>1, Zenon
  <2>1. Carries(Tail(queue[k]), failures[k]) /\ Head(queue[k]) <= failures[k]
    <3>1. queue[k] \in Seq(Nat) /\ queue[k] # << >> /\ Carries(queue[k], failures[k])
      BY SeqNat, Zenon DEF Dequeue, BRPop, QueueCarries
    <3>2. failures[k] \in Nat
      BY DEF Exhausted
    <3> QED  BY <3>1, <3>2, CarriesPop
  <2>2. \A j \in Jobs : QueueCarries(j)'
    BY <2>1, Zenon DEF Dequeue, BRPop, QueueCarries, history
  <2>3. \A v \in Workers : WorkerCarries(v)'
    BY <2>1, Zenon DEF Dequeue, WorkerCarries, history
  <2>4. EarnedFailure'
    BY Zenon DEF Dequeue, EarnedFailure, storeVars, history
  <2> QED  BY <2>2, <2>3, <2>4, Zenon
<1>2. CASE Requeue(w)
  <2>1. job[w] \in Jobs /\ job[w] # NoJob
    BY <1>2, <1>j, Zenon DEF Requeue, At
  <2>2. /\ Carries(Append(queue[job[w]], tries[w]), failures[job[w]])
        /\ Carries(Append(delayed[job[w]], tries[w]), failures[job[w]])
    <3>1. /\ queue[job[w]] \in Seq(Nat) /\ Carries(queue[job[w]], failures[job[w]])
          /\ delayed[job[w]] \in Seq(Nat) /\ Carries(delayed[job[w]], failures[job[w]])
      BY <2>1, SeqNat DEF QueueCarries
    <3>2. failures[job[w]] \in Nat /\ tries[w] \in Nat
      BY <2>1 DEF Exhausted, Retries
    <3>3. tries[w] <= failures[job[w]]
      BY <2>1, Zenon DEF WorkerCarries
    <3> QED  BY <3>1, <3>2, <3>3, CarriesPush
  <2>3. \A j \in Jobs : QueueCarries(j)'
    BY <2>1, <2>2, <1>2, Zenon DEF Requeue, Enqueue, QueueCarries, history
  <2>4. \A v \in Workers : WorkerCarries(v)'
    BY <1>2, Zenon DEF Requeue, Goto, WorkerCarries, history
  <2>5. EarnedFailure'
    BY <1>2, Zenon DEF Requeue, EarnedFailure, storeVars, history
  <2> QED  BY <2>3, <2>4, <2>5, Zenon
<1>3. CASE Fault(w)
  BY <1>3, FaultEarned, Zenon
<1>4. CASE TrackInFlight(w)
  <2>1. job[w] \in Jobs /\ job[w] # NoJob
    BY <1>4, <1>j, Zenon DEF TrackInFlight, At
  <2> QED  BY <2>1, <1>4 DEF TrackInFlight, Track, Goto, QueueCarries, WorkerCarries,
               EarnedFailure, storeVars, history
<1>5. CASE SaveFailed(w)
  <2>1. job[w] \in Jobs /\ job[w] # NoJob
    BY <1>5, <1>j, Zenon DEF SaveFailed, At
  <2>2. \A j \in Jobs : QueueCarries(j)'
    BY <1>5 DEF SaveFailed, QueueCarries, history, redisVars
  <2>3. \A v \in Workers : WorkerCarries(v)'
    BY <1>5, Zenon DEF SaveFailed, Goto, WorkerCarries, history
  <2>4. failures[job[w]] = Exhausted
    BY <1>5, <2>1 DEF SaveFailed, At, WorkerCarries
  <2>5. EarnedFailure'
    <3>1. \A j \in Jobs : status'[j] = status[j] \/ j = job[w]
      <4>1. CASE SetStatus(job[w], "failed", w)
        BY <2>1, <4>1, SetStatusEffect
      <4> QED  BY <1>5, <4>1 DEF SaveFailed, storeVars
    <3>2. failures' = failures
      BY <1>5, Zenon DEF SaveFailed, history
    <3> QED  BY <2>4, <3>1, <3>2, Zenon DEF EarnedFailure
  <2> QED  BY <2>2, <2>3, <2>5
<1>6. CASE ~ Fault(w) /\ ~ Requeue(w) /\ ~ TrackInFlight(w) /\ ~ SaveFailed(w)
           /\ ~ \E k \in Jobs : Dequeue(w, k)
  <2>1. /\ queue' = queue /\ delayed' = delayed /\ failures' = failures
        /\ payloads' = payloads \/ payloads' = [payloads EXCEPT ![job[w]] = NoPayload]
    BY <1>6, Dispatch, ProcessOnceEffects, Zenon DEF LeaveLoop, RequeueFails, Succeed, CircuitOpen,
       redisVars, history
  <2>2. ASSUME NEW j \in Jobs PROVE QueueCarries(j)'
    <3>1. payloads'[j] = payloads[j] \/ payloads'[j] = NoPayload
      BY <2>1, Zenon
    <3> QED  BY <2>1, <3>1, Zenon DEF QueueCarries
  <2>3. /\ \/ tries' = tries /\ job' = job
           \/ tries' = [tries EXCEPT ![w] = 0] /\ job' = [job EXCEPT ![w] = NoJob]
        /\ pc'[w] # "saveFailed" /\ \A v \in Workers : v # w => pc'[v] = pc[v]
    <3>1. CASE \/ DropOnDrain(w) \/ CheckIsProcessed(w) \/ CheckIsPaused(w) \/ CheckStatus(w) \/ SkipAck(w)
               \/ SetProcessing(w) \/ AbandonAtLimiter(w) \/ StartExecution(w) \/ LeaveLoop(w)
      BY <3>1, Zenon DEF DropOnDrain, CheckIsProcessed, CheckIsPaused, CheckStatus, SkipAck, SetProcessing,
         AbandonAtLimiter, StartExecution, LeaveLoop, Goto, Return
    <3>2. CASE \/ Succeed(w) \/ CircuitOpen(w) \/ RecordProcessed(w) \/ SaveResult(w) \/ AckDone(w)
               \/ SetPending(w) \/ RequeueFails(w)
      BY <3>2, Zenon DEF Succeed, CircuitOpen, RecordProcessed, SaveResult, AckDone, SetPending, RequeueFails,
         Goto, Return
    <3>3. CASE \/ AckRequeued(w) \/ FailRead(w) \/ FailNotFound(w) \/ FailRemove(w) \/ FailPush(w)
      BY <3>3, Zenon DEF AckRequeued, FailRead, FailNotFound, FailRemove, FailPush, Goto, Return
    <3> QED  BY <1>6, <3>1, <3>2, <3>3, Zenon DEF ProcessOnce
  <2>5. \A v \in Workers : WorkerCarries(v)'
    <3> SUFFICES ASSUME NEW v \in Workers, job'[v] # NoJob
                 PROVE  /\ tries'[v] <= failures'[job'[v]]
                        /\ pc'[v] = "saveFailed" => failures'[job'[v]] = Exhausted
      BY Zenon DEF WorkerCarries
    <3>1. tries'[v] = tries[v] /\ job'[v] = job[v]
      BY <2>3, Zenon
    <3>2. /\ tries[v] <= failures[job[v]]
          /\ pc[v] = "saveFailed" => failures[job[v]] = Exhausted
      BY <3>1 DEF WorkerCarries
    <3>3. pc'[v] = "saveFailed" => pc[v] = "saveFailed"
      BY <2>3, Zenon
    <3> QED  BY <2>1, <3>1, <3>2, <3>3, Zenon
  <2>6. \A j \in Jobs : status'[j] = "failed" => status[j] = "failed"
    <3>1. CASE SetProcessing(w) \/ SaveResult(w) \/ SetPending(w)
      BY <3>1 DEF SetProcessing, SaveResult, SetPending, SetStatus, storeVars
    <3>2. CASE status' = status
      BY <3>2, Zenon
    <3> QED  BY <1>6, <3>1, <3>2, Dispatch, ProcessOnceEffects, Zenon
  <2>7. EarnedFailure'
    BY <2>1, <2>6, Zenon DEF EarnedFailure
  <2> QED  BY <2>2, <2>5, <2>7, Zenon
<1> QED  BY <1>1, <1>2, <1>3, <1>4, <1>5, <1>6, Zenon

(* EarnedFailure is strengthened with the bound every copy of a job obeys, *)
(* wherever it is: a copy carries no more retries than the executions of   *)
(* the job that failed.                                                    *)
LEMMA EarnedFailureInductive == Spec => []EarnedFailureInv
<1>1. Init => EarnedFailureInv
  BY DEF Init, QueueInit, EarnedFailureInv, EarnedFailure, QueueCarries, WorkerCarries, Carries
<1>2. Base /\ EarnedFailureInv /\ [Next]_vars => EarnedFailureInv'
  <2> SUFFICES ASSUME Base, EarnedFailureInv, [Next]_vars
               PROVE  EarnedFailureInv'
    OBVIOUS
  <2>1. ASSUME NEW i \in Instances, InstanceStep(i)
        PROVE  EarnedFailureInv'
    BY <2>1, InstanceFrame, Zenon DEF EarnedFailureInv, QueueCarries, WorkerCarries, EarnedFailure
  <2>2. CASE SchedulerStep
    <3> USE DEF Base, TypeInv, QueueTypeOK, RestTypeOK, EarnedFailureInv
    <3>1. EarnedFailure' /\ \A w \in Workers : WorkerCarries(w)'
      BY <2>2, Zenon DEF SchedulerStep, Promote, Reclaim, WorkerCarries, EarnedFailure, storeVars,
         workerVars, history
    <3>2. ASSUME NEW j \in Jobs PROVE QueueCarries(j)'
      <4>1. /\ queue[j] \in Seq(Nat) /\ delayed[j] \in Seq(Nat) /\ failures[j] \in Nat
            /\ QueueCarries(j) /\ failures' = failures
        BY <2>2, SeqNat DEF SchedulerStep, Promote, Reclaim, history, Retries, Exhausted
      <4>2. CASE Promote
        <5>1. Carries(queue[j] \o delayed[j], failures[j])
          BY <4>1, CarriesConcat, Zenon DEF QueueCarries
        <5>2. Carries(<< >>, failures[j])
          BY DEF Carries
        <5> QED  BY <4>1, <4>2, <5>1, <5>2, Zenon DEF Promote, PromoteScheduledJobs, QueueCarries
      <4>3. CASE Reclaim
        <5>1. payloads[j] # NoPayload => Carries(Append(queue[j], payloads[j]), failures[j])
          <6> SUFFICES ASSUME payloads[j] # NoPayload
                       PROVE  Carries(Append(queue[j], payloads[j]), failures[j])
            OBVIOUS
          <6>1. payloads[j] \in Nat /\ payloads[j] <= failures[j]
            BY <4>1 DEF QueueCarries, Retries
          <6> QED  BY <6>1, <4>1, CarriesOps DEF QueueCarries
        <5> QED  BY <4>1, <4>3, <5>1, Zenon DEF Reclaim, ReclaimTimedOutJobs, QueueCarries
      <4> QED  BY <2>2, <4>2, <4>3, Zenon DEF SchedulerStep
    <3> QED  BY <3>1, <3>2, Zenon
  <2>3. ASSUME NEW k \in Jobs, Tick(k)
        PROVE  EarnedFailureInv'
    BY <2>3, Zenon DEF Tick, VisibilityTimeout, RunAtReached, storeVars, workerVars, history,
       EarnedFailureInv, QueueCarries, WorkerCarries, EarnedFailure
  <2>4. CASE UNCHANGED vars
    BY <2>4, Zenon DEF vars, redisVars, storeVars, workerVars, history,
       EarnedFailureInv, QueueCarries, WorkerCarries, EarnedFailure
  <2> QED  BY <2>1, <2>2, <2>3, <2>4, ApiStepEarned, ProcessOnceEarned DEF Next
<1> QED  BY <1>1, <1>2, BaseInvariant, PTL DEF Spec

(* The store calls a job failed only when all its retries were used.       *)
THEOREM EarnedFailureInvariant == Spec => []EarnedFailure
<1>1. EarnedFailureInv => EarnedFailure
  BY Zenon DEF EarnedFailureInv
<1> QED  BY <1>1, EarnedFailureInductive, PTL
-----------------------------------------------------------------------------
(* Cancellation: the registry of running jobs of a pool is never stale,    *)
(* and a cancel that finds the job in no worker's hands is final.          *)

(* RegistryFresh is inductive: every way a worker leaves its execution     *)
(* (return, cancellation, crash) takes its entry away.                     *)
THEOREM RegistryFreshInvariant == Spec => []RegistryFresh
<1>1. Init => RegistryFresh
  BY SystemAssumption DEF Init, RegistryFresh
<1>2. Base /\ RegistryFresh /\ [Next]_vars => RegistryFresh'
  <2> SUFFICES ASSUME Base, RegistryFresh, [Next]_vars,
                      NEW i \in Instances, NEW j \in Jobs, NEW w \in Workers
               PROVE  active'[i][j] = w => InstanceOf[w] = i /\ job'[w] = j /\ ctx'[w] = "live"
    BY Zenon DEF RegistryFresh
  <2> DEFINE Entry(h, k, v) == active[h][k] = v => InstanceOf[v] = h /\ job[v] = k /\ ctx[v] = "live"
  <2>e. \A h \in Instances, k \in Jobs, v \in Workers : Entry(h, k, v)
    BY Zenon DEF RegistryFresh
  <2> HIDE DEF Entry
  <2>g. active[i][j] = w => InstanceOf[w] = i /\ job[w] = j /\ ctx[w] = "live"
    <3>1. Entry(i, j, w)
      BY <2>e, Zenon
    <3> QED  BY <3>1, Zenon DEF Entry
  <2> HAVE active'[i][j] = w
  <2>n. w # NoWorker /\ j # NoJob
    BY SystemAssumption, Zenon
  <2>0. CASE UNCHANGED <<active, job, ctx>>
    BY <2>0, <2>g, Zenon
  <2> USE DEF Base, TypeInv, WorkerTypeOK, RestTypeOK
  <2>1. ASSUME NEW v \in Workers, ProcessOnce(v)
        PROVE  InstanceOf[w] = i /\ job'[w] = j /\ ctx'[w] = "live"
    <3>1. CASE \E k \in Jobs : Dequeue(v, k)
      <4>1. active[i][j] = w /\ ctx' = ctx /\ job[v] = NoJob /\ (v # w => job'[w] = job[w])
        BY <3>1 DEF Dequeue, At, HoldsJob, poolVars
      <4> QED  BY <4>1, <2>g, <2>n, Zenon
    <3>2. CASE StartExecution(v)
      <4>1. /\ job' = job /\ ctx' = [ctx EXCEPT ![v] = "live"]
            /\ active'[i][j] = IF i = InstanceOf[v] /\ j = job[v] THEN v ELSE active[i][j]
        BY <3>2 DEF StartExecution
      <4> QED  BY <4>1, <2>g, Zenon
    <3>3. CASE Return(v)
      <4>1. /\ job' = [job EXCEPT ![v] = NoJob] /\ ctx' = [ctx EXCEPT ![v] = "none"]
            /\ active'[i][j] = IF ctx[v] # "none" /\ i = InstanceOf[v] /\ j = job[v]
                                 THEN NoWorker ELSE active[i][j]
        BY <3>3, Zenon DEF Return
      <4> QED  BY <4>1, <2>g, <2>n, Zenon
    <3> QED  BY <2>0, <2>1, <3>1, <3>2, <3>3, ProcessOnceShape, Zenon
  <2>2. ASSUME NEW h \in Instances, InstanceStep(h)
        PROVE  InstanceOf[w] = i /\ job'[w] = j /\ ctx'[w] = "live"
    <3>1. ASSUME NEW k \in Jobs, ReceiveCancel(h, k)
          PROVE  InstanceOf[w] = i /\ job'[w] = j /\ ctx'[w] = "live"
      <4>1. /\ job' = job
            /\ ctx'[w] = IF active[h][k] = w THEN "cancelled" ELSE ctx[w]
            /\ active'[i][j] = IF i = h /\ j = k THEN NoWorker ELSE active[i][j]
        BY <3>1, Zenon DEF ReceiveCancel
      <4>2. active[h][k] = w => InstanceOf[w] = h /\ job[w] = k
        <5>1. Entry(h, k, w)
          BY <2>e, Zenon
        <5> QED  BY <5>1, Zenon DEF Entry
      <4> QED  BY <4>1, <4>2, <2>g, <2>n, Zenon
    <3>2. CASE Crash(h)
      <4>1. /\ InstanceOf[w] # h => job'[w] = job[w] /\ ctx'[w] = ctx[w]
            /\ active'[i][j] = IF i = h THEN NoWorker ELSE active[i][j]
        BY <3>2, Zenon DEF Crash, WorkersOf
      <4> QED  BY <4>1, <2>g, <2>n, Zenon
    <3> QED  BY <2>0, <2>2, <3>1, <3>2, Zenon DEF InstanceStep, InitiateDrain, Drained, Restart, workerVars
  <2> QED  BY <2>0, <2>1, <2>2, ApiFrame, ClockFrame DEF Next, vars, workerVars, poolVars
<1> QED  BY <1>1, <1>2, BaseInvariant, PTL DEF Spec

-----------------------------------------------------------------------------
(* The calls a worker may be at with a job that was cancelled quietly.     *)
QuietCalls == {"track", "isProcessed", "isPaused", "getStatus", "skipAck", "requeue", "ackRequeued"}

NoDrain == used["drain"] = 0 /\ \A i \in Instances : up[i] # "draining"

Silenced == /\ \A j \in quiet : status[j] = "cancelled"
            /\ \A w \in Workers : job[w] \in quiet => pc[w] \in QuietCalls

(* A drain is counted when it begins.                                      *)
LEMMA NoDrainBefore ==
  ASSUME Base, [Next]_vars, used'["drain"] = 0
  PROVE  used["drain"] = 0
<1> USE DEF Base, TypeInv, RestTypeOK
<1>1. used' = used \/ \E k \in FaultKinds : Spend(k)
  <2>1. ASSUME NEW k \in Jobs, ApiStep(k) \/ Tick(k)
        PROVE  used' = used \/ \E f \in FaultKinds : Spend(f)
    BY <2>1, Zenon DEF ApiStep, CreateJob, ReplayJob, ApiEnqueue, CancelJob, CancelAck, CancelPublish,
       ApiCrash, PauseJobType, ResumeJobType, Tick, history, FaultKinds
  <2>2. ASSUME NEW i \in Instances, InstanceStep(i)
        PROVE  used' = used \/ \E f \in FaultKinds : Spend(f)
    BY <2>2, Zenon DEF InstanceStep, ReceiveCancel, InitiateDrain, Drained, Crash, Restart, history,
       FaultKinds
  <2>3. CASE SchedulerStep
    BY <2>3, Zenon DEF SchedulerStep, Promote, Reclaim, history, FaultKinds
  <2> QED  BY <2>1, <2>2, <2>3, ProcessOnceEffects, Zenon DEF Next, vars, history
<1>2. used \in [FaultKinds -> Nat] /\ "drain" \in FaultKinds
  BY Zenon DEF FaultKinds
<1> QED  BY <1>1, <1>2 DEF Spend

QuietCancelInv == used["drain"] = 0 => NoDrain /\ Silenced

(* QuietCancelHolds holds.  It is strengthened with the calls a worker can *)
(* be at: every copy popped later reaches the status check, which ends it. *)
THEOREM QuietCancelInvariant == Spec => []QuietCancelHolds
<1>1. Init => QuietCancelInv
  BY Zenon DEF Init, QuietCancelInv, NoDrain, Silenced
<1>2. Base /\ QuietCancelInv /\ [Next]_vars => QuietCancelInv'
  <2> SUFFICES ASSUME Base, NoDrain, Silenced, [Next]_vars, used'["drain"] = 0
               PROVE  NoDrain' /\ Silenced'
    BY NoDrainBefore, Zenon DEF QuietCancelInv
  <2>t. /\ WorkerTypeOK /\ DownIsEmpty
        /\ status \in [Jobs -> Statuses] /\ quiet \subseteq Jobs
        /\ up \in [Instances -> {"up", "draining", "down"}]
        /\ used \in [FaultKinds -> Nat]
    BY Zenon DEF Base, TypeInv, RestTypeOK
  <2> USE <2>t DEF WorkerTypeOK
  <2>q. NoJob \notin quiet
    BY SystemAssumption, Zenon
  <2>1. NoDrain'
    <3>1. ASSUME NEW h \in Instances, InstanceStep(h) PROVE NoDrain'
      <4>1. CASE InitiateDrain(h)
        <5>1. used["drain"] \in Nat
          BY Zenon DEF FaultKinds
        <5>2. used'["drain"] = used["drain"] + 1
          BY <4>1, Zenon DEF InitiateDrain, Spend, FaultKinds
        <5> QED  BY <5>1, <5>2
      <4>2. CASE Drained(h) \/ Crash(h) \/ Restart(h)
        <5>1. used'["drain"] = used["drain"]
          BY <4>2, Zenon DEF Drained, Crash, Restart, Spend, FaultKinds, history
        <5>2. \A i \in Instances : up'[i] = up[i] \/ up'[i] \in {"up", "down"}
          BY <4>2, Zenon DEF Drained, Crash, Restart
        <5> QED  BY <5>1, <5>2, Zenon DEF NoDrain
      <4>3. CASE \E j \in Jobs : ReceiveCancel(h, j)
        BY <4>3, Zenon DEF NoDrain, ReceiveCancel
      <4> QED  BY <3>1, <4>1, <4>2, <4>3, Zenon DEF InstanceStep
    <3>2. CASE up' = up
      BY <3>2, Zenon DEF NoDrain
    <3> QED  BY <3>1, <3>2, ApiFrame, ClockFrame, ProcessOnceFrame DEF Next, vars, poolVars
  <2>2. ASSUME NEW k \in Jobs, ApiStep(k) PROVE Silenced'
    <3>1. CASE CancelJob(k)
      BY <3>1, Zenon DEF CancelJob, Silenced, Holders, workerVars
    <3>2. CASE CreateJob(k) \/ ReplayJob(k)
      <4>1. CASE CreateJob(k)
        BY <4>1, Zenon DEF CreateJob, Silenced, workerVars, history
      <4>2. CASE ReplayJob(k)
        BY <4>2, Zenon DEF ReplayJob, Silenced, workerVars
      <4> QED  BY <3>2, <4>1, <4>2, Zenon
    <3> QED  BY <2>2, <3>1, <3>2, ApiFrame, Zenon DEF Silenced
  <2>3. ASSUME NEW w \in Workers, ProcessOnce(w) PROVE Silenced'
    <3>1. PoolLive(w)
      <4>1. InstanceOf[w] \in Instances /\ w \in WorkersOf(InstanceOf[w])
        BY SystemAssumption, Zenon DEF WorkersOf
      <4>2. up[InstanceOf[w]] # "down"
        BY <2>3, <4>1, ProcessOnceFrame, Zenon DEF DownIsEmpty
      <4> QED  BY <4>1, <4>2, Zenon DEF NoDrain, PoolLive
    <3>2. quiet' = quiet /\ \A v \in Workers \ {w} : job'[v] = job[v] /\ pc'[v] = pc[v]
      BY <2>3, ProcessOnceFrame, ProcessOnceEffects, Zenon
    <3>3. ASSUME job[w] \in quiet PROVE job'[w] \in quiet => pc'[w] \in QuietCalls
      <4>1. status[job[w]] = "cancelled" /\ pc[w] \in QuietCalls
        BY <3>3, Zenon DEF Silenced
      <4>2. CASE job'[w] = NoJob
        BY <4>2, <2>q, Zenon
      <4>3. CASE pc[w] \in {"isProcessed", "isPaused", "getStatus"}
        <5>1. CheckIsProcessed(w) \/ CheckIsPaused(w) \/ CheckStatus(w)
          BY <2>3, <4>3, Dispatch
        <5>2. pc'[w] \in {"skipAck", "isPaused", "requeue", "getStatus"}
          BY <3>1, <4>1, <5>1, Zenon DEF CheckIsProcessed, CheckIsPaused, CheckStatus, Goto, Terminal
        <5> QED  BY <5>2, Zenon DEF QuietCalls
      <4>4. CASE pc[w] \in {"track", "skipAck", "requeue", "ackRequeued"}
        <5>1. \/ TrackInFlight(w) \/ DropOnDrain(w) \/ SkipAck(w)
              \/ Requeue(w) \/ RequeueFails(w) \/ AckRequeued(w)
          BY <2>3, <4>4, Dispatch
        <5>2. job'[w] = NoJob \/ pc'[w] \in {"isProcessed", "ackRequeued"}
          BY <5>1, Zenon DEF TrackInFlight, DropOnDrain, SkipAck, Requeue, RequeueFails, AckRequeued, Goto, Return
        <5> QED  BY <4>2, <5>2, Zenon DEF QuietCalls
      <4> QED  BY <4>1, <4>3, <4>4, Zenon DEF QuietCalls
    <3>4. ASSUME job[w] \notin quiet PROVE job'[w] \in quiet => pc'[w] \in QuietCalls
      BY <2>3, <2>q, <3>4, ProcessOnceEffects, Zenon DEF QuietCalls
    <3>5. \A j \in quiet : status'[j] = "cancelled"
      <4>1. CASE pc[w] \in {"setProcessing", "saveResult", "setPending", "saveFailed"}
        <5>1. job[w] \notin quiet
          BY <4>1, Zenon DEF Silenced, QuietCalls
        <5>2. SetProcessing(w) \/ SaveResult(w) \/ SetPending(w) \/ SaveFailed(w)
          BY <2>3, <4>1, Dispatch
        <5>3. \A j \in Jobs \ {job[w]} : status'[j] = status[j]
          BY <5>2, Zenon DEF SetProcessing, SaveResult, SetPending, SaveFailed, SetStatus, storeVars
        <5> QED  BY <5>1, <5>3, Zenon DEF Silenced
      <4>2. CASE status' = status
        BY <4>2, Zenon DEF Silenced
      <4> QED  BY <2>3, <4>1, <4>2, ProcessOnceEffects, Zenon
    <3> QED  BY <3>2, <3>3, <3>4, <3>5, Zenon DEF Silenced
  <2>4. ASSUME NEW i \in Instances, InstanceStep(i) PROVE Silenced'
    <3>1. UNCHANGED <<status, quiet>>
      BY <2>4, InstanceFrame, Zenon
    <3>2. ASSUME NEW w \in Workers, job'[w] \in quiet PROVE job'[w] = job[w] /\ pc'[w] = pc[w]
      BY <2>4, <2>q, <3>2, InstanceFrame, Zenon
    <3> QED  BY <3>1, <3>2, Zenon DEF Silenced
  <2> QED  BY <2>1, <2>2, <2>3, <2>4, ClockFrame, Zenon DEF Next, Silenced, vars, storeVars, workerVars, history
<1>3. Base /\ QuietCancelInv => QuietCancelHolds
  BY Zenon DEF Base, TypeInv, RestTypeOK, QuietCancelInv, Silenced, QuietCancelHolds, QuietCalls, Holders
<1> QED  BY <1>1, <1>2, <1>3, BaseInvariant, PTL DEF Spec
=============================================================================
