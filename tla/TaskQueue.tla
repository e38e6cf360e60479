----------------------------- MODULE TaskQueue ------------------------------
(***************************************************************************)
(* The life of a job: the API that saves, enqueues, cancels and replays it *)
(* (internal/service/job_service.go), the broker (module RedisQueue), the  *)
(* scheduler's maintenance calls, the job store's status field, and worker *)
(* instances, each a pool of goroutines that run                           *)
(* WorkerProcessor.ProcessOnce (internal/worker/executor).                 *)
(*                                                                         *)
(* ProcessOnce is a sequence of Redis and store calls.  pc[w] names the    *)
(* call worker w makes next, so that the calls of other workers, of the    *)
(* API and of the scheduler, and a crash, can fall between any two.        *)
(***************************************************************************)
EXTENDS RedisQueue, FiniteSets

CONSTANTS Workers,     \* worker goroutines
          Instances,   \* worker processes
          InstanceOf,  \* [Workers -> Instances]
          NoWorker, NoJob,
          Scheduled,   \* jobs created with a RunAt in the future
          Pausable,    \* jobs whose type an operator may pause
          RateLimited, \* JOB_RATE_LIMIT > 0, so ProcessOnce has a limiter
          MaxCrashes, MaxApiCrashes, MaxDrains, MaxReclaims, MaxCancels, MaxReplays,
          Apart        \* pairs of kinds of fault that no behaviour has both of

ASSUME SystemAssumption ==
  /\ InstanceOf \in [Workers -> Instances]
  /\ Workers \cap Instances = {}
  /\ NoWorker \notin Workers \cup Instances
  /\ NoJob \notin Jobs
  /\ Scheduled \subseteq Jobs
  /\ Pausable \subseteq Jobs
  /\ RateLimited \in BOOLEAN
  /\ {MaxCrashes, MaxApiCrashes, MaxDrains, MaxReclaims, MaxCancels, MaxReplays} \subseteq Nat

VARIABLES status,     \* Status of the job in the store
          owner,      \* ProcessedBy of the job in the store
          api,        \* the call an API request on the job makes next
          paused,     \* job types paused by an operator
          up,         \* life cycle of a worker process
          pc,         \* the call a worker makes next
          job, tries, \* the job a worker holds, with its Retries
          ctx,        \* execCtx of a worker: not made yet, live or cancelled
          active,     \* Pool.activeJobs: whose cancelFunc a job id maps to
          cancelMsgs  \* cancellations published and not yet received

(* History, read by no guard but the bounds.                               *)
VARIABLES used,       \* faults so far, by kind
          failures,   \* executions that failed (saturating)
          succeeded,  \* jobs with an execution that succeeded
          copied,     \* jobs that were given a second copy (reclaim, replay)
          cancelled,  \* jobs for which a cancel was accepted
          quiet       \* jobs cancelled while no worker held them

storeVars  == <<status, owner, api, paused>>
workerVars == <<pc, job, tries, ctx>>
poolVars   == <<up, active, cancelMsgs>>
history    == <<used, failures, succeeded, copied, cancelled, quiet>>
vars       == <<redisVars, storeVars, workerVars, poolVars, history>>

Terminal == {"completed", "failed", "cancelled"}
Statuses == Terminal \cup {"absent", "pending", "processing"}

(* Calls between BRPOP and the moment the job is requeued or finished.     *)
Owning == {"track", "isProcessed", "isPaused", "getStatus", "setProcessing",
           "limiter", "execute", "markProcessed", "saveResult", "setPending",
           "requeue", "saveFailed"}
(* Calls that only clean up after the job was requeued or finished.        *)
Closing == {"skipAck", "ackDone", "ackRequeued", "failRead", "failRemove", "failPush"}
Calls == Owning \cup Closing \cup {"brpop", "exited"}

FaultKinds == {"crash", "apiCrash", "drain", "reclaim", "cancel", "replay"}
FaultBound == [crash |-> MaxCrashes, apiCrash |-> MaxApiCrashes, drain |-> MaxDrains,
               reclaim |-> MaxReclaims, cancel |-> MaxCancels, replay |-> MaxReplays]

WorkersOf(i) == {w \in Workers : InstanceOf[w] = i}
Holders(j)   == {w \in Workers : job[w] = j}

(* Enough failures to have used up every retry: the count saturates here.  *)
Exhausted == MaxRetries + 1

(* The keys of the broker, the record of a job in the store, the call each *)
(* worker and each request makes next, the registries of the pools.        *)
TypeOK ==
  /\ QueueTypeOK
  /\ status \in [Jobs -> Statuses]
  /\ owner \in [Jobs -> Workers \cup {NoWorker}]
  /\ api \in [Jobs -> {"none", "enqueue", "cancelAck", "cancelPublish"}]
  /\ paused \subseteq Jobs
  /\ up \in [Instances -> {"up", "draining", "down"}]
  /\ pc \in [Workers -> Calls]
  /\ job \in [Workers -> Jobs \cup {NoJob}]
  /\ tries \in [Workers -> Retries]
  /\ ctx \in [Workers -> {"none", "live", "cancelled"}]
  /\ active \in [Instances -> [Jobs -> Workers \cup {NoWorker}]]
  /\ cancelMsgs \in [Instances -> SUBSET Jobs]
  /\ used \in [FaultKinds -> Nat]
  /\ failures \in [Jobs -> 0 .. Exhausted]
  /\ succeeded \subseteq Jobs
  /\ copied \subseteq Jobs
  /\ cancelled \subseteq Jobs
  /\ quiet \subseteq Jobs

Init ==
  /\ QueueInit(Scheduled)
  /\ status = [j \in Jobs |-> "absent"]
  /\ owner = [j \in Jobs |-> NoWorker]
  /\ api = [j \in Jobs |-> "none"]
  /\ paused = {}
  /\ up = [i \in Instances |-> "up"]
  /\ pc = [w \in Workers |-> "brpop"]
  /\ job = [w \in Workers |-> NoJob]
  /\ tries = [w \in Workers |-> 0]
  /\ ctx = [w \in Workers |-> "none"]
  /\ active = [i \in Instances |-> [j \in Jobs |-> NoWorker]]
  /\ cancelMsgs = [i \in Instances |-> {}]
  /\ used = [k \in FaultKinds |-> 0]
  /\ failures = [j \in Jobs |-> 0]
  /\ succeeded = {} /\ copied = {} /\ cancelled = {} /\ quiet = {}

-----------------------------------------------------------------------------
(* Building blocks.                                                        *)

Spend(k) == /\ used[k] < FaultBound[k]
            /\ \A f \in FaultKinds : {k, f} \in Apart => used[f] = 0
            /\ used' = [used EXCEPT ![k] = @ + 1]

(* JobStore.UpdateStatus / UpdateResult, applied only to a stored job.     *)
SetStatus(j, s, w) ==
  /\ status' = IF status[j] = "absent" THEN status ELSE [status EXCEPT ![j] = s]
  /\ owner' = IF status[j] = "absent" THEN owner ELSE [owner EXCEPT ![j] = w]
  /\ UNCHANGED <<api, paused>>

(* Calls before execution use the pool's context, which a drain cancels;   *)
(* calls after it use execCtx, which only CancelJob cancels.  Every error  *)
(* of a call on a cancelled context is ignored by ProcessOnce.             *)
PoolLive(w) == up[InstanceOf[w]] = "up"
ExecLive(w) == ctx[w] # "cancelled"

At(w, call) == pc[w] = call

Goto(w, call) ==
  /\ pc' = [pc EXCEPT ![w] = call]
  /\ UNCHANGED <<job, tries, ctx>>

(* Bug: the job id is not unregistered when ProcessOnce returns.           *)
ReturnKeepsRegistration(w) ==
  /\ pc' = [pc EXCEPT ![w] = IF PoolLive(w) THEN "brpop" ELSE "exited"]
  /\ job' = [job EXCEPT ![w] = NoJob]
  /\ tries' = [tries EXCEPT ![w] = 0]
  /\ ctx' = [ctx EXCEPT ![w] = "none"]
  /\ UNCHANGED poolVars

(* ProcessOnce returns: the deferred unregister deletes the entry of the   *)
(* job id, whoever wrote it, and Run leaves its loop once draining.        *)
Return(w) ==
  /\ pc' = [pc EXCEPT ![w] = IF PoolLive(w) THEN "brpop" ELSE "exited"]
  /\ job' = [job EXCEPT ![w] = NoJob]
  /\ tries' = [tries EXCEPT ![w] = 0]
  /\ ctx' = [ctx EXCEPT ![w] = "none"]
  /\ active' = IF ctx[w] = "none" THEN active
               ELSE [active EXCEPT ![InstanceOf[w]][job[w]] = NoWorker]
  /\ UNCHANGED <<up, cancelMsgs>>

-----------------------------------------------------------------------------
(* API requests: each is a store call followed by queue calls.             *)

(* CreateJob and ReplayJob share their second call, queue.Enqueue.         *)
CreateJob(j) ==
  /\ status[j] = "absent" /\ api[j] = "none"
  /\ status' = [status EXCEPT ![j] = "pending"]
  /\ api' = [api EXCEPT ![j] = "enqueue"]
  /\ UNCHANGED <<redisVars, owner, paused, workerVars, poolVars, history>>

(* No status is required of the job, and its processed marker is kept.     *)
ReplayJob(j) ==
  /\ status[j] # "absent" /\ api[j] = "none"
  /\ Spend("replay")
  /\ status' = [status EXCEPT ![j] = "pending"]
  /\ owner' = [owner EXCEPT ![j] = NoWorker]
  /\ api' = [api EXCEPT ![j] = "enqueue"]
  /\ copied' = copied \cup {j}
  /\ quiet' = quiet \ {j}
  /\ UNCHANGED <<redisVars, paused, workerVars, poolVars, failures, succeeded, cancelled>>

ApiEnqueue(j) ==
  /\ api[j] = "enqueue"
  /\ Enqueue(j, 0)
  /\ api' = [api EXCEPT ![j] = "none"]
  /\ UNCHANGED <<status, owner, paused, workerVars, poolVars, history>>

CancelJob(j) ==
  /\ status[j] # "absent" /\ api[j] = "none"
  /\ Spend("cancel")
  /\ status' = [status EXCEPT ![j] = "cancelled"]
  /\ owner' = [owner EXCEPT ![j] = NoWorker]
  /\ api' = [api EXCEPT ![j] = "cancelAck"]
  /\ cancelled' = cancelled \cup {j}
  /\ quiet' = IF Holders(j) = {} THEN quiet \cup {j} ELSE quiet
  /\ UNCHANGED <<redisVars, paused, workerVars, poolVars, failures, succeeded, copied>>

CancelAck(j) ==
  /\ api[j] = "cancelAck"
  /\ Ack(j)
  /\ api' = [api EXCEPT ![j] = "cancelPublish"]
  /\ UNCHANGED <<status, owner, paused, workerVars, poolVars, history>>

(* Pub/sub reaches the instances that are subscribed at this moment.       *)
CancelPublish(j) ==
  /\ api[j] = "cancelPublish"
  /\ cancelMsgs' = [i \in Instances |-> IF up[i] = "up" THEN cancelMsgs[i] \cup {j}
                                                        ELSE cancelMsgs[i]]
  /\ api' = [api EXCEPT ![j] = "none"]
  /\ UNCHANGED <<redisVars, status, owner, paused, workerVars, up, active, history>>

(* The API process dies between two calls of a request.                    *)
ApiCrash(j) ==
  /\ api[j] # "none"
  /\ Spend("apiCrash")
  /\ api' = [api EXCEPT ![j] = "none"]
  /\ UNCHANGED <<redisVars, status, owner, paused, workerVars, poolVars,
                 failures, succeeded, copied, cancelled, quiet>>

PauseJobType(j) ==
  /\ j \in Pausable \ paused
  /\ paused' = paused \cup {j}
  /\ UNCHANGED <<redisVars, status, owner, api, workerVars, poolVars, history>>

ResumeJobType(j) ==
  /\ j \in paused
  /\ paused' = paused \ {j}
  /\ UNCHANGED <<redisVars, status, owner, api, workerVars, poolVars, history>>

-----------------------------------------------------------------------------
(* ProcessOnce, up to the execution of the job.                            *)

(* A BRPOP that is already blocked is not interrupted by a drain.          *)
Dequeue(w, j) ==
  /\ At(w, "brpop")
  /\ BRPop(j)
  /\ pc' = [pc EXCEPT ![w] = "track"]
  /\ job' = [job EXCEPT ![w] = j]
  /\ tries' = [tries EXCEPT ![w] = Head(queue[j])]
  /\ UNCHANGED <<ctx, storeVars, poolVars, history>>

TrackInFlight(w) ==
  /\ At(w, "track") /\ PoolLive(w)
  /\ Track(job[w], tries[w])
  /\ Goto(w, "isProcessed")
  /\ UNCHANGED <<storeVars, poolVars, history>>

(* After a drain the calls that follow BRPOP fail and Dequeue returns the  *)
(* error: the popped payload is gone.                                      *)
DropOnDrain(w) ==
  /\ At(w, "track") /\ ~ PoolLive(w)
  /\ Return(w)
  /\ UNCHANGED <<redisVars, storeVars, history>>

CheckIsProcessed(w) ==
  /\ At(w, "isProcessed")
  /\ Goto(w, IF PoolLive(w) /\ job[w] \in processed THEN "skipAck" ELSE "isPaused")
  /\ UNCHANGED <<redisVars, storeVars, poolVars, history>>

CheckIsPaused(w) ==
  /\ At(w, "isPaused")
  /\ Goto(w, IF PoolLive(w) /\ job[w] \in paused THEN "requeue" ELSE "getStatus")
  /\ UNCHANGED <<redisVars, storeVars, poolVars, history>>

(* Bug: a cancelled job is not recognised as finished.                     *)
CheckStatusIgnoresCancel(w) ==
  /\ At(w, "getStatus")
  /\ Goto(w, IF PoolLive(w) /\ status[job[w]] \in {"completed", "failed"} THEN "skipAck"
                                                                    ELSE "setProcessing")
  /\ UNCHANGED <<redisVars, storeVars, poolVars, history>>

CheckStatus(w) ==
  /\ At(w, "getStatus")
  /\ Goto(w, IF PoolLive(w) /\ status[job[w]] \in Terminal THEN "skipAck"
                                                            ELSE "setProcessing")
  /\ UNCHANGED <<redisVars, storeVars, poolVars, history>>

SkipAck(w) ==
  /\ At(w, "skipAck")
  /\ IF PoolLive(w) THEN Ack(job[w]) ELSE UNCHANGED redisVars
  /\ Return(w)
  /\ UNCHANGED <<storeVars, history>>

SetProcessing(w) ==
  /\ At(w, "setProcessing")
  /\ IF PoolLive(w) THEN SetStatus(job[w], "processing", w) ELSE UNCHANGED storeVars
  /\ Goto(w, "limiter")
  /\ UNCHANGED <<redisVars, poolVars, history>>

(* limiter.Wait fails on a draining pool: the job is left in flight.       *)
AbandonAtLimiter(w) ==
  /\ At(w, "limiter") /\ RateLimited /\ ~ PoolLive(w)
  /\ Return(w)
  /\ UNCHANGED <<redisVars, storeVars, history>>

(* Bug: the job is marked processed before it is executed.                 *)
StartExecutionMarksProcessed(w) ==
  /\ At(w, "limiter") /\ (RateLimited => PoolLive(w))
  /\ MarkProcessed(job[w])
  /\ pc' = [pc EXCEPT ![w] = "execute"]
  /\ ctx' = [ctx EXCEPT ![w] = "live"]
  /\ active' = [active EXCEPT ![InstanceOf[w]][job[w]] = w]
  /\ UNCHANGED <<storeVars, job, tries, up, cancelMsgs, history>>

(* RegisterActiveJob; from here on a cancellation finds the job.           *)
StartExecution(w) ==
  /\ At(w, "limiter") /\ (RateLimited => PoolLive(w))
  /\ pc' = [pc EXCEPT ![w] = "execute"]
  /\ ctx' = [ctx EXCEPT ![w] = "live"]
  /\ active' = [active EXCEPT ![InstanceOf[w]][job[w]] = w]
  /\ UNCHANGED <<redisVars, storeVars, job, tries, up, cancelMsgs, history>>

-----------------------------------------------------------------------------
(* ProcessOnce, the execution and what follows it.                         *)

Succeed(w) ==
  /\ At(w, "execute")
  /\ Goto(w, "markProcessed")
  /\ succeeded' = succeeded \cup {job[w]}
  /\ UNCHANGED <<redisVars, storeVars, poolVars, used, failures, copied, cancelled, quiet>>

(* Bug: `<=` for `<`, one retry too many.                                  *)
FaultRetriesOnceMore(w) ==
  /\ At(w, "execute")
  /\ IF tries[w] <= MaxRetries
       THEN /\ pc' = [pc EXCEPT ![w] = "setPending"]
            /\ tries' = [tries EXCEPT ![w] = @ + 1]
       ELSE /\ pc' = [pc EXCEPT ![w] = "saveFailed"]
            /\ tries' = tries
  /\ failures' = [failures EXCEPT ![job[w]] = IF @ < Exhausted THEN @ + 1 ELSE @]
  /\ UNCHANGED <<redisVars, storeVars, job, ctx, poolVars,
                 used, succeeded, copied, cancelled, quiet>>

(* The plugin failed: retry while Retries < MaxRetries, else give up.      *)
Fault(w) ==
  /\ At(w, "execute")
  /\ IF tries[w] < MaxRetries
       THEN /\ pc' = [pc EXCEPT ![w] = "setPending"]
            /\ tries' = [tries EXCEPT ![w] = @ + 1]
       ELSE /\ pc' = [pc EXCEPT ![w] = "saveFailed"]
            /\ tries' = tries
  /\ failures' = [failures EXCEPT ![job[w]] = IF @ < Exhausted THEN @ + 1 ELSE @]
  /\ UNCHANGED <<redisVars, storeVars, job, ctx, poolVars,
                 used, succeeded, copied, cancelled, quiet>>

(* Bug: an open circuit is treated as a failed execution.                  *)
CircuitOpenCostsRetry(w) ==
  /\ At(w, "execute")
  /\ IF tries[w] < MaxRetries
       THEN /\ pc' = [pc EXCEPT ![w] = "setPending"]
            /\ tries' = [tries EXCEPT ![w] = @ + 1]
       ELSE /\ pc' = [pc EXCEPT ![w] = "saveFailed"]
            /\ tries' = tries
  /\ UNCHANGED <<redisVars, storeVars, job, ctx, poolVars, history>>

(* ErrCircuitOpen: deferred without using up a retry.                      *)
CircuitOpen(w) ==
  /\ At(w, "execute")
  /\ Goto(w, "setPending")
  /\ UNCHANGED <<redisVars, storeVars, poolVars, history>>

RecordProcessed(w) ==
  /\ At(w, "markProcessed")
  /\ IF ExecLive(w) THEN MarkProcessed(job[w]) ELSE UNCHANGED redisVars
  /\ Goto(w, "saveResult")
  /\ UNCHANGED <<storeVars, poolVars, history>>

SaveResult(w) ==
  /\ At(w, "saveResult")
  /\ IF ExecLive(w) THEN SetStatus(job[w], "completed", w) ELSE UNCHANGED storeVars
  /\ Goto(w, "ackDone")
  /\ UNCHANGED <<redisVars, poolVars, history>>

AckDone(w) ==
  /\ At(w, "ackDone")
  /\ IF ExecLive(w) THEN Ack(job[w]) ELSE UNCHANGED redisVars
  /\ Return(w)
  /\ UNCHANGED <<storeVars, history>>

SetPending(w) ==
  /\ At(w, "setPending")
  /\ IF ExecLive(w) THEN SetStatus(job[w], "pending", w) ELSE UNCHANGED storeVars
  /\ Goto(w, "requeue")
  /\ UNCHANGED <<redisVars, poolVars, history>>

(* Bug: the in-flight entry is acked and nothing is enqueued.              *)
RequeueOnlyAcks(w) ==
  /\ At(w, "requeue") /\ ExecLive(w)
  /\ Ack(job[w])
  /\ Goto(w, "ackRequeued")
  /\ UNCHANGED <<storeVars, poolVars, history>>

(* retry and deferJob: after the delay, or at once when draining.          *)
Requeue(w) ==
  /\ At(w, "requeue") /\ ExecLive(w)
  /\ Enqueue(job[w], tries[w])
  /\ Goto(w, "ackRequeued")
  /\ UNCHANGED <<storeVars, poolVars, history>>

(* Enqueue failed on the cancelled context, and so would the Ack.          *)
RequeueFails(w) ==
  /\ At(w, "requeue") /\ ~ ExecLive(w)
  /\ Return(w)
  /\ UNCHANGED <<redisVars, storeVars, history>>

AckRequeued(w) ==
  /\ At(w, "ackRequeued")
  /\ IF ExecLive(w) THEN Ack(job[w]) ELSE UNCHANGED redisVars
  /\ Return(w)
  /\ UNCHANGED <<storeVars, history>>

SaveFailed(w) ==
  /\ At(w, "saveFailed")
  /\ IF ExecLive(w) THEN SetStatus(job[w], "failed", w) ELSE UNCHANGED storeVars
  /\ Goto(w, "failRead")
  /\ UNCHANGED <<redisVars, poolVars, history>>

(* queue.Fail: read the payload, drop the entry, then push to the DLQ.     *)
FailRead(w) ==
  /\ At(w, "failRead") /\ ExecLive(w) /\ payloads[job[w]] # NoPayload
  /\ Goto(w, "failRemove")
  /\ UNCHANGED <<redisVars, storeVars, poolVars, history>>

FailNotFound(w) ==
  /\ At(w, "failRead") /\ (~ ExecLive(w) \/ payloads[job[w]] = NoPayload)
  /\ Return(w)
  /\ UNCHANGED <<redisVars, storeVars, history>>

FailRemove(w) ==
  /\ At(w, "failRemove")
  /\ IF ExecLive(w) THEN Untrack(job[w]) /\ Goto(w, "failPush") /\ UNCHANGED poolVars
                    ELSE UNCHANGED redisVars /\ Return(w)
  /\ UNCHANGED <<storeVars, history>>

FailPush(w) ==
  /\ At(w, "failPush")
  /\ IF ExecLive(w) THEN PushDeadLetter(job[w]) ELSE UNCHANGED redisVars
  /\ Return(w)
  /\ UNCHANGED <<storeVars, history>>

-----------------------------------------------------------------------------
(* Worker processes.                                                       *)

(* listenForCancellations: cancel whoever is registered for the job id.    *)
ReceiveCancel(i, j) ==
  /\ up[i] = "up" /\ j \in cancelMsgs[i]
  /\ cancelMsgs' = [cancelMsgs EXCEPT ![i] = @ \ {j}]
  /\ ctx' = [w \in Workers |-> IF active[i][j] = w THEN "cancelled" ELSE ctx[w]]
  /\ active' = [active EXCEPT ![i][j] = NoWorker]
  /\ UNCHANGED <<redisVars, storeVars, pc, job, tries, up, history>>

(* InitiateDrain cancels the pool's context; the listener returns too.     *)
InitiateDrain(i) ==
  /\ up[i] = "up"
  /\ Spend("drain")
  /\ up' = [up EXCEPT ![i] = "draining"]
  /\ cancelMsgs' = [cancelMsgs EXCEPT ![i] = {}]
  /\ UNCHANGED <<redisVars, storeVars, workerVars, active,
                 failures, succeeded, copied, cancelled, quiet>>

(* BRPOP times out and Run sees the cancelled context.                     *)
LeaveLoop(w) ==
  /\ At(w, "brpop") /\ ~ PoolLive(w)
  /\ Goto(w, "exited")
  /\ UNCHANGED <<redisVars, storeVars, poolVars, history>>

(* Pool.Stop returns once every worker has left its loop.                  *)
Drained(i) ==
  /\ up[i] = "draining"
  /\ \A w \in WorkersOf(i) : At(w, "exited")
  /\ up' = [up EXCEPT ![i] = "down"]
  /\ UNCHANGED <<redisVars, storeVars, workerVars, active, cancelMsgs, history>>

(* The process is killed, or exits because the drain timed out.            *)
Crash(i) ==
  /\ up[i] # "down"
  /\ Spend("crash")
  /\ up' = [up EXCEPT ![i] = "down"]
  /\ pc' = [w \in Workers |-> IF w \in WorkersOf(i) THEN "exited" ELSE pc[w]]
  /\ job' = [w \in Workers |-> IF w \in WorkersOf(i) THEN NoJob ELSE job[w]]
  /\ tries' = [w \in Workers |-> IF w \in WorkersOf(i) THEN 0 ELSE tries[w]]
  /\ ctx' = [w \in Workers |-> IF w \in WorkersOf(i) THEN "none" ELSE ctx[w]]
  /\ active' = [active EXCEPT ![i] = [j \in Jobs |-> NoWorker]]
  /\ cancelMsgs' = [cancelMsgs EXCEPT ![i] = {}]
  /\ UNCHANGED <<redisVars, storeVars, failures, succeeded, copied, cancelled, quiet>>

(* ReconcileOrphanedJobs asks the store for the jobs processed by the      *)
(* instance id, while ProcessedBy holds the worker name "<id>:worker-<n>". *)
Orphans(i) == {j \in Jobs : status[j] = "processing" /\ owner[j] = i}

(* The process starts again: reconcile the orphans, then run the pool.     *)
Restart(i) ==
  /\ up[i] = "down"
  /\ up' = [up EXCEPT ![i] = "up"]
  /\ pc' = [w \in Workers |-> IF w \in WorkersOf(i) THEN "brpop" ELSE pc[w]]
  /\ status' = [j \in Jobs |-> IF j \in Orphans(i) THEN "pending" ELSE status[j]]
  /\ owner' = [j \in Jobs |-> IF j \in Orphans(i) THEN NoWorker ELSE owner[j]]
  /\ queue' = [j \in Jobs |-> IF j \in Orphans(i) THEN Append(queue[j], 0) ELSE queue[j]]
  /\ payloads' = [j \in Jobs |-> IF j \in Orphans(i) THEN NoPayload ELSE payloads[j]]
  /\ inflight' = [j \in Jobs |-> IF j \in Orphans(i) THEN "none" ELSE inflight[j]]
  /\ copied' = copied \cup Orphans(i)
  /\ UNCHANGED <<delayed, deadLetter, processed, future, api, paused, job, tries, ctx,
                 active, cancelMsgs, used, failures, succeeded, cancelled, quiet>>

-----------------------------------------------------------------------------
(* The scheduler's tick and the clock.                                     *)

Promote ==
  /\ PromoteScheduledJobs
  /\ UNCHANGED <<storeVars, workerVars, poolVars, history>>

(* MaxReclaims bounds the reclaims of jobs that a live worker still holds. *)
Reclaim ==
  /\ ReclaimTimedOutJobs
  /\ IF \E j \in TimedOut : Holders(j) # {} THEN Spend("reclaim") ELSE UNCHANGED used
  /\ copied' = copied \cup TimedOut
  /\ UNCHANGED <<storeVars, workerVars, poolVars, failures, succeeded, cancelled, quiet>>

Tick(j) ==
  /\ VisibilityTimeout(j) \/ RunAtReached(j)
  /\ UNCHANGED <<storeVars, workerVars, poolVars, history>>

-----------------------------------------------------------------------------
ApiStep(j) ==
  \/ CreateJob(j) \/ ReplayJob(j) \/ ApiEnqueue(j)
  \/ CancelJob(j) \/ CancelAck(j) \/ CancelPublish(j)
  \/ ApiCrash(j) \/ PauseJobType(j) \/ ResumeJobType(j)

ProcessOnce(w) ==
  \/ \E j \in Jobs : Dequeue(w, j)
  \/ TrackInFlight(w) \/ DropOnDrain(w)
  \/ CheckIsProcessed(w) \/ CheckIsPaused(w) \/ CheckStatus(w) \/ SkipAck(w)
  \/ SetProcessing(w) \/ AbandonAtLimiter(w) \/ StartExecution(w)
  \/ Succeed(w) \/ Fault(w) \/ CircuitOpen(w)
  \/ RecordProcessed(w) \/ SaveResult(w) \/ AckDone(w)
  \/ SetPending(w) \/ Requeue(w) \/ RequeueFails(w) \/ AckRequeued(w)
  \/ SaveFailed(w) \/ FailRead(w) \/ FailNotFound(w) \/ FailRemove(w) \/ FailPush(w)
  \/ LeaveLoop(w)

InstanceStep(i) ==
  \/ \E j \in Jobs : ReceiveCancel(i, j)
  \/ InitiateDrain(i) \/ Drained(i) \/ Crash(i) \/ Restart(i)

SchedulerStep == Promote \/ Reclaim

Next ==
  \/ \E j \in Jobs : ApiStep(j) \/ Tick(j)
  \/ \E w \in Workers : ProcessOnce(w)
  \/ \E i \in Instances : InstanceStep(i)
  \/ SchedulerStep

Spec == Init /\ [][Next]_vars

(* What the code's scheduling justifies: goroutines and API requests make  *)
(* their next call, time passes, the scheduler ticks, a process that has   *)
(* gone is restarted, and a circuit breaker lets a call through after its  *)
(* cooldown.  Nothing is assumed about which list a BRPOP prefers.         *)
Fairness ==
  /\ \A w \in Workers : /\ WF_vars(ProcessOnce(w))
                         /\ SF_vars(Succeed(w) \/ Fault(w))
  /\ \A j \in Jobs : /\ WF_vars(ApiEnqueue(j) \/ CancelAck(j) \/ CancelPublish(j))
                      /\ WF_vars(Tick(j))
  /\ \A i \in Instances : /\ WF_vars(Restart(i))
                           /\ WF_vars(Drained(i))
                           /\ WF_vars(\E j \in Jobs : ReceiveCancel(i, j))
  /\ WF_vars(Promote)
  /\ WF_vars(Reclaim)

FairSpec == Spec /\ Fairness

-----------------------------------------------------------------------------
(* Safety properties.                                                      *)

Owns(w, j) == job[w] = j /\ pc[w] \in Owning

(* A payload is kept exactly as long as its in-flight record: the          *)
(* pipelines and the reclaim script never separate the two, so a reclaim   *)
(* never finds a record it has no payload for.                             *)
InFlightPaired == \A j \in Jobs : (payloads[j] = NoPayload) <=> (inflight[j] = "none")

(* A job that was never reclaimed or replayed has a single copy: no two    *)
(* workers are between its BRPOP and its requeue or result, retries,       *)
(* deferrals, drains, cancellations and crashes included.                  *)
SingleFlight ==
  \A j \in Jobs \ copied : \A v, w \in Workers : Owns(v, j) /\ Owns(w, j) => v = w

(* The store says failed only of a job whose executions failed             *)
(* MaxRetries + 1 times: no duplicate, replay, deferral or crash shortens  *)
(* the retries a job is given.                                             *)
EarnedFailure == \A j \in Jobs : status[j] = "failed" => failures[j] = Exhausted

(* The store says completed, and the idempotency marker is set, only of a  *)
(* job that some worker executed successfully.                             *)
EarnedSuccess ==
  \A j \in Jobs : status[j] = "completed" \/ j \in processed => j \in succeeded

(* A job with a RunAt is neither queued nor held by a worker before it.    *)
NeverEarly == \A j \in future : queue[j] = << >> /\ Holders(j) = {}

(* Pool.activeJobs maps a job id only to the cancel function of a worker   *)
(* of this process that is executing that job now.                         *)
RegistryFresh ==
  \A i \in Instances, j \in Jobs, w \in Workers :
    active[i][j] = w => InstanceOf[w] = i /\ job[w] = j /\ ctx[w] = "live"

(* A cancel that finds the job held by no worker is final: as long as no   *)
(* pool drains (a draining worker skips the status check), the job is not  *)
(* executed and stays cancelled until it is replayed.                      *)
QuietCancelHolds ==
  used["drain"] = 0 =>
    \A j \in quiet : /\ status[j] = "cancelled"
                     /\ \A w \in Holders(j) : pc[w] \notin {"setProcessing", "limiter", "execute"}

(* Where a job that is not finished may be: in a list, in flight, between  *)
(* two calls of the API, or in the hands of a worker.                      *)
Accounted(j) ==
  \/ queue[j] # << >> \/ delayed[j] # << >> \/ inflight[j] # "none"
  \/ api[j] = "enqueue"
  \/ \E w \in Workers : Owns(w, j)

Lost(j) == /\ status[j] \in {"pending", "processing"}
           /\ j \notin processed \cup cancelled
           /\ ~ Accounted(j)

(* "The rest of the pool and the scheduler's in-flight reclaim finish the  *)
(* jobs" of a killed worker (README-production.md): every job that is      *)
(* neither finished, processed nor cancelled is accounted for.             *)
NothingLost == \A j \in Jobs : ~ Lost(j)

(* Timeouts, reclaims, duplicate executions, replays, deferrals and        *)
(* retries alone lose no job: it takes a crash or a drain.                 *)
LossNeedsFault ==
  used["crash"] + used["apiCrash"] + used["drain"] = 0 => NothingLost

-----------------------------------------------------------------------------
(* The abstract contract this system implements.                           *)

Phase == [j \in Jobs |-> CASE status[j] = "absent" -> "new"
                          [] status[j] \in {"pending", "processing"} -> "open"
                          [] OTHER -> status[j]]

Contract == INSTANCE JobContract WITH MaxFailures <- Exhausted, phase <- Phase,
              won <- succeeded, lost <- failures, loose <- copied \cup cancelled

(* Recorded outcomes are earned, and a job that is never reclaimed,        *)
(* replayed or cancelled is executed successfully at most once and keeps   *)
(* the outcome it was given (module JobContract).                          *)
ImplementsContract == Contract!ContractSpec

-----------------------------------------------------------------------------
(* Liveness properties.                                                    *)

Settled(j) == status[j] \in Terminal \/ j \in processed

FaultCount == used["crash"] + used["drain"]

(* A job that was saved, is not lost and is not cancelled is finished,     *)
(* unless another fault intervenes: retries, deferrals and the copies of a *)
(* premature reclaim or a replay come to an end, and after a crash or a    *)
(* drain the in-flight record that was left behind expires, the scheduler  *)
(* requeues it, and a restarted worker finishes it, whatever the fault     *)
(* interrupted.                                                            *)
JobsSettle ==
  \A j \in Jobs, n \in 0 .. MaxCrashes + MaxDrains :
    /\ FaultCount = n /\ (\A i \in Instances : up[i] # "draining")
    /\ status[j] # "absent" /\ j \notin cancelled /\ ~ Lost(j)
    ~> Settled(j) \/ FaultCount > n

=============================================================================
