------------------------ MODULE TaskQueueRefinement -------------------------
(***************************************************************************)
(* Copies of a job: a job that was never reclaimed or replayed has one     *)
(* copy, and without a crash or a drain no job is lost.  On these rests    *)
(* that the system implements the contract of module JobContract: a job    *)
(* that was never reclaimed, replayed or cancelled succeeds at most once   *)
(* and keeps the outcome it was given, which was earned.                   *)
(***************************************************************************)
EXTENDS TaskQueueProofs

Waiting(j) == api[j] = "enqueue" \/ queue[j] # << >> \/ delayed[j] # << >>

Owned(j) == \E w \in Workers : Owns(w, j)

(* A job that is not stored has left no trace.                             *)
Fresh(j) ==
  status[j] = "absent" =>
    /\ api[j] # "enqueue" /\ queue[j] = << >> /\ delayed[j] = << >>
    /\ payloads[j] = NoPayload /\ inflight[j] = "none"
    /\ j \notin succeeded
    /\ \A w \in Workers : job[w] # j

(* The one copy is with the API, in a list or in the hands of a worker.    *)
OneCopy(j) ==
  /\ api[j] = "enqueue" => queue[j] = << >> /\ delayed[j] = << >>
  /\ queue[j] # << >> => Len(queue[j]) = 1 /\ delayed[j] = << >>
  /\ Len(delayed[j]) <= 1
  /\ Waiting(j) => ~ Owned(j)
  /\ \A v, w \in Workers : Owns(v, j) /\ Owns(w, j) => v = w

CopyInv == \A j \in Jobs : Fresh(j) /\ (j \notin copied => OneCopy(j))

(* Lists of at most one element.                                           *)
LEMMA ShortLists ==
  /\ Len(<< >>) = 0
  /\ \A x : Len(<< x >>) = 1 /\ << x >> # << >> /\ Append(<< >>, x) = << x >>
OBVIOUS

(* Joining to the empty list changes nothing.                              *)
LEMMA EmptyConcat ==
  ASSUME NEW s \in Seq(Retries)
  PROVE  << >> \o s = s
OBVIOUS

(* A list of one element is empty once it is popped.                       *)
LEMMA OneElement ==
  ASSUME NEW s \in Seq(Retries), s # << >>
  PROVE  /\ Len(s) <= 1 => Len(s) = 1
         /\ Len(s) = 1 => Tail(s) = << >>
<1>1. Len(s) \in Nat /\ Len(s) # 0
  OBVIOUS
<1>2. Tail(s) \in Seq(Retries) /\ Len(Tail(s)) = Len(s) - 1
  OBVIOUS
<1>3. \A t \in Seq(Retries) : Len(t) = 0 => t = << >>
  OBVIOUS
<1> QED  BY <1>1, <1>2, <1>3

(* A list that was pushed to is not empty.                                 *)
LEMMA AppendNonEmpty ==
  ASSUME NEW s \in Seq(Retries), NEW r \in Retries
  PROVE  Append(s, r) # << >>
<1>1. Len(Append(s, r)) = Len(s) + 1 /\ Len(s) \in Nat
  OBVIOUS
<1>2. Len(<< >>) = 0
  OBVIOUS
<1> QED  BY <1>1, <1>2

(* Joining two lists empties neither.                                      *)
LEMMA ConcatNonEmpty ==
  ASSUME NEW s \in Seq(Retries), NEW t \in Seq(Retries), s # << >> \/ t # << >>
  PROVE  s \o t # << >>
<1>1. Len(s) \in Nat /\ Len(t) \in Nat /\ (Len(s) # 0 \/ Len(t) # 0)
  OBVIOUS
<1>2. Len(s \o t) = Len(s) + Len(t)
  OBVIOUS
<1> QED  BY <1>1, <1>2

(* A worker's step takes a job into its hands only by popping it.          *)
LEMMA OwnsOnlyByDequeue ==
  ASSUME WorkerTypeOK, NEW w \in Workers, ProcessOnce(w), NEW j \in Jobs, ~ Dequeue(w, j),
         NEW v \in Workers, Owns(v, j)'
  PROVE  Owns(v, j)
<1>1. CASE v # w
  BY <1>1, ProcessOnceFrame, Zenon DEF Owns
<1>2. CASE v = w
  <2> USE DEF WorkerTypeOK, HoldsJob
  <2>1. job[w] = j
    BY <1>2, ProcessOnceEffects, Zenon DEF Owns, Owning
  <2>2. ASSUME pc[w] \in Closing PROVE pc'[w] \notin Owning
    <3>1. CASE pc[w] \in {"skipAck", "ackDone", "ackRequeued"}
      <4>1. SkipAck(w) \/ AckDone(w) \/ AckRequeued(w)
        BY <3>1, Dispatch, Zenon
      <4> QED  BY <4>1 DEF Owning, Return, SkipAck, AckDone, AckRequeued
    <3>2. CASE pc[w] \in {"failRead", "failRemove", "failPush"}
      <4>1. FailRead(w) \/ FailNotFound(w) \/ FailRemove(w) \/ FailPush(w)
        BY <3>2, Dispatch, Zenon
      <4> QED  BY <4>1 DEF Owning, Goto, Return, FailRead, FailNotFound, FailRemove, FailPush
    <3> QED  BY <2>2, <3>1, <3>2 DEF Closing
  <2>3. pc[w] # "brpop"
    BY <2>1, SystemAssumption, Zenon
  <2>4. pc[w] \in Owning \cup Closing
    BY <2>3, ProcessOnceFrame, Zenon DEF Calls
  <2> QED  BY <1>2, <2>1, <2>2, <2>4 DEF Owns
<1> QED  BY <1>1, <1>2

(* OneCopy depends on the lists, the API and the owners of the job only,   *)
(* and losing an owner does not hurt.                                      *)
LEMMA OneCopyShrinks ==
  ASSUME NEW j \in Jobs, OneCopy(j),
         queue'[j] = queue[j], delayed'[j] = delayed[j], api'[j] = "enqueue" => api[j] = "enqueue",
         \A w \in Workers : Owns(w, j)' => Owns(w, j)
  PROVE  OneCopy(j)'
BY Zenon DEF OneCopy, Waiting, Owned

(* A job that comes back to a list is there once.                          *)
LEMMA OneCopyListed ==
  ASSUME NEW j \in Jobs, NEW x, api'[j] # "enqueue", \A w \in Workers : ~ Owns(w, j)',
         \/ queue'[j] = << x >> /\ delayed'[j] = << >>
         \/ queue'[j] = << >> /\ delayed'[j] = << x >>
  PROVE  OneCopy(j)'
<1>1. Len(<< >>) = 0 /\ Len(<< x >>) = 1 /\ << x >> # << >>
  BY ShortLists, Zenon
<1>2. CASE queue'[j] = << x >> /\ delayed'[j] = << >>
  BY <1>1, <1>2 DEF OneCopy, Waiting, Owned
<1>3. CASE queue'[j] = << >> /\ delayed'[j] = << x >>
  BY <1>1, <1>3 DEF OneCopy, Waiting, Owned
<1> QED  BY <1>2, <1>3, Zenon

(* A job that was popped is in the hands of the worker that popped it.     *)
LEMMA OneCopyHeld ==
  ASSUME NEW j \in Jobs, NEW w \in Workers, api'[j] # "enqueue",
         queue'[j] = << >> /\ delayed'[j] = << >>,
         \A v \in Workers : Owns(v, j)' => v = w
  PROVE  OneCopy(j)'
<1>1. Len(delayed'[j]) <= 1
  BY ShortLists
<1>2. \A u, v \in Workers : Owns(u, j)' /\ Owns(v, j)' => u = v
  OBVIOUS
<1>3. ~ Waiting(j)'
  BY Zenon DEF Waiting
<1> QED  BY <1>1, <1>2, <1>3 DEF OneCopy

(* A job that was promoted is in its list once.                            *)
LEMMA OneCopyMoved ==
  ASSUME NEW j \in Jobs, api'[j] # "enqueue", \A w \in Workers : ~ Owns(w, j)',
         Len(queue'[j]) = 1, delayed'[j] = << >>
  PROVE  OneCopy(j)'
<1>1. Len(delayed'[j]) <= 1
  BY ShortLists
<1>2. ~ Owned(j)'
  BY Zenon DEF Owned
<1> QED  BY <1>1, <1>2, Zenon DEF OneCopy

(* The steps of the API keep the invariant.                                *)
LEMMA ApiStepCopies ==
  ASSUME Base, CopyInv, NEW k \in Jobs, ApiStep(k), NEW j \in Jobs
  PROVE  Fresh(j)' /\ (j \notin copied' => OneCopy(j)')
<1> USE DEF Base, TypeInv, QueueTypeOK, RestTypeOK
<1>0. /\ Fresh(j) /\ (j \notin copied => OneCopy(j))
      /\ \A w \in Workers : Owns(w, j)' <=> Owns(w, j)
      /\ job' = job /\ succeeded' = succeeded
  BY ApiFrame DEF CopyInv, Owns
<1>1. CASE j # k
  <2>1. /\ queue'[j] = queue[j] /\ delayed'[j] = delayed[j] /\ api'[j] = api[j]
        /\ payloads'[j] = payloads[j] /\ inflight'[j] = inflight[j] /\ status'[j] = status[j]
    <3>1. CASE CreateJob(k) \/ ReplayJob(k) \/ ApiEnqueue(k)
      BY <1>1, <3>1 DEF CreateJob, ReplayJob, ApiEnqueue, Enqueue, redisVars
    <3>2. CASE CancelJob(k) \/ CancelAck(k) \/ CancelPublish(k)
      BY <1>1, <3>2 DEF CancelJob, CancelAck, CancelPublish, Ack, Untrack, redisVars
    <3>3. CASE ApiCrash(k) \/ PauseJobType(k) \/ ResumeJobType(k)
      BY <1>1, <3>3, Zenon DEF ApiCrash, PauseJobType, ResumeJobType, redisVars
    <3> QED  BY <3>1, <3>2, <3>3 DEF ApiStep
  <2>2. j \notin copied' => j \notin copied
    BY ApiFrame, Zenon DEF ReplayJob
  <2> QED  BY <1>0, <2>1, <2>2, OneCopyShrinks, Zenon DEF Fresh
<1>2. CASE j = k /\ CreateJob(k)
  BY <1>0, <1>2, Zenon DEF CreateJob, Fresh, OneCopy, Waiting, Owned, Owns, redisVars, history
<1>3. CASE j = k /\ ReplayJob(k)
  BY <1>0, <1>3, Zenon DEF ReplayJob, Fresh
<1>4. CASE j = k /\ ApiEnqueue(k)
  <2>1. status[j] # "absent" /\ status' = status /\ copied' = copied /\ api'[j] = "none"
    BY <1>0, <1>4 DEF ApiEnqueue, Fresh, history
  <2>2. ASSUME OneCopy(j) PROVE OneCopy(j)'
    <3>1. queue[j] = << >> /\ delayed[j] = << >> /\ ~ Owned(j)
      BY <1>4, <2>2 DEF ApiEnqueue, OneCopy, Waiting
    <3>2. \/ queue'[j] = << 0 >> /\ delayed'[j] = << >>
          \/ queue'[j] = << >> /\ delayed'[j] = << 0 >>
      BY <1>4, <3>1, ShortLists DEF ApiEnqueue, Enqueue
    <3> QED  BY <1>0, <2>1, <3>1, <3>2, OneCopyListed, Zenon DEF Owned
  <2> QED  BY <1>0, <2>1, <2>2, Zenon DEF Fresh
<1>5. CASE j = k /\ ~ CreateJob(k) /\ ~ ReplayJob(k) /\ ~ ApiEnqueue(k)
  <2>1. /\ queue' = queue /\ delayed' = delayed /\ (api'[j] = "enqueue" => api[j] = "enqueue")
        /\ copied' = copied /\ (status'[j] = "absent" => status[j] = "absent")
        /\ payloads'[j] = payloads[j] \/ payloads'[j] = NoPayload
        /\ inflight'[j] = inflight[j] \/ inflight'[j] = "none"
    BY <1>5, ApiFrame, Zenon DEF ApiStep, CancelJob, CancelAck, Ack, Untrack, CancelPublish, ApiCrash,
       PauseJobType, ResumeJobType, redisVars
  <2> QED  BY <1>0, <2>1, OneCopyShrinks, Zenon DEF Fresh
<1> QED  BY <1>1, <1>2, <1>3, <1>4, <1>5

(* A worker's step keeps the invariant of copies.                          *)
LEMMA ProcessOnceCopies ==
  ASSUME Base, CopyInv, NEW w \in Workers, ProcessOnce(w), NEW j \in Jobs
  PROVE  Fresh(j)' /\ (j \notin copied' => OneCopy(j)')
<1>w. \A v \in Workers \ {w} : job'[v] = job[v] /\ pc'[v] = pc[v]
  BY ProcessOnceFrame, Zenon DEF Base, TypeInv
<1> USE DEF Base, TypeInv, QueueTypeOK, RestTypeOK, WorkerTypeOK
<1>0. /\ Fresh(j) /\ (j \notin copied => OneCopy(j))
      /\ api' = api /\ copied' = copied
  BY ProcessOnceEffects, Zenon DEF CopyInv
<1>s. status'[j] = "absent" => status[j] = "absent"
  <2>1. CASE SetProcessing(w) \/ SaveResult(w) \/ SetPending(w) \/ SaveFailed(w)
    BY <2>1 DEF SetProcessing, SaveResult, SetPending, SaveFailed, SetStatus, storeVars
  <2>2. CASE status' = status
    BY <2>2, Zenon
  <2> QED  BY <2>1, <2>2, Dispatch, ProcessOnceEffects, Zenon
<1>f. ASSUME status[j] = "absent" PROVE Fresh(j)'
  <2>1. /\ api[j] # "enqueue" /\ queue[j] = << >> /\ delayed[j] = << >>
        /\ payloads[j] = NoPayload /\ inflight[j] = "none" /\ j \notin succeeded
        /\ \A v \in Workers : job[v] # j
    BY <1>0, <1>f, Zenon DEF Fresh
  <2>2. queue'[j] = << >> /\ delayed'[j] = << >>
    <3>1. CASE \E k \in Jobs : Dequeue(w, k)
      BY <2>1, <3>1, Zenon DEF Dequeue, BRPop
    <3>2. CASE Requeue(w)
      BY <2>1, <3>2 DEF Requeue, Enqueue
    <3> QED  BY <2>1, <3>1, <3>2, Dispatch, ProcessOnceEffects, Zenon DEF LeaveLoop, RequeueFails, redisVars
  <2>3. payloads'[j] = NoPayload /\ inflight'[j] = "none"
    <3>1. CASE TrackInFlight(w)
      BY <2>1, <3>1, Zenon DEF TrackInFlight, Track
    <3> QED  BY <2>1, <3>1, ProcessOnceEffects
  <2>4. j \notin succeeded'
    <3>1. CASE Succeed(w) \/ Fault(w) \/ CircuitOpen(w)
      BY <2>1, <3>1, Zenon DEF Succeed, Fault, CircuitOpen, history
    <3> QED  BY <2>1, <3>1, Dispatch, ProcessOnceEffects, Zenon
  <2>5. \A v \in Workers : job'[v] # j
    <3>1. ~ Dequeue(w, j)
      BY <2>1, Zenon DEF Dequeue, BRPop
    <3>2. job'[w] # j
      <4>1. \/ job'[w] = job[w] \/ job'[w] = NoJob
            \/ \E k \in Jobs : job'[w] = k /\ Dequeue(w, k)
        BY ProcessOnceEffects, Zenon
      <4>2. j # NoJob
        BY SystemAssumption
      <4> QED  BY <2>1, <3>1, <4>1, <4>2
    <3>3. \A v \in Workers \ {w} : job'[v] = job[v]
      BY <1>w, Zenon
    <3> QED  BY <2>1, <3>2, <3>3
  <2> QED  BY <2>1, <2>2, <2>3, <2>4, <2>5, <1>0, Zenon DEF Fresh
<1>1. Fresh(j)'
  BY <1>s, <1>f DEF Fresh
<1>2. ASSUME OneCopy(j) PROVE OneCopy(j)'
  <2>1. CASE Dequeue(w, j)
    <3>1. Waiting(j) /\ ~ Owned(j) /\ Len(queue[j]) = 1 /\ delayed[j] = << >> /\ api[j] # "enqueue"
      BY <1>2, <2>1, Zenon DEF Dequeue, BRPop, OneCopy, Waiting
    <3>2. queue'[j] = << >> /\ delayed'[j] = << >>
      <4>1. queue[j] \in Seq(Retries) /\ queue[j] # << >>
        BY <2>1, Zenon DEF Dequeue, BRPop
      <4>2. Tail(queue[j]) = << >>
        BY <3>1, <4>1, OneElement
      <4> QED  BY <2>1, <3>1, <4>2 DEF Dequeue, BRPop
    <3>3. \A v \in Workers : Owns(v, j)' => v = w
      BY <3>1, <1>w, Zenon DEF Owned, Owns
    <3> QED  BY <1>0, <3>1, <3>2, <3>3, OneCopyHeld
  <2>2. CASE Requeue(w) /\ job[w] = j
    <3>1. Owns(w, j) /\ api[j] # "enqueue" /\ queue[j] = << >> /\ delayed[j] = << >>
      BY <1>2, <2>2, Zenon DEF Requeue, At, Owns, Owning, OneCopy, Waiting, Owned
    <3>2. \/ queue'[j] = << tries[w] >> /\ delayed'[j] = << >>
          \/ queue'[j] = << >> /\ delayed'[j] = << tries[w] >>
      BY <2>2, <3>1, ShortLists DEF Requeue, Enqueue
    <3>3. \A v \in Workers : ~ Owns(v, j)'
      <4>1. ~ Owns(w, j)'
        BY <2>2, Zenon DEF Requeue, Goto, Owns, Owning
      <4>2. \A v \in Workers : Owns(v, j) => v = w
        BY <1>2, <3>1, Zenon DEF OneCopy
      <4> QED  BY <1>w, <4>1, <4>2, Zenon DEF Owns
    <3> QED  BY <1>0, <3>1, <3>2, <3>3, OneCopyListed, Zenon
  <2>3. CASE ~ Dequeue(w, j) /\ ~ (Requeue(w) /\ job[w] = j)
    <3>1. queue'[j] = queue[j] /\ delayed'[j] = delayed[j]
      <4>1. CASE \E k \in Jobs : Dequeue(w, k)
        BY <2>3, <4>1, Zenon DEF Dequeue, BRPop
      <4>2. CASE Requeue(w)
        BY <2>3, <4>2 DEF Requeue, Enqueue
      <4> QED  BY <4>1, <4>2, Dispatch, ProcessOnceEffects, Zenon DEF LeaveLoop, RequeueFails, redisVars
    <3>2. \A v \in Workers : Owns(v, j)' => Owns(v, j)
      BY <2>3, OwnsOnlyByDequeue
    <3> QED  BY <1>0, <1>2, <3>1, <3>2, OneCopyShrinks
  <2> QED  BY <2>1, <2>2, <2>3
<1> QED  BY <1>0, <1>1, <1>2, Zenon

(* Promotion, reclaim and the clock keep the invariant of copies.          *)
LEMMA SchedulerCopies ==
  ASSUME Base, CopyInv, SchedulerStep \/ \E k \in Jobs : Tick(k), NEW j \in Jobs
  PROVE  Fresh(j)' /\ (j \notin copied' => OneCopy(j)')
<1> USE DEF Base, TypeInv, QueueTypeOK, RestTypeOK
<1>0. /\ Fresh(j) /\ (j \notin copied => OneCopy(j))
      /\ UNCHANGED <<api, status, job, pc, succeeded>>
      /\ \A w \in Workers : Owns(w, j)' <=> Owns(w, j)
  BY ClockFrame DEF CopyInv, Owns
<1>1. CASE Promote
  <2>1. /\ payloads' = payloads /\ inflight' = inflight /\ copied' = copied
        /\ queue'[j] = IF Due(j) THEN queue[j] \o delayed[j] ELSE queue[j]
        /\ delayed'[j] = IF Due(j) THEN << >> ELSE delayed[j]
    BY <1>1 DEF Promote, PromoteScheduledJobs, history
  <2>2. Fresh(j)'
    BY <1>0, <2>1, Zenon DEF Fresh, Due
  <2>3. ASSUME OneCopy(j), Due(j) PROVE OneCopy(j)'
    <3>1. delayed[j] # << >> /\ queue[j] = << >> /\ ~ Owned(j) /\ api[j] # "enqueue"
          /\ delayed[j] \in Seq(Retries) /\ Len(delayed[j]) = 1
      BY <2>3, OneElement, Zenon DEF Due, OneCopy, Waiting
    <3>2. << >> \o delayed[j] = delayed[j]
      BY <3>1, EmptyConcat, Zenon
    <3>3. queue'[j] = delayed[j] /\ delayed'[j] = << >>
      BY <2>1, <2>3, <3>1, <3>2
    <3>4. api'[j] # "enqueue" /\ \A w \in Workers : ~ Owns(w, j)'
      BY <1>0, <3>1, Zenon DEF Owned
    <3> QED  BY <3>1, <3>3, <3>4, OneCopyMoved
  <2>4. ASSUME OneCopy(j), ~ Due(j) PROVE OneCopy(j)'
    BY <1>0, <2>1, <2>4, OneCopyShrinks
  <2> QED  BY <1>0, <2>1, <2>2, <2>3, <2>4
<1>2. CASE Reclaim
  <2>1. /\ delayed' = delayed /\ copied' = copied \cup TimedOut
        /\ payloads'[j] = IF j \in TimedOut THEN NoPayload ELSE payloads[j]
        /\ inflight'[j] = IF j \in TimedOut THEN "none" ELSE inflight[j]
        /\ j \notin TimedOut \/ payloads[j] = NoPayload => queue'[j] = queue[j]
    BY <1>2, Zenon DEF Reclaim, ReclaimTimedOutJobs
  <2> QED  BY <1>0, <2>1, OneCopyShrinks DEF Fresh
<1>3. ASSUME NEW k \in Jobs, Tick(k) PROVE Fresh(j)' /\ (j \notin copied' => OneCopy(j)')
  <2>1. /\ UNCHANGED <<queue, delayed, payloads, copied>>
        /\ inflight[j] = "none" => inflight'[j] = "none"
    BY <1>3 DEF Tick, VisibilityTimeout, RunAtReached, history
  <2> QED  BY <1>0, <2>1, OneCopyShrinks DEF Fresh
<1> QED  BY <1>1, <1>2, <1>3 DEF SchedulerStep

(* The invariant of copies.                                                *)
LEMMA CopyInductive == Spec => []CopyInv
<1>1. Init => CopyInv
  <2> SUFFICES ASSUME Init, NEW j \in Jobs PROVE Fresh(j) /\ OneCopy(j)
    BY Zenon DEF CopyInv
  <2>1. \A w \in Workers : job[w] # j
    BY SystemAssumption, Zenon DEF Init
  <2> QED  BY <2>1 DEF Init, QueueInit, Fresh, OneCopy, Waiting, Owned, Owns
<1>2. Base /\ CopyInv /\ [Next]_vars => CopyInv'
  <2> SUFFICES ASSUME Base, CopyInv, [Next]_vars, NEW j \in Jobs
               PROVE  Fresh(j)' /\ (j \notin copied' => OneCopy(j)')
    BY Zenon DEF CopyInv
  <2>0. Fresh(j) /\ (j \notin copied => OneCopy(j))
    BY DEF CopyInv
  <2>1. ASSUME NEW i \in Instances, InstanceStep(i)
        PROVE  Fresh(j)' /\ (j \notin copied' => OneCopy(j)')
    <3>1. \A w \in Workers : (job'[w] = j => job[w] = j) /\ (Owns(w, j)' => Owns(w, j))
      BY <2>1, InstanceFrame, SystemAssumption DEF Owns, Owning
    <3>2. UNCHANGED <<queue, delayed, payloads, inflight, status, api, succeeded, copied>>
      BY <2>1, InstanceFrame, Zenon
    <3> QED  BY <2>0, <3>1, <3>2, OneCopyShrinks DEF Fresh
  <2>2. CASE UNCHANGED vars
    BY <2>0, <2>2, OneCopyShrinks DEF vars, redisVars, storeVars, workerVars, history, Fresh, Owns
  <2> QED  BY <2>1, <2>2, ApiStepCopies, ProcessOnceCopies, SchedulerCopies DEF Next
<1> QED  BY <1>1, <1>2, BaseInvariant, PTL DEF Spec

(* SingleFlight: a job that was never reclaimed or replayed is in the      *)
(* hands of at most one worker.                                            *)
THEOREM SingleFlightInvariant == Spec => []SingleFlight
<1>1. CopyInv => SingleFlight
  BY DEF CopyInv, OneCopy, SingleFlight
<1> QED  BY <1>1, CopyInductive, PTL
-----------------------------------------------------------------------------
(* Losing a job takes a crash or a drain.                                  *)

NoFault == used["crash"] + used["apiCrash"] + used["drain"] = 0

(* A context is cancelled only for a job that was cancelled.               *)
CancelsOnly ==
  /\ \A j \in Jobs : api[j] \in {"cancelAck", "cancelPublish"} => j \in cancelled
  /\ \A i \in Instances : cancelMsgs[i] \subseteq cancelled
  /\ \A w \in Workers : ctx[w] = "cancelled" => job[w] \in cancelled

Kept(j) ==
  status[j] \in {"pending", "processing"} /\ j \notin processed \cup cancelled
    => Waiting(j) \/ Owned(j)

LossInv ==
  /\ CancelsOnly
  /\ NoFault => /\ \A i \in Instances : up[i] = "up"
                /\ \A j \in Jobs : Kept(j)

(* Faults are counted when they happen.                                    *)
LEMMA NoFaultBefore ==
  ASSUME Base, [Next]_vars, NoFault'
  PROVE  /\ NoFault
         /\ \A i \in Instances : ~ InitiateDrain(i) /\ ~ Crash(i)
         /\ \A j \in Jobs : ~ ApiCrash(j)
<1>1. used \in [FaultKinds -> Nat] /\ {"crash", "apiCrash", "drain"} \subseteq FaultKinds
  BY DEF Base, TypeInv, RestTypeOK, FaultKinds
<1>2. used' = used \/ \E k \in FaultKinds : Spend(k)
  <2>1. ASSUME NEW k \in Jobs, ApiStep(k) \/ Tick(k)
        PROVE  used' = used \/ \E f \in FaultKinds : Spend(f)
    BY <2>1, Zenon DEF ApiStep, CreateJob, ReplayJob, ApiEnqueue, CancelJob, CancelAck, CancelPublish,
       ApiCrash, PauseJobType, ResumeJobType, Tick, history, FaultKinds
  <2>2. ASSUME NEW i \in Instances, InstanceStep(i)
        PROVE  used' = used \/ \E f \in FaultKinds : Spend(f)
    BY <2>2, Zenon DEF InstanceStep, ReceiveCancel, InitiateDrain, Drained, Crash, Restart, history,
       FaultKinds
  <2>3. CASE SchedulerStep
    BY <2>3 DEF SchedulerStep, Promote, Reclaim, history, FaultKinds
  <2> QED  BY <2>1, <2>2, <2>3, ProcessOnceEffects, Zenon DEF Next, vars, history, Base, TypeInv
<1>3. \A k \in {"crash", "apiCrash", "drain"} : ~ Spend(k)
  <2> SUFFICES ASSUME NEW k \in {"crash", "apiCrash", "drain"}, Spend(k) PROVE FALSE
    OBVIOUS
  <2>1. used' \in [FaultKinds -> Nat] /\ used'[k] > 0
    BY <1>1 DEF Spend
  <2>2. used'["crash"] \in Nat /\ used'["apiCrash"] \in Nat /\ used'["drain"] \in Nat
    BY <1>1, <2>1, Zenon
  <2>3. used'["crash"] = 0 /\ used'["apiCrash"] = 0 /\ used'["drain"] = 0
    BY <2>2 DEF NoFault
  <2> QED  BY <2>1, <2>3
<1>4. \A f \in {"crash", "apiCrash", "drain"} : used'[f] = used[f]
  <2>1. ASSUME NEW k \in FaultKinds, Spend(k)
        PROVE  \A f \in {"crash", "apiCrash", "drain"} : used'[f] = used[f]
    BY <2>1, <1>1, <1>3, Zenon DEF Spend
  <2> QED  BY <1>2, <2>1, Zenon
<1> QED  BY <1>3, <1>4, Zenon DEF NoFault, InitiateDrain, Crash, ApiCrash

(* Cancellations reach only the jobs that were cancelled.                  *)
LEMMA CancelsOnlyStep ==
  ASSUME Base, RegistryFresh, CancelsOnly, [Next]_vars
  PROVE  CancelsOnly'
<1> USE DEF Base, TypeInv, RestTypeOK, CancelsOnly
<1>1. ASSUME NEW k \in Jobs, ApiStep(k) PROVE CancelsOnly'
  <2>1. UNCHANGED <<job, ctx>> /\ cancelled \subseteq cancelled'
    BY <1>1, ApiFrame, Zenon DEF CancelJob
  <2>2. CASE CancelJob(k)
    BY <2>1, <2>2 DEF CancelJob, poolVars
  <2>3. CASE CancelPublish(k)
    <3>1. k \in cancelled'
      BY <2>1, <2>3 DEF CancelPublish
    <3>2. \A i \in Instances : cancelMsgs'[i] \subseteq cancelled'
      BY <2>1, <2>3, <3>1, Zenon DEF CancelPublish
    <3>3. \A j \in Jobs : api'[j] = api[j] \/ api'[j] = "none"
      BY <2>3 DEF CancelPublish
    <3> QED  BY <2>1, <3>2, <3>3, Zenon
  <2>4. CASE ~ CancelJob(k) /\ ~ CancelPublish(k)
    <3>1. UNCHANGED cancelMsgs
      BY <1>1, <2>4, Zenon DEF ApiStep, CreateJob, ReplayJob, ApiEnqueue, CancelAck, ApiCrash, PauseJobType,
         ResumeJobType, poolVars
    <3>2. CASE CancelAck(k)
      BY <2>1, <3>1, <3>2, Zenon DEF CancelAck
    <3>3. CASE ~ CancelAck(k)
      <4>1. api' = api \/ api' = [api EXCEPT ![k] = "none"] \/ api' = [api EXCEPT ![k] = "enqueue"]
        BY <1>1, <2>4, <3>3, Zenon DEF ApiStep, CreateJob, ReplayJob, ApiEnqueue, ApiCrash, PauseJobType,
           ResumeJobType
      <4> QED  BY <2>1, <3>1, <4>1
    <3> QED  BY <3>2, <3>3, Zenon
  <2> QED  BY <2>2, <2>3, <2>4
<1>2. ASSUME NEW w \in Workers, ProcessOnce(w) PROVE CancelsOnly'
  <2>1. UNCHANGED <<api, cancelMsgs, cancelled>>
    BY <1>2, ProcessOnceEffects, Zenon
  <2>2. ctx'[w] = "cancelled" => ctx[w] = "cancelled" /\ job'[w] = job[w]
    <3> USE DEF WorkerTypeOK
    <3>1. CASE Return(w) \/ StartExecution(w)
      BY <3>1, Zenon DEF Return, StartExecution
    <3>2. ASSUME NEW j \in Jobs, Dequeue(w, j) PROVE ctx'[w] # "cancelled"
      <4>1. job[w] = NoJob /\ ctx' = ctx
        BY <3>2, Zenon DEF Dequeue, At, HoldsJob
      <4> QED  BY <4>1, SystemAssumption
    <3> QED  BY <1>2, <3>1, <3>2, ProcessOnceShape
  <2> QED  BY <1>2, <2>1, <2>2, ProcessOnceFrame
<1>3. ASSUME NEW i \in Instances, InstanceStep(i) PROVE CancelsOnly'
  <2>1. UNCHANGED <<api, cancelled>>
    BY <1>3, InstanceFrame, Zenon
  <2>2. ASSUME NEW k \in Jobs, ReceiveCancel(i, k) PROVE CancelsOnly'
    <3>1. /\ \A w \in Workers : active[i][k] = w => job[w] = k
          /\ k \in cancelled
      <4>1. \A w \in Workers : active[i][k] = w => job[w] = k
        BY <2>2 DEF RegistryFresh
      <4>2. k \in cancelMsgs[i]
        BY <2>2, Zenon DEF ReceiveCancel
      <4> QED  BY <4>1, <4>2, Zenon
    <3> QED  BY <2>1, <2>2, <3>1 DEF ReceiveCancel
  <2>3. CASE Crash(i)
    BY <2>1, <2>3, Zenon DEF Crash
  <2>4. CASE InitiateDrain(i) \/ Drained(i) \/ Restart(i)
    BY <2>1, <2>4, Zenon DEF InitiateDrain, Drained, Restart, workerVars
  <2> QED  BY <1>3, <2>2, <2>3, <2>4, Zenon DEF InstanceStep
<1> QED  BY <1>1, <1>2, <1>3, ClockFrame, Zenon DEF Next, vars, storeVars, workerVars, poolVars, history

(* A worker of a running pool lets go of a job only when the job is        *)
(* processed, finished, cancelled or back in a list.                       *)
LEMMA ProcessOnceKeeps ==
  ASSUME Base, CancelsOnly, NEW w \in Workers, ProcessOnce(w), PoolLive(w), NEW j \in Jobs, Kept(j)
  PROVE  Kept(j)'
<1> SUFFICES ASSUME status'[j] \in {"pending", "processing"}, j \notin processed', j \notin cancelled'
             PROVE  Waiting(j)' \/ Owned(j)'
  BY Zenon DEF Kept
<1>w. \A v \in Workers \ {w} : job'[v] = job[v] /\ pc'[v] = pc[v]
  BY ProcessOnceFrame, Zenon DEF Base, TypeInv
<1> USE DEF Base, TypeInv, WorkerTypeOK, RestTypeOK
<1>0. api' = api /\ cancelled' = cancelled /\ j \notin processed
  BY Dispatch, ProcessOnceEffects, Zenon DEF RecordProcessed, MarkProcessed, redisVars
<1>1. CASE Dequeue(w, j)
  BY <1>1, Zenon DEF Dequeue, Owned, Owns, Owning
<1>2. CASE ~ Dequeue(w, j) /\ (job[w] # j \/ pc[w] \notin Owning)
  <2>1. status'[j] = status[j]
    <3>1. CASE SetProcessing(w) \/ SaveResult(w) \/ SetPending(w) \/ SaveFailed(w)
      <4>1. job[w] # j
        BY <1>2, <3>1, Zenon DEF SetProcessing, SaveResult, SetPending, SaveFailed, At, Owning
      <4> QED  BY <3>1, <4>1 DEF SetProcessing, SaveResult, SetPending, SaveFailed, SetStatus, storeVars
    <3> QED  BY <3>1, Dispatch, ProcessOnceEffects, Zenon
  <2>2. queue'[j] = queue[j] /\ delayed'[j] = delayed[j]
    <3>1. CASE \E k \in Jobs : Dequeue(w, k)
      BY <1>2, <3>1, Zenon DEF Dequeue, BRPop, QueueTypeOK
    <3>2. CASE Requeue(w)
      BY <1>2, <3>2 DEF Requeue, Enqueue, At, Owning, QueueTypeOK
    <3> QED  BY <3>1, <3>2, Dispatch, ProcessOnceEffects, Zenon DEF LeaveLoop, RequeueFails, redisVars
  <2>3. Owned(j) => Owned(j)'
    BY <1>2, <1>w, Zenon DEF Owned, Owns
  <2> QED  BY <1>0, <2>1, <2>2, <2>3, Zenon DEF Kept, Waiting
<1>3. CASE job[w] = j /\ pc[w] \in Owning
  <2>1. ExecLive(w)
    BY <1>0, <1>3 DEF ExecLive, CancelsOnly
  <2>2. CASE pc[w] = "requeue"
    <3>1. Requeue(w) /\ queue[j] \in Seq(Retries) /\ delayed[j] \in Seq(Retries)
      BY <2>1, <2>2, Dispatch, Zenon DEF RequeueFails, QueueTypeOK
    <3>2. Append(queue[j], tries[w]) # << >> /\ Append(delayed[j], tries[w]) # << >>
      BY <3>1, AppendNonEmpty, Zenon
    <3> QED  BY <1>3, <3>1, <3>2, Zenon DEF Requeue, Enqueue, Waiting, QueueTypeOK
  <2>3. CASE pc[w] \in {"saveResult", "saveFailed"}
    <3>1. status'[j] = IF status[j] = "absent" THEN "absent"
                        ELSE IF pc[w] = "saveResult" THEN "completed" ELSE "failed"
      <4>1. CASE pc[w] = "saveResult"
        <5>1. SaveResult(w)
          BY <2>1, <4>1, Dispatch
        <5>2. SetStatus(j, "completed", w)
          BY <1>3, <2>1, <5>1 DEF SaveResult
        <5> QED  BY <4>1, <5>2, SetStatusEffect
      <4>2. CASE pc[w] = "saveFailed"
        <5>1. SaveFailed(w)
          BY <2>1, <4>2, Dispatch
        <5>2. SetStatus(j, "failed", w)
          BY <1>3, <2>1, <5>1 DEF SaveFailed
        <5> QED  BY <4>2, <5>2, SetStatusEffect
      <4> QED  BY <2>3, <4>1, <4>2
    <3> QED  BY <3>1
  <2>4. CASE pc[w] \in {"isProcessed", "getStatus"}
    <3>1. status' = status
      BY <2>4, ProcessOnceEffects, Zenon
    <3>2. pc'[w] \in Owning /\ job'[w] = j
      <4>1. CheckIsProcessed(w) \/ CheckStatus(w)
        BY <2>4, Dispatch, Zenon
      <4> QED  BY <1>0, <1>3, <3>1, <4>1, Zenon DEF CheckIsProcessed, CheckStatus, Goto, Owning, Terminal
    <3> QED  BY <3>2, Zenon DEF Owned, Owns
  <2>5. CASE pc[w] \in {"track", "isPaused", "setProcessing", "limiter"}
    <3>1. TrackInFlight(w) \/ CheckIsPaused(w) \/ SetProcessing(w) \/ StartExecution(w)
      BY <2>5, Dispatch, Zenon DEF DropOnDrain, AbandonAtLimiter
    <3>2. pc'[w] \in Owning /\ job' = job
      BY <3>1, Zenon DEF TrackInFlight, CheckIsPaused, SetProcessing, StartExecution, Goto, Owning
    <3> QED  BY <1>3, <3>2, Zenon DEF Owned, Owns
  <2>6. CASE pc[w] \in {"execute", "markProcessed", "setPending"}
    <3>1. Succeed(w) \/ Fault(w) \/ CircuitOpen(w) \/ RecordProcessed(w) \/ SetPending(w)
      BY <2>6, Dispatch, Zenon
    <3>2. pc'[w] \in Owning /\ job' = job
      BY <3>1 DEF Succeed, Fault, CircuitOpen, RecordProcessed, SetPending, Goto, Owning
    <3> QED  BY <1>3, <3>2 DEF Owned, Owns
  <2> QED  BY <1>3, <2>2, <2>3, <2>4, <2>5, <2>6 DEF Owning
<1> QED  BY <1>1, <1>2, <1>3, Zenon

(* The API keeps hold of a job until it is in a list.                      *)
LEMMA ApiStepKeeps ==
  ASSUME Base, NEW k \in Jobs, ApiStep(k), ~ ApiCrash(k), NEW j \in Jobs, Kept(j)
  PROVE  Kept(j)'
<1> USE DEF Base, TypeInv, QueueTypeOK, RestTypeOK
<1>1. /\ Owned(j)' <=> Owned(j)
      /\ processed' = processed
  BY ApiFrame, Zenon DEF Owned, Owns
<1>2. CASE CreateJob(k) \/ ReplayJob(k) \/ CancelJob(k)
  BY ZenonT(60), <1>1, <1>2 DEF CreateJob, ReplayJob, CancelJob, Kept, Waiting, redisVars, history
<1>3. CASE ApiEnqueue(k)
  <2>1. /\ Append(queue[k], 0) # << >> /\ Append(delayed[k], 0) # << >>
    <3>1. 0 \in Retries
      BY QueueAssumption DEF Retries
    <3> QED  BY <3>1, AppendNonEmpty, Zenon
  <2>2. Waiting(j) => Waiting(j)'
    BY <1>3, <2>1, Zenon DEF ApiEnqueue, Enqueue, Waiting
  <2> QED  BY <1>1, <1>3, <2>2 DEF ApiEnqueue, Kept, history
<1>4. CASE ~ (CreateJob(k) \/ ReplayJob(k) \/ CancelJob(k) \/ ApiEnqueue(k))
  <2>1. UNCHANGED <<status, cancelled, queue, delayed>> /\ (api[j] = "enqueue" => api'[j] = "enqueue")
    BY <1>4, ApiFrame, Zenon DEF ApiStep, CancelAck, CancelPublish, PauseJobType, ResumeJobType
  <2> QED  BY <1>1, <2>1, Zenon DEF Kept, Waiting
<1> QED  BY <1>2, <1>3, <1>4

(* The scheduler only adds to the lists.                                   *)
LEMMA SchedulerKeeps ==
  ASSUME Base, SchedulerStep \/ \E k \in Jobs : Tick(k), NEW j \in Jobs, Kept(j)
  PROVE  Kept(j)'
<1> USE DEF Base, TypeInv, QueueTypeOK
<1>1. /\ Owned(j)' <=> Owned(j)
      /\ UNCHANGED <<processed, status, cancelled, api>>
  BY ClockFrame, Zenon DEF Owned, Owns
<1>2. Waiting(j) => Waiting(j)'
  <2>1. CASE Promote
    <3>1. queue[j] # << >> \/ delayed[j] # << >> => queue[j] \o delayed[j] # << >>
      BY ConcatNonEmpty, Zenon
    <3> QED  BY <1>1, <2>1, <3>1 DEF Promote, PromoteScheduledJobs, Waiting
  <2>2. CASE Reclaim
    <3>1. payloads[j] # NoPayload => Append(queue[j], payloads[j]) # << >>
      BY AppendNonEmpty, Zenon
    <3> QED  BY <1>1, <2>2, <3>1 DEF Reclaim, ReclaimTimedOutJobs, Waiting
  <2>3. ASSUME NEW k \in Jobs, Tick(k) PROVE UNCHANGED <<queue, delayed>>
    BY <2>3 DEF Tick, VisibilityTimeout, RunAtReached
  <2> QED  BY <1>1, <2>1, <2>2, <2>3 DEF SchedulerStep, Waiting
<1> QED  BY <1>1, <1>2, Zenon DEF Kept

(* LossNeedsFault: premature reclaims, duplicate executions, retries,      *)
(* deferrals, pauses, cancellations and replays lose no job.               *)
THEOREM LossNeedsFaultInvariant == Spec => []LossNeedsFault
<1>1. Init => LossInv
  BY DEF Init, QueueInit, LossInv, CancelsOnly, Kept
<1>2. Base /\ RegistryFresh /\ LossInv /\ [Next]_vars => LossInv'
  <2> SUFFICES ASSUME Base, RegistryFresh, LossInv, [Next]_vars PROVE LossInv'
    OBVIOUS
  <2>1. CancelsOnly'
    BY CancelsOnlyStep, Zenon DEF LossInv
  <2> SUFFICES ASSUME NoFault'
               PROVE  (\A i \in Instances : up'[i] = "up") /\ \A j \in Jobs : Kept(j)'
    BY <2>1, Zenon DEF LossInv
  <2>2. /\ CancelsOnly /\ (\A i \in Instances : up[i] = "up") /\ \A j \in Jobs : Kept(j)
        /\ \A i \in Instances : ~ InitiateDrain(i) /\ ~ Crash(i)
        /\ \A j \in Jobs : ~ ApiCrash(j)
    BY NoFaultBefore, Zenon DEF LossInv
  <2>3. ASSUME NEW i \in Instances, InstanceStep(i)
        PROVE  up' = up /\ \A j \in Jobs : Kept(j)'
    <3>1. \E k \in Jobs : ReceiveCancel(i, k)
      BY <2>2, <2>3, Zenon DEF InstanceStep, Drained, Restart
    <3> QED  BY SMTT(40), <2>2, <3>1 DEF ReceiveCancel, Kept, Waiting, Owned, Owns, redisVars, storeVars, history
  <2>4. ASSUME NEW w \in Workers, ProcessOnce(w)
        PROVE  up' = up /\ \A j \in Jobs : Kept(j)'
    <3>1. PoolLive(w)
      BY <2>2, SystemAssumption, Zenon DEF PoolLive
    <3> QED  BY <2>2, <2>4, <3>1, ProcessOnceKeeps, ProcessOnceFrame, Zenon DEF Base, TypeInv
  <2>5. ASSUME NEW k \in Jobs, ApiStep(k)
        PROVE  up' = up /\ \A j \in Jobs : Kept(j)'
    BY <2>2, <2>5, ApiStepKeeps, ApiFrame
  <2>6. ASSUME SchedulerStep \/ \E k \in Jobs : Tick(k)
        PROVE  up' = up /\ \A j \in Jobs : Kept(j)'
    BY <2>2, <2>6, SchedulerKeeps, ClockFrame
  <2>7. CASE UNCHANGED vars
    BY <2>2, <2>7, Zenon DEF vars, redisVars, storeVars, workerVars, poolVars, history, Kept, Waiting, Owned, Owns
  <2> QED  BY <2>2, <2>3, <2>4, <2>5, <2>6, <2>7 DEF Next
<1>3. LossInv => LossNeedsFault
  BY Zenon DEF LossInv, NoFault, LossNeedsFault, NothingLost, Lost, Accounted, Kept, Waiting, Owned
<1> QED  BY <1>1, <1>2, <1>3, BaseInvariant, RegistryFreshInvariant, PTL DEF Spec
-----------------------------------------------------------------------------
(* The contract.                                                           *)

Open == {"pending", "processing"}

Loose == copied \cup cancelled

(* A worker that has succeeded and not yet recorded it.                    *)
Recording(w) == pc[w] \in {"markProcessed", "saveResult"}

Tight(j) ==
  /\ Waiting(j) => j \notin succeeded /\ status[j] \in Open
  /\ \A w \in Workers : Owns(w, j) => /\ status[j] \in Open
                                      /\ ~ Recording(w) => j \notin succeeded

TightInv == \A j \in Jobs : j \notin Loose => Tight(j)

(* Tight depends on the state of the job only, and losing an owner or      *)
(* leaving the queue does not hurt.                                        *)
LEMMA TightShrinks ==
  ASSUME NEW j \in Jobs, Tight(j), Waiting(j)' => Waiting(j),
         status'[j] = status[j], j \in succeeded' => j \in succeeded,
         \A w \in Workers : Owns(w, j)' => Owns(w, j) /\ (Recording(w) => Recording(w)')
  PROVE  Tight(j)'
BY Zenon DEF Tight

(* A step of the API keeps TightInv.                                       *)
LEMMA ApiStepTight ==
  ASSUME Base, CopyInv, TightInv, NEW k \in Jobs, ApiStep(k), NEW j \in Jobs, j \notin Loose'
  PROVE  Tight(j)'
<1> USE DEF Base, TypeInv, QueueTypeOK, RestTypeOK
<1>1. /\ succeeded' = succeeded
      /\ \A w \in Workers : (Owns(w, j)' <=> Owns(w, j)) /\ (Recording(w)' <=> Recording(w))
  BY ApiFrame, Zenon DEF Owns, Recording
<1>2. j \notin Loose
  BY ApiFrame, Zenon DEF ReplayJob, CancelJob, Loose
<1>3. Tight(j) /\ Fresh(j)
  BY <1>2 DEF TightInv, CopyInv
<1>4. CASE CreateJob(k) /\ j = k
  <2>1. j \notin succeeded /\ status'[j] = "pending" /\ \A w \in Workers : ~ Owns(w, j)
    BY <1>3, <1>4, Zenon DEF CreateJob, Fresh, Owns
  <2> QED  BY <1>1, <2>1, Zenon DEF Tight, Open
<1>5. CASE ~ (CreateJob(k) /\ j = k)
  <2>1. ~ (j = k /\ (ReplayJob(k) \/ CancelJob(k)))
    BY DEF ReplayJob, CancelJob, Loose
  <2>2. status'[j] = status[j]
    <3>1. CASE j = k
      BY <1>5, <2>1, <3>1, ApiFrame
    <3>2. CASE j # k /\ (CreateJob(k) \/ ReplayJob(k) \/ CancelJob(k))
      BY <3>2 DEF CreateJob, ReplayJob, CancelJob
    <3> QED  BY <3>1, <3>2, ApiFrame
  <2>3. Waiting(j)' => Waiting(j)
    <3>1. CASE ApiEnqueue(k)
      BY <3>1 DEF ApiEnqueue, Enqueue, Waiting
    <3>2. api'[j] = "enqueue" => api[j] = "enqueue"
      BY <1>5, <2>1, Zenon DEF ApiStep, CreateJob, ReplayJob, ApiEnqueue, CancelJob, CancelAck,
         CancelPublish, ApiCrash, PauseJobType, ResumeJobType
    <3> QED  BY <3>1, <3>2, ApiFrame DEF Waiting
  <2> QED  BY <1>1, <1>3, <2>2, <2>3, TightShrinks
<1> QED  BY <1>4, <1>5, Zenon

(* A worker's step keeps TightInv.                                         *)
LEMMA ProcessOnceTight ==
  ASSUME Base, CopyInv, TightInv, NEW w \in Workers, ProcessOnce(w), NEW j \in Jobs, j \notin Loose'
  PROVE  Tight(j)'
<1> USE DEF Base, TypeInv, RestTypeOK, WorkerTypeOK
<1>1. Loose' = Loose /\ api' = api
  BY ProcessOnceEffects, Zenon DEF Loose
<1>2. Tight(j) /\ OneCopy(j)
  BY <1>1 DEF TightInv, CopyInv, Loose
<1>3. CASE Dequeue(w, j)
  <2>1. Waiting(j) /\ UNCHANGED <<status, succeeded>> /\ pc'[w] = "track"
    BY <1>3, Zenon DEF Dequeue, BRPop, Waiting, storeVars, history
  <2>2. j \notin succeeded /\ status[j] \in Open
    BY <1>2, <2>1, Zenon DEF Tight
  <2> QED  BY <2>1, <2>2, Zenon DEF Tight
<1>4. CASE ~ Dequeue(w, j) /\ ~ Owns(w, j)
  <2>1. \A v \in Workers : Owns(v, j)' => Owns(v, j) /\ v # w
    BY <1>4, OwnsOnlyByDequeue, Zenon
  <2>2. \A v \in Workers : v # w => (Recording(v)' <=> Recording(v))
    <3>1. \A v \in Workers \ {w} : pc'[v] = pc[v]
      BY ProcessOnceFrame, Zenon
    <3> QED  BY <3>1, Zenon DEF Recording
  <2>3. Waiting(j)' => Waiting(j)
    <3>1. CASE \E k \in Jobs : Dequeue(w, k)
      BY <1>1, <1>4, <3>1 DEF Dequeue, BRPop, Waiting, QueueTypeOK
    <3>2. CASE Requeue(w)
      BY <1>1, <1>4, <3>2 DEF Requeue, Enqueue, Waiting, Owns, At, Owning, QueueTypeOK
    <3> QED  BY <1>1, <3>1, <3>2, Dispatch, ProcessOnceEffects, Zenon
            DEF LeaveLoop, RequeueFails, redisVars, Waiting
  <2>4. status'[j] = status[j]
    <3>1. CASE SetProcessing(w) \/ SaveResult(w) \/ SetPending(w) \/ SaveFailed(w)
      <4>1. job[w] # j
        BY <1>4, <3>1, Zenon DEF SetProcessing, SaveResult, SetPending, SaveFailed, At, Owns, Owning
      <4> QED  BY <3>1, <4>1 DEF SetProcessing, SaveResult, SetPending, SaveFailed, SetStatus, storeVars
    <3> QED  BY <3>1, Dispatch, ProcessOnceEffects, Zenon
  <2>5. j \in succeeded' => j \in succeeded
    <3>1. CASE Succeed(w) \/ Fault(w) \/ CircuitOpen(w)
      BY <1>4, <3>1, Zenon DEF Succeed, Fault, CircuitOpen, history, At, Owns, Owning
    <3> QED  BY <3>1, Dispatch, ProcessOnceEffects, Zenon
  <2> QED  BY <1>2, <2>1, <2>2, <2>3, <2>4, <2>5, TightShrinks
<1>5. CASE ~ Dequeue(w, j) /\ Owns(w, j)
  <2>1. /\ job[w] = j /\ pc[w] \in Owning /\ ~ Waiting(j) /\ status[j] \in Open
        /\ ~ Recording(w) => j \notin succeeded
        /\ \A v \in Workers : Owns(v, j)' => v = w
    BY <1>2, <1>5, OwnsOnlyByDequeue, Zenon DEF Tight, OneCopy, Owned, Owns
  <2>2. CASE pc[w] = "requeue"
    <3>1. status' = status /\ succeeded' = succeeded /\ ~ Owns(w, j)'
      <4>1. pc'[w] \notin Owning
        <5>1. Requeue(w) \/ RequeueFails(w)
          BY <2>2, Dispatch, Zenon
        <5> QED  BY <5>1, Zenon DEF Requeue, RequeueFails, Goto, Return, Owning
      <4> QED  BY <2>2, <4>1, ProcessOnceEffects, Zenon DEF Owns
    <3> QED  BY <2>1, <2>2, <3>1 DEF Tight, Recording
  <2>3. CASE pc[w] # "requeue"
    <3>1. ~ Waiting(j)'
      BY <1>1, <2>1, <2>3, ProcessOnceEffects, Zenon DEF Waiting, Owning
    <3>2. CASE pc[w] = "execute"
      <4>1. status' = status
        BY <3>2, ProcessOnceEffects, Zenon
      <4>2. CASE Succeed(w)
        BY <2>1, <3>1, <4>1, <4>2 DEF Succeed, Goto, Tight, Recording
      <4>3. CASE Fault(w) \/ CircuitOpen(w)
        <5>1. succeeded' = succeeded /\ j \notin succeeded
          BY <2>1, <3>2, <4>3 DEF Fault, CircuitOpen, history, Recording
        <5> QED  BY <2>1, <3>1, <4>1, <5>1, Zenon DEF Tight
      <4> QED  BY <3>2, <4>2, <4>3, Dispatch, Zenon
    <3>3. CASE pc[w] \in {"setProcessing", "setPending"}
      <4>1. succeeded' = succeeded /\ j \notin succeeded
        BY <2>1, <3>3, ProcessOnceEffects, Zenon DEF Recording
      <4>2. status'[j] \in Open
        BY ZenonT(60), <2>1, <3>3, Dispatch DEF SetProcessing, SetPending, SetStatus, storeVars, Open
      <4> QED  BY <2>1, <3>1, <4>1, <4>2, Zenon DEF Tight
    <3>4. CASE pc[w] \in {"saveResult", "saveFailed"}
      <4>1. SaveResult(w) \/ SaveFailed(w)
        BY <3>4, Dispatch, Zenon
      <4>2. ~ Owns(w, j)'
        BY <4>1 DEF SaveResult, SaveFailed, Goto, Owns, Owning
      <4> QED  BY <2>1, <3>1, <4>2, Zenon DEF Tight
    <3>5. CASE pc[w] = "markProcessed"
      <4>1. RecordProcessed(w)
        BY <3>5, Dispatch
      <4>2. Recording(w)' /\ status' = status
        BY <4>1, Zenon DEF RecordProcessed, Goto, Recording, storeVars
      <4> QED  BY <2>1, <3>1, <4>2, Zenon DEF Tight
    <3>6. CASE pc[w] \in {"track", "isProcessed", "isPaused", "getStatus", "limiter"}
      <4>1. UNCHANGED <<status, succeeded>> /\ j \notin succeeded
        BY <2>1, <3>6, ProcessOnceEffects, Zenon DEF Recording
      <4> QED  BY <2>1, <3>1, <4>1 DEF Tight
    <3> QED  BY <2>1, <2>3, <3>2, <3>3, <3>4, <3>5, <3>6, Zenon DEF Owning
  <2> QED  BY <2>2, <2>3
<1> QED  BY <1>3, <1>4, <1>5, Zenon

(* A job nothing has loosened is open while a copy of it waits or is held. *)
LEMMA TightInductive == Spec => []TightInv
<1>1. Init => TightInv
  <2> SUFFICES ASSUME Init, NEW j \in Jobs PROVE Tight(j)
    BY DEF TightInv
  <2> QED  BY SystemAssumption, Zenon DEF Init, QueueInit, Tight, Waiting, Owns
<1>2. Base /\ CopyInv /\ TightInv /\ [Next]_vars => TightInv'
  <2> SUFFICES ASSUME Base, CopyInv, TightInv, [Next]_vars, NEW j \in Jobs, j \notin Loose'
               PROVE  Tight(j)'
    BY DEF TightInv
  <2>1. ASSUME NEW i \in Instances, InstanceStep(i) PROVE Tight(j)'
    <3>1. UNCHANGED <<queue, delayed, status, api, succeeded, copied, cancelled>>
      BY <2>1, InstanceFrame, Zenon
    <3>2. \A w \in Workers : Owns(w, j)' => Owns(w, j) /\ (Recording(w) => Recording(w)')
      BY <2>1, InstanceFrame, SystemAssumption DEF Owns, Owning, Recording
    <3>3. Tight(j)
      BY <3>1, Zenon DEF TightInv, Loose
    <3> QED  BY <3>1, <3>2, <3>3, TightShrinks DEF Waiting
  <2>2. ASSUME SchedulerStep \/ \E k \in Jobs : Tick(k) PROVE Tight(j)'
    <3>1. /\ UNCHANGED <<status, api, succeeded, cancelled>>
          /\ \A w \in Workers : Owns(w, j)' => Owns(w, j) /\ (Recording(w) => Recording(w)')
      BY <2>2, ClockFrame, Zenon DEF Owns, Recording
    <3>2. j \notin Loose /\ (Waiting(j)' => Waiting(j))
      <4> USE DEF Base, TypeInv, QueueTypeOK
      <4>1. CASE Promote
        <5>1. ~ Due(j) => queue'[j] = queue[j] /\ delayed'[j] = delayed[j]
          BY <4>1 DEF Promote, PromoteScheduledJobs
        <5> QED  BY <3>1, <4>1, <5>1, Zenon DEF Promote, Due, Waiting, Loose, history
      <4>2. CASE Reclaim
        <5>1. j \notin TimedOut /\ j \notin copied
          BY <4>2 DEF Reclaim, Loose
        <5> QED  BY <3>1, <4>2, <5>1 DEF Reclaim, ReclaimTimedOutJobs, Waiting, Loose
      <4>3. ASSUME NEW k \in Jobs, Tick(k) PROVE UNCHANGED <<queue, delayed, copied>>
        BY <4>3, Zenon DEF Tick, VisibilityTimeout, RunAtReached, history
      <4> QED  BY <2>2, <3>1, <4>1, <4>2, <4>3 DEF SchedulerStep, Waiting, Loose
    <3>3. Tight(j)
      BY <3>2 DEF TightInv
    <3> QED  BY <3>1, <3>2, <3>3, TightShrinks
  <2>3. CASE UNCHANGED vars
    BY <2>3, Zenon DEF vars, redisVars, storeVars, workerVars, history, TightInv, Tight, Loose, Waiting, Owns,
       Recording
  <2> QED  BY <2>1, <2>2, <2>3, ApiStepTight, ProcessOnceTight DEF Next
<1> QED  BY <1>1, <1>2, BaseInvariant, CopyInductive, PTL DEF Spec

-----------------------------------------------------------------------------
(* Every step of the system is a step of the contract or leaves its state  *)
(* alone.                                                                  *)

(* How a write of the store shows in the contract.                         *)
LEMMA PhaseWrite ==
  ASSUME status \in [Jobs -> Statuses], NEW j \in Jobs, NEW s \in Statuses \ {"absent"},
         status[j] # "absent", status' = [status EXCEPT ![j] = s]
  PROVE  Phase' = [Phase EXCEPT ![j] = IF s \in Open THEN "open" ELSE s]
BY Zenon DEF Phase, Open, Statuses, Terminal

(* A job is new in the contract exactly when it is not stored.             *)
LEMMA PhaseOf ==
  ASSUME status \in [Jobs -> Statuses], NEW j \in Jobs
  PROVE  /\ Phase[j] = "new" <=> status[j] = "absent"
         /\ Phase[j] = "open" <=> status[j] \in Open
BY Zenon DEF Phase, Open, Statuses, Terminal

(* The contract sees the store's statuses only.                            *)
LEMMA PhaseUnchanged ==
  ASSUME status' = status PROVE Phase' = Phase
BY DEF Phase

(* The API submits jobs and loosens them.                                  *)
LEMMA ApiStepRefines ==
  ASSUME Base, NEW k \in Jobs, ApiStep(k)
  PROVE  [Contract!ContractNext]_Contract!contractVars
<1> USE DEF Base, TypeInv, RestTypeOK
<1>0. succeeded' = succeeded /\ failures' = failures
  BY ApiFrame
<1>1. CASE CreateJob(k)
  <2>1. Phase[k] = "new" /\ Phase' = [Phase EXCEPT ![k] = "open"]
    BY <1>1, Zenon DEF CreateJob, Phase, Statuses, Terminal
  <2>2. Contract!Submit(k)
    BY <1>0, <1>1, <2>1 DEF Contract!Submit, CreateJob, history
  <2> QED  BY <2>2, Zenon DEF Contract!ContractNext
<1>2. CASE ReplayJob(k)
  <2>1. Phase[k] # "new" /\ Phase' = [Phase EXCEPT ![k] = "open"]
    BY <1>2, PhaseOf, PhaseWrite, Zenon DEF ReplayJob, Open, Statuses
  <2>2. Contract!Loosen({k})
    BY <1>0, <1>2, <2>1 DEF Contract!Loosen, ReplayJob
  <2> QED  BY <2>2 DEF Contract!ContractNext
<1>3. CASE CancelJob(k)
  <2>1. Phase[k] # "new" /\ Phase' = [Phase EXCEPT ![k] = "cancelled"]
    <3>1. "cancelled" \in Statuses \ {"absent"} /\ "cancelled" \notin Open
      BY Zenon DEF Statuses, Terminal, Open
    <3>2. status[k] # "absent" /\ status' = [status EXCEPT ![k] = "cancelled"]
      BY <1>3 DEF CancelJob
    <3> QED  BY <3>1, <3>2, PhaseOf, PhaseWrite, Zenon
  <2>2. Contract!Loosen({k})
    BY <1>0, <1>3, <2>1, Zenon DEF Contract!Loosen, CancelJob
  <2> QED  BY <2>2, Zenon DEF Contract!ContractNext
<1>4. CASE ~ CreateJob(k) /\ ~ ReplayJob(k) /\ ~ CancelJob(k)
  BY <1>0, <1>4, ApiFrame, PhaseUnchanged DEF Contract!contractVars
<1> QED  BY <1>1, <1>2, <1>3, <1>4

(* A job in the hands of a worker is stored, and open unless loose.        *)
LEMMA HeldIsOpen ==
  ASSUME CopyInv, TightInv, NEW w \in Workers, NEW j \in Jobs, Owns(w, j)
  PROVE  /\ status[j] # "absent"
         /\ \/ j \in copied \cup cancelled
            \/ status[j] \in Open /\ (~ Recording(w) => j \notin succeeded)
<1>1. job[w] = j
  BY Zenon DEF Owns
<1>2. status[j] # "absent"
  BY <1>1, Zenon DEF CopyInv, Fresh
<1>3. j \notin copied \cup cancelled => status[j] \in Open /\ (~ Recording(w) => j \notin succeeded)
  BY DEF TightInv, Tight, Loose
<1> QED  BY <1>2, <1>3, Zenon

(* A worker attempts jobs, concludes them and revises loose ones.          *)
LEMMA ProcessOnceRefines ==
  ASSUME Base, CopyInv, TightInv, EarnedSuccessInv, EarnedFailureInv, NEW w \in Workers, ProcessOnce(w)
  PROVE  [Contract!ContractNext]_Contract!contractVars
<1> USE DEF Base, TypeInv, RestTypeOK
<1>0. UNCHANGED <<copied, cancelled>>
  BY ProcessOnceEffects, Zenon
<1>j. pc[w] \in Owning => job[w] \in Jobs /\ Owns(w, job[w])
  BY DEF WorkerTypeOK, HoldsJob, Owning, Owns
<1>1. CASE pc[w] = "execute"
  <2>1. job[w] \in Jobs /\ Owns(w, job[w]) /\ ~ Recording(w)
    BY <1>1, <1>j, Zenon DEF Owning, Recording
  <2>2. /\ Phase[job[w]] # "new" /\ Phase' = Phase
        /\ job[w] \in copied \cup cancelled \/ (Phase[job[w]] = "open" /\ job[w] \notin succeeded)
    BY <1>1, <2>1, HeldIsOpen, PhaseOf, PhaseUnchanged, ProcessOnceEffects, Zenon
  <2>3. \/ succeeded' = succeeded \cup {job[w]} /\ failures' = failures
        \/ /\ succeeded' = succeeded
           /\ failures' = [failures EXCEPT ![job[w]] = IF @ < Exhausted THEN @ + 1 ELSE @]
        \/ succeeded' = succeeded /\ failures' = failures
    BY <1>1, Dispatch, Zenon DEF Succeed, Fault, CircuitOpen, history
  <2>4. Contract!Attempt(job[w]) \/ UNCHANGED <<succeeded, failures>>
    BY <1>0, <2>2, <2>3, Zenon DEF Contract!Attempt
  <2> QED  BY <1>0, <2>1, <2>2, <2>4, Zenon DEF Contract!ContractNext, Contract!contractVars
<1>2. CASE pc[w] \in {"setProcessing", "saveResult", "setPending", "saveFailed"}
  <2>1. /\ job[w] \in Jobs /\ Owns(w, job[w]) /\ status[job[w]] # "absent"
        /\ UNCHANGED <<succeeded, failures>>
        /\ Phase[job[w]] # "new"
        /\ job[w] \in copied \cup cancelled \/ Phase[job[w]] = "open"
    BY <1>2, <1>j, HeldIsOpen, PhaseOf, ProcessOnceEffects, Zenon DEF Owning
  <2>2. CASE pc[w] \in {"setProcessing", "setPending"} /\ status' # status
    <3>1. \E s \in Open : status' = [status EXCEPT ![job[w]] = s]
      BY <2>1, <2>2, Dispatch, Zenon DEF SetProcessing, SetPending, SetStatus, storeVars, Open
    <3>2. Phase' = [Phase EXCEPT ![job[w]] = "open"]
      BY <2>1, <3>1, PhaseWrite, Zenon DEF Open, Statuses
    <3>3. CASE job[w] \in copied \cup cancelled
      <4>1. Contract!Revise(job[w])
        BY <1>0, <2>1, <3>2, <3>3, Zenon DEF Contract!Revise
      <4> QED  BY <2>1, <4>1, Zenon DEF Contract!ContractNext
    <3>4. CASE Phase[job[w]] = "open"
      BY <1>0, <2>1, <3>2, <3>4 DEF Contract!contractVars, Phase
    <3> QED  BY <2>1, <3>3, <3>4
  <2>3. ASSUME NEW e \in {"completed", "failed"}, status' = [status EXCEPT ![job[w]] = e],
               e \in Contract!Earned(job[w])
        PROVE  Contract!ContractNext
    <3>1. Phase' = [Phase EXCEPT ![job[w]] = e]
      BY <2>1, <2>3, PhaseWrite, Zenon DEF Open, Statuses, Terminal
    <3>2. Contract!Revise(job[w]) \/ Contract!Conclude(job[w])
      BY <1>0, <2>1, <2>3, <3>1, Zenon DEF Contract!Revise, Contract!Conclude
    <3> QED  BY <2>1, <3>2, Zenon DEF Contract!ContractNext
  <2>4. CASE pc[w] = "saveResult" /\ status' # status
    <3>1. status' = [status EXCEPT ![job[w]] = "completed"]
      BY <2>1, <2>4, Dispatch, Zenon DEF SaveResult, SetStatus, storeVars
    <3>2. "completed" \in Contract!Earned(job[w])
      BY <2>4 DEF EarnedSuccessInv, Contract!Earned
    <3> QED  BY <2>3, <3>1, <3>2
  <2>5. CASE pc[w] = "saveFailed" /\ status' # status
    <3>1. status' = [status EXCEPT ![job[w]] = "failed"]
      BY <2>1, <2>5, Dispatch, Zenon DEF SaveFailed, SetStatus, storeVars
    <3>2. "failed" \in Contract!Earned(job[w])
      BY <2>1, <2>5, SystemAssumption, Zenon DEF EarnedFailureInv, WorkerCarries, Contract!Earned
    <3> QED  BY <2>3, <3>1, <3>2
  <2>6. CASE status' = status
    BY <1>0, <2>1, <2>6, PhaseUnchanged, Zenon DEF Contract!contractVars
  <2> QED  BY <1>2, <2>2, <2>4, <2>5, <2>6
<1>3. CASE pc[w] \notin {"execute", "setProcessing", "saveResult", "setPending", "saveFailed"}
  BY <1>0, <1>3, ProcessOnceEffects, PhaseUnchanged, Zenon DEF Contract!contractVars
<1> QED  BY <1>1, <1>2, <1>3

(* The system implements the contract.                                     *)
THEOREM Refinement == Spec => ImplementsContract
<1>1. Init => Contract!ContractInit
  BY DEF Init, Contract!ContractInit, Phase
<1>2. Base /\ CopyInv /\ TightInv /\ EarnedSuccessInv /\ EarnedFailureInv /\ [Next]_vars
        => [Contract!ContractNext]_Contract!contractVars
  <2> SUFFICES ASSUME Base, CopyInv, TightInv, EarnedSuccessInv, EarnedFailureInv, [Next]_vars
               PROVE  [Contract!ContractNext]_Contract!contractVars
    OBVIOUS
  <2>1. ASSUME NEW i \in Instances, InstanceStep(i)
        PROVE  UNCHANGED Contract!contractVars
    BY <2>1, InstanceFrame, PhaseUnchanged DEF Contract!contractVars
  <2>2. CASE Reclaim
    <3>1. Phase' = Phase /\ succeeded' = succeeded /\ failures' = failures /\ cancelled' = cancelled
      BY <2>2, ClockFrame, PhaseUnchanged DEF SchedulerStep
    <3>2. \A j \in TimedOut : j \in Jobs /\ Phase[j] # "new"
      BY PhaseOf, Zenon DEF TimedOut, CopyInv, Fresh, Base, TypeInv, RestTypeOK
    <3>3. Contract!Loosen(TimedOut)
      BY <2>2, <3>1, <3>2, Zenon DEF Contract!Loosen, Reclaim
    <3> QED  BY <3>2, <3>3 DEF Contract!ContractNext
  <2>3. ASSUME Promote \/ \E k \in Jobs : Tick(k)
        PROVE  UNCHANGED Contract!contractVars
    <3>1. copied' = copied
      BY <2>3, Zenon DEF Promote, Tick, history
    <3> QED  BY <2>3, <3>1, ClockFrame, PhaseUnchanged DEF SchedulerStep, Contract!contractVars
  <2>4. CASE UNCHANGED vars
    BY <2>4, PhaseUnchanged, Zenon DEF vars, storeVars, history, Contract!contractVars
  <2> QED  BY <2>1, <2>2, <2>3, <2>4, ApiStepRefines, ProcessOnceRefines DEF Next, SchedulerStep
<1> QED  BY <1>1, <1>2, BaseInvariant, CopyInductive, TightInductive, EarnedSuccessInductive,
            EarnedFailureInductive, PTL DEF Spec, ImplementsContract, Contract!ContractSpec
=============================================================================
