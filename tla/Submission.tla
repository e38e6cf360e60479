------------------------------ MODULE Submission ------------------------------
(***************************************************************************)
(* How jobs enter the system: CreateJob and CreateJobBatch                 *)
(* (internal/service/job_service.go) on the Redis store                    *)
(* (internal/storage/models/models.go) and the Redis queue's rate limit    *)
(* (internal/queue/redis/redis.go), with the dependency check of Dequeue.  *)
(*                                                                         *)
(* A request is one HTTP call of one tenant; requests run concurrently and *)
(* every call of Redis is a step.  A worker's execution is one step here:  *)
(* TaskQueue has its detail.  The exception is a map_reduce job            *)
(* (internal/worker/plugins/standard/map_reduce.go), whose execution       *)
(* submits other jobs one after the other.                                 *)
(***************************************************************************)
EXTENDS Integers, FiniteSets, Sequences

CONSTANTS Requests,             \* the job a request creates has its name
          Key, NoKey,           \* dedup_key of a request
          Deps,                 \* dependencies of a request
          Batched,              \* requests submitted together by CreateJobBatch
          Parent,               \* the map_reduce job, if it is a request
          Fan,                  \* what it submits: its map jobs, then the reduce job
          Scenarios,            \* which requests come from clients
          RateLimit,            \* jobs per tenant and second
          MaxQueueSize,         \* backpressure, 0 = none
          MaxErrors, MaxCrashes, MaxEdits   \* bounds

Spawned == {Fan[i] : i \in DOMAIN Fan}
MapJobs == {Fan[i] : i \in 1 .. Len(Fan) - 1}

Keys == {Key[r] : r \in Requests} \ {NoKey}

ASSUME SubmissionAssumption ==
  /\ Batched \subseteq Requests
  /\ \A r \in Requests : Deps[r] \subseteq Requests \ {r}
  /\ Fan \in Seq(Requests \ (Batched \cup {Parent}))
  /\ \A i, j \in DOMAIN Fan : Fan[i] = Fan[j] => i = j     \* each has an id of its own
  /\ \A i \in DOMAIN Fan : /\ Key[Fan[i]] = NoKey
                           /\ Deps[Fan[i]] = IF i = Len(Fan) THEN MapJobs ELSE {}
  /\ Parent \in Requests => Fan # << >> /\ Deps[Parent] = {}
  /\ Scenarios \subseteq SUBSET (Requests \ Spawned)
  /\ RateLimit \in Nat \ {0}
  /\ {MaxQueueSize, MaxErrors, MaxCrashes, MaxEdits} \subseteq Nat

VARIABLES pc,        \* next step of a request
          fan,       \* the job of Fan the map_reduce job waits for, 0 when it is not executed
          ready,     \* allMet of a request
          dedup,     \* dedup keys in Redis
          rate,      \* the tenant's counter, 0 = no key
          expires,   \* the counter has a time to live
          store,     \* status in the hash of the store
          batchKeys, \* jobs saved under a key of their own by SaveBatch
          queue,     \* number of copies of a job in the queue
          completed, \* jobs marked processed after an execution with success
          errors, crashes, edits

(* History.                                                                *)
VARIABLES admitted,  \* requests the limiter admitted in this window
          executed,  \* jobs that were executed
          early,     \* jobs that were executed before a dependency completed
          dropped,   \* jobs Dequeue took out of the queue for their dependencies
          replayed, deleted, cancelled   \* jobs that were

redisVars == <<dedup, rate, expires, store, batchKeys, queue>>
envVars   == <<errors, crashes, edits>>
histVars  == <<admitted, executed, completed, early, dropped, replayed, deleted, cancelled>>
vars == <<pc, fan, ready, redisVars, envVars, histVars>>

Statuses == {"none", "pending", "completed", "failed", "cancelled"}
Answered == {"created", "conflict", "badDeps", "limited", "full", "error"}

(* A request is at one of the calls of CreateJob or answered; the counter  *)
(* and the number of queued copies are natural numbers.                    *)
TypeOK ==
  /\ fan \in 0 .. Len(Fan)
  /\ pc \in [Requests -> {"absent", "new", "deps", "rate", "expire", "save", "enqueue", "died"} \cup Answered]
  /\ ready \in [Requests -> BOOLEAN]
  /\ dedup \subseteq Keys
  /\ rate \in Nat /\ expires \in BOOLEAN
  /\ store \in [Requests -> Statuses]
  /\ batchKeys \subseteq Batched
  /\ queue \in [Requests -> Nat]
  /\ errors \in 0 .. MaxErrors /\ crashes \in 0 .. MaxCrashes /\ edits \in 0 .. MaxEdits
  /\ \A S \in {admitted, executed, completed, early, dropped, replayed, deleted, cancelled} : S \subseteq Requests

Init ==
  /\ \E S \in Scenarios : pc = [r \in Requests |-> IF r \in S THEN "new" ELSE "absent"]
  /\ fan = 0
  /\ ready = [r \in Requests |-> TRUE]
  /\ dedup = {} /\ rate = 0 /\ expires = FALSE
  /\ store = [r \in Requests |-> "none"]
  /\ batchKeys = {} /\ queue = [r \in Requests |-> 0]
  /\ errors = 0 /\ crashes = 0 /\ edits = 0
  /\ admitted = {} /\ executed = {} /\ completed = {} /\ early = {}
  /\ dropped = {} /\ replayed = {} /\ deleted = {} /\ cancelled = {}

Goto(r, l) == pc' = [pc EXCEPT ![r] = l]
At(r, l)   == pc[r] = l
Error      == errors < MaxErrors /\ errors' = errors + 1
NoError    == UNCHANGED errors

-----------------------------------------------------------------------------
(* CreateJob.                                                              *)

(* IsDedupKeyTaken returns what SETNX returns: true when the key was free, *)
(* which it now is not.                                                    *)
TakenOn(k) == k \notin dedup

Dedup(r) ==
  /\ At(r, "new") /\ r \notin Batched
  /\ \/ /\ Key[r] = NoKey
        /\ Goto(r, "deps") /\ NoError /\ UNCHANGED dedup
     \/ /\ Key[r] # NoKey
        /\ dedup' = dedup \cup {Key[r]}
        /\ Goto(r, IF TakenOn(Key[r]) THEN "conflict" ELSE "deps") /\ NoError
     \/ /\ Key[r] # NoKey /\ Error             \* allowed as fallback
        /\ Goto(r, "deps") /\ UNCHANGED dedup
  /\ UNCHANGED <<ready, rate, expires, store, batchKeys, queue, crashes, edits, histVars>>

(* Bug: a dependency that is not found is ignored.                         *)
CheckDepsTrusts(r) ==
  /\ At(r, "deps")
  /\ ready' = [ready EXCEPT ![r] = \A d \in Deps[r] : store[d] \in {"none", "completed"}]
  /\ Goto(r, "rate") /\ NoError
  /\ UNCHANGED <<redisVars, crashes, edits, histVars>>

CheckDeps(r) ==
  /\ At(r, "deps")
  /\ IF \E d \in Deps[r] : store[d] = "none"
       THEN Goto(r, "badDeps") /\ UNCHANGED ready
       ELSE /\ ready' = [ready EXCEPT ![r] = \A d \in Deps[r] : store[d] = "completed"]
            /\ Goto(r, "rate")
  /\ NoError
  /\ UNCHANGED <<redisVars, crashes, edits, histVars>>

CheckDepsFails(r) ==
  /\ At(r, "deps") /\ Deps[r] # {} /\ Error
  /\ Goto(r, "badDeps")
  /\ UNCHANGED <<ready, redisVars, crashes, edits, histVars>>

(* Where a request goes that the limiter has answered.                     *)
Verdict(r, val) == IF val <= RateLimit THEN "save" ELSE "limited"

(* IsAllowed.  INCR creates the counter without a time to live; EXPIRE is  *)
(* a call of its own, made by the request that counted 1.                  *)
Incr(r) ==
  /\ At(r, "rate")
  /\ rate' = rate + 1
  /\ Goto(r, IF rate = 0 THEN "expire" ELSE Verdict(r, rate + 1))
  /\ admitted' = IF rate > 0 /\ Verdict(r, rate + 1) = "save" THEN admitted \cup {r} ELSE admitted
  /\ UNCHANGED <<ready, dedup, expires, store, batchKeys, queue, envVars, executed, completed, early, dropped,
                 replayed, deleted, cancelled>>

IncrFails(r) ==                                 \* allowed as fallback
  /\ At(r, "rate") /\ Error
  /\ Goto(r, "save")
  /\ UNCHANGED <<ready, redisVars, crashes, edits, histVars>>

(* Bug: EXPIRE is forgotten.                                               *)
ExpireForgotten(r) ==
  /\ At(r, "expire")
  /\ Goto(r, Verdict(r, 1)) /\ NoError
  /\ admitted' = admitted \cup {r}
  /\ UNCHANGED <<ready, redisVars, crashes, edits,
                 executed, completed, early, dropped, replayed, deleted, cancelled>>

(* Its error is not looked at.                                             *)
Expire(r) ==
  /\ At(r, "expire")
  /\ \/ expires' = TRUE /\ NoError
     \/ UNCHANGED expires /\ Error
  /\ Goto(r, Verdict(r, 1))
  /\ admitted' = admitted \cup {r}
  /\ UNCHANGED <<ready, dedup, rate, store, batchKeys, queue, crashes, edits,
                 executed, completed, early, dropped, replayed, deleted, cancelled>>

WindowEnds ==
  /\ rate > 0 /\ expires
  /\ rate' = 0 /\ expires' = FALSE /\ admitted' = {}
  /\ UNCHANGED <<pc, ready, dedup, store, batchKeys, queue, envVars,
                 executed, completed, early, dropped, replayed, deleted, cancelled>>

(* Size adds up the lists that are not partitioned; Enqueue pushes to the  *)
(* partitioned ones only.                                                  *)
Size == 0
Full == MaxQueueSize > 0 /\ Size >= MaxQueueSize

Save(r) ==
  /\ At(r, "save")
  /\ IF Full THEN Goto(r, "full") /\ NoError /\ UNCHANGED store
     ELSE \/ /\ store' = [store EXCEPT ![r] = "pending"]
             /\ Goto(r, "enqueue") /\ NoError
          \/ Goto(r, "error") /\ Error /\ UNCHANGED store
  /\ UNCHANGED <<ready, dedup, rate, expires, batchKeys, queue, crashes, edits, histVars>>

(* A job with open dependencies is only stored.                            *)
Enqueue(r) ==
  /\ At(r, "enqueue")
  /\ queue' = IF ready[r] THEN [queue EXCEPT ![r] = @ + 1] ELSE queue
  /\ Goto(r, "created") /\ NoError
  /\ UNCHANGED <<ready, dedup, rate, expires, store, batchKeys, crashes, edits, histVars>>

(* The stored job stays; a batch goes on with its other members.           *)
EnqueueFails(r) ==
  /\ At(r, "enqueue") /\ ready[r] /\ Error
  /\ Goto(r, IF r \in Batched THEN "created" ELSE "error")
  /\ UNCHANGED <<ready, redisVars, crashes, edits, histVars>>

-----------------------------------------------------------------------------
(* CreateJobBatch: no check of keys, dependencies, rate or size.           *)
SaveBatch ==
  /\ Batched # {} /\ \A r \in Batched : At(r, "new")
  /\ \/ /\ batchKeys' = Batched /\ NoError
        /\ ready' = [r \in Requests |-> IF r \in Batched THEN Deps[r] = {} ELSE ready[r]]
        /\ pc' = [r \in Requests |-> IF r \in Batched THEN "enqueue" ELSE pc[r]]
     \/ /\ Error /\ UNCHANGED <<batchKeys, ready>>
        /\ pc' = [r \in Requests |-> IF r \in Batched THEN "error" ELSE pc[r]]
  /\ UNCHANGED <<dedup, rate, expires, store, queue, crashes, edits, histVars>>

(* The process of a request dies, the API's or the worker's.               *)
Crash(r) ==
  /\ pc[r] \notin {"absent", "died"} \cup Answered /\ crashes < MaxCrashes
  /\ At(r, "new") => r \in Spawned
  /\ crashes' = crashes + 1
  /\ pc' = [q \in Requests |-> IF q = r \/ ({q, r} \subseteq Batched /\ At(q, "enqueue"))
                                THEN "died" ELSE pc[q]]
  /\ UNCHANGED <<ready, redisVars, errors, edits, histVars>>

DedupKeyExpires ==
  /\ \E k \in dedup : dedup' = dedup \ {k}
  /\ UNCHANGED <<pc, ready, rate, expires, store, batchKeys, queue, envVars, histVars>>

-----------------------------------------------------------------------------
(* Workers.                                                                *)

Terminal == {"completed", "failed", "cancelled"}

Pop(r) == queue[r] > 0 /\ queue' = [queue EXCEPT ![r] = @ - 1]

(* The dependencies GetByIDs finds that are not completed.                 *)
Open(r) == \E d \in Deps[r] : store[d] \notin {"none", "completed"}

(* JobService.Dequeue sets the job to pending, acks it and returns no job  *)
(* and no error; ProcessOnce dereferences the nil job.                     *)
DropBlocked(r) ==
  /\ Pop(r) /\ Open(r)
  /\ store' = IF store[r] = "none" THEN store ELSE [store EXCEPT ![r] = "pending"]
  /\ dropped' = dropped \cup {r}
  /\ UNCHANGED <<pc, ready, dedup, rate, expires, batchKeys, envVars, admitted, executed,
                 completed, early, replayed, deleted, cancelled>>

Over(r) == r \in completed \/ store[r] \in Terminal

(* Bug: a job the store does not know is skipped.                          *)
ExecuteStoredOnly(r) ==
  /\ Pop(r) /\ ~ Open(r)
  /\ IF Over(r) \/ store[r] = "none"
       THEN UNCHANGED <<store, executed, completed>>
       ELSE /\ r # Parent
            /\ store' = [store EXCEPT ![r] = "completed"]
            /\ executed' = executed \cup {r} /\ completed' = completed \cup {r}
  /\ UNCHANGED <<pc, ready, dedup, rate, expires, batchKeys, envVars, admitted,
                 early, dropped, replayed, deleted, cancelled>>

Record(r, out) ==
  /\ store' = IF store[r] = "none" THEN store ELSE [store EXCEPT ![r] = out]
  /\ completed' = IF out = "completed" THEN completed \cup {r} ELSE completed

(* ProcessOnce: skipped when the job is marked processed or the store says *)
(* it is over, else executed and recorded, if the store knows the job.     *)
Execute(r) ==
  /\ Pop(r)
  /\ \/ ~ Open(r) /\ NoError
     \/ Open(r) /\ Error            \* GetByIDs failed: allowed anyway
  /\ IF Over(r)
       THEN UNCHANGED <<store, executed, completed, early>>
       ELSE /\ r # Parent
            /\ \E out \in {"completed", "failed"} : Record(r, out)
            /\ executed' = executed \cup {r}
            /\ early' = IF Deps[r] \subseteq completed THEN early ELSE early \cup {r}
  /\ UNCHANGED <<pc, ready, dedup, rate, expires, batchKeys, crashes, edits, admitted,
                 dropped, replayed, deleted, cancelled>>

(* Execute of the map_reduce plugin: the next job is submitted when the    *)
(* one before it was accepted ...                                          *)
MapReduceStarts ==
  /\ Parent \in Requests /\ fan = 0 /\ At(Fan[1], "absent")
  /\ Pop(Parent) /\ ~ Over(Parent)
  /\ executed' = executed \cup {Parent}
  /\ fan' = 1 /\ Goto(Fan[1], "new")
  /\ UNCHANGED <<ready, dedup, rate, expires, store, batchKeys, envVars, admitted, completed,
                 early, dropped, replayed, deleted, cancelled>>

MapReduceGoesOn ==
  /\ fan \in 1 .. Len(Fan) - 1 /\ At(Fan[fan], "created")
  /\ fan' = fan + 1 /\ Goto(Fan[fan + 1], "new")
  /\ UNCHANGED <<ready, redisVars, envVars, histVars>>

(* ... and the execution ends with the first that was not, or the last.    *)
(* What was submitted by then stays.  The submissions of another execution *)
(* (a retry, a replay) would be other jobs: one execution is modelled.     *)
MapReduceEnds ==
  /\ fan > 0 /\ pc[Fan[fan]] \in Answered
  /\ IF At(Fan[fan], "created") THEN fan = Len(Fan) /\ Record(Parent, "completed")
                                ELSE Record(Parent, "failed")
  /\ fan' = 0
  /\ UNCHANGED <<pc, ready, dedup, rate, expires, batchKeys, queue, envVars, admitted, executed,
                 early, dropped, replayed, deleted, cancelled>>

(* The worker died within a submission: the job is queued again.           *)
MapReduceReclaimed ==
  /\ fan > 0 /\ At(Fan[fan], "died")
  /\ queue' = [queue EXCEPT ![Parent] = @ + 1]
  /\ fan' = 0
  /\ UNCHANGED <<pc, ready, dedup, rate, expires, store, batchKeys, envVars, histVars>>

MapReduce == MapReduceStarts \/ MapReduceGoesOn \/ MapReduceEnds \/ MapReduceReclaimed

-----------------------------------------------------------------------------
(* Requests on a stored job.                                               *)
Edit(r) == store[r] # "none" /\ edits < MaxEdits /\ edits' = edits + 1

ReplayJob(r) ==
  /\ Edit(r)
  /\ store' = [store EXCEPT ![r] = "pending"]
  /\ queue' = [queue EXCEPT ![r] = @ + 1]
  /\ replayed' = replayed \cup {r}
  /\ UNCHANGED <<pc, ready, dedup, rate, expires, batchKeys, errors, crashes, admitted,
                 executed, completed, early, dropped, deleted, cancelled>>

CancelJob(r) ==
  /\ Edit(r)
  /\ store' = [store EXCEPT ![r] = "cancelled"]
  /\ cancelled' = cancelled \cup {r}
  /\ UNCHANGED <<pc, ready, dedup, rate, expires, batchKeys, queue, errors, crashes, admitted,
                 executed, completed, early, dropped, replayed, deleted>>

DeleteJob(r) ==
  /\ Edit(r)
  /\ store' = [store EXCEPT ![r] = "none"]
  /\ deleted' = deleted \cup {r}
  /\ UNCHANGED <<pc, ready, dedup, rate, expires, batchKeys, queue, errors, crashes, admitted,
                 executed, completed, early, dropped, replayed, cancelled>>

-----------------------------------------------------------------------------
CreateJob(r) ==
  \/ Dedup(r) \/ CheckDeps(r) \/ CheckDepsFails(r) \/ Incr(r) \/ IncrFails(r)
  \/ Expire(r) \/ Save(r) \/ Enqueue(r) \/ EnqueueFails(r)

Worker(r) == DropBlocked(r) \/ Execute(r)

Next ==
  \/ /\ \/ \E r \in Requests : CreateJob(r) \/ Crash(r) \/ Worker(r)
                                \/ ReplayJob(r) \/ CancelJob(r) \/ DeleteJob(r)
        \/ SaveBatch \/ WindowEnds \/ DedupKeyExpires
     /\ UNCHANGED fan
  \/ MapReduce

Spec == Init /\ [][Next]_vars

(* Requests are served, keys expire and workers take what is queued.       *)
FairSpec ==
  /\ Spec
  /\ WF_vars(\E r \in Requests : CreateJob(r) /\ UNCHANGED fan)
  /\ WF_vars(\E r \in Requests : Worker(r) /\ UNCHANGED fan)
  /\ WF_vars(WindowEnds /\ UNCHANGED fan) /\ WF_vars(MapReduce)

-----------------------------------------------------------------------------
(* Properties.                                                             *)

(* However the requests interleave, the limiter admits at most RateLimit   *)
(* of them in one window, and the window ends: the tenant's counter has a  *)
(* time to live, or soon will, unless the request that made it crashed or  *)
(* its EXPIRE failed.                                                      *)
RateHeld ==
  /\ Cardinality(admitted) <= RateLimit
  /\ rate > 0 /\ ~ expires => errors + crashes > 0 \/ \E r \in Requests : At(r, "expire")

(* A job runs before a dependency has completed only if the worker could   *)
(* not read the dependencies or one of them was deleted from the store;    *)
(* and a job is dropped by the dependency check, and takes its worker      *)
(* down, only after it, or a dependency of it, was replayed, or a          *)
(* dependency was cancelled after it had completed.  Nothing takes up a    *)
(* job that was accepted with an open dependency but a replay of it.  And  *)
(* a reduce job exists only once all its map jobs were accepted, even if   *)
(* the fan-out before it was cut off.                                      *)
DependenciesFirst ==
  /\ \A r \in early : errors > 0 \/ Deps[r] \cap deleted # {}
  /\ \A r \in dropped : ({r} \cup Deps[r]) \cap (replayed \cup cancelled) # {}
  /\ \A r \in executed : ready[r] \/ r \in replayed
  /\ Parent \in completed \/ (Fan # << >> /\ store[Fan[Len(Fan)]] # "none")
       => \A r \in MapJobs : At(r, "created")

(* A job that was accepted and was ready is executed in the end, unless it *)
(* is cancelled or the dependency check drops it: since none of this is    *)
(* ever undone and requests end, a moment with nothing left to do comes.   *)
AcceptedIsExecuted ==
  []<>(\A r \in Requests : (pc[r] = "created" /\ ready[r] /\ errors = 0) =>
                              r \in executed \cup dropped \cup cancelled)

(* docs/CLIENT_GUIDE.md:166: while a job with a dedup_key is pending, no   *)
(* other job is accepted with it.                                          *)
DuplicatesRejected ==
  \A q, r \in Requests : (q # r /\ Key[q] = Key[r] /\ Key[q] # NoKey) =>
    ~ (store[q] = "pending" /\ store[r] = "pending")
=============================================================================
