----------------------------- MODULE RedisQueue -----------------------------
(***************************************************************************)
(* The Redis broker of internal/queue/redis/redis.go: the keys it keeps    *)
(* and the operations on them, each cut where Redis may interleave another *)
(* client (one Lua script or one MULTI/EXEC pipeline is one operator).     *)
(*                                                                         *)
(* A queued payload is the JSON of a job; of its fields only `retries`     *)
(* matters here, so a payload of job j is a number, and every key is       *)
(* indexed by the job.  All copies of one job live in one partition list   *)
(* (getPartitionedKey hashes the id), which is FIFO; the order between     *)
(* jobs is left open, as the weighted random key order of                  *)
(* getFairPartitionKeys leaves it.                                         *)
(***************************************************************************)
EXTENDS Integers, Sequences

CONSTANTS Jobs,        \* job ids
          MaxRetries,  \* job.MaxRetries
          MaxDLQ,      \* length the dead-letter list is trimmed to
          NoPayload    \* HGET returned redis.Nil

ASSUME QueueAssumption == /\ MaxRetries \in Nat
                          /\ MaxDLQ \in Nat \ {0}
                          /\ NoPayload \notin Nat

VARIABLES queue,       \* partition lists, restricted to each job: next to pop first
          delayed,     \* delayed_jobs ZSET: payloads waiting for RunAt
          payloads,    \* task_queue:payloads hash
          inflight,    \* task_queue:in_flight ZSET: none, live or past its score
          deadLetter,  \* task_queue:dead_letter list, newest first
          processed,   \* processed:<id> idempotency markers
          future       \* jobs whose RunAt is still ahead of the clock

redisVars == <<queue, delayed, payloads, inflight, deadLetter, processed, future>>

Retries == 0 .. MaxRetries

QueueTypeOK ==
  /\ queue \in [Jobs -> Seq(Retries)]
  /\ delayed \in [Jobs -> Seq(Retries)]
  /\ payloads \in [Jobs -> Retries \cup {NoPayload}]
  /\ inflight \in [Jobs -> {"none", "live", "expired"}]
  /\ deadLetter \in Seq(Jobs)
  /\ processed \subseteq Jobs
  /\ future \subseteq Jobs

(* Scheduled jobs are the ones whose RunAt is ahead of the clock at first. *)
QueueInit(Scheduled) ==
  /\ queue = [j \in Jobs |-> << >>]
  /\ delayed = [j \in Jobs |-> << >>]
  /\ payloads = [j \in Jobs |-> NoPayload]
  /\ inflight = [j \in Jobs |-> "none"]
  /\ deadLetter = << >>
  /\ processed = {}
  /\ future = Scheduled

-----------------------------------------------------------------------------
(* An operator whose comment begins with "Bug:" is a faulty variant of the *)
(* definition that follows it.  No specification uses it: it documents a   *)
(* mistake that the properties detect.                                     *)

(* Operations of producers and consumers.                                  *)

Enqueue(j, r) ==
  /\ IF j \in future
       THEN /\ delayed' = [delayed EXCEPT ![j] = Append(@, r)]
            /\ queue' = queue
       ELSE /\ queue' = [queue EXCEPT ![j] = Append(@, r)]
            /\ delayed' = delayed
  /\ UNCHANGED <<payloads, inflight, deadLetter, processed, future>>

(* Bug: the list is read without removing the element.                     *)
BRPopPeeks(j) ==
  /\ queue[j] # << >>
  /\ UNCHANGED redisVars

(* BRPOP: from here the payload is only in the memory of the worker.       *)
BRPop(j) ==
  /\ queue[j] # << >>
  /\ queue' = [queue EXCEPT ![j] = Tail(@)]
  /\ UNCHANGED <<delayed, payloads, inflight, deadLetter, processed, future>>

(* The pipeline at the end of Dequeue: HSET payload, ZADD in_flight.       *)
Track(j, r) ==
  /\ payloads' = [payloads EXCEPT ![j] = r]
  /\ inflight' = [inflight EXCEPT ![j] = "live"]
  /\ UNCHANGED <<queue, delayed, deadLetter, processed, future>>

(* Bug: the payload is left behind when the in-flight record is removed.   *)
UntrackKeepsPayload(j) ==
  /\ inflight' = [inflight EXCEPT ![j] = "none"]
  /\ UNCHANGED <<queue, delayed, payloads, deadLetter, processed, future>>

(* The HDEL/ZREM pipeline shared by Ack and Fail; it is keyed by the job   *)
(* id alone, and removing what is not there changes nothing.               *)
Untrack(j) ==
  /\ payloads' = [payloads EXCEPT ![j] = NoPayload]
  /\ inflight' = [inflight EXCEPT ![j] = "none"]
  /\ UNCHANGED <<queue, delayed, deadLetter, processed, future>>

Ack(j) == Untrack(j)

Trim(s) == SubSeq(s, 1, IF Len(s) < MaxDLQ THEN Len(s) ELSE MaxDLQ)

(* The second pipeline of Fail: LPUSH dead_letter, LTRIM.                  *)
PushDeadLetter(j) ==
  /\ deadLetter' = Trim(<<j>> \o deadLetter)
  /\ UNCHANGED <<queue, delayed, payloads, inflight, processed, future>>

MarkProcessed(j) ==
  /\ processed' = processed \cup {j}
  /\ UNCHANGED <<queue, delayed, payloads, inflight, deadLetter, future>>

-----------------------------------------------------------------------------
(* The scheduler's maintenance scripts, each one atomic Lua call.          *)

(* Bug: the script promotes every delayed job.                             *)
DueIgnoresRunAt(j) == delayed[j] # << >>

Due(j) == j \notin future /\ delayed[j] # << >>

PromoteScheduledJobs ==
  /\ \E j \in Jobs : Due(j)
  /\ queue' = [j \in Jobs |-> IF Due(j) THEN queue[j] \o delayed[j] ELSE queue[j]]
  /\ delayed' = [j \in Jobs |-> IF Due(j) THEN << >> ELSE delayed[j]]
  /\ UNCHANGED <<payloads, inflight, deadLetter, processed, future>>

TimedOut == {j \in Jobs : inflight[j] = "expired"}

(* Bug: the expired records are removed and their payloads not pushed.     *)
ReclaimDropsPayload ==
  /\ TimedOut # {}
  /\ payloads' = [j \in Jobs |-> IF j \in TimedOut THEN NoPayload ELSE payloads[j]]
  /\ inflight' = [j \in Jobs |-> IF j \in TimedOut THEN "none" ELSE inflight[j]]
  /\ UNCHANGED <<queue, delayed, deadLetter, processed, future>>

ReclaimTimedOutJobs ==
  /\ TimedOut # {}
  /\ queue' = [j \in Jobs |-> IF j \in TimedOut /\ payloads[j] # NoPayload
                                THEN Append(queue[j], payloads[j])
                                ELSE queue[j]]
  /\ payloads' = [j \in Jobs |-> IF j \in TimedOut THEN NoPayload ELSE payloads[j]]
  /\ inflight' = [j \in Jobs |-> IF j \in TimedOut THEN "none" ELSE inflight[j]]
  /\ UNCHANGED <<delayed, deadLetter, processed, future>>

(* The clock: a visibility timeout passes, a RunAt is reached.             *)
VisibilityTimeout(j) ==
  /\ inflight[j] = "live"
  /\ inflight' = [inflight EXCEPT ![j] = "expired"]
  /\ UNCHANGED <<queue, delayed, payloads, deadLetter, processed, future>>

RunAtReached(j) ==
  /\ j \in future
  /\ future' = future \ {j}
  /\ UNCHANGED <<queue, delayed, payloads, inflight, deadLetter, processed>>
=============================================================================
