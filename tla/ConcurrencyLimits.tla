-------------------------- MODULE ConcurrencyLimits --------------------------
(***************************************************************************)
(* Concurrency limits per job type and per tenant                          *)
(* (internal/queue/redis/redis.go): the checks inside Dequeue, the slots a *)
(* running job occupies, the deferred lists of jobs that found no slot,    *)
(* and the scheduler's ReconcileDeferredJobs that brings them back.        *)
(*                                                                         *)
(* A scope is a job type or a tenant.  Every job has one of each, and      *)
(* every scope has a slot set (active_type:<t>, active_tenant:<n>), a      *)
(* deferred list and a configuration.  The three ZSET entries of a job     *)
(* (in_flight and two slots) carry the same score, so one clock mark per   *)
(* job says whether they have expired.  Each step is one Redis call, but   *)
(* for the ZREMRANGEBYSCORE that precedes every ZCARD and is taken with it.*)
(***************************************************************************)
EXTENDS Integers, Sequences, FiniteSets

CONSTANTS Jobs, Types, Tenants,
          TypeOf,      \* [Jobs -> Types]
          TenantOf,    \* [Jobs -> Tenants]
          TypeLimit,   \* concurrency_limit in the registration of a type, 0 = none
          Limits,      \* values an operator gives a tenant
          Workers, NoJob, NoScope,
          MaxEvents    \* bound on crashes, premature reclaims and configuration changes

Scopes == Types \cup Tenants

ASSUME LimitsAssumption ==
  /\ TypeOf \in [Jobs -> Types] /\ TenantOf \in [Jobs -> Tenants]
  /\ Types \cap Tenants = {} /\ IsFiniteSet(Jobs) /\ IsFiniteSet(Workers)
  /\ TypeLimit \in [Types -> Nat] /\ Limits \subseteq Nat
  /\ NoJob \notin Jobs /\ NoScope \notin Scopes
  /\ MaxEvents \in Nat

VARIABLES main,        \* copies of a job in the priority lists
          deferred,    \* deferred:<type> and deferred_tenant:<tenant>, oldest first
          inflight,    \* in_flight ZSET (with its payload)
          active,      \* slot ZSET of a scope
          expired,     \* jobs whose score in these sets has passed
          registered,  \* scopes with a configuration
          limit,       \* their concurrency_limit
          pc, job,     \* next call of a worker, and the job it holds
          lim,         \* type limit it read
          rpc, pass,   \* next call of the reconciler: over types, then over tenants
          todo,        \* scopes it has yet to visit
          rlimit,      \* the limits it read for them
          scope,       \* scope it is visiting
          avail,       \* jobs it may still move
          moving,      \* job it has popped and not yet pushed
          done         \* jobs acknowledged as finished

(* History.                                                                *)
VARIABLES events,      \* bounded events so far
          copied,      \* jobs that were reclaimed
          dropped,     \* jobs whose only copy was in the memory of a dead process
          raced        \* scopes whose limit may have been missed

queueVars  == <<main, deferred, inflight, active, expired>>
configVars == <<registered, limit>>
workerVars == <<pc, job, lim>>
reconVars  == <<rpc, pass, todo, rlimit, scope, avail, moving>>
history    == <<events, copied, dropped, raced>>
vars       == <<queueVars, configVars, workerVars, reconVars, done, history>>

ScopesOf(j)  == {TypeOf[j], TenantOf[j]}
JobsOf(s)    == {j \in Jobs : s \in ScopesOf(j)}
Holders(j)   == {w \in Workers : job[w] = j}

Counting == {"typeState", "tenantCheck", "deferTenant", "typeCheck", "deferType", "track"}
Running  == {"run", "ack"}

(* Lists and slot sets hold jobs; a worker in Dequeue and the reconciler   *)
(* are at one of their calls, with limits that are natural numbers.        *)
TypeOK ==
  /\ main \in [Jobs -> Nat]
  /\ deferred \in [Scopes -> Seq(Jobs)]
  /\ inflight \subseteq Jobs /\ expired \subseteq Jobs
  /\ active \in [Scopes -> SUBSET Jobs]
  /\ registered \subseteq Scopes
  /\ limit \in [Scopes -> Nat]
  /\ pc \in [Workers -> Counting \cup Running \cup {"brpop"}]
  /\ job \in [Workers -> Jobs \cup {NoJob}]
  /\ lim \in [Workers -> Nat]
  /\ rpc \in {"read", "visit", "pop", "push"} /\ pass \in {"types", "tenants"}
  /\ todo \subseteq Scopes
  /\ rlimit \in [Scopes -> Nat]
  /\ scope \in Scopes \cup {NoScope}
  /\ avail \in Nat
  /\ moving \in Jobs \cup {NoJob}
  /\ done \subseteq Jobs
  /\ events \in 0 .. MaxEvents
  /\ copied \subseteq Jobs /\ dropped \subseteq Jobs /\ raced \subseteq Scopes

Init ==
  /\ main = [j \in Jobs |-> 1]
  /\ deferred = [s \in Scopes |-> << >>]
  /\ inflight = {} /\ expired = {}
  /\ active = [s \in Scopes |-> {}]
  /\ registered = Types
  /\ limit = [s \in Scopes |-> IF s \in Types THEN TypeLimit[s] ELSE 0]
  /\ pc = [w \in Workers |-> "brpop"]
  /\ job = [w \in Workers |-> NoJob]
  /\ lim = [w \in Workers |-> 0]
  /\ rpc = "read" /\ pass = "types" /\ todo = {} /\ rlimit = [s \in Scopes |-> 0]
  /\ scope = NoScope /\ avail = 0 /\ moving = NoJob
  /\ done = {}
  /\ events = 0
  /\ copied = {} /\ dropped = {} /\ raced = {}

-----------------------------------------------------------------------------
(* Building blocks.                                                        *)

Event == events < MaxEvents /\ events' = events + 1

(* ZREMRANGEBYSCORE -inf now, then ZCARD.                                  *)
Live(s) == active[s] \ expired

Purge(s) == active' = [active EXCEPT ![s] = Live(s)]

LPushMain(j) == main' = [main EXCEPT ![j] = @ + 1]

Goto(w, call) == pc' = [pc EXCEPT ![w] = call] /\ UNCHANGED <<job, lim>>

Release(w) == /\ pc' = [pc EXCEPT ![w] = "brpop"]
              /\ job' = [job EXCEPT ![w] = NoJob]
              /\ lim' = [lim EXCEPT ![w] = 0]

(* Workers that have counted the slots of s and not yet taken one.         *)
Pending(s) == {w \in Workers : /\ job[w] \in JobsOf(s)
                               /\ pc[w] \in (IF s \in Tenants THEN {"typeCheck", "deferType", "track"}
                                                              ELSE {"track"})}
-----------------------------------------------------------------------------
(* Dequeue.                                                                *)

BRPop(w, j) ==
  /\ pc[w] = "brpop" /\ main[j] > 0
  /\ main' = [main EXCEPT ![j] = @ - 1]
  /\ pc' = [pc EXCEPT ![w] = "typeState"]
  /\ job' = [job EXCEPT ![w] = j]
  /\ UNCHANGED <<deferred, inflight, active, expired, configVars, lim, reconVars, done, history>>

GetJobTypeState(w) ==
  /\ pc[w] = "typeState"
  /\ pc' = [pc EXCEPT ![w] = "tenantCheck"]
  /\ lim' = [lim EXCEPT ![w] = limit[TypeOf[job[w]]]]
  /\ UNCHANGED <<queueVars, configVars, job, reconVars, done, history>>

(* A count that may be stale when the slot is taken is recorded in raced.  *)
CheckSlots(w, s, n, over, free) ==
  /\ IF n > 0 THEN Purge(s) ELSE UNCHANGED active
  /\ Goto(w, IF n > 0 /\ Cardinality(Live(s)) >= n THEN over ELSE free)
  /\ raced' = IF Pending(s) # {} THEN raced \cup {s} ELSE raced
  /\ UNCHANGED <<main, deferred, inflight, expired, configVars, reconVars, done,
                 events, copied, dropped>>

CheckTenantLimit(w) ==
  /\ pc[w] = "tenantCheck"
  /\ CheckSlots(w, TenantOf[job[w]], limit[TenantOf[job[w]]], "deferTenant", "typeCheck")

(* Bug: `>` for `>=`.                                                      *)
CheckTypeLimitOffByOne(w) ==
  /\ pc[w] = "typeCheck"
  /\ CheckSlots(w, TypeOf[job[w]], IF lim[w] > 0 THEN lim[w] + 1 ELSE 0, "deferType", "track")

CheckTypeLimit(w) ==
  /\ pc[w] = "typeCheck"
  /\ CheckSlots(w, TypeOf[job[w]], lim[w], "deferType", "track")

(* Over the limit: LPUSH to the deferred list and go on with the loop.     *)
Defer(w) ==
  /\ pc[w] \in {"deferTenant", "deferType"}
  /\ LET s == IF pc[w] = "deferTenant" THEN TenantOf[job[w]] ELSE TypeOf[job[w]]
     IN  deferred' = [deferred EXCEPT ![s] = Append(@, job[w])]
  /\ Release(w)
  /\ UNCHANGED <<main, inflight, active, expired, configVars, reconVars, done, history>>

(* Bug: the tenant's slot is not taken.                                    *)
TrackOneSlot(w) ==
  /\ pc[w] = "track"
  /\ inflight' = inflight \cup {job[w]}
  /\ active' = [active EXCEPT ![TypeOf[job[w]]] = @ \cup {job[w]}]
  /\ expired' = expired \ {job[w]}
  /\ Goto(w, "run")
  /\ UNCHANGED <<main, deferred, configVars, reconVars, done, history>>

(* The pipeline that records the job in flight and takes both slots.       *)
Track(w) ==
  /\ pc[w] = "track"
  /\ inflight' = inflight \cup {job[w]}
  /\ active' = [s \in Scopes |-> IF s \in ScopesOf(job[w]) THEN active[s] \cup {job[w]}
                                                           ELSE active[s]]
  /\ expired' = expired \ {job[w]}
  /\ Goto(w, "run")
  /\ UNCHANGED <<main, deferred, configVars, reconVars, done, history>>

(* The job has run to the end (retries are the subject of TaskQueue).      *)
Finish(w) ==
  /\ pc[w] = "run"
  /\ done' = done \cup {job[w]}
  /\ Goto(w, "ack")
  /\ UNCHANGED <<queueVars, configVars, reconVars, history>>

(* Ack and the cleanup of Fail: keyed by the job id, so another holder of  *)
(* the same job loses its slots too.                                       *)
Ack(w) ==
  /\ pc[w] = "ack"
  /\ inflight' = inflight \ {job[w]}
  /\ active' = [s \in Scopes |-> active[s] \ {job[w]}]
  /\ expired' = expired \ {job[w]}
  /\ Release(w)
  /\ raced' = IF Holders(job[w]) # {w} THEN raced \cup ScopesOf(job[w]) ELSE raced
  /\ UNCHANGED <<main, deferred, configVars, reconVars, done, events, copied, dropped>>

(* The worker dies, or a Redis error makes Dequeue return without the job. *)
Crash(w) ==
  /\ pc[w] # "brpop"
  /\ Event
  /\ dropped' = IF pc[w] \in Counting \/ job[w] \notin inflight THEN dropped \cup {job[w]} ELSE dropped
  /\ Release(w)
  /\ UNCHANGED <<queueVars, configVars, reconVars, done, copied, raced>>

-----------------------------------------------------------------------------
(* The clock and the scheduler.                                            *)

Expire(j) ==
  /\ j \notin expired /\ j \in inflight \cup UNION {active[s] : s \in Scopes}
  /\ expired' = expired \cup {j}
  /\ raced' = IF Holders(j) # {} THEN raced \cup ScopesOf(j) ELSE raced
  /\ UNCHANGED <<main, deferred, inflight, active, configVars, workerVars, reconVars, done,
                 events, copied, dropped>>

(* The reclaim script removes the in-flight record and leaves the slots.   *)
Reclaim(j) ==
  /\ j \in inflight \cap expired
  /\ IF Holders(j) # {} THEN Event ELSE UNCHANGED events
  /\ inflight' = inflight \ {j}
  /\ LPushMain(j)
  /\ copied' = copied \cup {j}
  /\ UNCHANGED <<deferred, active, expired, configVars, workerVars, reconVars, done,
                 dropped, raced>>

(* ReconcileDeferredJobs: HGETALL of the registered types or tenants.      *)
ReadConfigs ==
  /\ rpc = "read"
  /\ rpc' = "visit"
  /\ todo' = registered \cap (IF pass = "types" THEN Types ELSE Tenants)
  /\ rlimit' = [s \in Scopes |-> IF s \in todo' THEN limit[s] ELSE 0]
  /\ UNCHANGED <<queueVars, configVars, workerVars, pass, scope, avail, moving, done, history>>

(* Bug: a limit of 0 leaves no room instead of all of it.                  *)
VisitZeroIsFull(s) ==
  /\ rpc = "visit" /\ s \in todo
  /\ LET free == rlimit[s] - Cardinality(Live(s))
     IN  avail' = IF deferred[s] # << >> /\ free > 0 THEN free ELSE 0
  /\ Purge(s)
  /\ todo' = todo \ {s}
  /\ scope' = s
  /\ rpc' = IF avail' > 0 THEN "pop" ELSE "visit"
  /\ UNCHANGED <<main, deferred, inflight, expired, configVars, workerVars,
                 pass, rlimit, moving, done, history>>

(* LLEN, and the slots that are free.                                      *)
Visit(s) ==
  /\ rpc = "visit" /\ s \in todo
  /\ LET n    == Len(deferred[s])
         free == rlimit[s] - Cardinality(Live(s))
     IN  /\ avail' = IF n = 0 THEN 0 ELSE IF rlimit[s] = 0 THEN n ELSE IF free > 0 THEN free ELSE 0
         /\ IF n > 0 /\ rlimit[s] > 0 THEN Purge(s) ELSE UNCHANGED active
  /\ todo' = todo \ {s}
  /\ scope' = s
  /\ rpc' = IF avail' > 0 THEN "pop" ELSE "visit"
  /\ UNCHANGED <<main, deferred, inflight, expired, configVars, workerVars,
                 pass, rlimit, moving, done, history>>

NextPass ==
  /\ rpc = "visit" /\ todo = {}
  /\ rpc' = "read"
  /\ pass' = IF pass = "types" THEN "tenants" ELSE "types"
  /\ scope' = NoScope /\ avail' = 0 /\ rlimit' = [s \in Scopes |-> 0]
  /\ UNCHANGED <<queueVars, configVars, workerVars, todo, moving, done, history>>

(* RPOP: from here the job is only in the memory of the scheduler.         *)
PopDeferred ==
  /\ rpc = "pop"
  /\ IF deferred[scope] = << >>
       THEN rpc' = "visit" /\ UNCHANGED <<deferred, moving>>
       ELSE /\ rpc' = "push"
            /\ moving' = Head(deferred[scope])
            /\ deferred' = [deferred EXCEPT ![scope] = Tail(@)]
  /\ UNCHANGED <<main, inflight, active, expired, configVars, workerVars,
                 pass, todo, rlimit, scope, avail, done, history>>

(* Bug: the last job popped is not pushed.                                 *)
PushBackStopsEarly ==
  /\ rpc = "push"
  /\ IF avail > 1 THEN LPushMain(moving) ELSE UNCHANGED main
  /\ moving' = NoJob
  /\ avail' = avail - 1
  /\ rpc' = IF avail > 1 THEN "pop" ELSE "visit"
  /\ UNCHANGED <<deferred, inflight, active, expired, configVars, workerVars,
                 pass, todo, rlimit, scope, done, history>>

PushBack ==
  /\ rpc = "push"
  /\ LPushMain(moving)
  /\ moving' = NoJob
  /\ avail' = avail - 1
  /\ rpc' = IF avail > 1 THEN "pop" ELSE "visit"
  /\ UNCHANGED <<deferred, inflight, active, expired, configVars, workerVars,
                 pass, todo, rlimit, scope, done, history>>

SchedulerCrash ==
  /\ <<rpc, pass>> # <<"read", "types">>
  /\ Event
  /\ dropped' = dropped \cup ({moving} \ {NoJob})
  /\ rpc' = "read" /\ pass' = "types" /\ todo' = {}
  /\ scope' = NoScope /\ avail' = 0 /\ moving' = NoJob
  /\ rlimit' = [s \in Scopes |-> 0]
  /\ UNCHANGED <<queueVars, configVars, workerVars, done, copied, raced>>

-----------------------------------------------------------------------------
(* The operators.                                                          *)

UpdateTenantConfig(n, v) ==
  /\ Event
  /\ registered' = registered \cup {n}
  /\ limit' = [limit EXCEPT ![n] = v]
  /\ raced' = IF \E j \in JobsOf(n) : Holders(j) # {} THEN raced \cup {n} ELSE raced
  /\ UNCHANGED <<queueVars, workerVars, reconVars, done, copied, dropped>>

DeleteJobType(t) ==
  /\ t \in registered
  /\ Event
  /\ registered' = registered \ {t}
  /\ limit' = [limit EXCEPT ![t] = 0]
  /\ UNCHANGED <<queueVars, workerVars, reconVars, done, copied, dropped, raced>>

(* jobtypes.Store.Create writes a registration without a limit.            *)
CreateJobType(t) ==
  /\ t \notin registered
  /\ registered' = registered \cup {t}
  /\ UNCHANGED <<queueVars, limit, workerVars, reconVars, done, history>>

-----------------------------------------------------------------------------
Dequeue(w) ==
  \/ \E j \in Jobs : BRPop(w, j)
  \/ GetJobTypeState(w) \/ CheckTenantLimit(w) \/ CheckTypeLimit(w) \/ Defer(w) \/ Track(w)

Complete(w) == Finish(w) \/ Ack(w)

ReconcileDeferredJobs ==
  ReadConfigs \/ NextPass \/ PopDeferred \/ PushBack \/ \E s \in Scopes : Visit(s)

Next ==
  \/ \E w \in Workers : Dequeue(w) \/ Complete(w) \/ Crash(w)
  \/ ReconcileDeferredJobs \/ SchedulerCrash
  \/ \E j \in Jobs : Expire(j) \/ Reclaim(j)
  \/ \E n \in Tenants, v \in Limits : UpdateTenantConfig(n, v)
  \/ \E t \in Types : DeleteJobType(t) \/ CreateJobType(t)

Spec == Init /\ [][Next]_vars

(* Workers and the scheduler make their next call, and time passes.        *)
Fairness ==
  /\ \A w \in Workers : WF_vars(Dequeue(w) \/ Complete(w))
  /\ \A j \in Jobs : /\ WF_vars(Expire(j)) /\ WF_vars(Reclaim(j))
  /\ WF_vars(ReconcileDeferredJobs)

FairSpec == Spec /\ Fairness

-----------------------------------------------------------------------------
(* Properties.                                                             *)

RunningIn(s) == {w \in Workers : job[w] \in JobsOf(s) /\ pc[w] \in Running}

(* "TaskQueue will never process more than 5 emails concurrently across    *)
(* the entire cluster": the limit is honoured as long as no count was      *)
(* taken while another worker was between its own count and its slot, no   *)
(* slot expired or was released under a running job, and the limit did not *)
(* change under one.                                                       *)
LimitHeldUnlessRaced ==
  \A s \in Scopes \ raced : limit[s] > 0 => Cardinality(RunningIn(s)) <= limit[s]

(* A job occupies its type's and its tenant's slot exactly while it is     *)
(* recorded in flight, until the common score passes: no slot leaks, and   *)
(* none is released early.                                                 *)
SlotsPaired ==
  \A j \in Jobs \ expired, s \in Scopes :
    j \in active[s] <=> j \in inflight /\ s \in ScopesOf(j)

Occurs(q, j) == Cardinality({k \in 1 .. Len(q) : q[k] = j})

Copies(j) ==
  main[j] + Occurs(deferred[TypeOf[j]], j) + Occurs(deferred[TenantOf[j]], j)
  + Cardinality({w \in Holders(j) : pc[w] # "ack"}) + (IF moving = j THEN 1 ELSE 0)

(* Deferring a job and bringing it back neither duplicates nor loses it: a *)
(* job that was never reclaimed has at most one copy, and one that is not  *)
(* finished is in a list, in flight or in the hands of a process, unless   *)
(* that process died with it.                                              *)
DeferralKeepsTheJob ==
  /\ \A j \in Jobs \ copied : Copies(j) <= 1
  /\ \A j \in Jobs \ (done \cup dropped) : Copies(j) > 0 \/ j \in inflight

(* Deferred under a type whose registration is gone: ReconcileDeferredJobs *)
(* visits registered types only.                                           *)
Stranded(j) == TypeOf[j] \notin registered /\ Occurs(deferred[TypeOf[j]], j) > 0

(* Every job runs to the end: a full scope postpones it, and it comes back *)
(* when a slot is free.                                                    *)
DeferredJobsFinish == \A j \in Jobs : <>(j \in done \cup dropped \/ Stranded(j))
=============================================================================
