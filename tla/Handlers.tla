------------------------------ MODULE Handlers ------------------------------
(* The HTTP handlers of internal/api/handler: what each of them may answer,*)
(* what it changes and which server-sent event it publishes. A handler is  *)
(* the set of its possible outcomes in a state of the server.              *)
EXTENDS Naturals, FiniteSets

CONSTANTS Jobs,
          TenantOf,     \* the tenant of each job
          Operator,     \* tenant of the static operator key
          NoTenant      \* the empty string: a session, or an event without tenant

(***************************************************************************)
(* The server, as far as the pages show it                                 *)
(***************************************************************************)

Statuses == {"none", "pending", "processing", "completed", "failed", "cancelled"}
JobStates == [st: Statuses, paused: BOOLEAN, progress: 0 .. 1]
NoJob == [st |-> "none", paused |-> FALSE, progress |-> 0]
NoHook == [tenant |-> NoTenant, rev |-> 0]

(* used: the tenant's requests of this window have reached its limit;      *)
(* open: a circuit breaker is; halted: a job type is paused; custom: a job *)
(* type is registered; client: another client is; worker: one is active.   *)
(* States that tell the handlers' and the pages' cases apart.              *)
SomeServers ==
    {[job |-> job, used |-> f, open |-> f, halted |-> f, hook |-> h, custom |-> f,
      client |-> f, worker |-> k] :
        job \in [Jobs -> {x \in JobStates : x.st = "none" => x = NoJob}],
        f \in BOOLEAN, k \in BOOLEAN,
        h \in {NoHook} \cup {[tenant |-> TenantOf[j], rev |-> 1] : j \in Jobs}}

Exists(s, j) == s.job[j].st # "none"
Failed(s) == {j \in Jobs : s.job[j].st = "failed"}
SetStatus(s, j, st) == [s EXCEPT !.job[j].st = st]

(***************************************************************************)
(* Outcomes                                                                *)
(***************************************************************************)

Event(kind, tenant) == [kind |-> kind, tenant |-> tenant]
NoEvent == Event("none", NoTenant)
Answer(s, code) == [code |-> code, srv |-> s, ev |-> NoEvent]
Tell(s, code, ev) == [code |-> code, srv |-> s, ev |-> ev]
Success(o) == o.code \in 200 .. 299

(* The status for an AppError; any other error, the stores' included, is   *)
(* answered like an internal one.                                          *)
writeAppError(e) ==
    CASE e = "notFound" -> 404
      [] e = "invalid" -> 400
      [] e = "queueFull" -> 429
      [] e = "tooMany" -> 429
      [] e = "denied" -> 403
      [] e = "conflict" -> 409
      [] OTHER -> 500

Refuse(s, errors) == {Answer(s, writeAppError(e)) : e \in errors}

publishSSE(t) == Event("job", t)
publishRateLimitSSE(t) == Event("rate_limit", t)
publishDLQSSE == Event("dlq", NoTenant)

(***************************************************************************)
(* Who asks: a session (no tenant), the operator's key or a client's key   *)
(***************************************************************************)

SessionOf(r) == [auth |-> "session", role |-> r, tenant |-> NoTenant]
KeyOf(t) == [auth |-> "key", role |-> "admin", tenant |-> t]

IsClientTenant(t) == t \notin {NoTenant, Operator}
Scope(a) == IF IsClientTenant(a.tenant) THEN a.tenant ELSE NoTenant
InScope(a, j) == Scope(a) \in {NoTenant, TenantOf[j]}

checkJobTenantAccess(a, j) == IsClientTenant(a.tenant) => TenantOf[j] = a.tenant

(* loadJobForTenant before every operation on one job.                     *)
loadJobForTenant(a, s, j, outcomes) ==
    IF ~Exists(s, j) THEN Refuse(s, {"notFound"})
    ELSE IF ~checkJobTenantAccess(a, j) THEN Refuse(s, {"denied"})
    ELSE outcomes

(* The read and the write routes of NewRouter, and the checks in front of  *)
(* them: RequireAuth, then CSRFProtect and RequireRole.                    *)
RequireRole(a) == a.role = "admin"
CSRFProtect(a, token) == a.auth = "session" => token
MayWrite(a, token) == CSRFProtect(a, token) /\ RequireRole(a)

(***************************************************************************)
(* Jobs                                                                    *)
(***************************************************************************)

(* CreateJob: a bad body, type, dependency or time; the dedup key is taken;*)
(* the tenant is over its limit, which is told; the queue is full; the     *)
(* store fails; the queue fails with the job already saved.                *)
CreateJob(a, s, j) ==
    LET new == [SetStatus(s, j, "pending") EXCEPT !.used = TRUE]
    IN  Refuse(s, {"invalid"}) \cup
        IF Exists(s, j) THEN Refuse(s, {"conflict"})
        ELSE IF s.used THEN {Tell(s, writeAppError("tooMany"), publishRateLimitSSE(TenantOf[j]))}
        ELSE Refuse([s EXCEPT !.used = TRUE], {"invalid", "queueFull", "internal"})
             \cup Refuse(new, {"internal"})
             \cup {Tell(new, 201, publishSSE(TenantOf[j]))}

(* CreateJobBatch asks no limiter and publishes nothing; a job of it that  *)
(* cannot be enqueued is only logged.                                      *)
CreateJobBatch(a, s, j) ==
    Refuse(s, {"invalid", "internal"}) \cup
    IF Exists(s, j) THEN {} ELSE {Answer(SetStatus(s, j, "pending"), 200)}

UpdateJobProgress(a, s, j) ==
    Refuse(s, {"invalid"}) \cup
    loadJobForTenant(a, s, j, Refuse(s, {"internal"})
                              \cup {Answer([s EXCEPT !.job[j].progress = 1], 200)})

PauseJob(a, s, j) ==
    loadJobForTenant(a, s, j, Refuse(s, {"internal"})
                              \cup {Answer([s EXCEPT !.job[j].paused = TRUE], 200)})

ResumeJob(a, s, j) ==
    loadJobForTenant(a, s, j, Refuse(s, {"internal"})
                              \cup {Answer([s EXCEPT !.job[j].paused = FALSE], 200)})

(* The cancellation is told without the job's tenant.                      *)
CancelJob(a, s, j) ==
    loadJobForTenant(a, s, j, Refuse(s, {"internal"})
                              \cup {Tell(SetStatus(s, j, "cancelled"), 200, publishSSE(NoTenant))})

(***************************************************************************)
(* The dead letter queue: jobs of status failed, though the handlers take  *)
(* any job. A job that is not there is an internal error.                  *)
(***************************************************************************)

OwnJob(a, s, j, outcomes) ==
    IF ~Exists(s, j) THEN Refuse(s, {"internal"})
    ELSE IF ~InScope(a, j) THEN Refuse(s, {"denied"})
    ELSE outcomes

ReplayJob(s, j) == SetStatus(s, j, "pending")

ReplayFailedJob(a, s, j) ==
    OwnJob(a, s, j, Refuse(s, {"internal"}) \cup Refuse(ReplayJob(s, j), {"internal"})
                    \cup {Tell(ReplayJob(s, j), 200, publishDLQSSE)})

DeleteFailedJob(a, s, j) ==
    OwnJob(a, s, j, Refuse(s, {"internal"})
                    \cup {Tell([s EXCEPT !.job[j] = NoJob], 204, publishDLQSSE)})

(* The failed jobs older than a time; a key purges its own tenant's, the   *)
(* operator's key those of a tenant of its name.                           *)
BulkPurgeDLQ(a, s, j) ==
    Refuse(s, {"invalid", "internal"}) \cup
    {Tell([s EXCEPT !.job = [i \in Jobs |-> IF i \in old THEN NoJob ELSE s.job[i]]],
          200, publishDLQSSE) :
        old \in SUBSET {i \in Failed(s) : a.tenant \in {NoTenant, TenantOf[i]}}}

(***************************************************************************)
(* Workers, queues, types, clients and webhooks: none of it is told but    *)
(* the reset of a breaker, and that also when no worker was reached.       *)
(***************************************************************************)

proxyWorker(s, changed, ev) ==
    {Tell(s, 502, ev)} \cup (IF s.worker THEN {Tell(changed, 200, ev)} ELSE {})

ResetCircuitBreaker(a, s, j) ==
    proxyWorker(s, [s EXCEPT !.open = FALSE], Event("circuit_breaker", NoTenant))

PauseQueue(a, s, j) == Refuse(s, {"internal"}) \cup {Answer([s EXCEPT !.halted = TRUE], 200)}
ResumeQueue(a, s, j) == Refuse(s, {"internal"}) \cup {Answer([s EXCEPT !.halted = FALSE], 200)}

CreateJobType(a, s, j) ==
    Refuse(s, {"invalid"}) \cup
    IF s.custom THEN {} ELSE {Answer([s EXCEPT !.custom = TRUE], 201)}
DeleteJobType(a, s, j) == Refuse(s, {"invalid"}) \cup {Answer([s EXCEPT !.custom = FALSE], 204)}

RegisterClient(a, s, j) ==
    Refuse(s, {"tooMany", "invalid", "internal"}) \cup {Answer([s EXCEPT !.client = TRUE], 201)}
RevokeClient(a, s, j) ==
    Refuse(s, {"internal"}) \cup Refuse([s EXCEPT !.client = FALSE], {"internal"})
    \cup {Answer([s EXCEPT !.client = FALSE], 204)}
RotateClientKey(a, s, j) ==
    Refuse(s, {"internal"}) \cup Refuse([s EXCEPT !.client = FALSE], {"internal"})
    \cup {Answer([s EXCEPT !.client = TRUE], 200)}
UpdateClientConfig(a, s, j) == Refuse(s, {"invalid", "internal"}) \cup {Answer(s, 204)}

(* A client's key registers for its own tenant, others name one.           *)
RegisterWebhook(a, s, j) ==
    LET t == IF IsClientTenant(a.tenant) THEN a.tenant ELSE TenantOf[j]
    IN  Refuse(s, {"invalid", "internal"})
        \cup {Answer([s EXCEPT !.hook = [tenant |-> t, rev |-> 1]], 201)}
UpdateWebhook(a, s, j) ==
    Refuse(s, {"invalid", "notFound"}) \cup
    IF s.hook = NoHook THEN {} ELSE {Answer([s EXCEPT !.hook.rev = 3 - @], 200)}
DeleteWebhook(a, s, j) == Refuse(s, {"internal"}) \cup {Answer([s EXCEPT !.hook = NoHook], 204)}

(* What the workers, their breakers and the clock do meanwhile.            *)
WorkerSteps(s) ==
    {[s EXCEPT !.open = ~@], [s EXCEPT !.used = FALSE], [s EXCEPT !.worker = ~@]}
    \cup {SetStatus(s, j, "processing") : j \in {i \in Jobs : s.job[i].st = "pending"}}
    \cup {SetStatus(s, x[1], x[2]) :
             x \in {i \in Jobs : s.job[i].st = "processing"} \X {"completed", "failed"}}

(***************************************************************************)
(* Reads: what a page is shown                                             *)
(***************************************************************************)

Found(a, s) == {j \in Jobs : Exists(s, j) /\ InScope(a, j)}
ListJobs(a, s) == [j \in Found(a, s) |-> s.job[j]]
ListFailedJobs(a, s) == [j \in Found(a, s) \cap Failed(s) |-> s.job[j]]
GetJobStatus(a, s) == ListJobs(a, s)
GetFailedJobDetail(a, s) == ListJobs(a, s)
GetJobDeps(a, s) == [j \in Found(a, s) |-> s.job[j].st]
GetActiveWorkers(s) == s.worker
RateLimitStatus(s) == s.used
CountJobs(a, s, st) == Cardinality({j \in Found(a, s) : s.job[j].st = st})
GetQueueLengths(a, s) == CountJobs(a, s, "pending")
JobStatusCounts(a, s) == [st \in Statuses \ {"none"} |-> CountJobs(a, s, st)]
CountFailedJobs(a, s) == CountJobs(a, s, "failed")
GetStats(a, s) == [pending |-> GetQueueLengths(a, s), count |-> JobStatusCounts(a, s),
                   dlq |-> CountFailedJobs(a, s), worker |-> GetActiveWorkers(s)]
GetRateLimits(s) == RateLimitStatus(s)
GetCircuitBreakers(s) == [reached |-> s.worker, open |-> s.worker /\ s.open]
GetPausedQueues(s) == s.halted
GetWorkers(s) == GetActiveWorkers(s)
ListJobTypes(s) == s.custom
ListClients(s) == s.client
HooksOf(t, s) == IF t \in {NoTenant, s.hook.tenant} THEN s.hook ELSE NoHook
ListWebhooks(a, s) == HooksOf(a.tenant, s)
=============================================================================
