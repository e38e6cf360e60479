------------------------------- MODULE Stores -------------------------------
(* The processes of the system at work on one job store: the methods of    *)
(* JobService that change a record (internal/service/job_service.go), each *)
(* as the sequence of commands the configured backend makes of it          *)
(* (internal/storage/factory.go), with the dual store                      *)
(* (internal/storage/models/dual_store.go) writing Redis and Postgres one  *)
(* after the other. A process opens the store first (Migrations). And the  *)
(* data migration of the CLI (cmd/cli/main.go), which copies the Redis     *)
(* hash into the Postgres table while the others go on.                    *)
EXTENDS StoreBackends, Migrations

CONSTANTS Backends,    \* values of STORE_BACKEND, and "memory"
          MaxCalls,    \* bound: calls of the service
          MaxFaults    \* bound: failed commands and crashes within a call

ASSUME StoresAssumption == MaxCalls \in Nat /\ MaxFaults \in Nat

VARIABLES backend,   \* the configured store
          data,      \* the map of the in-memory store
          hash,      \* the Redis hash
          strings,   \* ids that have a "job:" string key in Redis
          rows,      \* the Postgres table
          call,      \* the call each process is in
          calls, faults,
          (* History.                                                      *)
          used,      \* ids that were ever given to a job
          last,      \* the status a job was last given by a call that returned
          dirty,     \* jobs written while another call held a copy of them
          crossed,   \* jobs that two calls were at work on at once
          torn,      \* jobs of a call that failed or was cut off
          lopsided,  \* jobs written by a method that reaches one store only
          swept,     \* jobs that a purge or the archiving took away
          copied     \* jobs the data migration wrote, not written since on Redis
tables == <<data, hash, strings, rows>>
history == <<used, last, dirty, crossed, torn, lopsided, swept, copied>>
storeVars == <<backend, tables, call, calls, faults, history>>
vars == <<storeVars, migVars>>

(* The table the service reads from.                                       *)
Visible == CASE backend = "memory" -> data [] backend = "redis" -> hash [] OTHER -> rows

Kinds == {"Save", "SaveBatch", "UpdateStatus", "UpdateProgress", "UpdateResult",
          "Pause", "Replay", "Delete", "Purge", "Archive", "Migrate"}
Op(k, S, st, w, t) == [kind |-> k, jobs |-> S, status |-> st, worker |-> w, tenant |-> t]

(* CreateJob, CreateJobBatch, a worker's claim, CancelJob, progress        *)
(* reports, results, pausing (and resuming, which writes the same fields), *)
(* replaying and deleting one job, BulkPurgeDLQ, ArchiveOldJobs; a batch   *)
(* of migrate-jobs, which has Redis and Postgres at hand.                  *)
Operations ==
    {Op("SaveBatch", S, "pending", None, None) : S \in SUBSET Jobs \ {{}}}
    \cup {Op(k, {j}, "pending", None, None) : j \in Jobs,
              k \in {"Save", "UpdateProgress", "Pause", "Replay", "Delete"}}
    \cup {Op("UpdateStatus", {j}, "processing", w, None) : j \in Jobs, w \in Workers}
    \cup {Op("UpdateStatus", {j}, "cancelled", None, None) : j \in Jobs}
    \cup {Op("UpdateResult", {j}, st, w, None) :
              j \in Jobs, w \in Workers, st \in {"completed", "failed", "pending"}}
    \cup {Op("Purge", {j \in Jobs : InScope(j, t)}, "failed", None, t) : t \in Tenants \cup {None}}
    \cup {Op("Archive", Jobs, "completed", None, None)}
    \cup {Op("Migrate", S, "pending", None, None) : S \in SUBSET Jobs \ {{}}}

Fresh(op) == op.kind \in {"Save", "SaveBatch"}
Bulk(op) == op.kind \in {"Purge", "Archive", "Migrate"}
JobOf(op) == CHOOSE j \in op.jobs : TRUE

(* Methods of JobService that read the job before they write it.           *)
ReadsFirst(op) == op.kind \in {"Pause", "Replay", "Delete"}

(* Bug: the dual store writes the primary only.                            *)
DualLegsPrimaryOnly(op) == IF ReadsFirst(op) THEN <<"select", "sql">> ELSE <<"sql">>

(* The commands of a call on the dual store: the secondary (Redis) first,  *)
(* then the primary (Postgres); a batch the other way round.               *)
DualLegs(op) ==
    CASE ReadsFirst(op) -> <<"select", "hset", "sql">>
      [] op.kind = "SaveBatch" -> <<"sql", "hset">>
      [] op.kind = "Save" -> <<"hset", "sql">>
      [] OTHER -> <<"hget", "hset", "sql">>

Legs(op) ==
    CASE op.kind = "Migrate" -> <<"hget", "upsert">>
      [] backend = "memory" -> IF ReadsFirst(op) THEN <<"copy", "put">> ELSE <<"put">>
      [] backend = "redis" -> IF Fresh(op) THEN <<"hset">> ELSE <<"hget", "hset">>
      [] backend = "postgres" -> IF ReadsFirst(op) THEN <<"select", "sql">> ELSE <<"sql">>
      [] backend = "dual" -> DualLegs(op)

NoTable == << >>
Idle == [op |-> Op("none", {}, "pending", None, None), legs |-> << >>, got |-> NoTable]
Busy(c) == call[c].legs # << >>
Leg(c, l) == Busy(c) /\ Head(call[c].legs) = l

TypeOK ==
    /\ backend \in Backends
    /\ data \in Tables /\ hash \in Tables /\ rows \in Tables /\ strings \subseteq Jobs
    /\ \A c \in Procs : Busy(c) => /\ call[c].op \in Operations /\ call[c].got \in Tables
                                   /\ call[c].legs # << >>
    /\ calls \in 0 .. MaxCalls /\ faults \in 0 .. MaxFaults
    /\ last \in [Jobs -> Statuses \cup {"none"}]
    /\ \A S \in {used, dirty, crossed, torn, lopsided, swept, copied} : S \subseteq Jobs
    /\ MigrationsTypeOK

(* InitStore: the Postgres backends have to be opened by every process.    *)
NeedsPostgres == backend \in {"postgres", "dual"}
Ready(c) == NeedsPostgres => IsOpen(c)

Init ==
    /\ backend \in Backends
    /\ MigrationsInit
    /\ data = NoTable /\ hash = NoTable /\ rows = NoTable /\ strings = {}
    /\ call = [c \in Procs |-> Idle] /\ calls = 0 /\ faults = 0
    /\ used = {} /\ last = [j \in Jobs |-> "none"]
    /\ dirty = {} /\ crossed = {} /\ torn = {} /\ lopsided = {} /\ swept = {} /\ copied = {}

(***************************************************************************)
(* One call                                                                *)
(***************************************************************************)

(* Ids are handed out by the call that creates the job.                    *)
Known == used \ UNION {call[d].op.jobs : d \in {d \in Procs : Busy(d) /\ Fresh(call[d].op)}}

Start(c, op) ==
    /\ Ready(c) /\ ~Busy(c) /\ calls < MaxCalls
    /\ op.kind = "Migrate" => backend \in {"redis", "dual"}
    /\ IF Fresh(op) THEN op.jobs \cap used = {} ELSE Bulk(op) \/ op.jobs \subseteq Known
    /\ call' = [call EXCEPT ![c] = [op |-> op, legs |-> Legs(op), got |-> NoTable]]
    /\ calls' = calls + 1
    /\ used' = IF Fresh(op) THEN used \cup op.jobs ELSE used
    /\ crossed' = crossed \cup UNION {op.jobs \cap call[d].op.jobs : d \in {d \in Procs : Busy(d)}}
    /\ UNCHANGED <<backend, tables, faults, last, dirty, torn, lopsided, swept, copied>>

(* What a call that returns tells its caller about the status of its jobs. *)
Told(op) ==
    [j \in Jobs |-> CASE j \notin op.jobs -> last[j]
                      [] op.kind = "Delete" -> "none"
                      [] op.kind \in {"UpdateProgress", "Pause", "Purge", "Archive", "Migrate"} -> last[j]
                      [] OTHER -> op.status]

Return(c) == call' = [call EXCEPT ![c] = Idle] /\ last' = Told(call[c].op)
ReturnError(c) == call' = [call EXCEPT ![c] = Idle] /\ UNCHANGED last
Continue(c, legs, got) ==
    call' = [call EXCEPT ![c].legs = legs, ![c].got = got] /\ UNCHANGED last
Proceed(c) ==
    IF Len(call[c].legs) = 1 THEN Return(c) ELSE Continue(c, Tail(call[c].legs), NoTable)

(* An error of the store: the dual store ignores one of its secondary.     *)
Ignored(c) == /\ backend = "dual" /\ call[c].op.kind # "Migrate"
              /\ Head(call[c].legs) \in {"hget", "hset"}
OnlySql(l) == l = "sql"
Error(c) ==
    IF ~Ignored(c) THEN ReturnError(c)
    ELSE LET rest == SelectSeq(call[c].legs, OnlySql) IN
         IF rest = << >> THEN Return(c) ELSE Continue(c, rest, NoTable)

(* The value held of the jobs of an operation by a read of table t.        *)
Held(op, t) == Restrict(t, op.jobs \cap DOMAIN t)
Read(c, t) ==
    IF Bulk(call[c].op) \/ call[c].op.jobs \subseteq DOMAIN t
    THEN Continue(c, Tail(call[c].legs), Held(call[c].op, t))
    ELSE Error(c)

(* GetByID of the in-memory store, HGET (or the HSCAN or HGETALL of the    *)
(* bulk methods), and GetByID of the Postgres store, which always fails.   *)
Copy(c) == Leg(c, "copy") /\ Read(c, data) /\ UNCHANGED <<tables, faults, dirty, torn, lopsided, swept, copied>>
HGet(c) == Leg(c, "hget") /\ Read(c, hash) /\ UNCHANGED <<tables, faults, dirty, torn, lopsided, swept, copied>>
Select(c) ==
    /\ Leg(c, "select") /\ ~PgGetByID(rows, JobOf(call[c].op)).ok /\ Error(c)
    /\ UNCHANGED <<tables, faults, dirty, torn, lopsided, swept, copied>>

(* The record PauseJob, ResumeJob or ReplayJob makes of the one it read.   *)
Edited(op, r) ==
    IF op.kind = "Replay" THEN [WithStatus(r, "pending", None) EXCEPT !.stale = FALSE]
    ELSE [r EXCEPT !.stale = FALSE]

(* What each backend makes of its table. The ids a bulk method removes are *)
(* those found in the value read, which for Redis is an earlier one.       *)
MemWrite(op, got, t) ==
    LET j == JobOf(op) IN
    CASE op.kind = "Save" -> MemSave(t, j, NewJob)
      [] op.kind = "SaveBatch" -> MemSaveBatch(t, op.jobs)
      [] op.kind = "UpdateStatus" -> MemUpdateStatus(t, j, op.status, op.worker)
      [] op.kind = "UpdateProgress" -> MemUpdateProgress(t, j)
      [] op.kind = "UpdateResult" -> MemUpdateResult(t, j, op.status, op.worker)
      [] op.kind = "Delete" -> MemDeleteJob(t, j)
      [] op.kind = "Purge" -> Drop(t, MemDoomed(t, op.tenant))
      [] op.kind = "Archive" -> Drop(t, MemExpired(t))
      [] OTHER -> MemSave(t, j, Edited(op, got[j]))

RedisRemoved(op, got) ==
    CASE op.kind = "Purge" -> RedisDoomed(got, op.tenant)
      [] op.kind = "Archive" -> RedisExpired(got)
      [] op.kind = "Migrate" -> {}
RedisWrite(op, got, t) ==
    LET j == JobOf(op) IN
    CASE op.kind = "Save" -> RedisSave(t, j, NewJob)
      [] op.kind = "SaveBatch" -> t
      [] op.kind = "UpdateStatus" -> RedisSave(t, j, RedisUpdateStatus(got[j], op.status, op.worker))
      [] op.kind = "UpdateProgress" -> RedisSave(t, j, RedisUpdateProgress(got[j]))
      [] op.kind = "UpdateResult" -> RedisSave(t, j, RedisUpdateResult(got[j], op.status, op.worker))
      [] op.kind = "Delete" -> RedisDeleteJob(t, j)
      [] Bulk(op) -> Drop(t, RedisRemoved(op, got))
      [] OTHER -> RedisSave(t, j, Edited(op, got[j]))

PgWrite(op, t) ==
    LET j == JobOf(op) IN
    CASE op.kind = "Save" -> PgSave(t, j, NewJob)
      [] op.kind = "SaveBatch" -> PgSaveBatch(t, op.jobs)
      [] op.kind = "UpdateStatus" -> PgUpdateStatus(t, j, op.status, op.worker)
      [] op.kind = "UpdateProgress" -> PgUpdateProgress(t, j)
      [] op.kind = "UpdateResult" -> PgUpdateResult(t, j, op.status, op.worker)
      [] op.kind = "Delete" -> PgDeleteJob(t, j)
      [] op.kind = "Purge" -> Drop(t, PgDoomed(t, op.tenant))
      [] op.kind = "Archive" -> Drop(t, PgExpired(t))

(* Another call is about to write j, or to remove it, from what it read.   *)
HeldElsewhere(c, j) ==
    \E d \in Procs \ {c} :
        /\ Busy(d) /\ j \in DOMAIN call[d].got
        /\ Bulk(call[d].op) => j \in RedisRemoved(call[d].op, call[d].got)

(* Bookkeeping of a command of c that turned table t into t2.              *)
Wrote(c, t, t2) ==
    LET op == call[c].op
        changed == IF Bulk(op) THEN DOMAIN t \ DOMAIN t2 ELSE op.jobs IN
    /\ dirty' = dirty \cup {j \in changed : HeldElsewhere(c, j)}
    /\ swept' = IF Bulk(op) THEN swept \cup changed ELSE swept
    /\ copied' = IF backend = "redis" THEN copied \ changed ELSE copied

(* Update methods report ErrJobNotFound when there is no record.           *)
Hits(op, t) == Fresh(op) \/ Bulk(op) \/ ReadsFirst(op) \/ op.jobs \subseteq DOMAIN t

(* The command was carried out; its reply arrives, or it does not.         *)
Reply(c, hits) ==
    \/ IF hits THEN Proceed(c) /\ UNCHANGED <<faults, torn>> ELSE Error(c) /\ UNCHANGED <<faults, torn>>
    \/ /\ faults < MaxFaults /\ faults' = faults + 1
       /\ Error(c)
       /\ torn' = torn \cup call[c].op.jobs

PutRecord(c) ==
    /\ Leg(c, "put")
    /\ data' = MemWrite(call[c].op, call[c].got, data)
    /\ Wrote(c, data, data')
    /\ IF Hits(call[c].op, data) THEN Proceed(c) ELSE Error(c)
    /\ UNCHANGED <<hash, strings, rows, faults, torn, lopsided>>

HSet(c) ==
    /\ Leg(c, "hset")
    /\ hash' = RedisWrite(call[c].op, call[c].got, hash)
    /\ strings' = IF call[c].op.kind = "SaveBatch" THEN RedisSaveBatch(strings, call[c].op.jobs)
                  ELSE strings
    /\ lopsided' = IF call[c].op.kind = "SaveBatch" THEN lopsided \cup call[c].op.jobs
                   ELSE IF backend = "dual" /\ call[c].op.kind = "Archive"
                        THEN lopsided \cup (DOMAIN hash \ DOMAIN hash') ELSE lopsided
    /\ Wrote(c, hash, hash')
    /\ Reply(c, TRUE)
    /\ UNCHANGED <<data, rows>>

Sql(c) ==
    /\ Leg(c, "sql")
    /\ rows' = PgWrite(call[c].op, rows)
    /\ Wrote(c, rows, rows')
    /\ IF call[c].op.kind = "Archive" THEN Error(c) /\ UNCHANGED <<faults, torn>>
       ELSE Reply(c, Hits(call[c].op, rows))
    /\ UNCHANGED <<data, hash, strings, lopsided>>

(* migrate-jobs saves the values HSCAN gave it one by one, in that order.  *)
(* One that cannot be saved is logged and left out.                        *)
Upsert(c) ==
    LET got == call[c].got
        j == SelectSeq(HashOrder, LAMBDA i : i \in DOMAIN got)[1] IN
    /\ Leg(c, "upsert")
    /\ IF got = NoTable THEN Return(c) /\ UNCHANGED <<rows, faults, torn, copied>>
       ELSE /\ Continue(c, call[c].legs, Drop(got, {j}))
            /\ \/ /\ rows' = PgSave(rows, j, got[j])
                  /\ copied' = copied \cup {j}
                  /\ UNCHANGED <<faults, torn>>
               \/ /\ faults < MaxFaults /\ faults' = faults + 1
                  /\ torn' = torn \cup {j}
                  /\ UNCHANGED <<rows, copied>>
    /\ UNCHANGED <<data, hash, strings, dirty, lopsided, swept>>

(***************************************************************************)
(* Faults and time                                                         *)
(***************************************************************************)

(* A command is not carried out: Redis or Postgres cannot be reached.      *)
CommandFails(c) ==
    /\ Busy(c) /\ backend # "memory" /\ ~Leg(c, "upsert")
    /\ faults < MaxFaults /\ faults' = faults + 1
    /\ Error(c)
    /\ torn' = IF backend = "dual" THEN torn \cup call[c].op.jobs ELSE torn
    /\ UNCHANGED <<tables, dirty, lopsided, swept, copied>>

(* The process dies within a call.                                         *)
Crash(c) ==
    /\ Busy(c) /\ backend # "memory"
    /\ faults < MaxFaults /\ faults' = faults + 1
    /\ ReturnError(c)
    /\ torn' = torn \cup call[c].op.jobs
    /\ UNCHANGED <<tables, dirty, lopsided, swept, copied>>

(* The records nobody touches grow older than the retention time.          *)
Aged(t) == [j \in DOMAIN t |-> [t[j] EXCEPT !.stale = TRUE]]
TimePasses ==
    /\ \A c \in Procs : ~Busy(c)
    /\ data' = Aged(data) /\ hash' = Aged(hash) /\ rows' = Aged(rows)
    /\ UNCHANGED <<backend, strings, call, calls, faults, history>>

Step(c) ==
    /\ \/ Copy(c) \/ HGet(c) \/ Select(c) \/ PutRecord(c) \/ HSet(c) \/ Sql(c)
       \/ Upsert(c) \/ CommandFails(c) \/ Crash(c)
    /\ UNCHANGED <<backend, calls, used, crossed>>

(* Opening the store touches none of the tables, so it commutes with the   *)
(* calls of other processes: all the openings are taken first.             *)
AllSettled == NeedsPostgres => \A p \in Procs : ~Opening(p)
Next ==
    \/ /\ AllSettled
       /\ \/ \E c \in Procs : Step(c) \/ \E op \in Operations : Start(c, op)
          \/ TimePasses
       /\ UNCHANGED migVars
    \/ /\ NeedsPostgres /\ calls = 0
       /\ MigNext
       /\ UNCHANGED storeVars

Spec == Init /\ [][Next]_vars

(***************************************************************************)
(* Properties                                                              *)
(***************************************************************************)

Quiet(j) == \A c \in Procs : Busy(c) => j \notin call[c].op.jobs

(* While no call is at work on it, a job has in the store the status that  *)
(* the last returned call gave it, and no call ever takes away a job that  *)
(* has not finished. Postgres promises this whatever runs at once; Redis   *)
(* and the in-memory store only while nobody writes a job between another  *)
(* call's read and its write. A job of a batch is not found in Redis. The  *)
(* data migration puts a job back to an earlier status only if it, or two  *)
(* calls before it, were at work on the job at once.                       *)
LastWriteStands ==
    \A j \in Jobs :
        Quiet(j) =>
            \/ j \in DOMAIN Visible /\ Visible[j].status = last[j]
            \/ j \notin DOMAIN Visible /\ (last[j] = "none" \/ (j \in swept /\ last[j] \in Finished))
            \/ j \in dirty /\ ~NeedsPostgres
            \/ j \in torn
            \/ j \in lopsided /\ backend = "redis"
            \/ j \in copied \cap crossed /\ backend = "dual"

(* The dual store keeps Redis in step with Postgres: while no call is at   *)
(* work on a job, both have it with the same status, worker and progress.  *)
(* What breaks this is a command that failed, two calls on one job at      *)
(* once, the batch, which the hash never sees, and the archiving, which    *)
(* works in Redis only. The data migration copies the status (on either    *)
(* backend), never the worker.                                             *)
MirrorAgrees ==
    \A j \in Jobs \ (torn \cup crossed \cup lopsided) :
        Quiet(j) /\ (backend = "dual" \/ j \in copied) =>
            /\ j \in DOMAIN hash <=> j \in DOMAIN rows
            /\ j \in DOMAIN rows => /\ hash[j].status = rows[j].status
                                    /\ j \notin copied => hash[j] = rows[j]

(* Paging through SearchJobs (the job list) or ListJobs (the dead letter   *)
(* queue) with the number of jobs CountJobs reports shows every job that   *)
(* matches once; or the page cannot be read at all. The queue lengths the  *)
(* statistics add up are the counts of pending jobs.                       *)
SearchJobs(f, limit, offset) ==
    CASE backend = "memory" -> MemSearchJobs(data, f, limit, offset)
      [] backend = "redis" -> RedisSearchJobs(hash, f, limit, offset)
      [] OTHER -> PgSearchJobs(rows, f, limit, offset)
ListJobs(f, limit, offset) ==
    CASE backend = "memory" -> MemListJobs(data, f, limit, offset)
      [] backend = "redis" -> RedisListJobs(hash, f, limit, offset)
      [] OTHER -> PgListJobs(rows, f, limit, offset)
CountJobs(f) ==
    CASE backend = "memory" -> MemCountJobs(data, f)
      [] backend = "redis" -> RedisCountJobs(hash, f)
      [] OTHER -> PgCountJobs(rows, f)
GetQueueLengths ==
    CASE backend = "memory" -> MemGetQueueLengths(data)
      [] backend = "redis" -> RedisGetQueueLengths(hash)
      [] OTHER -> PgGetQueueLengths(rows)
ShowsAll(f, limit, page) ==
    LET offsets == {o \in 0 .. CountJobs(f) : o % limit = 0 /\ o < CountJobs(f)} IN
    \/ \E o \in offsets : ~page[o].ok
    \/ \A j \in Matches(f, Visible) :
           Cardinality({o \in offsets : j \in ToSet(page[o].val)}) = 1
PagesShowAll ==
    (\A c \in Procs : ~Busy(c)) =>
        /\ \A f \in Filters, limit \in 1 .. Cardinality(Jobs) :
              /\ ShowsAll(f, limit, [o \in 0 .. Cardinality(Jobs) |-> SearchJobs(f, limit, o)])
              /\ ShowsAll(f, limit, [o \in 0 .. Cardinality(Jobs) |-> ListJobs(f, limit, o)])
        /\ \A y \in Types, t \in Tenants :
              GetQueueLengths[<<y, t>>] = CountJobs([tenant |-> t, status |-> "pending", type |-> y])
=============================================================================
