--------------------------- MODULE StoreBackends ---------------------------
(* The three job stores behind models.Store, as operators on a table: a    *)
(* function from the ids that have a record to their records.              *)
(*   Mem...    InMemoryStore (internal/storage/models/models.go)           *)
(*   Redis...  RedisStore    (same file): one JSON value per id in a hash  *)
(*   Pg...     PostgresStore (internal/storage/postgres/postgres.go)       *)
(* A method of the in-memory store runs under its mutex and a method of    *)
(* the Postgres store is one SQL statement, so each is a function from a   *)
(* table to a table. The Redis store reads a value and writes it back in   *)
(* two commands; its operators give what the second one writes.            *)
EXTENDS Naturals, FiniteSets, Sequences, SequencesExt, Functions, TLC

CONSTANTS Jobs, Tenants, Types, Workers,
          None,       \* the empty string, as a worker id or as a filter
          TenantOf,   \* tenant of each job
          TypeOf,     \* type of each job
          HashOrder   \* the order in which Redis walks the hash

(* Jobs are numbered in the order they were created.                       *)
ASSUME JobsAssumption ==
    /\ Jobs \subseteq Nat /\ IsFiniteSet(Jobs)
    /\ TenantOf \in [Jobs -> Tenants] /\ TypeOf \in [Jobs -> Types]
    /\ HashOrder \in [1 .. Cardinality(Jobs) -> Jobs]
    /\ \A j \in Jobs : \E i \in DOMAIN HashOrder : HashOrder[i] = j

Finished == {"completed", "failed", "cancelled"}
Statuses == Finished \cup {"pending", "processing"}

(* What the properties tell apart of a job record. "stale" stands for an   *)
(* updated_at before the cutoff of ArchiveOldJobs.                         *)
Record == [status: Statuses, processedBy: Workers \cup {None}, progress: 0 .. 1, stale: BOOLEAN]
Tables == UNION {[S -> Record] : S \in SUBSET Jobs}

(* jobs.NewJob.                                                            *)
NewJob == [status |-> "pending", processedBy |-> None, progress |-> 0, stale |-> FALSE]

(* The id j holds r; j is gone; the fields of an existing j are replaced.  *)
Put(t, j, r) == (j :> r) @@ t
Drop(t, S) == Restrict(t, DOMAIN t \ S)
Alter(t, j, r) == IF j \in DOMAIN t THEN [t EXCEPT ![j] = r] ELSE t

(***************************************************************************)
(* Changes of one record                                                   *)
(***************************************************************************)

WithStatus(r, st, w) == [r EXCEPT !.status = st, !.processedBy = w]

(* The in-memory UpdateStatus leaves UpdatedAt alone.                      *)
MemSave(t, j, r) == Put(t, j, r)
MemSaveBatch(t, S) == [j \in S |-> NewJob] @@ t
MemUpdateStatus(t, j, st, w) == Alter(t, j, WithStatus(t[j], st, w))
MemUpdateProgress(t, j) == Alter(t, j, [t[j] EXCEPT !.progress = 1, !.stale = FALSE])
MemUpdateResult(t, j, st, w) ==
    Alter(t, j, [WithStatus(t[j], st, w) EXCEPT !.stale = FALSE])
MemDeleteJob(t, j) == Drop(t, {j})

(* The value HSET writes, from the value HGET read.                        *)
RedisSave(t, j, r) == Put(t, j, r)
RedisUpdateStatus(got, st, w) == [WithStatus(got, st, w) EXCEPT !.stale = FALSE]
RedisUpdateProgress(got) == [got EXCEPT !.progress = 1, !.stale = FALSE]
RedisUpdateResult(got, st, w) == [WithStatus(got, st, w) EXCEPT !.stale = FALSE]
RedisDeleteJob(t, j) == Drop(t, {j})

(* SaveBatch of the Redis store sets one string key per job, "job:" and    *)
(* the id, which no other method reads; the hash keeps no record of them.  *)
RedisSaveBatch(strings, S) == strings \cup S

(* The upsert: an existing row takes the new status and keeps its          *)
(* progress. The row has no worker: the column is not in the INSERT.       *)
PgSave(t, j, r) ==
    IF j \in DOMAIN t
    THEN [t EXCEPT ![j].status = r.status, ![j].processedBy = None, ![j].stale = FALSE]
    ELSE Put(t, j, [r EXCEPT !.processedBy = None, !.stale = FALSE])

(* One INSERT of all rows: it fails as a whole if an id exists.            *)
PgSaveBatch(t, S) == IF S \cap DOMAIN t = {} THEN [j \in S |-> NewJob] @@ t ELSE t
PgUpdateStatus(t, j, st, w) == Alter(t, j, [WithStatus(t[j], st, w) EXCEPT !.stale = FALSE])
PgUpdateProgress(t, j) == Alter(t, j, [t[j] EXCEPT !.progress = 1, !.stale = FALSE])
PgUpdateResult(t, j, st, w) == Alter(t, j, [WithStatus(t[j], st, w) EXCEPT !.stale = FALSE])
PgDeleteJob(t, j) == Drop(t, {j})

(***************************************************************************)
(* Removal of many records                                                 *)
(***************************************************************************)

(* DeleteJobsBefore(tenant, "failed", "", now), as BulkPurgeDLQ calls it,  *)
(* and ArchiveOldJobs: the ids to be removed from t.                       *)
InScope(j, tenant) == tenant \in {None, TenantOf[j]}
MemDoomed(t, tenant) == {j \in DOMAIN t : InScope(j, tenant) /\ t[j].status = "failed"}
RedisDoomed(t, tenant) == {j \in DOMAIN t : InScope(j, tenant) /\ t[j].status = "failed"}
PgDoomed(t, tenant) == {j \in DOMAIN t : InScope(j, tenant) /\ t[j].status = "failed"}

MemExpired(t) == {j \in DOMAIN t : t[j].status \in Finished /\ t[j].stale}

(* Bug: the status is not looked at.                                       *)
RedisExpiredAnyStatus(t) == {j \in DOMAIN t : t[j].stale}
RedisExpired(t) == {j \in DOMAIN t : t[j].status \in Finished /\ t[j].stale}

(* INSERT INTO jobs_archive SELECT * FROM moved: the rows carry columns    *)
(* that jobs_archive (migration 005) does not have, so the statement fails *)
(* and its DELETE is undone.                                               *)
PgExpired(t) == {}

(***************************************************************************)
(* Reads                                                                   *)
(***************************************************************************)

Filters == [tenant: Tenants \cup {None}, status: Statuses \cup {None}, type: Types \cup {None}]
Matches(f, t) == {j \in DOMAIN t : /\ f.tenant \in {None, TenantOf[j]}
                                   /\ f.status \in {None, t[j].status}
                                   /\ f.type \in {None, TypeOf[j]}}
Newer(a, b) == a > b
Page(s, limit, offset) == SubSeq(s, offset + 1, IF limit <= 0 \/ offset + limit > Len(s)
                                                THEN Len(s) ELSE offset + limit)

(* Pending jobs by type and tenant.                                        *)
Pending(t) ==
    [x \in Types \X Tenants |-> Cardinality({j \in DOMAIN t : /\ t[j].status = "pending"
                                                             /\ <<TypeOf[j], TenantOf[j]>> = x})]

(* What a read returns.                                                    *)
Found(x) == [ok |-> TRUE, val |-> x]
Failed == [ok |-> FALSE, val |-> << >>]

MemListJobs(t, f, limit, offset) ==
    Found(Page(SetToSortSeq(Matches(f, t), Newer), limit, offset))
MemSearchJobs(t, f, limit, offset) ==
    Found(Page(SetToSortSeq(Matches(f, t), Newer), IF limit <= 0 THEN 20 ELSE limit, offset))
MemCountJobs(t, f) == Cardinality(Matches(f, t))
MemGetQueueLengths(t) == Pending(t)

(* Bug: the record that ends the skipping is skipped too.                  *)
RedisListJobsSkipsOne(t, f, limit, offset) ==
    LET walked == SelectSeq(HashOrder, LAMBDA j : j \in Matches(f, t)) IN
    Found(SetToSortSeq(ToSet(Page(walked, limit, IF offset = 0 THEN 0 ELSE offset + 1)), Newer))

(* HSCAN: skip the first matches, take a page of the following, and sort   *)
(* the page by creation time.                                              *)
RedisListJobs(t, f, limit, offset) ==
    LET walked == SelectSeq(HashOrder, LAMBDA j : j \in Matches(f, t)) IN
    Found(SetToSortSeq(ToSet(Page(walked, limit, offset)), Newer))
RedisSearchJobs(t, f, limit, offset) == RedisListJobs(t, f, limit, offset)
RedisCountJobs(t, f) == Cardinality(Matches(f, t))
RedisGetQueueLengths(t) == Pending(t)

(* Every query selects another number of columns than Scan has             *)
(* destinations for (29 for 28 in GetByID, 27 for 26 through scanJobs): it *)
(* fails as soon as there is a row to scan. A count has one column.        *)
PgGetByID(t, j) == Failed
PgScanJobs(s) == IF s = << >> THEN Found(s) ELSE Failed
PgListJobs(t, f, limit, offset) ==
    PgScanJobs(Page(SetToSortSeq(Matches(f, t), Newer), limit, offset))
PgSearchJobs(t, f, limit, offset) == PgListJobs(t, f, limit, offset)
PgCountJobs(t, f) == Cardinality(Matches(f, t))
PgGetQueueLengths(t) == Pending(t)
=============================================================================
