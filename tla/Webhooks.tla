------------------------------ MODULE Webhooks ------------------------------
(***************************************************************************)
(* Webhook notifications: the registry of tenant webhooks                  *)
(* (internal/webhooks/store.go), the publication of job events by the API  *)
(* and by the workers (internal/service/job_service.go), and the dispatcher*)
(* that every worker process runs (internal/webhooks/dispatcher.go).       *)
(*                                                                         *)
(* Events travel through one Redis stream read by one consumer group.  A   *)
(* message is a job, an event and the target it goes to; its id is its     *)
(* place in the stream.  All jobs and hooks are of one tenant.             *)
(***************************************************************************)
EXTENDS Integers, FiniteSets, SequencesExt

CONSTANTS Jobs,
          Hooks,            \* tenant webhooks, registered through the API
          OwnHook,          \* target of a job's own webhook configuration
          JobEvents,        \* [Jobs -> SUBSET Events], events of that configuration
          HookEvents,       \* [Hooks -> SUBSET Events]
          Dispatchers,      \* worker processes
          Editors,          \* concurrent PUT /webhooks requests
          None,
          MaxRetries,       \* DispatcherConfig.MaxRetries
          ReadCount,        \* Count of XREADGROUP
          MaxDeliveriesPerURL,
          MaxCrashes,       \* bound: crashes and failed writes of the delivery history
          MaxEdits,         \* bound: updates of webhooks
          MaxRuns           \* executions of a job: the queue may run it again

Events  == {"created", "completed", "failed"}
Targets == Hooks \cup {OwnHook}

ASSUME WebhooksAssumption ==
  /\ OwnHook \notin Hooks /\ None \notin Targets \cup Dispatchers
  /\ JobEvents \in [Jobs -> SUBSET Events] /\ HookEvents \in [Hooks -> SUBSET Events]
  /\ {MaxRetries, ReadCount, MaxDeliveriesPerURL} \subseteq Nat \ {0}
  /\ {MaxCrashes, MaxEdits, MaxRuns} \subseteq Nat

VARIABLES registered,   \* hooks in task_queue:webhooks:registered
          editing,      \* hook an Update has read and not yet written
          state,        \* status of a job in the store
          outbox,       \* per job and publisher: events collected, still to be sent
          stream,       \* task_queue:webhooks:stream
          cursor,       \* last id the group has delivered, -1 before it exists
          pending,      \* ids delivered to the consumer and not acknowledged
          running,      \* dispatchers whose loop runs
          task,         \* per message: the dispatch goroutine
          attempts,     \* per message: outcomes of its sends, oldest first
          deliveries    \* per target: the delivery history, newest first

(* History.                                                                *)
VARIABLES ends,         \* per job: the statuses it ended with, oldest first
          gone,         \* hooks deleted while no Update of them was in flight
          since,        \* last id before the group existed
          orphaned,     \* messages whose dispatcher died
          crashes, edits

registryVars == <<registered, editing, gone, edits>>
jobVars      == <<state, outbox, ends>>
groupVars    == <<cursor, pending, since>>
vars == <<registryVars, jobVars, stream, groupVars, running, task, attempts, deliveries,
          orphaned, crashes>>

Messages   == [job : Jobs, event : Events, target : Targets]
Ids        == 1 .. Len(stream)
Outcomes   == {"ok", "clientError", "error"}
DeliveryRecord == [msg : Nat, attempt : 1 .. MaxRetries, outcome : Outcomes]
Idle       == [by |-> None, at |-> "none"]
Publishers == {"api", "worker"}
MaxIds     == Cardinality({<<j, h>> \in Jobs \X Hooks : "created" \in HookEvents[h]})
              + Cardinality({j \in Jobs : "created" \in JobEvents[j]})
              + MaxRuns * Cardinality({j \in Jobs : JobEvents[j] # {}})

(* The registry, the stream and its consumer group, and what becomes of    *)
(* each message in the dispatchers.                                        *)
TypeOK ==
  /\ registered \subseteq Hooks
  /\ editing \in [Editors -> Hooks \cup {None}]
  /\ state \in [Jobs -> {"absent", "pending", "completed", "failed"}]
  /\ outbox \in [Jobs -> [Publishers -> SUBSET Messages]]
  /\ stream \in Seq(Messages)
  /\ cursor \in -1 .. Len(stream) /\ since \in 0 .. Len(stream) /\ pending \subseteq Ids
  /\ running \subseteq Dispatchers
  /\ task \in [1 .. MaxIds -> [by : Dispatchers \cup {None},
                               at : {"none", "send", "ack", "done", "dead"}]]
  /\ attempts \in [1 .. MaxIds -> Seq(Outcomes)]
  /\ deliveries \in [Targets -> Seq(DeliveryRecord)]
  /\ ends \in [Jobs -> Seq({"completed", "failed"})]
  /\ gone \subseteq Hooks /\ orphaned \subseteq Ids
  /\ crashes \in 0 .. MaxCrashes /\ edits \in 0 .. MaxEdits

Init ==
  /\ registered = {} /\ editing = [e \in Editors |-> None]
  /\ state = [j \in Jobs |-> "absent"]
  /\ outbox = [j \in Jobs |-> [p \in Publishers |-> {}]]
  /\ stream = << >> /\ cursor = -1 /\ since = 0 /\ pending = {}
  /\ running = {} /\ task = [m \in 1 .. MaxIds |-> Idle]
  /\ attempts = [m \in 1 .. MaxIds |-> << >>]
  /\ deliveries = [t \in Targets |-> << >>]
  /\ ends = [j \in Jobs |-> << >>]
  /\ gone = {} /\ orphaned = {} /\ crashes = 0 /\ edits = 0

-----------------------------------------------------------------------------
(* The registry.                                                           *)

Edit == edits < MaxEdits /\ edits' = edits + 1

unchangedByRegistry == <<jobVars, stream, groupVars, running, task, attempts, deliveries, orphaned, crashes>>

(* A new registration has a fresh id, so a deleted hook is not created     *)
(* again.                                                                  *)
Create(h) ==
  /\ h \notin registered \cup gone /\ \A e \in Editors : editing[e] # h
  /\ registered' = registered \cup {h}
  /\ UNCHANGED <<editing, gone, edits, unchangedByRegistry>>

(* Bug: Update does not look whether the hook exists.                      *)
UpdateReadUnchecked(e, h) ==
  /\ editing[e] = None
  /\ Edit
  /\ editing' = [editing EXCEPT ![e] = h]
  /\ UNCHANGED <<registered, gone, unchangedByRegistry>>

(* Update reads the registration first and fails when there is none ...    *)
UpdateRead(e, h) ==
  /\ editing[e] = None /\ h \in registered
  /\ Edit
  /\ editing' = [editing EXCEPT ![e] = h]
  /\ UNCHANGED <<registered, gone, unchangedByRegistry>>

(* ... and writes it back whole, whatever happened to it since.            *)
UpdateWrite(e) ==
  /\ editing[e] # None
  /\ registered' = registered \cup {editing[e]}
  /\ editing' = [editing EXCEPT ![e] = None]
  /\ UNCHANGED <<gone, edits, unchangedByRegistry>>

Delete(h) ==
  /\ h \in registered
  /\ registered' = registered \ {h}
  /\ gone' = IF \E e \in Editors : editing[e] = h THEN gone ELSE gone \cup {h}
  /\ UNCHANGED <<editing, edits, unchangedByRegistry>>

-----------------------------------------------------------------------------
(* Publication.                                                            *)

OwnTargets(j, event) == IF event \in JobEvents[j] THEN {OwnHook} ELSE {}
Match(event)         == {h \in registered : event \in HookEvents[h]}
Notes(j, event, ts)  == {[job |-> j, event |-> event, target |-> t] : t \in ts}

unchangedByJobs == <<registryVars, groupVars, running, task, attempts, deliveries, orphaned, crashes>>

(* CreateJob has saved and enqueued the job; the service of the API        *)
(* collects the targets of "created" from the job and from the registry.   *)
CreateJob(j) ==
  /\ state[j] = "absent"
  /\ state' = [state EXCEPT ![j] = "pending"]
  /\ outbox' = [outbox EXCEPT ![j]["api"] =
                  Notes(j, "created", OwnTargets(j, "created") \cup Match("created"))]
  /\ UNCHANGED <<ends, stream, unchangedByJobs>>

(* Bug: what the previous execution had to publish is published again.     *)
UpdateJobResultRepeats(j, status) ==
  /\ state[j] # "absent" /\ outbox[j]["worker"] = {} /\ Len(ends[j]) < MaxRuns
  /\ state' = [state EXCEPT ![j] = status]
  /\ ends' = [ends EXCEPT ![j] = Append(@, status)]
  /\ outbox' = [outbox EXCEPT ![j]["worker"] =
                  UNION {Notes(j, e, OwnTargets(j, e)) : e \in Range(ends'[j])}]
  /\ UNCHANGED <<stream, unchangedByJobs>>

(* UpdateJobResult runs in a worker process, at the end of every execution *)
(* of the job.  Its service has no registry (cmd/worker never calls        *)
(* SetWebhookStore), so that only the job's own webhook is a target.       *)
UpdateJobResult(j, status) ==
  /\ state[j] # "absent" /\ outbox[j]["worker"] = {} /\ Len(ends[j]) < MaxRuns
  /\ state' = [state EXCEPT ![j] = status]
  /\ ends' = [ends EXCEPT ![j] = Append(@, status)]
  /\ outbox' = [outbox EXCEPT ![j]["worker"] = Notes(j, status, OwnTargets(j, status))]
  /\ UNCHANGED <<stream, unchangedByJobs>>

PublishWebhookEvent(j, p, msg) ==
  /\ msg \in outbox[j][p]
  /\ stream' = Append(stream, msg)
  /\ outbox' = [outbox EXCEPT ![j][p] = @ \ {msg}]
  /\ UNCHANGED <<state, ends, unchangedByJobs>>

(* The process dies between two publications.                              *)
PublisherCrash(j, p) ==
  /\ outbox[j][p] # {} /\ crashes < MaxCrashes
  /\ outbox' = [outbox EXCEPT ![j][p] = {}]
  /\ crashes' = crashes + 1
  /\ UNCHANGED <<state, ends, stream, registryVars, groupVars, running, task, attempts, deliveries, orphaned>>

-----------------------------------------------------------------------------
(* The dispatcher.                                                         *)

unchangedByDispatch == <<registryVars, jobVars, stream>>

(* XGROUP CREATE ... $: the group starts at the end of the stream; the     *)
(* error of a second creation is ignored.                                  *)
Start(d) ==
  /\ d \notin running
  /\ running' = running \cup {d}
  /\ IF cursor = -1 THEN cursor' = Len(stream) /\ since' = Len(stream)
                    ELSE UNCHANGED <<cursor, since>>
  /\ UNCHANGED <<pending, task, attempts, deliveries, orphaned, crashes, unchangedByDispatch>>

(* Bug: no goroutine is started for the last message of a batch.           *)
XReadGroupSkipsLast(d) ==
  /\ d \in running /\ cursor < Len(stream)
  /\ LET last == IF cursor + ReadCount < Len(stream) THEN cursor + ReadCount ELSE Len(stream)
         new  == (cursor + 1) .. last - 1
     IN  /\ cursor' = last
         /\ pending' = pending \cup new
         /\ task' = [m \in DOMAIN task |-> IF m \in new THEN [Idle EXCEPT !.by = d, !.at = "send"]
                                                        ELSE task[m]]
  /\ UNCHANGED <<since, running, attempts, deliveries, orphaned, crashes, unchangedByDispatch>>

(* XREADGROUP >: up to ReadCount new messages, one goroutine for each.     *)
XReadGroup(d) ==
  /\ d \in running /\ cursor < Len(stream)
  /\ LET last == IF cursor + ReadCount < Len(stream) THEN cursor + ReadCount ELSE Len(stream)
         new  == (cursor + 1) .. last
     IN  /\ cursor' = last
         /\ pending' = pending \cup new
         /\ task' = [m \in DOMAIN task |-> IF m \in new THEN [Idle EXCEPT !.by = d, !.at = "send"]
                                                        ELSE task[m]]
  /\ UNCHANGED <<since, running, attempts, deliveries, orphaned, crashes, unchangedByDispatch>>

(* Bug: a client error is retried like any other.                          *)
AfterAttemptRetriesAll(a) ==
  IF Last(a) = "ok" \/ Len(a) = MaxRetries THEN "ack" ELSE "send"

(* Success and client errors are final, another error is retried, after a  *)
(* backoff, while attempts are left.                                       *)
AfterAttempt(a) ==
  IF Last(a) \in {"ok", "clientError"} \/ Len(a) = MaxRetries THEN "ack" ELSE "send"

(* LPUSH and LTRIM in one transaction.  A failure is logged and no more.   *)
RecordDelivery(t, rec) ==
  \/ /\ deliveries' = [deliveries EXCEPT ![t] =
                         LET all == <<rec>> \o @
                         IN  IF Len(all) > MaxDeliveriesPerURL THEN Front(all) ELSE all]
     /\ UNCHANGED crashes
  \/ /\ crashes < MaxCrashes /\ crashes' = crashes + 1
     /\ UNCHANGED deliveries

(* What GET /webhooks/{id}/deliveries shows.                               *)
ListDeliveries(t, limit) ==
  LET most == IF limit <= 0 \/ limit > MaxDeliveriesPerURL THEN MaxDeliveriesPerURL ELSE limit
  IN  SubSeq(deliveries[t], 1, IF Len(deliveries[t]) < most THEN Len(deliveries[t]) ELSE most)

(* One attempt: the POST, its record and the decision what to do next.     *)
Send(m, result) ==
  /\ task[m].at = "send"
  /\ attempts' = [attempts EXCEPT ![m] = Append(@, result)]
  /\ RecordDelivery(stream[m].target, [msg |-> m, attempt |-> Len(attempts'[m]), outcome |-> result])
  /\ task' = [task EXCEPT ![m].at = AfterAttempt(attempts'[m])]
  /\ UNCHANGED <<groupVars, running, orphaned, unchangedByDispatch>>

XAck(m) ==
  /\ task[m].at = "ack"
  /\ pending' = pending \ {m}
  /\ task' = [task EXCEPT ![m].at = "done"]
  /\ UNCHANGED <<cursor, since, running, attempts, deliveries, orphaned, crashes, unchangedByDispatch>>

TasksOf(d) == {m \in DOMAIN task : task[m].by = d /\ task[m].at \in {"send", "ack"}}

(* A crash, or cancelWebhooks at shutdown: the goroutines end, what they   *)
(* had not acknowledged stays pending and no dispatcher reads it again.    *)
Stop(d) ==
  /\ d \in running /\ crashes < MaxCrashes
  /\ crashes' = crashes + 1
  /\ running' = running \ {d}
  /\ task' = [m \in DOMAIN task |-> IF m \in TasksOf(d) THEN [task[m] EXCEPT !.at = "dead"] ELSE task[m]]
  /\ orphaned' = orphaned \cup TasksOf(d)
  /\ UNCHANGED <<groupVars, attempts, deliveries, unchangedByDispatch>>

-----------------------------------------------------------------------------
Publish == \E j \in Jobs, p \in Publishers : \E msg \in outbox[j][p] : PublishWebhookEvent(j, p, msg)

Dispatch(m) == (\E r \in Outcomes : Send(m, r)) \/ XAck(m)

Next ==
  \/ \E h \in Hooks : Create(h) \/ Delete(h)
  \/ \E e \in Editors : UpdateWrite(e) \/ \E h \in Hooks : UpdateRead(e, h)
  \/ \E j \in Jobs : CreateJob(j) \/ \E s \in {"completed", "failed"} : UpdateJobResult(j, s)
  \/ Publish
  \/ \E j \in Jobs, p \in Publishers : PublisherCrash(j, p)
  \/ \E d \in Dispatchers : Start(d) \/ XReadGroup(d) \/ Stop(d)
  \/ \E m \in DOMAIN task : Dispatch(m)

Spec == Init /\ [][Next]_vars

(* Processes make their next call, and worker processes are started again. *)
Fairness ==
  /\ WF_vars(Publish)
  /\ \A j \in Jobs : WF_vars(\E s \in {"completed", "failed"} : UpdateJobResult(j, s))
  /\ \A d \in Dispatchers : WF_vars(Start(d)) /\ WF_vars(XReadGroup(d))
  /\ \A m \in 1 .. MaxIds : WF_vars(Dispatch(m))

FairSpec == Spec /\ Fairness

-----------------------------------------------------------------------------
(* Properties.                                                             *)

Count(s, x) == Cardinality({k \in 1 .. Len(s) : s[k] = x})

(* A message leaves the pending list only when it was accepted, refused    *)
(* for good, or tried MaxRetries times; and nothing is sent again after    *)
(* the subscriber accepted or refused it.  This holds across dispatchers   *)
(* and restarts: a delivered message is never read a second time.  And     *)
(* however the goroutines of a target interleave, its delivery history has *)
(* the attempts as they were made, and, if no write of it failed, never    *)
(* one of a message without the later ones above it.                       *)
AckedOnlyWhenSettled ==
  /\ \A t \in Targets, limit \in 0 .. MaxDeliveriesPerURL :
       LET shown == ListDeliveries(t, limit)
       IN  \A i \in DOMAIN shown :
             /\ shown[i].attempt \in DOMAIN attempts[shown[i].msg]
             /\ attempts[shown[i].msg][shown[i].attempt] = shown[i].outcome
             /\ crashes = 0 =>
                  \A later \in shown[i].attempt + 1 .. Len(attempts[shown[i].msg]) :
                    \E k \in 1 .. i - 1 : /\ shown[k].msg = shown[i].msg
                                          /\ shown[k].attempt = later
  /\ \A m \in Ids :
       LET a == attempts[m]
       IN  /\ Len(a) <= MaxRetries
           /\ \A k \in 1 .. Len(a) - 1 : a[k] = "error"
           /\ m <= cursor /\ m \notin pending /\ a # << >>
                => Last(a) \in {"ok", "clientError"} \/ Len(a) = MaxRetries

Runs(msg) == IF msg.event = "created" THEN 1 ELSE Count(ends[msg.job], msg.event)

(* The stream never holds more notifications of an event than the event    *)
(* occurred: a job that is executed twice is announced twice, whatever     *)
(* else its events race with, and only to who asked for that event.        *)
NoSpuriousEvents ==
  \A m \in Ids : LET msg == stream[m]
                 IN  /\ Count(stream, msg) <= Runs(msg)
                     /\ msg.target = OwnHook => msg.event \in JobEvents[msg.job]

(* A deleted webhook stays deleted, unless an Update that had read it      *)
(* before was still to write it back.                                      *)
DeletedStaysDeleted == gone \cap registered = {}

(* Every message published once the group exists is settled in the end,    *)
(* unless the dispatcher that read it stopped before it was: since neither *)
(* is ever undone and the traffic ends, there comes a moment when all are. *)
MessagesSettle ==
  []<>(\A m \in Ids : cursor >= 0 /\ m > since => m \in orphaned \/ task[m].at = "done")

(* "register a webhook. The Task Queue will call your application when a   *)
(* job succeeds or fails": the end of a job is published to the hooks      *)
(* registered for it.                                                      *)
RegisteredHookIsCalled ==
  \A j \in Jobs, h \in Hooks :
    (state[j] \in HookEvents[h] /\ h \in registered)
      ~> (h \notin registered \/ \E m \in Ids : stream[m] = [job |-> j, event |-> state[j], target |-> h])
=============================================================================
