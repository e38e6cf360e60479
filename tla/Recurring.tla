------------------------------ MODULE Recurring ------------------------------
(***************************************************************************)
(* Recurring templates on the Redis store                                  *)
(* (internal/storage/models/models.go): the scheduler's RecurringJobsDue   *)
(* (internal/service/job_service.go) spawns an instance of each due        *)
(* template and moves its RunAt on, while clients pause, resume, cancel,   *)
(* replay and delete it.  A record is one JSON value, so every change is a *)
(* read of the whole record and a later write of the whole record: two     *)
(* steps here.  The schedule fires once per unit of the clock.             *)
(***************************************************************************)
EXTENDS Integers, FiniteSets

CONSTANTS Templates, Schedulers, Clients, Gone,
          MaxClock, MaxCrashes, MaxErrors, MaxEdits   \* bounds

ASSUME RecurringAssumption ==
  /\ IsFiniteSet(Schedulers)
  /\ {MaxClock, MaxCrashes, MaxErrors, MaxEdits} \subseteq Nat

VARIABLES store,     \* the record of a template, or Gone
          clock,
          sched,     \* a run of RecurringJobsDue
          client,    \* a request on a template
          crashes, errors, edits

(* History.                                                                *)
VARIABLES spawned,   \* how often a tick of a template was enqueued
          unsent,    \* instances saved and not enqueued
          raced,     \* templates with a write over a record that changed since its read
          paused     \* templates whose last finished pause or resume was a pause

vars == <<store, clock, sched, client, crashes, errors, edits, spawned, unsent, raced, paused>>

Ticks  == 0 .. MaxClock + 1
Record == [status : {"recurring", "pending", "cancelled"}, paused : BOOLEAN, runAt : Ticks]
NoOp   == [op |-> "none"]
Idle   == [pc |-> "idle"]
Tables == [Templates -> Record \cup {Gone}]

Running == [pc : {"now", "next", "save", "enqueue", "advance"}, todo : SUBSET Templates,
            t : Templates, read : Tables, now : 0 .. MaxClock]
Request == [op : {"pause", "resume", "cancel", "replay", "delete"}, t : Templates, read : Record]

(* A template is one whole record, and its RunAt is at most one firing of  *)
(* the schedule past the last tick of the clock.                           *)
TypeOK ==
  /\ store \in Tables
  /\ clock \in 0 .. MaxClock
  /\ sched \in [Schedulers -> {Idle} \cup Running] /\ client \in [Clients -> {NoOp} \cup Request]
  /\ crashes \in 0 .. MaxCrashes /\ errors \in 0 .. MaxErrors /\ edits \in 0 .. MaxEdits
  /\ spawned \in [Templates -> [Ticks -> Nat]]
  /\ unsent \in [Templates -> Int]
  /\ raced \subseteq Templates /\ paused \subseteq Templates

(* CreateJob saved each template with the schedule's first time.           *)
Init ==
  /\ store = [t \in Templates |-> [status |-> "recurring", paused |-> FALSE, runAt |-> 1]]
  /\ clock = 0
  /\ sched = [s \in Schedulers |-> Idle]
  /\ client = [c \in Clients |-> NoOp]
  /\ crashes = 0 /\ errors = 0 /\ edits = 0
  /\ spawned = [t \in Templates |-> [n \in Ticks |-> 0]]
  /\ unsent = [t \in Templates |-> 0]
  /\ raced = {} /\ paused = {}

-----------------------------------------------------------------------------
(* RedisStore.Save of a record that was read as `read`.                    *)
Save(t, read, new) ==
  /\ store' = [store EXCEPT ![t] = new]
  /\ raced' = IF store[t] = read THEN raced ELSE raced \cup {t}

(* sched.Next(now).                                                        *)
NextRun(now) == now + 1

Passes ==
  /\ clock < MaxClock
  /\ clock' = clock + 1
  /\ UNCHANGED <<store, sched, client, crashes, errors, edits, spawned, unsent, raced, paused>>

-----------------------------------------------------------------------------
(* RecurringJobsDue.                                                       *)

At(s, pc) == sched[s].pc = pc

(* SearchJobs for the recurring ones ...                                   *)
SearchJobs(s) ==
  /\ At(s, "idle")
  /\ \E t \in Templates :
       sched' = [sched EXCEPT ![s] =
         [pc |-> "now", read |-> store, now |-> 0, t |-> t,
          todo |-> {u \in Templates : store[u] # Gone /\ store[u].status = "recurring"}]]
  /\ UNCHANGED <<store, clock, client, crashes, errors, edits, spawned, unsent, raced, paused>>

(* ... then the time.                                                      *)
TakeNow(s) ==
  /\ At(s, "now")
  /\ sched' = [sched EXCEPT ![s].now = clock, ![s].pc = "next"]
  /\ UNCHANGED <<store, clock, client, crashes, errors, edits, spawned, unsent, raced, paused>>

(* Bug: a paused template is due too.                                      *)
DueEvenPaused(r, now) == r.runAt <= now

Due(r, now) == ~ r.paused /\ r.runAt <= now

(* The next template of the loop.                                          *)
Visit(s) ==
  /\ At(s, "next")
  /\ \E t \in sched[s].todo :
       sched' = [sched EXCEPT ![s].todo = @ \ {t}, ![s].t = t,
                              ![s].pc = IF Due(sched[s].read[t], sched[s].now) THEN "save" ELSE "next"]
  /\ UNCHANGED <<store, clock, client, crashes, errors, edits, spawned, unsent, raced, paused>>

(* Bug: the last template is left out.                                     *)
FinishEarly(s) ==
  /\ At(s, "next") /\ Cardinality(sched[s].todo) <= 1
  /\ sched' = [sched EXCEPT ![s] = Idle]
  /\ UNCHANGED <<store, clock, client, crashes, errors, edits, spawned, unsent, raced, paused>>

(* The end of the loop.                                                    *)
Finish(s) ==
  /\ At(s, "next") /\ sched[s].todo = {}
  /\ sched' = [sched EXCEPT ![s] = Idle]
  /\ UNCHANGED <<store, clock, client, crashes, errors, edits, spawned, unsent, raced, paused>>

SaveInstance(s) ==
  /\ At(s, "save")
  /\ unsent' = [unsent EXCEPT ![sched[s].t] = @ + 1]
  /\ sched' = [sched EXCEPT ![s].pc = "enqueue"]
  /\ UNCHANGED <<store, clock, client, crashes, errors, edits, spawned, raced, paused>>

(* Bug: the instance is saved but not enqueued.                            *)
EnqueueInstanceSkips(s) ==
  /\ At(s, "enqueue")
  /\ sched' = [sched EXCEPT ![s].pc = "advance"]
  /\ UNCHANGED <<store, clock, client, crashes, errors, edits, spawned, unsent, raced, paused>>

EnqueueInstance(s) ==
  /\ At(s, "enqueue")
  /\ LET t == sched[s].t IN
       /\ spawned' = [spawned EXCEPT ![t][sched[s].read[t].runAt] = @ + 1]
       /\ unsent' = [unsent EXCEPT ![t] = @ - 1]
  /\ sched' = [sched EXCEPT ![s].pc = "advance"]
  /\ UNCHANGED <<store, clock, client, crashes, errors, edits, raced, paused>>

(* Saving or enqueueing the instance, or saving the template, failed: it   *)
(* is logged and the loop goes on.                                         *)
CallFails(s) ==
  /\ \E pc \in {"save", "enqueue", "advance"} : At(s, pc)
  /\ errors < MaxErrors
  /\ errors' = errors + 1
  /\ sched' = [sched EXCEPT ![s].pc = "next"]
  /\ UNCHANGED <<store, clock, client, crashes, edits, spawned, unsent, raced, paused>>

(* Bug: the template is not saved.                                         *)
AdvanceForgets(s) ==
  /\ At(s, "advance")
  /\ sched' = [sched EXCEPT ![s].pc = "next"]
  /\ UNCHANGED <<store, clock, client, crashes, errors, edits, spawned, unsent, raced, paused>>

(* The template as it was read, with its next RunAt, is written back.      *)
Advance(s) ==
  /\ At(s, "advance")
  /\ LET t == sched[s].t
         r == sched[s].read[t] IN Save(t, r, [r EXCEPT !.runAt = NextRun(sched[s].now)])
  /\ sched' = [sched EXCEPT ![s].pc = "next"]
  /\ UNCHANGED <<clock, client, crashes, errors, edits, spawned, unsent, paused>>

Crash(s) ==
  /\ ~ At(s, "idle") /\ crashes < MaxCrashes
  /\ crashes' = crashes + 1
  /\ sched' = [sched EXCEPT ![s] = Idle]
  /\ UNCHANGED <<store, clock, client, errors, edits, spawned, unsent, raced, paused>>

-----------------------------------------------------------------------------
(* Clients.                                                                *)

(* GetByID, or the HGET of UpdateStatus.                                   *)
Read(c) ==
  /\ client[c] = NoOp /\ edits < MaxEdits
  /\ edits' = edits + 1
  /\ \E t \in Templates, op \in {"pause", "resume", "cancel", "replay", "delete"} :
       /\ store[t] # Gone
       /\ client' = [client EXCEPT ![c] = [op |-> op, t |-> t, read |-> store[t]]]
  /\ UNCHANGED <<store, clock, sched, crashes, errors, spawned, unsent, raced, paused>>

(* PauseJob, ResumeJob, CancelJob and ReplayJob.  A replayed template is    *)
(* itself queued, as an ordinary job (see TaskQueue).                      *)
Edited(op, r) ==
  CASE op = "pause"  -> [r EXCEPT !.paused = TRUE]
    [] op = "resume" -> [r EXCEPT !.paused = FALSE]
    [] op = "cancel" -> [r EXCEPT !.status = "cancelled"]
    [] op = "replay" -> [r EXCEPT !.status = "pending"]

Write(c) ==
  /\ client[c] # NoOp
  /\ LET t == client[c].t  op == client[c].op  r == client[c].read IN
       /\ IF op = "delete" THEN store' = [store EXCEPT ![t] = Gone] /\ UNCHANGED raced
                           ELSE Save(t, r, Edited(op, r))
       /\ paused' = CASE op = "pause" -> paused \cup {t}
                      [] op = "resume" -> paused \ {t}
                      [] OTHER -> paused
  /\ client' = [client EXCEPT ![c] = NoOp]
  /\ UNCHANGED <<clock, sched, crashes, errors, edits, spawned, unsent>>

-----------------------------------------------------------------------------
RecurringJobsDue(s) ==
  \/ SearchJobs(s) \/ TakeNow(s) \/ Visit(s) \/ Finish(s)
  \/ SaveInstance(s) \/ EnqueueInstance(s) \/ Advance(s) \/ CallFails(s)

Next ==
  \/ Passes
  \/ \E s \in Schedulers : RecurringJobsDue(s) \/ Crash(s)
  \/ \E c \in Clients : Read(c) \/ Write(c)

Spec == Init /\ [][Next]_vars

(* The loop of cmd/scheduler/main.go calls RecurringJobsDue again and      *)
(* again, and a request that was read is written.                          *)
FairSpec ==
  /\ Spec
  /\ \A s \in Schedulers : WF_vars(RecurringJobsDue(s))
  /\ \A c \in Clients : WF_vars(Write(c))

-----------------------------------------------------------------------------
(* Properties.                                                             *)

(* One scheduler that did not crash, and whose writes did not fail or      *)
(* meet a client's, enqueues one instance of a template for a tick: a run  *)
(* of RecurringJobsDue sees what the one before it wrote.                  *)
OneInstancePerTick ==
  crashes + errors = 0 =>
    \A t \in Templates \ raced : \A n \in Ticks : spawned[t][n] <= 1

(* A pause that no other write overlapped holds: the template is paused,   *)
(* and only a scheduler that read it before the pause may still spawn.     *)
PauseHolds ==
  \A t \in paused \ raced :
    /\ store[t] # Gone => store[t].paused
    /\ \A s \in Schedulers :
         (sched[s] # Idle /\ sched[s].t = t /\ At(s, "save")) => ~ sched[s].read[t].paused

(* No instance is spawned before its time, and one that was saved is also  *)
(* enqueued unless the scheduler crashed or a call failed in between.      *)
InstancesAreWhole ==
  \A t \in Templates :
    /\ \A n \in Ticks : spawned[t][n] > 0 => n <= clock
    /\ unsent[t] <= crashes + errors
                    + Cardinality({s \in Schedulers : At(s, "enqueue") /\ sched[s].t = t})

(* A due template is spawned, or its RunAt moves on, in the end, unless a  *)
(* client takes it away or pauses it.                                      *)
DueIsSpawned ==
  \A t \in Templates : \A n \in 0 .. MaxClock :
    (store[t] # Gone /\ store[t].runAt = n /\ n <= clock) ~>
      (\/ spawned[t][n] > 0 \/ store[t] = Gone
       \/ store[t].runAt > n \/ store[t].paused \/ store[t].status # "recurring")
=============================================================================
