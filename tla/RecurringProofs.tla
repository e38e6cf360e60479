-------------------------- MODULE RecurringProofs ---------------------------
(***************************************************************************)
(* Recurring templates, for any number of templates and clients and any    *)
(* length of the run.                                                      *)
(***************************************************************************)
EXTENDS Recurring, FiniteSetTheorems, TLAPS

Spawning == {"save", "enqueue", "advance"}

(* A run of RecurringJobsDue takes up only templates it found, and spawns  *)
(* only those that were due when it looked at the clock.                   *)
RunOK(s) ==
  sched[s] # Idle =>
    /\ sched[s].now <= clock
    /\ \A t \in sched[s].todo : sched[s].read[t] # Gone
    /\ sched[s].pc \in Spawning => /\ sched[s].t \notin sched[s].todo
                                  /\ sched[s].read[sched[s].t] # Gone
                                  /\ Due(sched[s].read[sched[s].t], sched[s].now)

RunInv ==
  /\ \A s \in Schedulers : RunOK(s)
  /\ \A c \in Clients : client[c] # NoOp => client[c].read # Gone

(* The run has still to spawn t, if it is due; has spawned it and not yet  *)
(* moved its RunAt on.                                                     *)
Ahead(s, t) ==
  sched[s] # Idle /\ (t \in sched[s].todo \/ (sched[s].t = t /\ sched[s].pc \in {"save", "enqueue"}))
Advancing(s, t) == sched[s] # Idle /\ sched[s].t = t /\ sched[s].pc = "advance"

(* RunAt is past every tick that was enqueued: in the record a run is      *)
(* about to spawn from, and, but for the one tick of a template that is    *)
(* being advanced, in the store.                                           *)
Once(t) ==
  /\ \A n \in Ticks : spawned[t][n] <= 1
  /\ \A s \in Schedulers :
       /\ Ahead(s, t) => \A n \in Ticks : n >= sched[s].read[t].runAt => spawned[t][n] = 0
       /\ Advancing(s, t) => \A n \in Ticks : n > sched[s].read[t].runAt => spawned[t][n] = 0
       /\ (Ahead(s, t) \/ Advancing(s, t)) /\ store[t] # Gone => sched[s].read[t].runAt <= store[t].runAt
  /\ store[t] # Gone =>
       \A n \in Ticks : n >= store[t].runAt /\ spawned[t][n] # 0 =>
         \E s \in Schedulers : Advancing(s, t) /\ n = sched[s].read[t].runAt

OnceInv == crashes + errors = 0 => \A t \in Templates \ raced : Once(t)

PauseInv == \A t \in paused \ raced : store[t] # Gone => store[t].paused
-----------------------------------------------------------------------------
(* Types.                                                                  *)

(* A scheduler is idle or in a run, and a client is idle or in a request.  *)
LEMMA Shapes ==
  ASSUME TypeOK
  PROVE  /\ \A s \in Schedulers : /\ sched[s] = Idle <=> sched[s].pc = "idle"
                                  /\ sched[s] # Idle => sched[s] \in Running
         /\ \A c \in Clients : client[c] # NoOp => client[c] \in Request
<1>1. \A r \in Running : r.pc # "idle"
  BY Zenon DEF Running
<1>2. Idle.pc = "idle"
  BY Zenon DEF Idle
<1>3. \A s \in Schedulers : sched[s] = Idle \/ sched[s] \in Running
  BY Zenon DEF TypeOK
<1> QED  BY <1>1, <1>2, <1>3, Zenon DEF TypeOK

(* What setting the program counter of a run leaves alone.                 *)
LEMMA SetPc ==
  ASSUME TypeOK, NEW s \in Schedulers, sched[s] # Idle,
         NEW p \in {"now", "next", "save", "enqueue", "advance"},
         sched' = [sched EXCEPT ![s].pc = p]
  PROVE  /\ sched' \in [Schedulers -> {Idle} \cup Running]
         /\ \A u \in Schedulers : u # s => sched'[u] = sched[u]
         /\ sched'[s] # Idle /\ sched'[s].pc = p
         /\ sched'[s].todo = sched[s].todo /\ sched'[s].t = sched[s].t
         /\ sched'[s].read = sched[s].read /\ sched'[s].now = sched[s].now
<1>1. sched[s] \in Running
  BY Shapes, Zenon
<1>2. sched'[s] = [sched[s] EXCEPT !.pc = p]
  BY Zenon DEF TypeOK
<1>3. sched'[s] \in Running /\ sched'[s].pc = p
  BY <1>1, <1>2 DEF Running
<1>4. sched'[s] # Idle
  BY <1>3 DEF Running, Idle
<1>5. /\ sched'[s].todo = sched[s].todo /\ sched'[s].t = sched[s].t
      /\ sched'[s].read = sched[s].read /\ sched'[s].now = sched[s].now
  BY <1>1, <1>2 DEF Running
<1>6. \A u \in Schedulers : u # s => sched'[u] = sched[u]
  BY Zenon DEF TypeOK
<1>7. DOMAIN sched' = Schedulers /\ sched' = [u \in Schedulers |-> sched'[u]]
  BY Zenon DEF TypeOK
<1>8. sched' \in [Schedulers -> {Idle} \cup Running]
  BY <1>3, <1>6, <1>7, Zenon DEF TypeOK
<1> QED  BY <1>3, <1>4, <1>5, <1>6, <1>8, Zenon

(* The start of a run, the look at the clock, and the next template.       *)
LEMMA SearchJobsEffect ==
  ASSUME TypeOK, NEW s \in Schedulers, SearchJobs(s)
  PROVE  /\ sched[s] = Idle
         /\ sched' \in [Schedulers -> {Idle} \cup Running]
         /\ \A u \in Schedulers : u # s => sched'[u] = sched[u]
         /\ sched'[s] # Idle /\ sched'[s].pc = "now" /\ sched'[s].now = 0
         /\ sched'[s].read = store
         /\ sched'[s].todo = {u \in Templates : store[u] # Gone /\ store[u].status = "recurring"}
<1>1. sched[s] = Idle
  BY Shapes, Zenon DEF SearchJobs, At
<1>2. PICK t \in Templates : sched' = [sched EXCEPT ![s] =
         [pc |-> "now", read |-> store, now |-> 0, t |-> t,
          todo |-> {u \in Templates : store[u] # Gone /\ store[u].status = "recurring"}]]
  BY Zenon DEF SearchJobs
<1>3. sched'[s] = [pc |-> "now", read |-> store, now |-> 0, t |-> t,
          todo |-> {u \in Templates : store[u] # Gone /\ store[u].status = "recurring"}]
  BY <1>2, Zenon DEF TypeOK
<1>4. 0 \in 0 .. MaxClock
  BY RecurringAssumption
<1>5. sched'[s] \in Running /\ sched'[s] # Idle
  BY <1>3, <1>4 DEF TypeOK, Running, Idle
<1>6. /\ sched' \in [Schedulers -> {Idle} \cup Running]
      /\ \A u \in Schedulers : u # s => sched'[u] = sched[u]
  BY <1>2, <1>5, Zenon DEF TypeOK
<1> QED  BY <1>1, <1>3, <1>5, <1>6

LEMMA TakeNowEffect ==
  ASSUME TypeOK, NEW s \in Schedulers, TakeNow(s)
  PROVE  /\ sched[s] # Idle
         /\ sched' \in [Schedulers -> {Idle} \cup Running]
         /\ \A u \in Schedulers : u # s => sched'[u] = sched[u]
         /\ sched'[s] # Idle /\ sched'[s].pc = "next" /\ sched'[s].now = clock
         /\ sched'[s].read = sched[s].read /\ sched'[s].todo = sched[s].todo
         /\ sched'[s].t = sched[s].t
<1>1. sched[s] \in Running /\ sched[s] # Idle
  BY Shapes, Zenon DEF TakeNow, At
<1>2. sched'[s] = [sched[s] EXCEPT !.now = clock, !.pc = "next"]
  BY Zenon DEF TakeNow, TypeOK
<1>3. sched'[s] \in Running /\ sched'[s].pc = "next" /\ sched'[s].now = clock
      /\ sched'[s].read = sched[s].read /\ sched'[s].todo = sched[s].todo /\ sched'[s].t = sched[s].t
  BY <1>1, <1>2, Zenon DEF TypeOK, Running
<1>4. sched'[s] # Idle
  BY <1>3 DEF Running, Idle
<1>5. /\ sched' \in [Schedulers -> {Idle} \cup Running]
      /\ \A u \in Schedulers : u # s => sched'[u] = sched[u]
  BY <1>3, Zenon DEF TypeOK, TakeNow
<1> QED  BY <1>1, <1>3, <1>4, <1>5, Zenon

LEMMA VisitEffect ==
  ASSUME TypeOK, NEW s \in Schedulers, Visit(s)
  PROVE  \E t \in sched[s].todo :
         /\ sched[s] # Idle /\ sched[s].pc = "next" /\ t \in Templates
         /\ sched' \in [Schedulers -> {Idle} \cup Running]
         /\ \A u \in Schedulers : u # s => sched'[u] = sched[u]
         /\ sched'[s] # Idle /\ sched'[s].now = sched[s].now
         /\ sched'[s].pc = IF Due(sched[s].read[t], sched[s].now) THEN "save" ELSE "next"
         /\ sched'[s].read = sched[s].read /\ sched'[s].todo = sched[s].todo \ {t}
         /\ sched'[s].t = t
<1>1. sched[s] \in Running /\ sched[s] # Idle /\ sched[s].pc = "next"
  BY Shapes, Zenon DEF Visit, At
<1>2. PICK t \in sched[s].todo :
        sched' = [sched EXCEPT ![s].todo = @ \ {t}, ![s].t = t,
                               ![s].pc = IF Due(sched[s].read[t], sched[s].now) THEN "save" ELSE "next"]
  BY Zenon DEF Visit
<1>d. DEFINE p == IF Due(sched[s].read[t], sched[s].now) THEN "save" ELSE "next"
<1>3. sched'[s] = [sched[s] EXCEPT !.todo = sched[s].todo \ {t}, !.t = t, !.pc = p]
  BY <1>1, <1>2, Zenon DEF TypeOK, Running
<1>4. t \in Templates /\ p \in {"save", "next"}
  BY <1>1, Zenon DEF Running
<1> HIDE DEF p
<1>5. sched'[s] \in Running /\ sched'[s].pc = p /\ sched'[s].now = sched[s].now
      /\ sched'[s].read = sched[s].read /\ sched'[s].todo = sched[s].todo \ {t} /\ sched'[s].t = t
  <2> DEFINE q == sched[s]  T == sched[s].todo \ {t}  n == sched'[s]
  <2>1. q \in Running /\ T \in SUBSET Templates /\ n = [q EXCEPT !.todo = T, !.t = t, !.pc = p]
    BY <1>1, <1>3, Zenon DEF Running
  <2> HIDE DEF q, T, n
  <2>2. n \in Running
    BY <1>4, <2>1, Zenon DEF Running
  <2>3. n.pc = p /\ n.now = q.now /\ n.read = q.read /\ n.todo = T /\ n.t = t
    BY <2>1, Zenon DEF Running
  <2> QED  BY <2>2, <2>3, Zenon DEF q, T, n
<1>6. sched'[s] # Idle
  BY <1>5 DEF Running, Idle
<1>7. /\ sched' \in [Schedulers -> {Idle} \cup Running]
      /\ \A u \in Schedulers : u # s => sched'[u] = sched[u]
  BY <1>2, <1>5 DEF TypeOK
<1> QED  BY <1>1, <1>4, <1>5, <1>6, <1>7, Zenon DEF p

(* A run that ends or dies leaves the scheduler idle.                      *)
LEMMA StopEffect ==
  ASSUME TypeOK, NEW s \in Schedulers, sched' = [sched EXCEPT ![s] = Idle]
  PROVE  /\ sched' \in [Schedulers -> {Idle} \cup Running] /\ sched'[s] = Idle
         /\ \A u \in Schedulers : u # s => sched'[u] = sched[u]
BY Zenon DEF TypeOK

(* The record a run or a request is about to write.                        *)
LEMMA NewRecord ==
  ASSUME TypeOK, NEW r \in Record, NEW n \in 0 .. MaxClock
  PROVE  /\ [r EXCEPT !.runAt = NextRun(n)] \in Record
         /\ [r EXCEPT !.runAt = NextRun(n)].runAt = n + 1
         /\ [r EXCEPT !.runAt = NextRun(n)].paused = r.paused
         /\ \A op \in {"pause", "resume", "cancel", "replay"} :
              /\ Edited(op, r) \in Record /\ Edited(op, r).runAt = r.runAt
              /\ op # "resume" /\ (r.paused \/ op = "pause") => Edited(op, r).paused
<1>1. n + 1 \in Ticks /\ NextRun(n) = n + 1
  BY RecurringAssumption DEF Ticks, NextRun
<1> QED  BY <1>1, Zenon DEF Record, Edited

TypeInv == TypeOK /\ RunInv

(* The template a run is at work on, as it was read.                       *)
LEMMA SpawningRecord ==
  ASSUME TypeInv, NEW s \in Schedulers, sched[s].pc \in Spawning
  PROVE  /\ sched[s] # Idle /\ sched[s].t \in Templates /\ sched[s].t \notin sched[s].todo
         /\ sched[s].read[sched[s].t] \in Record /\ sched[s].read[sched[s].t] # Gone
         /\ ~ sched[s].read[sched[s].t].paused
         /\ sched[s].read[sched[s].t].runAt \in Ticks
         /\ sched[s].now \in 0 .. MaxClock /\ sched[s].now <= clock
         /\ sched[s].read[sched[s].t].runAt <= sched[s].now
<1>1. sched[s] # Idle
  BY Shapes, Zenon DEF TypeInv, Spawning
<1>2. sched[s] \in Running
  BY <1>1, Shapes, Zenon DEF TypeInv
<1>3. sched[s].read[sched[s].t] \in Record
  BY <1>1, <1>2, Zenon DEF TypeInv, RunInv, RunOK, Spawning, Running, Tables
<1> QED  BY <1>1, <1>2, <1>3, Zenon DEF TypeInv, RunInv, RunOK, Running, Due, Record

(* Counting up or down at one place.                                       *)
LEMMA Counts ==
  ASSUME TypeOK, NEW t \in Templates, NEW n \in Ticks
  PROVE  /\ [unsent EXCEPT ![t] = unsent[t] + 1] \in [Templates -> Int]
         /\ [unsent EXCEPT ![t] = unsent[t] - 1] \in [Templates -> Int]
         /\ [spawned EXCEPT ![t] = [spawned[t] EXCEPT ![n] = spawned[t][n] + 1]]
              \in [Templates -> [Ticks -> Nat]]
<1>1. unsent \in [Templates -> Int] /\ spawned[t] \in [Ticks -> Nat]
      /\ spawned \in [Templates -> [Ticks -> Nat]]
  BY Zenon DEF TypeOK
<1>2. [spawned[t] EXCEPT ![n] = spawned[t][n] + 1] \in [Ticks -> Nat]
  BY <1>1
<1> QED  BY <1>1, <1>2

(* A scheduler's step keeps the types, and RunInv.                         *)
LEMMA SchedulerTypes ==
  ASSUME TypeInv, NEW s \in Schedulers, RecurringJobsDue(s) \/ Crash(s)
  PROVE  TypeInv'
<1> USE DEF TypeInv
<1>r. ASSUME client' = client, clock' = clock, RunOK(s)',
             \A u \in Schedulers : u # s => sched'[u] = sched[u]
      PROVE  RunInv'
  BY <1>r DEF RunInv, RunOK
<1>1. CASE SearchJobs(s)
  <2>1. 0 <= clock /\ clock' = clock /\ client' = client
    BY <1>1, RecurringAssumption DEF SearchJobs, TypeOK
  <2>2. RunOK(s)'
    BY <1>1, <2>1, SearchJobsEffect DEF RunOK, Spawning
  <2>3. RunInv'
    BY <1>1, <1>r, <2>1, <2>2, SearchJobsEffect, Zenon
  <2> QED  BY <1>1, <2>3, SearchJobsEffect, Zenon DEF SearchJobs, TypeOK
<1>2. CASE TakeNow(s)
  <2>1. clock <= clock /\ clock' = clock /\ client' = client
    BY <1>2, RecurringAssumption DEF TakeNow, TypeOK
  <2>2. RunOK(s)'
    BY <1>2, <2>1, TakeNowEffect DEF RunInv, RunOK, Spawning
  <2>3. RunInv'
    BY <1>2, <1>r, <2>1, <2>2, TakeNowEffect, Zenon
  <2> QED  BY <1>2, <2>3, TakeNowEffect, Zenon DEF TakeNow, TypeOK
<1>3. CASE Visit(s)
  <2>1. clock' = clock /\ client' = client
    BY <1>3, Zenon DEF Visit
  <2>2. RunOK(s)'
    BY <1>3, <2>1, VisitEffect DEF RunInv, RunOK, Spawning
  <2>3. RunInv' /\ sched' \in [Schedulers -> {Idle} \cup Running]
    BY <1>3, <1>r, <2>1, <2>2, VisitEffect, Zenon
  <2> QED  BY <1>3, <2>3, Zenon DEF Visit, TypeOK
<1>4. CASE Finish(s) \/ Crash(s)
  <2>1. /\ sched' \in [Schedulers -> {Idle} \cup Running] /\ sched'[s] = Idle
        /\ \A u \in Schedulers : u # s => sched'[u] = sched[u]
    BY <1>4, StopEffect, Zenon DEF Finish, Crash
  <2>2. RunInv'
    BY <1>4, <1>r, <2>1, Zenon DEF Finish, Crash, RunOK
  <2>3. crashes' \in 0 .. MaxCrashes
    BY <1>4, RecurringAssumption DEF Finish, Crash, TypeOK
  <2> QED  BY <1>4, <2>1, <2>2, <2>3, Zenon DEF Finish, Crash, TypeOK
<1>5. ASSUME NEW p \in {"next", "enqueue", "advance"}, sched[s].pc \in Spawning,
             sched' = [sched EXCEPT ![s].pc = p], client' = client, clock' = clock
      PROVE  RunInv' /\ sched' \in [Schedulers -> {Idle} \cup Running]
  <2>1. sched[s] # Idle
    BY <1>5, SpawningRecord, Zenon
  <2>2. /\ sched' \in [Schedulers -> {Idle} \cup Running]
        /\ \A u \in Schedulers : u # s => sched'[u] = sched[u]
        /\ sched'[s].todo = sched[s].todo /\ sched'[s].t = sched[s].t
        /\ sched'[s].read = sched[s].read /\ sched'[s].now = sched[s].now
    BY <1>5, <2>1, SetPc, Zenon
  <2>3. RunOK(s)'
    BY <1>5, <2>1, <2>2 DEF RunInv, RunOK
  <2> QED  BY <1>5, <1>r, <2>2, <2>3, Zenon
<1>6. CASE SaveInstance(s)
  <2>1. sched[s].pc \in Spawning
    BY <1>6, Zenon DEF SaveInstance, At, Spawning
  <2>2. unsent' \in [Templates -> Int]
    BY <1>6, <2>1, SpawningRecord, Counts, Zenon DEF SaveInstance
  <2> QED  BY <1>5, <1>6, <2>1, <2>2, Zenon DEF SaveInstance, TypeOK
<1>7. CASE EnqueueInstance(s)
  <2>1. sched[s].pc \in Spawning
    BY <1>7, Zenon DEF EnqueueInstance, At, Spawning
  <2>2. unsent' \in [Templates -> Int] /\ spawned' \in [Templates -> [Ticks -> Nat]]
    BY <1>7, <2>1, SpawningRecord, Counts, Zenon DEF EnqueueInstance
  <2> QED  BY <1>5, <1>7, <2>1, <2>2, Zenon DEF EnqueueInstance, TypeOK
<1>8. CASE CallFails(s)
  <2>1. sched[s].pc \in Spawning
    BY <1>8, Zenon DEF CallFails, At, Spawning
  <2>2. errors' \in 0 .. MaxErrors
    BY <1>8, RecurringAssumption DEF CallFails, TypeOK
  <2> QED  BY <1>5, <1>8, <2>1, <2>2, Zenon DEF CallFails, TypeOK
<1>9. CASE Advance(s)
  <2>1. sched[s].pc \in Spawning
    BY <1>9, Zenon DEF Advance, At, Spawning
  <2>2. PICK t \in Templates, r \in Record : Save(t, r, [r EXCEPT !.runAt = NextRun(sched[s].now)])
    BY <1>9, <2>1, SpawningRecord, Zenon DEF Advance
  <2>3. [r EXCEPT !.runAt = NextRun(sched[s].now)] \in Record
    BY <2>1, SpawningRecord, NewRecord, Zenon
  <2>4. store' \in Tables /\ raced' \subseteq Templates
    BY <2>2, <2>3, Zenon DEF Save, Tables, TypeOK
  <2> QED  BY <1>5, <1>9, <2>1, <2>4, Zenon DEF Advance, TypeOK
<1> QED  BY <1>1, <1>2, <1>3, <1>4, <1>6, <1>7, <1>8, <1>9, Zenon DEF RecurringJobsDue
(* So do the clock and the clients.                                        *)
LEMMA OtherTypes ==
  ASSUME TypeInv, Passes \/ (\E c \in Clients : Read(c) \/ Write(c)) \/ UNCHANGED vars
  PROVE  TypeInv'
<1> USE DEF TypeInv
<1>1. CASE Passes
  <2>1. clock' \in 0 .. MaxClock /\ clock' = clock + 1 /\ clock \in Nat /\ sched' = sched /\ client' = client
    BY <1>1, RecurringAssumption DEF Passes, TypeOK
  <2>2. ASSUME NEW s \in Schedulers PROVE RunOK(s)'
    <3>1. sched[s] # Idle => sched[s].now \in Nat
      BY Shapes, RecurringAssumption DEF Running
    <3> QED  BY <2>1, <3>1 DEF RunInv, RunOK
  <2> QED  BY <1>1, <2>1, <2>2, Zenon DEF Passes, TypeOK, RunInv
<1>2. ASSUME NEW c \in Clients, Read(c) PROVE TypeInv'
  <2>1. PICK t \in Templates, op \in {"pause", "resume", "cancel", "replay", "delete"} :
          /\ store[t] # Gone
          /\ client' = [client EXCEPT ![c] = [op |-> op, t |-> t, read |-> store[t]]]
    BY <1>2, Zenon DEF Read
  <2>2. [op |-> op, t |-> t, read |-> store[t]] \in Request
    BY <2>1, Zenon DEF TypeOK, Tables, Request
  <2>3. /\ client' \in [Clients -> {NoOp} \cup Request]
        /\ \A d \in Clients : client'[d] # NoOp => client'[d].read # Gone
    BY <2>1, <2>2, Zenon DEF TypeOK, RunInv
  <2>4. edits' \in 0 .. MaxEdits
    BY <1>2, RecurringAssumption DEF Read, TypeOK
  <2> QED  BY <1>2, <2>3, <2>4, Zenon DEF Read, TypeOK, RunInv, RunOK
<1>3. ASSUME NEW c \in Clients, Write(c) PROVE TypeInv'
  <2>1. client[c] \in Request
    BY <1>3, Shapes, Zenon DEF Write
  <2>2. client[c].t \in Templates /\ client[c].read \in Record
    BY <2>1, Zenon DEF Request
  <2>3. client[c].op # "delete" => Edited(client[c].op, client[c].read) \in Record
    <3>1. 0 \in 0 .. MaxClock
      BY RecurringAssumption
    <3> QED  BY <2>1, <2>2, <3>1, NewRecord, Zenon DEF Request
  <2>4. store' \in Tables /\ raced' \subseteq Templates
    BY <1>3, <2>2, <2>3 DEF Write, Save, TypeOK, Tables
  <2>5. paused' \subseteq Templates
    BY <1>3, <2>2, Zenon DEF Write, TypeOK
  <2>6. /\ client' \in [Clients -> {NoOp} \cup Request]
        /\ \A d \in Clients : client'[d] # NoOp => client'[d].read # Gone
    BY <1>3, Zenon DEF Write, TypeOK, RunInv
  <2> QED  BY <1>3, <2>4, <2>5, <2>6, Zenon DEF Write, TypeOK, RunInv, RunOK
<1>4. CASE UNCHANGED vars
  BY <1>4, Zenon DEF vars, TypeOK, RunInv, RunOK
<1> QED  BY <1>1, <1>2, <1>3, <1>4, Zenon

(* Type correctness: a template is one whole record throughout, and a run  *)
(* of RecurringJobsDue spawns what was there and due when it looked.       *)
THEOREM RecurringTypeCorrect == Spec => [](TypeOK /\ RunInv)
<1>1. Init => TypeInv
  <2> SUFFICES ASSUME Init PROVE TypeInv
    OBVIOUS
  <2>1. 1 \in Ticks /\ 0 \in 0 .. MaxClock /\ 0 \in 0 .. MaxCrashes /\ 0 \in 0 .. MaxErrors
        /\ 0 \in 0 .. MaxEdits
    BY RecurringAssumption DEF Ticks
  <2>2. store \in Tables
    BY <2>1, Zenon DEF Init, Tables, Record
  <2>3. spawned \in [Templates -> [Ticks -> Nat]] /\ unsent \in [Templates -> Int]
    BY DEF Init
  <2> QED  BY <2>1, <2>2, <2>3, Zenon DEF Init, TypeInv, TypeOK, RunInv, RunOK
<1>2. TypeInv /\ [Next]_vars => TypeInv'
  BY SchedulerTypes, OtherTypes, Zenon DEF Next
<1> QED  BY <1>1, <1>2, PTL DEF Spec, TypeInv
-----------------------------------------------------------------------------
(* Pausing.                                                                *)

(* While no write of t overlapped another, a step leaves its record alone, *)
(* takes it away, moves its RunAt on past the tick it was spawned for, or  *)
(* edits what the client read, which is what the store has.                *)
LEMMA StoreStep ==
  ASSUME TypeInv, [Next]_vars, NEW t \in Templates, t \notin raced'
  PROVE  /\ t \notin raced
         /\ \/ store'[t] = store[t]
            \/ store'[t] = Gone
            \/ \E s \in Schedulers :
                 /\ Advance(s) /\ sched[s].t = t /\ store[t] # Gone /\ store[t] = sched[s].read[t]
                 /\ store'[t] = [store[t] EXCEPT !.runAt = NextRun(sched[s].now)]
            \/ \E c \in Clients :
                 /\ Write(c) /\ client[c].t = t /\ client[c] \in Request /\ client[c].op # "delete"
                 /\ store[t] # Gone /\ store'[t] = Edited(client[c].op, store[t])
<1>1. ASSUME NEW s \in Schedulers, Advance(s)
      PROVE  /\ t \notin raced
             /\ \/ store'[t] = store[t]
                \/ /\ sched[s].t = t /\ store[t] # Gone /\ store[t] = sched[s].read[t]
                   /\ store'[t] = [store[t] EXCEPT !.runAt = NextRun(sched[s].now)]
  <2>1. sched[s].read[sched[s].t] # Gone /\ sched[s].t \in Templates
    BY <1>1, SpawningRecord, Zenon DEF Advance, At, Spawning
  <2> QED  BY <1>1, <2>1, Zenon DEF Advance, Save, TypeInv, TypeOK, Tables
<1>2. ASSUME NEW c \in Clients, Write(c)
      PROVE  /\ t \notin raced
             /\ \/ store'[t] = store[t] \/ store'[t] = Gone
                \/ /\ client[c].t = t /\ client[c] \in Request /\ client[c].op # "delete"
                   /\ store[t] # Gone /\ store'[t] = Edited(client[c].op, store[t])
  <2>1. client[c] \in Request /\ client[c].read # Gone
    BY <1>2, Shapes, Zenon DEF Write, TypeInv, RunInv
  <2> QED  BY <1>2, <2>1 DEF Write, Save, TypeInv, TypeOK, Tables
<1>3. ASSUME NEW s \in Schedulers, RecurringJobsDue(s) \/ Crash(s), ~ Advance(s)
      PROVE  store' = store /\ raced' = raced
  BY <1>3, Zenon DEF RecurringJobsDue, SearchJobs, TakeNow, Visit, Finish, SaveInstance, EnqueueInstance, CallFails, Crash
<1>4. Passes \/ (\E c \in Clients : Read(c)) \/ UNCHANGED vars => store' = store /\ raced' = raced
  BY Zenon DEF Passes, Read, vars
<1> QED  BY <1>1, <1>2, <1>3, <1>4, Zenon DEF Next

(* PauseHolds: a pause holds as long as no write of the template overlaps  *)
(* another, and a run that goes on to spawn the template read it before.   *)
THEOREM PauseHoldsInvariant == Spec => []PauseHolds
<1>1. Init => PauseInv
  BY Zenon DEF Init, PauseInv
<1>2. TypeInv /\ PauseInv /\ [Next]_vars => PauseInv'
  <2> SUFFICES ASSUME TypeInv, PauseInv, [Next]_vars, NEW t \in paused' \ raced', store'[t] # Gone
               PROVE  store'[t].paused
    BY Zenon DEF PauseInv
  <2>1. t \in Templates
    <3>1. paused' \subseteq Templates
      BY SchedulerTypes, OtherTypes, Zenon DEF Next, TypeInv, TypeOK
    <3> QED  BY <3>1, Zenon
  <2>2. t \notin raced /\ (t \in paused /\ store[t] # Gone => store[t].paused)
    BY <2>1, StoreStep, Zenon DEF PauseInv
  <2>3. store[t] # Gone => store[t] \in Record
    BY <2>1, Zenon DEF TypeInv, TypeOK, Tables
  <2>4. ASSUME NEW c \in Clients, Write(c) PROVE store'[t].paused
    <3>1. client[c] \in Request /\ client[c].read # Gone /\ client[c].read \in Record
      BY <2>4, Shapes, Zenon DEF Write, TypeInv, RunInv, Request
    <3>2. CASE client[c].t # t
      <4>1. store'[t] = store[t] /\ t \in paused
        BY <2>1, <2>4, <3>1, <3>2, Zenon DEF Write, Save, Request, TypeInv, TypeOK, Tables
      <4> QED  BY <2>2, <4>1, Zenon
    <3>3. CASE client[c].t = t
      <4>1. client[c].op \in {"pause", "resume", "cancel", "replay"} /\ client[c].op # "resume"
        BY <2>1, <2>4, <3>1, <3>3 DEF Write, Request, TypeInv, TypeOK, Tables
      <4>2. store'[t] = Edited(client[c].op, client[c].read) /\ store[t] = client[c].read
        BY <2>1, <2>4, <3>1, <3>3, <4>1, Zenon DEF Write, Save, Request, TypeInv, TypeOK, Tables
      <4>3. client[c].op = "pause" \/ t \in paused
        BY <2>4, <3>3, <4>1, Zenon DEF Write
      <4>4. client[c].op = "pause" \/ client[c].read.paused
        BY <2>2, <3>1, <4>2, <4>3, Zenon
      <4>5. 0 \in 0 .. MaxClock
        BY RecurringAssumption
      <4>6. \A op \in {"pause", "resume", "cancel", "replay"} :
              op # "resume" /\ (client[c].read.paused \/ op = "pause") => Edited(op, client[c].read).paused
        BY <3>1, <4>5, NewRecord, Zenon DEF TypeInv
      <4> QED  BY <4>1, <4>2, <4>4, <4>6, Zenon
    <3> QED  BY <3>2, <3>3, Zenon
  <2>5. CASE ~ \E c \in Clients : Write(c)
    <3>1. t \in paused
      BY <2>5 DEF Next, RecurringJobsDue, SearchJobs, TakeNow, Visit, Finish, SaveInstance, EnqueueInstance,
         CallFails, Advance, Crash, Passes, Read, vars
    <3>2. CASE store'[t] = store[t]
      BY <2>2, <3>1, <3>2, Zenon
    <3>3. ASSUME NEW s \in Schedulers, Advance(s), store[t] # Gone,
                 store'[t] = [store[t] EXCEPT !.runAt = NextRun(sched[s].now)]
          PROVE  store'[t].paused
      BY <2>2, <2>3, <3>1, <3>3, Zenon DEF Record
    <3> QED  BY <2>1, <2>5, <3>2, <3>3, StoreStep, Zenon
  <2> QED  BY <2>4, <2>5, Zenon
<1>3. TypeInv /\ PauseInv => PauseHolds
  BY SpawningRecord, Zenon DEF PauseInv, PauseHolds, At, Spawning
<1> QED  BY <1>1, <1>2, <1>3, RecurringTypeCorrect, PTL DEF Spec, TypeInv
-----------------------------------------------------------------------------
(* Whole instances.                                                        *)

(* Runs between the save of an instance of t and its enqueue.              *)
Saving(t) == {s \in Schedulers : At(s, "enqueue") /\ sched[s].t = t}

(* The schedulers between Save and Enqueue can be counted.                 *)
LEMMA SavingFinite ==
  \A t \in Templates : IsFiniteSet(Saving(t)) /\ Cardinality(Saving(t)) \in Nat
<1> SUFFICES ASSUME NEW t \in Templates PROVE IsFiniteSet(Saving(t)) /\ Cardinality(Saving(t)) \in Nat
  OBVIOUS
<1>1. Saving(t) \in SUBSET Schedulers
  BY Zenon DEF Saving
<1> QED  BY <1>1, RecurringAssumption, FS_Subset, FS_CardinalityType, Zenon

(* InstancesAreWhole: no instance comes before its time, and each one that *)
(* was saved is enqueued unless a crash or an error came in between.       *)
THEOREM InstancesAreWholeInvariant == Spec => []InstancesAreWhole
<1>1. Init => InstancesAreWhole
  <2> SUFFICES ASSUME Init, NEW t \in Templates
               PROVE  /\ \A n \in Ticks : spawned[t][n] > 0 => n <= clock
                      /\ unsent[t] <= crashes + errors + Cardinality(Saving(t))
    BY Zenon DEF InstancesAreWhole, Saving
  <2> QED  BY SavingFinite DEF Init
<1>2. TypeInv /\ InstancesAreWhole /\ [Next]_vars => InstancesAreWhole'
  <2> SUFFICES ASSUME TypeInv, InstancesAreWhole, [Next]_vars, NEW t \in Templates
               PROVE  /\ \A n \in Ticks : spawned'[t][n] > 0 => n <= clock'
                      /\ unsent'[t] <= crashes' + errors' + Cardinality(Saving(t)')
    BY Zenon DEF InstancesAreWhole, Saving, At
  <2>i. /\ \A n \in Ticks : spawned[t][n] > 0 => n <= clock
        /\ unsent[t] <= crashes + errors + Cardinality(Saving(t))
    BY Zenon DEF InstancesAreWhole, Saving
  <2>n. /\ crashes \in Nat /\ errors \in Nat /\ clock \in Nat /\ unsent[t] \in Int
        /\ IsFiniteSet(Saving(t)) /\ Cardinality(Saving(t)) \in Nat /\ Cardinality(Saving(t)') \in Nat
        /\ spawned[t] \in [Ticks -> Nat] /\ \A n \in Ticks : n \in Nat
    <3>1. Saving(t)' \in SUBSET Schedulers
      BY Zenon DEF Saving
    <3>2. Cardinality(Saving(t)') \in Nat
      BY <3>1, RecurringAssumption, FS_Subset, FS_CardinalityType, Zenon
    <3> QED  BY <3>2, SavingFinite, RecurringAssumption DEF TypeInv, TypeOK, Ticks
  <2>1. ASSUME UNCHANGED <<spawned, unsent, clock, crashes, errors>>, Saving(t)' = Saving(t)
        PROVE  /\ \A n \in Ticks : spawned'[t][n] > 0 => n <= clock'
               /\ unsent'[t] <= crashes' + errors' + Cardinality(Saving(t)')
    BY <2>1, <2>i, Zenon
  <2>2. ASSUME NEW s \in Schedulers, \A u \in Schedulers : u # s => sched'[u] = sched[u]
        PROVE  Saving(t)' \in {Saving(t), Saving(t) \ {s}, Saving(t) \cup {s}}
    BY <2>2, Zenon DEF Saving, At
  <2>3. CASE Passes
    BY <2>3, <2>i, <2>n DEF Passes, Saving, At
  <2>4. ASSUME NEW s \in Schedulers, SearchJobs(s) \/ TakeNow(s) \/ Visit(s) \/ Finish(s)
        PROVE  Saving(t)' = Saving(t)
    <3>1. s \notin Saving(t) /\ sched[s].pc # "enqueue"
      BY <2>4, Zenon DEF SearchJobs, TakeNow, Visit, Finish, Saving, At
    <3>2. sched'[s].pc # "enqueue" /\ \A u \in Schedulers : u # s => sched'[u] = sched[u]
      <4>1. CASE SearchJobs(s) \/ TakeNow(s)
        BY <4>1, SearchJobsEffect, TakeNowEffect, Zenon DEF TypeInv
      <4>2. CASE Visit(s)
        BY <4>2, VisitEffect, Zenon DEF TypeInv
      <4>3. CASE Finish(s)
        BY <4>3, StopEffect, Zenon DEF TypeInv, Finish, Idle
      <4> QED  BY <2>4, <4>1, <4>2, <4>3, Zenon
    <3> QED  BY <3>1, <3>2, Zenon DEF Saving, At
  <2>5. ASSUME NEW s \in Schedulers, SaveInstance(s)
        PROVE  /\ \A n \in Ticks : spawned'[t][n] > 0 => n <= clock'
               /\ unsent'[t] <= crashes' + errors' + Cardinality(Saving(t)')
    <3>1. sched[s] # Idle /\ sched[s].pc = "save" /\ sched[s].t \in Templates
      BY <2>5, SpawningRecord, Zenon DEF SaveInstance, At, Spawning
    <3>2. /\ \A u \in Schedulers : u # s => sched'[u] = sched[u]
          /\ sched'[s].pc = "enqueue" /\ sched'[s].t = sched[s].t
      BY <2>5, <3>1, SetPc, Zenon DEF SaveInstance, TypeInv
    <3>3. CASE sched[s].t = t
      <4>1. Saving(t)' = Saving(t) \cup {s} /\ s \notin Saving(t)
        BY <3>1, <3>2, <3>3, Zenon DEF Saving, At
      <4>2. Cardinality(Saving(t)') = Cardinality(Saving(t)) + 1
        BY <2>n, <4>1, FS_AddElement, Zenon
      <4>3. unsent'[t] = unsent[t] + 1
        BY <2>5, <3>1, <3>3, Zenon DEF SaveInstance, TypeInv, TypeOK
      <4> QED  BY <2>5, <2>i, <2>n, <4>2, <4>3 DEF SaveInstance
    <3>4. CASE sched[s].t # t
      <4>1. Saving(t)' = Saving(t)
        BY <3>1, <3>2, <3>4, Zenon DEF Saving, At
      <4>2. unsent'[t] = unsent[t]
        BY <2>5, <3>1, <3>4, Zenon DEF SaveInstance, TypeInv, TypeOK
      <4> QED  BY <2>5, <2>i, <4>1, <4>2, Zenon DEF SaveInstance
    <3> QED  BY <3>3, <3>4, Zenon
  <2>6. ASSUME NEW s \in Schedulers, EnqueueInstance(s)
        PROVE  /\ \A n \in Ticks : spawned'[t][n] > 0 => n <= clock'
               /\ unsent'[t] <= crashes' + errors' + Cardinality(Saving(t)')
    <3>1. sched[s] # Idle /\ sched[s].pc = "enqueue" /\ sched[s].t \in Templates
      BY <2>6, SpawningRecord, Zenon DEF EnqueueInstance, At, Spawning
    <3>2. /\ \A u \in Schedulers : u # s => sched'[u] = sched[u]
          /\ sched'[s].pc = "advance" /\ sched'[s].t = sched[s].t
      BY <2>6, <3>1, SetPc DEF EnqueueInstance, TypeInv
    <3>3. CASE sched[s].t = t
      <4>1. Saving(t)' = Saving(t) \ {s} /\ s \in Saving(t)
        BY <3>1, <3>2, <3>3, Zenon DEF Saving, At
      <4>2. Cardinality(Saving(t)') = Cardinality(Saving(t)) - 1
        BY <2>n, <4>1, FS_RemoveElement
      <4>3. unsent'[t] = unsent[t] - 1
        BY <2>6, <3>1, <3>3, Zenon DEF EnqueueInstance, TypeInv, TypeOK
      <4>4. \A n \in Ticks : spawned'[t][n] = IF n = sched[s].read[t].runAt THEN spawned[t][n] + 1 ELSE spawned[t][n]
        BY <2>6, <3>1, <3>3, Zenon DEF EnqueueInstance, TypeInv, TypeOK
      <4>5. sched[s].read[t].runAt <= clock
        <5>1. sched[s].pc \in Spawning
          BY <3>1, Zenon DEF Spawning
        <5>2. /\ sched[s].read[t].runAt \in Ticks /\ sched[s].now \in 0 .. MaxClock
              /\ sched[s].read[t].runAt <= sched[s].now /\ sched[s].now <= clock
          BY <3>3, <5>1, SpawningRecord, Zenon
        <5>3. \A a, b, c \in Nat : a <= b /\ b <= c => a <= c
          OBVIOUS
        <5>4. sched[s].now \in Nat /\ sched[s].read[t].runAt \in Nat
          BY <2>n, <5>2
        <5> QED  BY <2>n, <5>2, <5>3, <5>4, Zenon
      <4>6. clock' = clock /\ crashes' = crashes /\ errors' = errors
        BY <2>6, Zenon DEF EnqueueInstance
      <4>7. \A n \in Ticks : spawned'[t][n] > 0 => n <= clock'
        BY <2>i, <4>4, <4>5, <4>6, Zenon
      <4> QED  BY <2>i, <2>n, <4>2, <4>3, <4>6, <4>7
    <3>4. CASE sched[s].t # t
      <4>1. Saving(t)' = Saving(t)
        BY <3>1, <3>2, <3>4, Zenon DEF Saving, At
      <4>2. unsent'[t] = unsent[t] /\ spawned'[t] = spawned[t]
        BY <2>6, <3>1, <3>4, Zenon DEF EnqueueInstance, TypeInv, TypeOK
      <4> QED  BY <2>6, <2>i, <4>1, <4>2, Zenon DEF EnqueueInstance
    <3> QED  BY <3>3, <3>4, Zenon
  <2>7. ASSUME NEW s \in Schedulers, CallFails(s) \/ Crash(s)
        PROVE  /\ \A n \in Ticks : spawned'[t][n] > 0 => n <= clock'
               /\ unsent'[t] <= crashes' + errors' + Cardinality(Saving(t)')
    <3>1. \A u \in Schedulers : u # s => sched'[u] = sched[u]
      BY <2>7, Zenon DEF CallFails, Crash, TypeInv, TypeOK
    <3>2. Cardinality(Saving(t)') >= Cardinality(Saving(t)) - 1
      <4>1. Cardinality(Saving(t) \ {s}) >= Cardinality(Saving(t)) - 1
        BY <2>n, FS_RemoveElement
      <4>2. Cardinality(Saving(t) \cup {s}) = Cardinality(Saving(t)) + (IF s \in Saving(t) THEN 0 ELSE 1)
        <5>1. CASE s \in Saving(t)
          <6>1. Saving(t) \cup {s} = Saving(t)
            BY <5>1, Zenon
          <6>2. Cardinality(Saving(t) \cup {s}) = Cardinality(Saving(t))
            BY <6>1, Zenon
          <6> QED  BY <2>n, <5>1, <6>2
        <5>2. CASE s \notin Saving(t)
          BY <2>n, <5>2, FS_AddElement, Zenon
        <5> QED  BY <5>1, <5>2, Zenon
      <4>3. CASE Saving(t)' = Saving(t)
        BY <2>n, <4>3
      <4>4. CASE Saving(t)' = Saving(t) \ {s}
        BY <4>1, <4>4, Zenon
      <4>5. CASE Saving(t)' = Saving(t) \cup {s}
        BY <2>n, <4>2, <4>5
      <4> QED  BY <2>2, <3>1, <4>3, <4>4, <4>5, Zenon
    <3>3. crashes' + errors' = crashes + errors + 1 /\ spawned' = spawned /\ unsent' = unsent /\ clock' = clock
      BY <2>7, <2>n DEF CallFails, Crash
    <3>4. crashes' \in Nat /\ errors' \in Nat
      BY <2>7, <2>n DEF CallFails, Crash
    <3>5. unsent[t] <= crashes' + errors' + Cardinality(Saving(t)')
      <4>1. \A u \in Int : \A a, b, c, d, k, l \in Nat :
              u <= a + b + k /\ l >= k - 1 /\ c + d = a + b + 1 => u <= c + d + l
        OBVIOUS
      <4> QED  BY <2>i, <2>n, <3>2, <3>3, <3>4, <4>1, Zenon
    <3> QED  BY <2>i, <3>3, <3>5, Zenon
  <2>8. ASSUME NEW s \in Schedulers, Advance(s) PROVE Saving(t)' = Saving(t)
    <3>1. sched[s] # Idle /\ sched[s].pc = "advance"
      BY <2>8, SpawningRecord, Zenon DEF Advance, At, Spawning
    <3>2. sched'[s].pc = "next" /\ \A u \in Schedulers : u # s => sched'[u] = sched[u]
      BY <2>8, <3>1, SetPc, Zenon DEF Advance, TypeInv
    <3> QED  BY <3>1, <3>2, Zenon DEF Saving, At
  <2>9. CASE (\E c \in Clients : Read(c) \/ Write(c)) \/ UNCHANGED vars
    <3>1. sched' = sched /\ UNCHANGED <<spawned, unsent, clock, crashes, errors>>
      BY <2>9, Zenon DEF Read, Write, vars
    <3> QED  BY <2>1, <3>1, Zenon DEF Saving, At
  <2>10. ASSUME NEW s \in Schedulers, RecurringJobsDue(s) \/ Crash(s)
         PROVE  /\ \A n \in Ticks : spawned'[t][n] > 0 => n <= clock'
                /\ unsent'[t] <= crashes' + errors' + Cardinality(Saving(t)')
    <3>1. SearchJobs(s) \/ TakeNow(s) \/ Visit(s) \/ Finish(s) \/ Advance(s)
            => UNCHANGED <<spawned, unsent, clock, crashes, errors>>
      BY Zenon DEF SearchJobs, TakeNow, Visit, Finish, Advance
    <3> QED  BY <2>1, <2>4, <2>5, <2>6, <2>7, <2>8, <2>10, <3>1, Zenon DEF RecurringJobsDue
  <2> QED  BY <2>3, <2>9, <2>10, Zenon DEF Next
<1> QED  BY <1>1, <1>2, RecurringTypeCorrect, PTL DEF Spec, TypeInv
-----------------------------------------------------------------------------
(* One instance for a tick.                                                *)

(* One scheduler process runs, as in the deployments of the repository:    *)
(* two of them enqueue one instance each before either writes RunAt.       *)
OneScheduler == \E s \in Schedulers : Schedulers = {s}

(* The ticks a record names are numbers.                                   *)
LEMMA TickTypes ==
  ASSUME TypeInv, NEW t \in Templates
  PROVE  /\ store[t] # Gone => store[t].runAt \in Ticks
         /\ \A n \in Ticks : n \in Nat /\ spawned[t][n] \in Nat
<1>1. store[t] # Gone => store[t] \in Record
  BY Zenon DEF TypeInv, TypeOK, Tables
<1> QED  BY <1>1, RecurringAssumption DEF TypeInv, TypeOK, Record, Ticks

(* What one step does to a template no write of which has been overlapped. *)
LEMMA OnceStep ==
  ASSUME TypeInv, [Next]_vars, NEW s0 \in Schedulers, Schedulers = {s0}, NEW t \in Templates,
         t \notin raced', Once(t), ~ (\E s \in Schedulers : CallFails(s) \/ Crash(s))
  PROVE  Once(t)'
<1> USE DEF Ahead, Advancing
<1>t. /\ store[t] # Gone => store[t].runAt \in Ticks
      /\ \A n \in Ticks : n \in Nat /\ spawned[t][n] \in Nat
  BY TickTypes, Zenon
<1>1. ASSUME spawned' = spawned, store' = store, ~ Advancing(s0, t), ~ Advancing(s0, t)',
             Ahead(s0, t)' => Ahead(s0, t) /\ sched'[s0].read = sched[s0].read
      PROVE  Once(t)'
  <2>1. \A n \in Ticks : store[t] # Gone /\ n >= store[t].runAt => spawned[t][n] = 0
    BY <1>1, Zenon DEF Once
  <2> QED  BY <1>1, <2>1, Zenon DEF Once
<1>2. ASSUME NEW s \in Schedulers, SearchJobs(s) PROVE Once(t)'
  <2>1. s = s0 /\ sched[s0] = Idle /\ sched'[s0].read = store /\ store' = store /\ spawned' = spawned
    BY <1>2, SearchJobsEffect, Zenon DEF TypeInv, SearchJobs
  <2>2. sched'[s0].pc = "now" /\ (t \in sched'[s0].todo => store[t] # Gone)
    BY <1>2, <2>1, SearchJobsEffect, Zenon DEF TypeInv
  <2>3. store[t] # Gone => \A n \in Ticks : n >= store[t].runAt => spawned[t][n] = 0
    BY <2>1, Zenon DEF Once
  <2>4. ~ Advancing(s0, t)' /\ (Ahead(s0, t)' => store[t] # Gone)
    BY <2>2, Zenon
  <2>5. store[t] # Gone => store[t].runAt <= store[t].runAt
    BY <1>t
  <2> QED  BY <2>1, <2>3, <2>4, <2>5, Zenon DEF Once
<1>3. ASSUME NEW s \in Schedulers, TakeNow(s) PROVE Once(t)'
  <2>1. s = s0 /\ sched[s0] # Idle /\ sched[s0].pc = "now" /\ store' = store /\ spawned' = spawned
    BY <1>3, TakeNowEffect, Zenon DEF TypeInv, TakeNow, At
  <2>2. /\ sched'[s0].pc = "next" /\ sched'[s0].read = sched[s0].read /\ sched'[s0].todo = sched[s0].todo
    BY <1>3, <2>1, TakeNowEffect, Zenon DEF TypeInv
  <2> QED  BY <1>1, <2>1, <2>2, Zenon
<1>4. ASSUME NEW s \in Schedulers, Visit(s) PROVE Once(t)'
  <2>1. s = s0 /\ store' = store /\ spawned' = spawned
    BY <1>4, Zenon DEF Visit
  <2>2. PICK u \in sched[s0].todo :
          /\ sched[s0] # Idle /\ sched[s0].pc = "next"
          /\ sched'[s0].pc \in {"save", "next"} /\ sched'[s0].read = sched[s0].read
          /\ sched'[s0].todo = sched[s0].todo \ {u} /\ sched'[s0].t = u
    BY <1>4, <2>1, VisitEffect, Zenon DEF TypeInv
  <2> QED  BY <1>1, <2>1, <2>2, Zenon
<1>5. ASSUME NEW s \in Schedulers, Finish(s) PROVE Once(t)'
  <2>1. s = s0 /\ sched[s0].pc = "next" /\ sched'[s0] = Idle /\ store' = store /\ spawned' = spawned
    BY <1>5, StopEffect, Zenon DEF TypeInv, Finish, At
  <2> QED  BY <1>1, <2>1, Zenon
<1>6. ASSUME NEW s \in Schedulers, SaveInstance(s) PROVE Once(t)'
  <2>1. s = s0 /\ sched[s0] # Idle /\ sched[s0].pc = "save" /\ store' = store /\ spawned' = spawned
    BY <1>6, SpawningRecord, Zenon DEF SaveInstance, At, Spawning
  <2>2. /\ sched'[s0].pc = "enqueue" /\ sched'[s0].read = sched[s0].read /\ sched'[s0].todo = sched[s0].todo
        /\ sched'[s0].t = sched[s0].t
    BY <1>6, <2>1, SetPc, Zenon DEF SaveInstance, TypeInv
  <2> QED  BY <1>1, <2>1, <2>2, Zenon
<1>7. ASSUME NEW s \in Schedulers, EnqueueInstance(s) PROVE Once(t)'
  <2>1. s = s0 /\ sched[s0] # Idle /\ sched[s0].pc = "enqueue" /\ store' = store
    BY <1>7, SpawningRecord, Zenon DEF EnqueueInstance, At, Spawning
  <2>2. /\ sched'[s0].pc = "advance" /\ sched'[s0].read = sched[s0].read /\ sched'[s0].todo = sched[s0].todo
        /\ sched'[s0].t = sched[s0].t /\ sched'[s0] # Idle
    BY <1>7, <2>1, SetPc, Zenon DEF EnqueueInstance, TypeInv
  <2>3. /\ sched[s0].t \notin sched[s0].todo /\ sched[s0].t \in Templates
        /\ sched[s0].read[sched[s0].t].runAt \in Ticks
    BY <2>1, SpawningRecord, Zenon DEF Spawning
  <2>4. CASE sched[s0].t = t
    <3> DEFINE k == sched[s0].read[t].runAt
    <3>0. k \in Ticks
      BY <2>3, <2>4, Zenon
    <3> HIDE DEF k
    <3>1. \A n \in Ticks : spawned'[t][n] = IF n = k THEN spawned[t][n] + 1 ELSE spawned[t][n]
      BY <1>7, <2>1, <2>4, Zenon DEF EnqueueInstance, TypeInv, TypeOK, k
    <3>2. (\A n \in Ticks : n >= k => spawned[t][n] = 0) /\ (store[t] # Gone => k <= store[t].runAt)
      BY <2>1, <2>4, Zenon DEF Once, k
    <3>3. \A n \in Ticks : spawned'[t][n] <= 1 /\ (n > k => spawned'[t][n] = 0)
      <4>1. \A n \in Ticks : spawned[t][n] <= 1
        BY Zenon DEF Once
      <4>2. k >= k
        BY <1>t, <3>0
      <4> QED  BY <1>t, <3>0, <3>1, <3>2, <4>1, <4>2
    <3>4. ~ Ahead(s0, t)' /\ Advancing(s0, t)' /\ k = sched'[s0].read[t].runAt
      BY <2>2, <2>3, <2>4, Zenon DEF k
    <3>5. store[t] # Gone => \A n \in Ticks : n >= store[t].runAt /\ spawned'[t][n] # 0 => n = k
      BY <1>t, <3>0, <3>2, <3>3
    <3> QED  BY <2>1, <3>2, <3>3, <3>4, <3>5 DEF Once
  <2>5. CASE sched[s0].t # t
    <3>1. spawned'[t] = spawned[t]
      BY <1>7, <2>1, <2>3, <2>5, Zenon DEF EnqueueInstance, TypeInv, TypeOK
    <3>2. ~ Advancing(s0, t) /\ ~ Advancing(s0, t)' /\ (Ahead(s0, t)' => Ahead(s0, t))
      BY <2>1, <2>2, <2>5, Zenon
    <3> QED  BY <2>1, <2>2, <3>1, <3>2 DEF Once
  <2> QED  BY <2>4, <2>5, Zenon
<1>8. ASSUME NEW s \in Schedulers, Advance(s) PROVE Once(t)'
  <2>1. s = s0 /\ sched[s0] # Idle /\ sched[s0].pc = "advance" /\ spawned' = spawned
    BY <1>8, SpawningRecord, Zenon DEF Advance, At, Spawning
  <2>2. /\ sched'[s0].pc = "next" /\ sched'[s0].read = sched[s0].read /\ sched'[s0].todo = sched[s0].todo
        /\ sched'[s0].t = sched[s0].t /\ sched'[s0] # Idle
    BY <1>8, <2>1, SetPc, Zenon DEF Advance, TypeInv
  <2>3. /\ sched[s0].t \notin sched[s0].todo /\ sched[s0].t \in Templates
        /\ sched[s0].read[sched[s0].t] \in Record /\ sched[s0].read[sched[s0].t].runAt \in Ticks
        /\ sched[s0].now \in 0 .. MaxClock /\ sched[s0].read[sched[s0].t].runAt <= sched[s0].now
    BY <2>1, SpawningRecord, Zenon DEF Spawning
  <2>4. CASE sched[s0].t = t
    <3>1. store'[t].runAt = sched[s0].now + 1
      <4>1. store'[t] = [sched[s0].read[t] EXCEPT !.runAt = NextRun(sched[s0].now)]
        BY <1>8, <2>1, <2>3, <2>4, Zenon DEF Advance, Save, TypeInv, TypeOK, Tables
      <4>2. [sched[s0].read[t] EXCEPT !.runAt = NextRun(sched[s0].now)].runAt = sched[s0].now + 1
        BY <2>3, <2>4, NewRecord, Zenon DEF TypeInv
      <4> QED  BY <4>1, <4>2, Zenon
    <3>2. \A n \in Ticks : n > sched[s0].read[t].runAt => spawned[t][n] = 0
      BY <2>1, <2>4, Zenon DEF Once
    <3>3. \A n \in Ticks : n >= store'[t].runAt => spawned[t][n] = 0
      <4>1. \A n \in Nat : n >= sched[s0].now + 1 => n > sched[s0].read[t].runAt
        BY <1>t, <2>3, <2>4
      <4> QED  BY <1>t, <3>1, <3>2, <4>1, Zenon
    <3>4. ~ Ahead(s0, t)' /\ ~ Advancing(s0, t)'
      BY <2>2, <2>3, <2>4, Zenon
    <3> QED  BY <2>1, <3>3, <3>4, Zenon DEF Once
  <2>5. CASE sched[s0].t # t
    <3>1. store'[t] = store[t]
      BY <1>8, <2>1, <2>3, <2>5, Zenon DEF Advance, Save, TypeInv, TypeOK, Tables
    <3>2. ~ Advancing(s0, t) /\ ~ Advancing(s0, t)' /\ (Ahead(s0, t)' => Ahead(s0, t))
      BY <2>1, <2>2, <2>5, Zenon
    <3> QED  BY <2>1, <2>2, <3>1, <3>2 DEF Once
  <2> QED  BY <2>4, <2>5, Zenon
<1>9. ASSUME NEW c \in Clients, Write(c) PROVE Once(t)'
  <2>1. sched' = sched /\ spawned' = spawned
    BY <1>9, Zenon DEF Write
  <2>2. \A s \in Schedulers : ~ Advance(s)
    <3>1. SUFFICES ASSUME NEW s \in Schedulers, Advance(s) PROVE FALSE
      OBVIOUS
    <3>2. sched[s] # Idle /\ sched[s].pc = "advance" /\ sched'[s].pc = "next"
      BY <3>1, SpawningRecord, SetPc DEF Advance, At, Spawning, TypeInv
    <3> QED  BY <2>1, <3>2, Zenon
  <2>3. \/ store'[t] = Gone
        \/ store[t] # Gone /\ store'[t].runAt = store[t].runAt
    <3>1. ASSUME NEW d \in Clients, client[d] \in Request, client[d].op # "delete", store[t] # Gone,
                 store'[t] = Edited(client[d].op, store[t])
          PROVE  store'[t].runAt = store[t].runAt
      <4>1. store[t] \in Record
        BY <3>1, Zenon DEF TypeInv, TypeOK, Tables
      <4>2. client[d].op \in {"pause", "resume", "cancel", "replay"}
        BY <3>1, Zenon DEF Request
      <4>3. 0 \in 0 .. MaxClock
        BY RecurringAssumption
      <4>4. Edited(client[d].op, store[t]).runAt = store[t].runAt
        BY <4>1, <4>2, <4>3, NewRecord, Zenon DEF TypeInv
      <4> QED  BY <3>1, <4>4, Zenon
    <3> QED  BY <2>2, <3>1, StoreStep, Zenon
  <2> QED  BY <2>1, <2>3 DEF Once
<1>10. CASE Passes \/ (\E c \in Clients : Read(c)) \/ UNCHANGED vars
  <2>1. sched' = sched /\ spawned' = spawned /\ store' = store
    BY <1>10, Zenon DEF Passes, Read, vars
  <2> QED  BY <2>1 DEF Once
<1> QED  BY <1>2, <1>3, <1>4, <1>5, <1>6, <1>7, <1>8, <1>9, <1>10, Zenon DEF Next, RecurringJobsDue

(* OneInstancePerTick: one scheduler that neither crashes nor meets an     *)
(* error or an overlapping write enqueues at most one instance of a        *)
(* template for a tick.                                                    *)
THEOREM OneInstancePerTickInvariant == OneScheduler => (Spec => []OneInstancePerTick)
<1> SUFFICES ASSUME OneScheduler PROVE Spec => []OneInstancePerTick
  OBVIOUS
<1>1. Init => OnceInv
  <2> SUFFICES ASSUME Init, NEW t \in Templates PROVE Once(t)
    BY Zenon DEF OnceInv
  <2>1. \A s \in Schedulers : sched[s] = Idle
    BY Zenon DEF Init
  <2> QED  BY <2>1 DEF Init, Once, Ahead, Advancing
<1>2. TypeInv /\ OnceInv /\ [Next]_vars => OnceInv'
  <2> SUFFICES ASSUME TypeInv, OnceInv, [Next]_vars, crashes' + errors' = 0,
                      NEW t \in Templates, t \notin raced'
               PROVE  Once(t)'
    BY Zenon DEF OnceInv
  <2>1. PICK s0 \in Schedulers : Schedulers = {s0}
    BY Zenon DEF OneScheduler
  <2>2. crashes \in Nat /\ errors \in Nat
    BY DEF TypeInv, TypeOK
  <2>3. ~ (\E s \in Schedulers : CallFails(s) \/ Crash(s))
    BY <2>2 DEF CallFails, Crash
  <2>4. crashes' = crashes /\ errors' = errors
    BY <2>3, Zenon DEF Next, Passes, RecurringJobsDue, SearchJobs, TakeNow, Visit, Finish, SaveInstance,
                EnqueueInstance, Advance, Read, Write, vars
  <2>5. Once(t)
    BY <2>4, StoreStep, Zenon DEF OnceInv
  <2> QED  BY <2>1, <2>3, <2>5, OnceStep, Zenon
<1>3. OnceInv => OneInstancePerTick
  BY Zenon DEF OnceInv, Once, OneInstancePerTick
<1> QED  BY <1>1, <1>2, <1>3, RecurringTypeCorrect, PTL DEF Spec, TypeInv
=============================================================================
