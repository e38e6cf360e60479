-------------------------- MODULE SubmissionProofs --------------------------
(***************************************************************************)
(* The rate limit and the dependency check, for any number of requests.    *)
(***************************************************************************)
EXTENDS Submission, FiniteSetTheorems, TLAPS

Expiring == {r \in Requests : At(r, "expire")}

(* One request at a time owes the counter its time to live, and holds one  *)
(* of the RateLimit places while it does.                                  *)
RateInv ==
  /\ IsFiniteSet(admitted)
  /\ \A q, r \in Expiring : q = r
  /\ Expiring # {} => rate > 0 /\ ~ expires
  /\ rate = 0 => admitted = {} /\ ~ expires
  /\ \A n \in {rate, RateLimit} :
       Cardinality(admitted) + (IF Expiring = {} THEN 0 ELSE 1) <= n
  /\ rate > 0 /\ ~ expires => errors + crashes > 0 \/ Expiring # {}

-----------------------------------------------------------------------------
Before == {"absent", "new", "deps", "rate", "expire", "save"}

Fanning(r) == r = Parent /\ fan > 0

(* Nothing is known of a job before its request has saved it.              *)
Fresh(r) ==
  pc[r] \in Before => /\ store[r] = "none" /\ queue[r] = 0 /\ ~ Fanning(r)
                      /\ r \notin executed \cup completed \cup replayed

(* Only a job that was ready, or was replayed, is queued and executed.     *)
Entitled(r) == queue[r] > 0 \/ Fanning(r) \/ r \in executed => ready[r] \/ r \in replayed

(* A job that was not replayed is in one place.                            *)
Single(r) ==
  r \notin replayed =>
    /\ queue[r] <= 1
    /\ queue[r] > 0 => ~ Fanning(r)
    /\ queue[r] > 0 \/ Fanning(r) => ~ At(r, "enqueue") /\ r \notin completed
    /\ r \in completed => ~ At(r, "enqueue")

Known(d) == store[d] # "none" \/ d \in deleted

(* The dependencies of a job were looked up before it was let in: they     *)
(* were in the store ...                                                   *)
DepsSeen(r) ==
  \/ pc[r] \in {"rate", "expire", "save"} \/ store[r] # "none" \/ queue[r] > 0
  \/ At(r, "enqueue") /\ ready[r]
  => \A d \in Deps[r] : Known(d)

(* ... and completed, if the job was found ready.                          *)
DepsDone(r) ==
  /\ r \notin replayed /\ ready[r]
  /\ pc[r] \in {"rate", "expire", "save", "enqueue"} \/ queue[r] > 0
  => Deps[r] \subseteq completed

(* What has completed stays so until it is replayed, cancelled or deleted. *)
Settled(r) ==
  /\ store[r] = "completed" => r \in completed
  /\ r \in completed \ (replayed \cup cancelled) => store[r] \in {"completed", "none"}

JobInv(r) == Fresh(r) /\ Entitled(r) /\ Single(r) /\ DepsSeen(r) /\ DepsDone(r) /\ Settled(r)

(* The jobs of a fan-out are submitted in order, each after the one before *)
(* it was accepted.                                                        *)
FanInv ==
  /\ fan > 0 => Parent \in Requests /\ \A i \in DOMAIN Fan : i > fan => At(Fan[i], "absent")
  /\ \A i \in DOMAIN Fan : ~ At(Fan[i], "absent") => \A j \in DOMAIN Fan : j < i => At(Fan[j], "created")
  /\ Parent \in completed => \A r \in MapJobs : At(r, "created")

DepsInv ==
  /\ \A r \in Requests : JobInv(r)
  /\ \A r \in early : errors > 0 \/ Deps[r] \cap deleted # {}
  /\ \A r \in dropped : ({r} \cup Deps[r]) \cap (replayed \cup cancelled) # {}
-----------------------------------------------------------------------------
(* Types.                                                                  *)

(* What SubmissionAssumption says of the jobs a map_reduce job submits.    *)
LEMMA FanFacts ==
  /\ Len(Fan) \in Nat /\ DOMAIN Fan = 1 .. Len(Fan)
  /\ \A i \in DOMAIN Fan : Fan[i] \in Requests /\ Fan[i] \notin Batched
  /\ Parent \in Requests => Len(Fan) > 0 /\ Deps[Parent] = {}
  /\ Fan # << >> => Len(Fan) > 0
<1>1. Fan \in Seq(Requests \ (Batched \cup {Parent}))
  BY SubmissionAssumption, Zenon
<1>2. Len(Fan) \in Nat /\ DOMAIN Fan = 1 .. Len(Fan)
  BY <1>1
<1>3. \A i \in DOMAIN Fan : Fan[i] \in Requests \ (Batched \cup {Parent})
  BY <1>1
<1>4. Fan # << >> => Len(Fan) > 0
  BY <1>1
<1> QED  BY <1>2, <1>3, <1>4, SubmissionAssumption, Zenon

(* A step moves one request, a batch, or none.                             *)
Places == {"absent", "new", "deps", "rate", "expire", "save", "enqueue", "died"} \cup Answered

LEMMA GotoType ==
  ASSUME TypeOK, NEW r \in Requests, NEW l \in Places, Goto(r, l)
  PROVE  pc' \in [Requests -> Places] /\ pc'[r] = l /\ \A q \in Requests : q # r => pc'[q] = pc[q]
BY Zenon DEF TypeOK, Goto, Places

TypeInv == TypeOK /\ (fan > 0 => Parent \in Requests)

(* TypeOK: the calls of a request, the counter and the queue keep their    *)
(* types; and only a map_reduce job submits others.                        *)
THEOREM SubmissionTypeCorrect == Spec => []TypeInv
<1>1. Init => TypeInv
  <2> SUFFICES ASSUME Init PROVE TypeOK
    <3>1. Init => ~ (fan > 0)
      BY DEF Init
    <3> QED  BY <3>1, Zenon DEF TypeInv
  <2>1. pc \in [Requests -> Places]
    BY Zenon DEF Init, Places
  <2>2. 0 \in 0 .. Len(Fan) /\ 0 \in 0 .. MaxErrors /\ 0 \in 0 .. MaxCrashes /\ 0 \in 0 .. MaxEdits
    BY FanFacts, SubmissionAssumption
  <2> QED  BY <2>1, <2>2, Zenon DEF Init, TypeOK, Places, Statuses
<1>2. TypeInv /\ [Next]_vars => TypeInv'
  <2> SUFFICES ASSUME TypeInv, [Next]_vars PROVE TypeInv'
    OBVIOUS
  <2>f. (fan > 0 => Parent \in Requests)'
    <3>1. fan \in 0 .. Len(Fan) /\ (fan > 0 => Parent \in Requests)
      BY Zenon DEF TypeInv, TypeOK
    <3>2. CASE MapReduce
      <4>1. MapReduceStarts => Parent \in Requests
        BY Zenon DEF MapReduceStarts
      <4>2. MapReduceGoesOn => Parent \in Requests
        BY <3>1 DEF MapReduceGoesOn
      <4>3. MapReduceEnds \/ MapReduceReclaimed => fan' = 0
        BY Zenon DEF MapReduceEnds, MapReduceReclaimed
      <4> QED  BY <3>2, <4>1, <4>2, <4>3 DEF MapReduce
    <3>3. CASE UNCHANGED fan
      BY <3>1, <3>3, Zenon
    <3> QED  BY <3>2, <3>3, Zenon DEF Next, vars
  <2>t. TypeOK /\ (fan > 0 => Parent \in Requests)
    BY Zenon DEF TypeInv
  <2> USE <2>t DEF redisVars, envVars, histVars, vars
  <2>b. {MaxErrors, MaxCrashes, MaxEdits} \subseteq Nat
    BY SubmissionAssumption, Zenon
  <2>e. Error \/ NoError => errors' \in 0 .. MaxErrors
    BY <2>b DEF Error, NoError, TypeOK
  <2>1. ASSUME NEW r \in Requests, Dedup(r) \/ CheckDeps(r) \/ CheckDepsFails(r) \/ IncrFails(r), UNCHANGED fan
        PROVE  TypeOK'
    <3>1. pc' \in [Requests -> Places]
      BY <2>1, GotoType, Zenon DEF Dedup, CheckDeps, CheckDepsFails, IncrFails, Places, Answered
    <3>2. errors' \in 0 .. MaxErrors
      BY <2>1, <2>e, Zenon DEF Dedup, CheckDeps, CheckDepsFails, IncrFails
    <3>3. dedup' \subseteq Keys
      BY <2>1, Zenon DEF Dedup, CheckDeps, CheckDepsFails, IncrFails, TypeOK, Keys
    <3>4. ready' \in [Requests -> BOOLEAN]
      BY <2>1, Zenon DEF Dedup, CheckDeps, CheckDepsFails, IncrFails, TypeOK
    <3> QED  BY <2>1, <3>1, <3>2, <3>3, <3>4, Zenon DEF Dedup, CheckDeps, CheckDepsFails, IncrFails, TypeOK, Places
  <2>2. ASSUME NEW r \in Requests, Incr(r) \/ Expire(r), UNCHANGED fan PROVE TypeOK'
    <3>1. pc' \in [Requests -> Places]
      BY <2>2, GotoType, Zenon DEF Incr, Expire, Verdict, Places, Answered
    <3>2. errors' \in 0 .. MaxErrors
      BY <2>2, <2>e, Zenon DEF Incr, Expire, NoError
    <3>3. rate' \in Nat /\ admitted' \subseteq Requests
      BY <2>2 DEF Incr, Expire, TypeOK
    <3>4. expires' \in BOOLEAN
      BY <2>2, Zenon DEF Incr, Expire, TypeOK
    <3> QED  BY <2>2, <3>1, <3>2, <3>3, <3>4 DEF Incr, Expire, TypeOK, Places
  <2>3. ASSUME NEW r \in Requests, Save(r) \/ Enqueue(r) \/ EnqueueFails(r), UNCHANGED fan PROVE TypeOK'
    <3>1. pc' \in [Requests -> Places]
      BY <2>3, GotoType, Zenon DEF Save, Enqueue, EnqueueFails, Places, Answered
    <3>2. errors' \in 0 .. MaxErrors
      BY <2>3, <2>e, Zenon DEF Save, Enqueue, EnqueueFails
    <3>3. store' \in [Requests -> Statuses]
      BY <2>3, Zenon DEF Save, Enqueue, EnqueueFails, TypeOK, Statuses
    <3>4. queue' \in [Requests -> Nat]
      BY <2>3 DEF Save, Enqueue, EnqueueFails, TypeOK
    <3> QED  BY <2>3, <3>1, <3>2, <3>3, <3>4, Zenon DEF Save, Enqueue, EnqueueFails, TypeOK, Places
  <2>4. ASSUME SaveBatch \/ WindowEnds \/ DedupKeyExpires, UNCHANGED fan PROVE TypeOK'
    <3>1. pc' \in [Requests -> Places]
      BY <2>4, Zenon DEF SaveBatch, WindowEnds, DedupKeyExpires, Places, Answered, TypeOK
    <3>2. errors' \in 0 .. MaxErrors
      BY <2>4, <2>e, Zenon DEF SaveBatch, WindowEnds, DedupKeyExpires, NoError
    <3>3. ready' \in [Requests -> BOOLEAN] /\ batchKeys' \subseteq Batched
      BY <2>4, Zenon DEF SaveBatch, WindowEnds, DedupKeyExpires, TypeOK
    <3>4. rate' \in Nat /\ dedup' \subseteq Keys /\ admitted' \subseteq Requests
      BY <2>4 DEF SaveBatch, WindowEnds, DedupKeyExpires, TypeOK
    <3>5. expires' \in BOOLEAN
      BY <2>4, Zenon DEF SaveBatch, WindowEnds, DedupKeyExpires, TypeOK
    <3> QED  BY <2>4, <3>1, <3>2, <3>3, <3>4, <3>5, Zenon DEF SaveBatch, WindowEnds, DedupKeyExpires, TypeOK, Places
  <2>5. ASSUME NEW r \in Requests, Crash(r), UNCHANGED fan PROVE TypeOK'
    <3>1. pc' \in [Requests -> Places]
      BY <2>5, Zenon DEF Crash, Places, Answered, TypeOK
    <3>2. crashes' \in 0 .. MaxCrashes
      BY <2>5, <2>b DEF Crash, TypeOK
    <3> QED  BY <2>5, <3>1, <3>2, Zenon DEF Crash, TypeOK, Places
  <2>6. ASSUME NEW r \in Requests, Worker(r), UNCHANGED fan PROVE TypeOK'
    <3>1. errors' \in 0 .. MaxErrors
      BY <2>6, <2>e, Zenon DEF Worker, DropBlocked, Execute, NoError
    <3>2. queue' \in [Requests -> Nat]
      <4>1. queue \in [Requests -> Nat] /\ queue[r] > 0 /\ queue' = [queue EXCEPT ![r] = queue[r] - 1]
        BY <2>6, Zenon DEF Worker, DropBlocked, Execute, Pop, TypeOK
      <4> QED  BY <4>1
    <3>3. store' \in [Requests -> Statuses]
      BY <2>6, Zenon DEF Worker, DropBlocked, Execute, Record, TypeOK, Statuses
    <3>4. /\ executed' \subseteq Requests /\ completed' \subseteq Requests
          /\ early' \subseteq Requests /\ dropped' \subseteq Requests
      BY <2>6, Zenon DEF Worker, DropBlocked, Execute, Record, TypeOK
    <3> QED  BY <2>6, <3>1, <3>2, <3>3, <3>4 DEF Worker, DropBlocked, Execute, TypeOK
  <2>7. ASSUME NEW r \in Requests, ReplayJob(r) \/ CancelJob(r) \/ DeleteJob(r), UNCHANGED fan PROVE TypeOK'
    <3>1. edits' \in 0 .. MaxEdits
      BY <2>7, <2>b DEF ReplayJob, CancelJob, DeleteJob, Edit, TypeOK
    <3>2. queue' \in [Requests -> Nat]
      BY <2>7 DEF ReplayJob, CancelJob, DeleteJob, TypeOK
    <3>3. store' \in [Requests -> Statuses]
      BY <2>7, Zenon DEF ReplayJob, CancelJob, DeleteJob, TypeOK, Statuses
    <3>4. replayed' \subseteq Requests /\ cancelled' \subseteq Requests /\ deleted' \subseteq Requests
      BY <2>7, Zenon DEF ReplayJob, CancelJob, DeleteJob, TypeOK
    <3> QED  BY <2>7, <3>1, <3>2, <3>3, <3>4 DEF ReplayJob, CancelJob, DeleteJob, TypeOK
  <2>8. ASSUME MapReduceStarts PROVE TypeOK'
    <3>1. 1 \in DOMAIN Fan /\ 1 \in 0 .. Len(Fan)
      BY <2>8, FanFacts DEF MapReduceStarts
    <3>2. pc' \in [Requests -> Places]
      BY <2>8, <3>1, FanFacts, GotoType, Zenon DEF MapReduceStarts, Places
    <3>3. queue' \in [Requests -> Nat]
      BY <2>8 DEF MapReduceStarts, Pop, TypeOK
    <3> QED  BY <2>8, <3>1, <3>2, <3>3 DEF MapReduceStarts, TypeOK, Places
  <2>9. ASSUME MapReduceGoesOn PROVE TypeOK'
    <3>1. fan + 1 \in DOMAIN Fan /\ fan + 1 \in 0 .. Len(Fan)
      BY <2>9, FanFacts DEF MapReduceGoesOn
    <3>2. pc' \in [Requests -> Places]
      BY <2>9, <3>1, FanFacts, GotoType, Zenon DEF MapReduceGoesOn, Places
    <3> QED  BY <2>9, <3>1, <3>2, Zenon DEF MapReduceGoesOn, TypeOK, Places
  <2>10. ASSUME MapReduceEnds \/ MapReduceReclaimed PROVE TypeOK'
    <3>1. 0 \in 0 .. Len(Fan)
      BY FanFacts
    <3>2. queue' \in [Requests -> Nat]
      BY <2>10 DEF MapReduceEnds, MapReduceReclaimed, TypeOK
    <3>3. store' \in [Requests -> Statuses] /\ completed' \subseteq Requests
      BY <2>10, Zenon DEF MapReduceEnds, MapReduceReclaimed, Record, TypeOK, Statuses
    <3> QED  BY <2>10, <3>1, <3>2, <3>3, Zenon DEF MapReduceEnds, MapReduceReclaimed, TypeOK
  <2>11. ASSUME UNCHANGED vars PROVE TypeOK'
    BY <2>11, Zenon DEF TypeOK
  <2> QED  BY <2>f, <2>1, <2>2, <2>3, <2>4, <2>5, <2>6, <2>7, <2>8, <2>9, <2>10, <2>11, Zenon
          DEF Next, CreateJob, MapReduce, TypeInv
<1> QED  BY <1>1, <1>2, PTL DEF Spec
-----------------------------------------------------------------------------
(* The fan-out.                                                            *)

(* Only the map_reduce plugin makes a job exist, and what was created      *)
(* stays created.                                                          *)
LEMMA PcFrame ==
  ASSUME TypeInv, [Next]_vars, ~ MapReduceStarts, ~ MapReduceGoesOn, NEW q \in Requests
  PROVE  /\ pc'[q] = "absent" <=> pc[q] = "absent"
         /\ pc[q] = "created" => pc'[q] = "created"
<1> USE DEF redisVars, envVars, histVars, vars
<1>t. pc \in [Requests -> Places]
  BY Zenon DEF TypeInv, TypeOK, Places
<1>1. ASSUME NEW r \in Requests, NEW l \in Places, Goto(r, l), pc[r] \notin {"absent", "created"}, l # "absent"
      PROVE  /\ pc'[q] = "absent" <=> pc[q] = "absent"
             /\ pc[q] = "created" => pc'[q] = "created"
  BY <1>1, <1>t, Zenon DEF Goto
<1>2. ASSUME NEW r \in Requests, CreateJob(r)
      PROVE  \E l \in Places : Goto(r, l) /\ pc[r] \notin {"absent", "created"} /\ l # "absent"
  <2>1. CASE Dedup(r) \/ CheckDeps(r) \/ CheckDepsFails(r)
    BY <2>1, Zenon DEF Dedup, CheckDeps, CheckDepsFails, Places, Answered, At
  <2>2. CASE IncrFails(r) \/ Save(r) \/ Enqueue(r) \/ EnqueueFails(r)
    BY <2>2, Zenon DEF IncrFails, Save, Enqueue, EnqueueFails, Places, Answered, At
  <2>3. CASE Incr(r) \/ Expire(r)
    BY <2>3, Zenon DEF Incr, Expire, Verdict, Places, Answered, At
  <2> QED  BY <1>2, <2>1, <2>2, <2>3, Zenon DEF CreateJob
<1>3. CASE SaveBatch
  <2>1. \A r \in Batched : pc[r] = "new"
    BY <1>3, Zenon DEF SaveBatch, At
  <2>2. \E l \in {"enqueue", "error"} : pc' = [r \in Requests |-> IF r \in Batched THEN l ELSE pc[r]]
    BY <1>3, Zenon DEF SaveBatch
  <2> QED  BY <2>1, <2>2, Zenon
<1>4. ASSUME NEW r \in Requests, Crash(r)
      PROVE  /\ pc'[q] = "absent" <=> pc[q] = "absent"
             /\ pc[q] = "created" => pc'[q] = "created"
  BY <1>4, Zenon DEF Crash, Answered, At
<1>5. CASE \/ \E r \in Requests : Worker(r) \/ ReplayJob(r) \/ CancelJob(r) \/ DeleteJob(r)
           \/ WindowEnds \/ DedupKeyExpires \/ MapReduceEnds \/ MapReduceReclaimed \/ UNCHANGED vars
  <2>1. pc' = pc
    BY <1>5, Zenon DEF Worker, DropBlocked, Execute, ReplayJob, CancelJob, DeleteJob, WindowEnds, DedupKeyExpires,
                MapReduceEnds, MapReduceReclaimed
  <2> QED  BY <2>1, Zenon
<1> QED  BY <1>1, <1>2, <1>3, <1>4, <1>5, Zenon DEF Next, MapReduce

(* The jobs of a fan-out come into being one after the other.              *)
THEOREM FanOutInOrder == Spec => []FanInv
<1>1. Init => FanInv
  <2> SUFFICES ASSUME Init PROVE FanInv
    OBVIOUS
  <2>1. \A i \in DOMAIN Fan : At(Fan[i], "absent")
    <3>1. PICK S \in Scenarios : pc = [r \in Requests |-> IF r \in S THEN "new" ELSE "absent"]
      BY Zenon DEF Init
    <3>2. S \subseteq Requests \ Spawned
      BY SubmissionAssumption, Zenon
    <3> QED  BY <3>1, <3>2, FanFacts, Zenon DEF At, Spawned
  <2>2. fan = 0 /\ completed = {}
    BY Zenon DEF Init
  <2> QED  BY <2>1, <2>2 DEF FanInv
<1>2. TypeInv /\ FanInv /\ [Next]_vars => FanInv'
  <2> SUFFICES ASSUME TypeInv, FanInv, [Next]_vars PROVE FanInv'
    OBVIOUS
  <2>t. fan \in 0 .. Len(Fan) /\ pc \in [Requests -> Places] /\ (fan > 0 => Parent \in Requests)
    BY Zenon DEF TypeInv, TypeOK, Places
  <2>m. \A r \in MapJobs : \E j \in DOMAIN Fan : r = Fan[j] /\ j < Len(Fan)
    BY FanFacts DEF MapJobs
  <2>1. ASSUME ~ MapReduceStarts, ~ MapReduceGoesOn PROVE FanInv'
    <3>1. \A i \in DOMAIN Fan : /\ At(Fan[i], "absent")' <=> At(Fan[i], "absent")
                                /\ At(Fan[i], "created") => At(Fan[i], "created")'
      BY <2>1, FanFacts, PcFrame, Zenon DEF At
    <3>2. fan' = fan \/ fan' = 0
      BY <2>1, Zenon DEF Next, MapReduce, MapReduceEnds, MapReduceReclaimed, vars
    <3>3. Parent \in completed' => \A r \in MapJobs : At(r, "created")
      <4>1. CASE Parent \in completed
        BY <4>1, Zenon DEF FanInv
      <4>2. CASE MapReduceEnds /\ Parent \in completed' /\ Parent \notin completed
        <5>1. fan = Len(Fan) /\ At(Fan[fan], "created") /\ fan > 0
          BY <4>2, Zenon DEF MapReduceEnds, Record
        <5> QED  BY <2>t, <2>m, <5>1, FanFacts DEF FanInv, At
      <4>3. CASE ~ MapReduceEnds /\ Parent \notin completed
        <5>1. ~ (\E r \in Requests : Execute(r)) => completed' = completed
          BY <2>1, <4>3 DEF Next, CreateJob, Dedup, CheckDeps, CheckDepsFails, Incr, IncrFails, Expire, Save,
             Enqueue, EnqueueFails, Crash, Worker, DropBlocked, ReplayJob, CancelJob, DeleteJob, SaveBatch,
             WindowEnds, DedupKeyExpires, MapReduce, MapReduceReclaimed, histVars, vars
        <5>2. ASSUME NEW r \in Requests, Execute(r) PROVE Parent \notin completed'
          BY <4>3, <5>2, Zenon DEF Execute, Record
        <5> QED  BY <4>3, <5>1, <5>2, Zenon
      <4> QED  BY <4>1, <4>2, <4>3, Zenon
    <3>4. Parent \in completed' => \A r \in MapJobs : At(r, "created")'
      BY <2>m, <3>1, <3>3, Zenon
    <3>5. fan' > 0 => Parent \in Requests /\ \A i \in DOMAIN Fan : i > fan' => At(Fan[i], "absent")'
      BY <3>1, <3>2 DEF FanInv
    <3>6. (\A i \in DOMAIN Fan : ~ At(Fan[i], "absent") => \A j \in DOMAIN Fan : j < i => At(Fan[j], "created"))'
      BY <3>1, Zenon DEF FanInv
    <3> QED  BY <3>4, <3>5, <3>6, Zenon DEF FanInv
  <2>2. ASSUME NEW k \in DOMAIN Fan, Goto(Fan[k], "new"), fan' = k, completed' = completed, Parent \in Requests,
               \A i \in DOMAIN Fan : i >= k => At(Fan[i], "absent"),
               \A i \in DOMAIN Fan : i < k => At(Fan[i], "created")
        PROVE  FanInv'
    <3>1. \A i \in DOMAIN Fan : i # k => pc'[Fan[i]] = pc[Fan[i]]
      BY <2>t, <2>2, FanFacts, SubmissionAssumption, Zenon DEF Goto
    <3>2. pc'[Fan[k]] = "new"
      BY <2>t, <2>2, FanFacts, Zenon DEF Goto
    <3>3. \A i \in DOMAIN Fan : /\ i > k => At(Fan[i], "absent")'
                                /\ i < k => At(Fan[i], "created")'
      BY <2>2, <3>1, FanFacts DEF At
    <3>4. \A r \in MapJobs : At(r, "created") => At(r, "created")'
      <4>1. ~ At(Fan[k], "created")
        BY <2>2, FanFacts DEF At
      <4> QED  BY <2>m, <3>1, <4>1, Zenon DEF At
    <3>5. (Parent \in completed => \A r \in MapJobs : At(r, "created"))'
      BY <2>2, <3>4, Zenon DEF FanInv
    <3>6. (\A i \in DOMAIN Fan : ~ At(Fan[i], "absent") => \A j \in DOMAIN Fan : j < i => At(Fan[j], "created"))'
      <4>1. \A i \in DOMAIN Fan : ~ At(Fan[i], "absent")' => i <= k
        BY <3>3, FanFacts
      <4>2. \A i, j \in DOMAIN Fan : i <= k /\ j < i => j < k
        BY FanFacts
      <4> QED  BY <3>3, <4>1, <4>2, Zenon
    <3> QED  BY <2>2, <3>3, <3>5, <3>6, Zenon DEF FanInv
  <2>3. CASE MapReduceStarts
    <3>1. /\ Parent \in Requests /\ At(Fan[1], "absent") /\ fan' = 1 /\ Goto(Fan[1], "new")
          /\ completed' = completed
      BY <2>3, Zenon DEF MapReduceStarts
    <3>2. 1 \in DOMAIN Fan /\ \A i \in DOMAIN Fan : i >= 1 /\ (i # 1 => 1 < i)
      BY <3>1, FanFacts
    <3>3. \A i \in DOMAIN Fan : At(Fan[i], "absent")
      BY <3>1, <3>2, Zenon DEF FanInv, At
    <3>4. \A i \in DOMAIN Fan : ~ (i < 1)
      BY FanFacts
    <3> QED  BY <2>2, <3>1, <3>2, <3>3, <3>4, Zenon
  <2>4. CASE MapReduceGoesOn
    <3>1. /\ fan \in 1 .. Len(Fan) - 1 /\ At(Fan[fan], "created") /\ fan' = fan + 1
          /\ Goto(Fan[fan + 1], "new") /\ completed' = completed
      BY <2>4, Zenon DEF MapReduceGoesOn, histVars
    <3>2. fan \in DOMAIN Fan /\ fan + 1 \in DOMAIN Fan /\ Parent \in Requests /\ fan > 0
      BY <2>t, <3>1, FanFacts
    <3>3. \A i \in DOMAIN Fan : i >= fan + 1 => At(Fan[i], "absent")
      BY <3>1, <3>2, FanFacts DEF FanInv
    <3>4. \A i \in DOMAIN Fan : i < fan + 1 => At(Fan[i], "created")
      <4>1. ~ At(Fan[fan], "absent")
        BY <3>1, Zenon DEF At
      <4> QED  BY <3>1, <3>2, <4>1, FanFacts DEF FanInv
    <3> QED  BY <2>2, <3>1, <3>2, <3>3, <3>4, Zenon
  <2> QED  BY <2>1, <2>3, <2>4, Zenon
<1> QED  BY <1>1, <1>2, SubmissionTypeCorrect, PTL DEF Spec

-----------------------------------------------------------------------------
(* The rate limit.                                                         *)

Limiter(r) == Incr(r) \/ Expire(r) \/ Crash(r)

(* The other steps leave the counter, and who owes it a time to live.      *)
LEMMA RateFrame ==
  ASSUME TypeInv, FanInv, [Next]_vars, ~ WindowEnds, \A r \in Requests : ~ Limiter(r)
  PROVE  /\ UNCHANGED <<rate, expires, admitted>> /\ Expiring' = Expiring
         /\ errors \in Nat /\ errors' \in Nat /\ errors' >= errors /\ crashes' = crashes
<1> USE DEF redisVars, envVars, histVars, vars
<1>t. errors \in Nat /\ pc \in [Requests -> Places]
  BY SubmissionAssumption DEF TypeInv, TypeOK, Places
<1>e. Error \/ NoError => errors' \in Nat /\ errors' >= errors
  BY <1>t DEF Error, NoError
<1>1. ASSUME NEW r \in Requests, NEW l \in Places, Goto(r, l), ~ At(r, "expire"), l # "expire"
      PROVE  Expiring' = Expiring
  BY <1>1, <1>t, Zenon DEF Expiring, At, Goto
<1>2. ASSUME pc' = pc PROVE Expiring' = Expiring
  BY <1>2, Zenon DEF Expiring, At
<1>3. ASSUME NEW r \in Requests, CreateJob(r), ~ Limiter(r)
      PROVE  /\ UNCHANGED <<rate, expires, admitted, crashes>> /\ Expiring' = Expiring
             /\ errors' \in Nat /\ errors' >= errors
  <2>1. CASE Dedup(r) \/ CheckDeps(r) \/ CheckDepsFails(r)
    <3>1. \E l \in Places : Goto(r, l) /\ ~ At(r, "expire") /\ l # "expire"
      BY <2>1, Zenon DEF Dedup, CheckDeps, CheckDepsFails, Places, Answered, At
    <3>2. Error \/ NoError
      BY <2>1, Zenon DEF Dedup, CheckDeps, CheckDepsFails
    <3> QED  BY <2>1, <3>1, <3>2, <1>1, <1>e, Zenon DEF Dedup, CheckDeps, CheckDepsFails
  <2>2. CASE IncrFails(r) \/ Save(r) \/ Enqueue(r) \/ EnqueueFails(r)
    <3>1. \E l \in Places : Goto(r, l) /\ ~ At(r, "expire") /\ l # "expire"
      BY <2>2, Zenon DEF IncrFails, Save, Enqueue, EnqueueFails, Places, Answered, At
    <3>2. Error \/ NoError
      BY <2>2, Zenon DEF IncrFails, Save, Enqueue, EnqueueFails
    <3> QED  BY <2>2, <3>1, <3>2, <1>1, <1>e, Zenon DEF IncrFails, Save, Enqueue, EnqueueFails
  <2> QED  BY <1>3, <2>1, <2>2, Zenon DEF CreateJob, Limiter
<1>4. ASSUME NEW r \in Requests, Worker(r) \/ ReplayJob(r) \/ CancelJob(r) \/ DeleteJob(r)
      PROVE  /\ UNCHANGED <<rate, expires, admitted, crashes>> /\ Expiring' = Expiring
             /\ errors' \in Nat /\ errors' >= errors
  <2>1. UNCHANGED <<pc, rate, expires, admitted, crashes>> /\ (Error \/ NoError)
    BY <1>4, Zenon DEF Worker, DropBlocked, Execute, ReplayJob, CancelJob, DeleteJob, NoError
  <2> QED  BY <2>1, <1>2, <1>e, Zenon
<1>5. ASSUME SaveBatch
      PROVE  /\ UNCHANGED <<rate, expires, admitted, crashes>> /\ Expiring' = Expiring
             /\ errors' \in Nat /\ errors' >= errors
  <2>1. UNCHANGED <<rate, expires, admitted, crashes>> /\ (Error \/ NoError)
    BY <1>5, Zenon DEF SaveBatch
  <2>2. Expiring' = Expiring
    <3>1. \A r \in Batched : pc[r] = "new"
      BY <1>5, Zenon DEF SaveBatch, At
    <3>2. \E l \in {"enqueue", "error"} : pc' = [r \in Requests |-> IF r \in Batched THEN l ELSE pc[r]]
      BY <1>5, Zenon DEF SaveBatch
    <3> QED  BY <3>1, <3>2, SubmissionAssumption, Zenon DEF Expiring, At
  <2> QED  BY <2>1, <2>2, <1>e, Zenon
<1>6. ASSUME MapReduce
      PROVE  /\ UNCHANGED <<rate, expires, admitted, crashes, errors>> /\ Expiring' = Expiring
  <2>1. UNCHANGED <<rate, expires, admitted, crashes, errors>>
    BY <1>6, Zenon DEF MapReduce, MapReduceStarts, MapReduceGoesOn, MapReduceEnds, MapReduceReclaimed
  <2>2. CASE MapReduceEnds \/ MapReduceReclaimed
    BY <1>2, <2>1, <2>2, Zenon DEF MapReduceEnds, MapReduceReclaimed
  <2>3. CASE MapReduceStarts
    <3>1. Fan[1] \in Requests
      BY <2>3, FanFacts DEF MapReduceStarts
    <3>2. Goto(Fan[1], "new") /\ ~ At(Fan[1], "expire") /\ "new" \in Places
      BY <2>3, Zenon DEF MapReduceStarts, At, Places
    <3> QED  BY <1>1, <2>1, <3>1, <3>2, Zenon
  <2>4. CASE MapReduceGoesOn
    <3>1. Fan[fan + 1] \in Requests /\ Goto(Fan[fan + 1], "new") /\ "new" \in Places
      BY <2>4, FanFacts DEF MapReduceGoesOn, Places
    <3>2. ~ At(Fan[fan + 1], "expire")
      <4>1. fan \in 1 .. Len(Fan) - 1
        BY <2>4, Zenon DEF MapReduceGoesOn
      <4>2. fan > 0 /\ fan + 1 \in DOMAIN Fan /\ fan + 1 > fan
        BY <4>1, FanFacts
      <4> QED  BY <4>2, Zenon DEF FanInv, At
    <3> QED  BY <1>1, <2>1, <3>1, <3>2, Zenon
  <2> QED  BY <1>6, <2>2, <2>3, <2>4, Zenon DEF MapReduce
<1>7. ASSUME DedupKeyExpires \/ UNCHANGED vars
      PROVE  UNCHANGED <<rate, expires, admitted, crashes, errors>> /\ Expiring' = Expiring
  BY <1>2, <1>7, Zenon DEF DedupKeyExpires
<1> QED  BY <1>t, <1>3, <1>4, <1>5, <1>6, <1>7 DEF Next, Limiter

(* One element more adds at most one to the count.                         *)
LEMMA AddOne ==
  ASSUME NEW S, NEW x, IsFiniteSet(S)
  PROVE  /\ IsFiniteSet(S \cup {x}) /\ Cardinality(S \cup {x}) \in Nat
         /\ Cardinality(S \cup {x}) <= Cardinality(S) + 1
<1>1. IsFiniteSet(S \cup {x}) /\ Cardinality(S \cup {x}) \in Nat /\ Cardinality(S) \in Nat
  BY FS_AddElement, FS_CardinalityType, Zenon
<1>2. CASE x \in S
  <2>1. S \cup {x} = S
    BY <1>2, Zenon
  <2>2. Cardinality(S \cup {x}) = Cardinality(S)
    BY <2>1, Zenon
  <2> QED  BY <1>1, <2>2
<1>3. CASE x \notin S
  BY <1>1, <1>3, FS_AddElement
<1> QED  BY <1>2, <1>3, Zenon

(* RateHeld: at most RateLimit requests are admitted in a window, and the  *)
(* counter of the window gets its time to live.                            *)
THEOREM RateHeldInvariant == Spec => []RateHeld
<1> DEFINE Owed == IF Expiring = {} THEN 0 ELSE 1
<1>1. Init => RateInv
  <2> SUFFICES ASSUME Init PROVE RateInv
    OBVIOUS
  <2>1. Expiring = {}
    BY Zenon DEF Init, Expiring, At
  <2>2. admitted = {} /\ rate = 0 /\ ~ expires
    BY Zenon DEF Init
  <2>3. IsFiniteSet(admitted) /\ Cardinality(admitted) = 0
    BY <2>2, FS_EmptySet, Zenon
  <2> QED  BY <2>1, <2>2, <2>3, SubmissionAssumption DEF RateInv
<1>2. TypeInv /\ FanInv /\ RateInv /\ [Next]_vars => RateInv'
  <2> SUFFICES ASSUME TypeInv, FanInv, RateInv, [Next]_vars PROVE RateInv'
    OBVIOUS
  <2>t. /\ rate \in Nat /\ RateLimit \in Nat \ {0} /\ errors \in Nat /\ crashes \in Nat
        /\ pc \in [Requests -> Places] /\ expires \in BOOLEAN
    BY SubmissionAssumption DEF TypeInv, TypeOK, Places
  <2>c. IsFiniteSet(admitted) /\ Cardinality(admitted) \in Nat
    BY FS_CardinalityType, Zenon DEF RateInv
  <2>i. /\ Cardinality(admitted) + Owed <= rate /\ Cardinality(admitted) + Owed <= RateLimit
        /\ Owed \in {0, 1}
    BY Zenon DEF RateInv
  <2>1. ASSUME ~ WindowEnds, \A r \in Requests : ~ Limiter(r) PROVE RateInv'
    <3>1. /\ UNCHANGED <<rate, expires, admitted>> /\ Expiring' = Expiring
          /\ errors' \in Nat /\ errors' >= errors /\ crashes' = crashes
      BY <2>1, RateFrame, Zenon
    <3>2. errors + crashes > 0 => errors' + crashes' > 0
      <4>1. \A a, b, c \in Nat : a + b > 0 /\ c >= a => c + b > 0
        OBVIOUS
      <4> QED  BY <2>t, <3>1, <4>1, Zenon
    <3> QED  BY <3>1, <3>2, Zenon DEF RateInv
  <2>2. CASE WindowEnds
    <3>1. expires /\ rate' = 0 /\ ~ expires' /\ admitted' = {} /\ Expiring' = Expiring
      BY <2>2, Zenon DEF WindowEnds, Expiring, At
    <3>2. Expiring' = {}
      BY <3>1, Zenon DEF RateInv
    <3>3. IsFiniteSet(admitted') /\ Cardinality(admitted') = 0
      BY <3>1, FS_EmptySet, Zenon
    <3> QED  BY <2>t, <3>1, <3>2, <3>3 DEF RateInv
  <2>3. ASSUME NEW r \in Requests, Incr(r) PROVE RateInv'
    <3>1. /\ At(r, "rate") /\ rate' = rate + 1 /\ UNCHANGED <<expires, errors, crashes>>
          /\ Goto(r, IF rate = 0 THEN "expire" ELSE Verdict(r, rate + 1))
          /\ admitted' = IF rate > 0 /\ Verdict(r, rate + 1) = "save" THEN admitted \cup {r} ELSE admitted
      BY <2>3, Zenon DEF Incr, envVars
    <3>2. CASE rate = 0
      <4>1. Expiring = {} /\ admitted' = {} /\ ~ expires'
        BY <2>t, <3>1, <3>2 DEF RateInv
      <4>2. Expiring' = {r}
        BY <2>t, <3>1, <3>2, <4>1, Zenon DEF Expiring, At, Goto
      <4>3. IsFiniteSet(admitted') /\ Cardinality(admitted') = 0
        BY <4>1, FS_EmptySet, Zenon
      <4> QED  BY <2>t, <3>1, <3>2, <4>1, <4>2, <4>3 DEF RateInv
    <3>3. CASE rate # 0
      <4>1. Expiring' = Expiring
        BY <2>t, <3>1, <3>3, Zenon DEF Expiring, At, Goto, Verdict
      <4>2. CASE rate + 1 <= RateLimit
        <5>1. admitted' = admitted \cup {r}
          BY <2>t, <3>1, <3>3, <4>2 DEF Verdict
        <5>2. /\ IsFiniteSet(admitted') /\ Cardinality(admitted') \in Nat
              /\ Cardinality(admitted') <= Cardinality(admitted) + 1
          BY <2>c, <5>1, AddOne, Zenon
        <5>3. Cardinality(admitted') + Owed <= rate + 1
          BY <2>t, <2>c, <2>i, <5>2
        <5>4. Cardinality(admitted') + Owed <= RateLimit
          BY <2>t, <2>i, <4>2, <5>2, <5>3
        <5> QED  BY <2>t, <3>1, <3>3, <4>1, <5>2, <5>3, <5>4 DEF RateInv
      <4>3. CASE ~ (rate + 1 <= RateLimit)
        <5>1. admitted' = admitted
          BY <3>1, <4>3, Zenon DEF Verdict
        <5>2. Cardinality(admitted) + Owed <= rate + 1
          BY <2>t, <2>c, <2>i
        <5> QED  BY <2>t, <2>c, <2>i, <3>1, <3>3, <4>1, <5>1, <5>2 DEF RateInv
      <4> QED  BY <4>2, <4>3, Zenon
    <3> QED  BY <3>2, <3>3, Zenon
  <2>4. ASSUME NEW r \in Requests, Expire(r) PROVE RateInv'
    <3>1. /\ At(r, "expire") /\ Goto(r, Verdict(r, 1)) /\ admitted' = admitted \cup {r} /\ rate' = rate
          /\ crashes' = crashes /\ ((expires' = TRUE /\ errors' = errors) \/ errors' = errors + 1)
      BY <2>4, Zenon DEF Expire, Error, NoError
    <3>2. Expiring = {r} /\ rate > 0
      BY <3>1, Zenon DEF RateInv, Expiring
    <3>3. Expiring' = {}
      BY <2>t, <3>1, <3>2, Zenon DEF Expiring, At, Goto, Verdict
    <3>4. /\ IsFiniteSet(admitted') /\ Cardinality(admitted') \in Nat
          /\ Cardinality(admitted') <= Cardinality(admitted) + 1
      BY <2>c, <3>1, AddOne, Zenon
    <3>5. Cardinality(admitted) + 1 <= rate /\ Cardinality(admitted) + 1 <= RateLimit
      BY <2>i, <3>2, Zenon
    <3>6. Cardinality(admitted') <= rate /\ Cardinality(admitted') <= RateLimit
      BY <2>t, <2>c, <3>4, <3>5
    <3>7. rate' > 0 /\ ~ expires' => errors' + crashes' > 0
      BY <2>t, <3>1
    <3> QED  BY <2>t, <3>1, <3>2, <3>3, <3>4, <3>6, <3>7 DEF RateInv
  <2>5. ASSUME NEW r \in Requests, Crash(r) PROVE RateInv'
    <3>1. UNCHANGED <<rate, expires, admitted, errors>> /\ crashes' = crashes + 1
      BY <2>5, Zenon DEF Crash, redisVars, histVars
    <3>2. Expiring' \subseteq Expiring
      BY <2>5, Zenon DEF Crash, Expiring, At
    <3>3. errors' + crashes' > 0
      BY <2>t, <3>1
    <3>4. (Owed)' \in {0, Owed}
      BY <3>2, Zenon
    <3>5. Cardinality(admitted) + (Owed)' <= rate /\ Cardinality(admitted) + (Owed)' <= RateLimit
      BY <2>t, <2>c, <2>i, <3>4
    <3> QED  BY <3>1, <3>2, <3>3, <3>5, Zenon DEF RateInv
  <2> QED  BY <2>1, <2>2, <2>3, <2>4, <2>5, Zenon DEF Limiter
<1>3. TypeInv /\ RateInv => RateHeld
  <2> SUFFICES ASSUME TypeInv, RateInv PROVE RateHeld
    OBVIOUS
  <2>1. Cardinality(admitted) \in Nat /\ RateLimit \in Nat
    BY FS_CardinalityType, SubmissionAssumption, Zenon DEF RateInv
  <2>2. Cardinality(admitted) <= RateLimit
    BY <2>1 DEF RateInv
  <2> QED  BY <2>2, Zenon DEF RateInv, RateHeld, Expiring
<1> QED  BY <1>1, <1>2, <1>3, SubmissionTypeCorrect, FanOutInOrder, PTL DEF Spec
-----------------------------------------------------------------------------
(* Dependencies.                                                           *)

(* What is never undone.                                                   *)
Grows ==
  /\ \A d \in Requests : Known(d) => Known(d)'
  /\ completed \subseteq completed' /\ deleted \subseteq deleted'
  /\ replayed \subseteq replayed' /\ cancelled \subseteq cancelled'
  /\ errors > 0 => errors' > 0

(* Every step does so.                                                     *)
LEMMA StepGrows ==
  ASSUME TypeInv, [Next]_vars
  PROVE  Grows
<1> USE DEF redisVars, envVars, histVars, vars
<1>t. errors \in Nat /\ store \in [Requests -> Statuses]
  BY SubmissionAssumption DEF TypeInv, TypeOK
<1>e. Error \/ NoError => (errors > 0 => errors' > 0)
  BY <1>t DEF Error, NoError
<1>1. ASSUME NEW r \in Requests, CreateJob(r) PROVE Grows
  <2>1. UNCHANGED <<completed, deleted, replayed, cancelled>>
    BY <1>1, Zenon DEF CreateJob, Dedup, CheckDeps, CheckDepsFails, Incr, IncrFails, Expire, Save, Enqueue, EnqueueFails
  <2>2. Error \/ NoError
    BY <1>1, Zenon DEF CreateJob, Dedup, CheckDeps, CheckDepsFails, Incr, IncrFails, Expire, Save, Enqueue, EnqueueFails,
                NoError
  <2>3. store' = store \/ store' = [store EXCEPT ![r] = "pending"]
    BY <1>1, Zenon DEF CreateJob, Dedup, CheckDeps, CheckDepsFails, Incr, IncrFails, Expire, Save, Enqueue, EnqueueFails
  <2> QED  BY <1>t, <1>e, <2>1, <2>2, <2>3, Zenon DEF Grows, Known
<1>2. ASSUME NEW r \in Requests, Worker(r) PROVE Grows
  <2>1. UNCHANGED <<deleted, replayed, cancelled>> /\ completed \subseteq completed' /\ (Error \/ NoError)
    BY <1>2, Zenon DEF Worker, DropBlocked, Execute, Record, NoError
  <2>2. store' = store \/ \E l \in {"pending", "completed", "failed"} : store' = [store EXCEPT ![r] = l]
    BY <1>2, Zenon DEF Worker, DropBlocked, Execute, Record
  <2> QED  BY <1>t, <1>e, <2>1, <2>2, Zenon DEF Grows, Known
<1>3. ASSUME NEW r \in Requests, ReplayJob(r) \/ CancelJob(r) \/ DeleteJob(r) PROVE Grows
  BY <1>t, <1>3, Zenon DEF ReplayJob, CancelJob, DeleteJob, Grows, Known
<1>4. CASE SaveBatch
  BY <1>e, <1>4, Zenon DEF SaveBatch, Grows, Known
<1>5. CASE MapReduceEnds
  <2>1. UNCHANGED <<deleted, replayed, cancelled, errors>> /\ completed \subseteq completed'
    BY <1>5, Zenon DEF MapReduceEnds, Record
  <2>2. store' = store \/ \E l \in {"completed", "failed"} : store' = [store EXCEPT ![Parent] = l]
    BY <1>5, Zenon DEF MapReduceEnds, Record
  <2> QED  BY <1>t, <2>1, <2>2, Zenon DEF Grows, Known
<1>6. CASE \/ MapReduceStarts \/ MapReduceGoesOn \/ MapReduceReclaimed \/ WindowEnds \/ DedupKeyExpires
           \/ UNCHANGED vars \/ \E r \in Requests : Crash(r)
  <2>1. UNCHANGED <<store, completed, deleted, replayed, cancelled, errors>>
    BY <1>6, Zenon DEF MapReduceStarts, MapReduceGoesOn, MapReduceReclaimed, WindowEnds, DedupKeyExpires, Crash
  <2> QED  BY <2>1, Zenon DEF Grows, Known
<1> QED  BY <1>1, <1>2, <1>3, <1>4, <1>5, <1>6, Zenon DEF Next, MapReduce

(* A step that is not about the job leaves what is known of it.            *)
Same(q) ==
  /\ pc'[q] = pc[q] /\ store'[q] = store[q] /\ queue'[q] = queue[q] /\ ready'[q] = ready[q]
  /\ Fanning(q)' <=> Fanning(q)
  /\ q \in executed' <=> q \in executed
  /\ q \in completed' <=> q \in completed
  /\ q \in replayed' <=> q \in replayed

(* A step that leaves a job alone keeps what is known of it.               *)
LEMMA JobFrame ==
  ASSUME NEW q \in Requests, JobInv(q), Same(q), Grows
  PROVE  JobInv(q)'
<1>d. Deps[q] \subseteq Requests
  BY SubmissionAssumption, Zenon
<1>1. Fresh(q)'
  BY Zenon DEF JobInv, Same, Fresh
<1>2. Entitled(q)'
  BY Zenon DEF JobInv, Same, Entitled
<1>3. Single(q)'
  BY Zenon DEF JobInv, Same, Single, At
<1>4. DepsSeen(q)'
  <2>1. \A d \in Deps[q] : Known(d) => Known(d)'
    BY <1>d, Zenon DEF Grows
  <2> QED  BY <2>1, Zenon DEF JobInv, Same, DepsSeen, At
<1>5. DepsDone(q)'
  BY Zenon DEF JobInv, Same, DepsDone, Grows
<1>6. Settled(q)'
  BY Zenon DEF JobInv, Same, Settled, Grows
<1> QED  BY <1>1, <1>2, <1>3, <1>4, <1>5, <1>6, Zenon DEF JobInv
(* The request of a job, up to its save ...                                *)
LEMMA AdmissionStep ==
  ASSUME TypeInv, \A q \in Requests : JobInv(q), Grows, NEW r \in Requests, UNCHANGED fan,
         CreateJob(r), ~ Save(r), ~ Enqueue(r), ~ EnqueueFails(r)
  PROVE  JobInv(r)' /\ \A q \in Requests : q # r => Same(q)
<1> USE DEF redisVars, envVars, histVars
<1>t. pc \in [Requests -> Places] /\ ready \in [Requests -> BOOLEAN] /\ Deps[r] \subseteq Requests
  BY SubmissionAssumption, Zenon DEF TypeInv, TypeOK, Places
<1>1. /\ UNCHANGED <<store, queue, executed, completed, replayed, cancelled, deleted>>
      /\ pc[r] \in Before
  BY Zenon DEF CreateJob, Dedup, CheckDeps, CheckDepsFails, Incr, IncrFails, Expire, At, Before
<1>2. \E l \in Places : Goto(r, l) /\ l \notin {"enqueue"}
                        /\ (l \in {"rate", "expire", "save"} /\ ~ CheckDeps(r) => pc[r] \in {"rate", "expire", "save"})
  <2>1. CASE Dedup(r) \/ CheckDeps(r) \/ CheckDepsFails(r)
    BY <2>1 DEF Dedup, CheckDeps, CheckDepsFails, Places, Answered
  <2>2. CASE Incr(r) \/ IncrFails(r) \/ Expire(r)
    BY <2>2, Zenon DEF Incr, IncrFails, Expire, Verdict, Places, Answered, At
  <2> QED  BY <2>1, <2>2, Zenon DEF CreateJob
<1>3. \A q \in Requests : q # r => pc'[q] = pc[q] /\ ready'[q] = ready[q]
  <2>1. \A q \in Requests : q # r => pc'[q] = pc[q]
    BY <1>t, <1>2, Zenon DEF Goto
  <2>2. ready' = ready \/ \E b \in BOOLEAN : ready' = [ready EXCEPT ![r] = b]
    BY Zenon DEF CreateJob, Dedup, CheckDeps, CheckDepsFails, Incr, IncrFails, Expire
  <2> QED  BY <1>t, <2>1, <2>2, Zenon
<1>4. \A q \in Requests : q # r => Same(q)
  BY <1>1, <1>3, Zenon DEF Same, Fanning
<1>5. /\ store[r] = "none" /\ queue[r] = 0 /\ ~ Fanning(r)
      /\ r \notin executed \cup completed \cup replayed
  BY <1>1, Zenon DEF JobInv, Fresh
<1>6. /\ store'[r] = "none" /\ queue'[r] = 0 /\ ~ Fanning(r)'
      /\ r \notin executed' /\ r \notin completed' /\ r \notin replayed'
  BY <1>1, <1>5, Zenon DEF Fanning
<1>7. pc'[r] # "enqueue"
  BY <1>t, <1>2, Zenon DEF Goto
<1>8. pc'[r] \in {"rate", "expire", "save"} =>
        /\ \A d \in Deps[r] : Known(d)
        /\ ready'[r] => Deps[r] \subseteq completed
  <2>1. CASE CheckDeps(r)
    <3>1. CASE \E d \in Deps[r] : store[d] = "none"
      BY <1>t, <2>1, <3>1, Zenon DEF CheckDeps, Goto
    <3>2. CASE ~ \E d \in Deps[r] : store[d] = "none"
      <4>1. ready'[r] => \A d \in Deps[r] : store[d] = "completed"
        BY <1>t, <2>1, <3>2, Zenon DEF CheckDeps
      <4>2. \A d \in Deps[r] : store[d] = "completed" => d \in completed
        BY <1>t, Zenon DEF JobInv, Settled
      <4> QED  BY <3>2, <4>1, <4>2, Zenon DEF Known
    <3> QED  BY <3>1, <3>2, Zenon
  <2>2. CASE ~ CheckDeps(r)
    <3>1. pc'[r] \in {"rate", "expire", "save"} => pc[r] \in {"rate", "expire", "save"}
      BY <1>t, <1>2, <2>2, Zenon DEF Goto
    <3>2. ready' = ready
      BY <2>2, Zenon DEF CreateJob, Dedup, CheckDepsFails, Incr, IncrFails, Expire
    <3> QED  BY <1>5, <3>1, <3>2, Zenon DEF JobInv, DepsSeen, DepsDone
  <2> QED  BY <2>1, <2>2, Zenon
<1>9. Fresh(r)' /\ Entitled(r)' /\ Single(r)' /\ Settled(r)'
  BY <1>6 DEF Fresh, Entitled, Single, Settled
<1>10. DepsSeen(r)'
  <2>1. \A d \in Deps[r] : Known(d) => Known(d)'
    BY <1>t, Zenon DEF Grows
  <2> QED  BY <1>6, <1>7, <1>8, <2>1 DEF DepsSeen, At
<1>11. DepsDone(r)'
  BY <1>1, <1>6, <1>7, <1>8 DEF DepsDone
<1> QED  BY <1>4, <1>9, <1>10, <1>11, Zenon DEF JobInv

(* ... and from there.                                                     *)
LEMMA SubmitStep ==
  ASSUME TypeInv, \A q \in Requests : JobInv(q), Grows, NEW r \in Requests, UNCHANGED fan,
         Save(r) \/ Enqueue(r) \/ EnqueueFails(r)
  PROVE  JobInv(r)' /\ \A q \in Requests : q # r => Same(q)
<1> USE DEF redisVars, envVars, histVars
<1>t. /\ pc \in [Requests -> Places] /\ store \in [Requests -> Statuses] /\ queue \in [Requests -> Nat]
      /\ Deps[r] \subseteq Requests /\ queue[r] \in Nat
  BY SubmissionAssumption, Zenon DEF TypeInv, TypeOK, Places
<1>1. UNCHANGED <<ready, executed, completed, replayed, cancelled, deleted>> /\ (Fanning(r)' <=> Fanning(r))
  BY Zenon DEF Save, Enqueue, EnqueueFails, Fanning
<1>2. /\ \E l \in Places \ Before : Goto(r, l)
      /\ store' = store \/ store' = [store EXCEPT ![r] = "pending"]
      /\ queue' = queue \/ queue' = [queue EXCEPT ![r] = @ + 1]
  BY Zenon DEF Save, Enqueue, EnqueueFails, Places, Answered, Before
<1>3. \A q \in Requests : q # r => pc'[q] = pc[q] /\ store'[q] = store[q] /\ queue'[q] = queue[q]
  BY <1>t, <1>2, Zenon DEF Goto
<1>4. \A q \in Requests : q # r => Same(q)
  <2>1. \A q \in Requests : Fanning(q)' <=> Fanning(q)
    BY Zenon DEF Fanning
  <2> QED  BY <1>1, <1>3, <2>1, Zenon DEF Same
<1>5. pc'[r] \notin Before
  BY <1>t, <1>2, Zenon DEF Goto
<1>d. \A d \in Deps[r] : Known(d) => Known(d)'
  BY <1>t, Zenon DEF Grows
<1>6. CASE Save(r)
  <2>1. /\ pc[r] = "save" /\ queue' = queue /\ store'[r] \in {"none", "pending"}
        /\ pc'[r] = "enqueue" \/ (store'[r] = "none" /\ pc'[r] \in Answered)
    <3>1. pc[r] = "save" /\ store[r] = "none" /\ queue' = queue
      BY <1>6, Zenon DEF Save, At, JobInv, Fresh, Before
    <3>2. \/ store' = store /\ (Goto(r, "full") \/ Goto(r, "error"))
          \/ store' = [store EXCEPT ![r] = "pending"] /\ Goto(r, "enqueue")
      BY <1>6, Zenon DEF Save
    <3>3. CASE store' = store /\ (Goto(r, "full") \/ Goto(r, "error"))
      <4>1. pc'[r] \in {"full", "error"} /\ store'[r] = "none"
        BY <1>t, <3>1, <3>3, Zenon DEF Goto
      <4>2. pc'[r] \in Answered
        BY <4>1, Zenon DEF Answered
      <4> QED  BY <3>1, <4>1, <4>2, Zenon
    <3>4. CASE store' = [store EXCEPT ![r] = "pending"] /\ Goto(r, "enqueue")
      <4>1. pc'[r] = "enqueue" /\ store'[r] = "pending"
        BY <1>t, <3>4, Zenon DEF Goto
      <4> QED  BY <3>1, <4>1, Zenon
    <3> QED  BY <3>2, <3>3, <3>4, Zenon
  <2>2. queue[r] = 0 /\ ~ Fanning(r) /\ r \notin executed \cup completed \cup replayed
    BY <2>1, Zenon DEF JobInv, Fresh, Before
  <2>3. Fresh(r)' /\ Entitled(r)' /\ Single(r)' /\ Settled(r)'
    BY <1>1, <1>5, <2>1, <2>2 DEF Fresh, Entitled, Single, Settled
  <2>4. DepsSeen(r)'
    BY <1>d, <2>1, Zenon DEF JobInv, DepsSeen
  <2>5. DepsDone(r)'
    BY <1>1, <2>1, Zenon DEF JobInv, DepsDone
  <2> QED  BY <1>4, <2>3, <2>4, <2>5, Zenon DEF JobInv
<1>7. CASE Enqueue(r) /\ ready[r]
  <2>1. pc[r] = "enqueue" /\ pc'[r] = "created" /\ store' = store /\ queue'[r] = queue[r] + 1
    BY <1>t, <1>7, Zenon DEF Enqueue, At, Goto
  <2>2. r \notin replayed => queue[r] = 0 /\ ~ Fanning(r) /\ r \notin completed
    BY <1>t, <2>1 DEF JobInv, Single, At
  <2>3. Fresh(r)' /\ Settled(r)'
    BY <1>1, <1>5, <2>1, Zenon DEF JobInv, Fresh, Settled
  <2>4. Entitled(r)'
    BY <1>1, <1>7, Zenon DEF Entitled
  <2>5. Single(r)'
    BY <1>1, <2>1, <2>2 DEF Single, At
  <2>6. DepsSeen(r)'
    BY <1>d, <1>7, <2>1, Zenon DEF JobInv, DepsSeen, At
  <2>7. DepsDone(r)'
    BY <1>1, <1>7, <2>1, Zenon DEF JobInv, DepsDone
  <2> QED  BY <1>4, <2>3, <2>4, <2>5, <2>6, <2>7, Zenon DEF JobInv
<1>8. CASE (Enqueue(r) /\ ~ ready[r]) \/ EnqueueFails(r)
  <2>1. pc[r] = "enqueue" /\ pc'[r] \in Answered /\ store' = store /\ queue' = queue
    BY <1>t, <1>8, Zenon DEF Enqueue, EnqueueFails, At, Goto, Answered
  <2>2. Fresh(r)' /\ Entitled(r)' /\ Single(r)' /\ Settled(r)'
    BY <1>1, <1>5, <2>1, Zenon DEF JobInv, Fresh, Entitled, Single, Settled, At, Answered
  <2>3. DepsSeen(r)'
    BY <1>d, <1>1, <2>1, Zenon DEF JobInv, DepsSeen, At, Answered
  <2>4. DepsDone(r)'
    BY <1>1, <2>1, Zenon DEF JobInv, DepsDone, Answered
  <2> QED  BY <1>4, <2>2, <2>3, <2>4, Zenon DEF JobInv
<1> QED  BY <1>6, <1>7, <1>8, Zenon
(* A worker that takes up the job.                                         *)
LEMMA WorkerStep ==
  ASSUME TypeInv, \A q \in Requests : JobInv(q), Grows, NEW r \in Requests, UNCHANGED fan, Worker(r)
  PROVE  JobInv(r)' /\ \A q \in Requests : q # r => Same(q)
<1> USE DEF redisVars, envVars, histVars
<1>t. /\ store \in [Requests -> Statuses] /\ queue \in [Requests -> Nat]
      /\ Deps[r] \subseteq Requests /\ queue[r] \in Nat
  BY SubmissionAssumption, Zenon DEF TypeInv, TypeOK
<1>1. /\ UNCHANGED <<pc, ready, replayed, cancelled, deleted>> /\ \A q \in Requests : Fanning(q)' <=> Fanning(q)
      /\ queue[r] > 0 /\ queue' = [queue EXCEPT ![r] = @ - 1]
      /\ executed' = executed \/ executed' = executed \cup {r}
      /\ completed' = completed \/ completed' = completed \cup {r}
      /\ store' = store \/ \E l \in {"pending", "completed", "failed"} : store' = [store EXCEPT ![r] = l]
  BY Zenon DEF Worker, DropBlocked, Execute, Pop, Record, Fanning
<1>2. \A q \in Requests : q # r => Same(q)
  BY <1>t, <1>1, Zenon DEF Same
<1>3. queue'[r] = queue[r] - 1 /\ queue'[r] \in Nat
  BY <1>t, <1>1
<1>4. pc[r] \notin Before /\ (ready[r] \/ r \in replayed) /\ \A d \in Deps[r] : Known(d)
  BY <1>t, <1>1 DEF JobInv, Fresh, Entitled, DepsSeen
<1>5. r \notin replayed => queue[r] = 1 /\ ~ Fanning(r) /\ ~ At(r, "enqueue") /\ r \notin completed
  BY <1>t, <1>1 DEF JobInv, Single
<1>6. Fresh(r)' /\ Entitled(r)'
  BY <1>1, <1>4, Zenon DEF Fresh, Entitled
<1>7. Single(r)'
  <2>1. r \notin replayed => queue'[r] = 0
    BY <1>3, <1>5
  <2> QED  BY <1>1, <1>5, <2>1 DEF Single, At
<1>8. DepsSeen(r)'
  BY <1>t, <1>4, Zenon DEF DepsSeen, Grows
<1>9. DepsDone(r)'
  BY <1>t, <1>1, <1>3, <1>4, Zenon DEF JobInv, DepsDone, Grows
<1>10. Settled(r)'
  <2>1. CASE store' = store /\ completed' = completed
    BY <1>1, <2>1, Zenon DEF JobInv, Settled
  <2>2. CASE DropBlocked(r)
    <3>1. completed' = completed /\ store'[r] \in {"none", "pending"}
      BY <1>t, <2>2, Zenon DEF DropBlocked
    <3> QED  BY <1>1, <1>5, <3>1, Zenon DEF Settled
  <2>3. ASSUME NEW out \in {"completed", "failed"}, Record(r, out), ~ Over(r) PROVE Settled(r)'
    <3>1. r \notin completed /\ store'[r] \in {"none", out}
      BY <1>t, <2>3, Zenon DEF Record, Over
    <3>2. r \in completed' <=> out = "completed"
      BY <2>3, <3>1, Zenon DEF Record
    <3> QED  BY <2>3, <3>1, <3>2, Zenon DEF Settled
  <2> QED  BY <2>1, <2>2, <2>3, Zenon DEF Worker, Execute
<1> QED  BY <1>2, <1>6, <1>7, <1>8, <1>9, <1>10, Zenon DEF JobInv

(* A request on a stored job.                                              *)
LEMMA EditStep ==
  ASSUME TypeInv, \A q \in Requests : JobInv(q), Grows, NEW r \in Requests, UNCHANGED fan,
         ReplayJob(r) \/ CancelJob(r) \/ DeleteJob(r)
  PROVE  JobInv(r)' /\ \A q \in Requests : q # r => Same(q)
<1>t. /\ store \in [Requests -> Statuses] /\ queue \in [Requests -> Nat]
      /\ Deps[r] \subseteq Requests /\ queue[r] \in Nat
  BY SubmissionAssumption, Zenon DEF TypeInv, TypeOK
<1>1. /\ UNCHANGED <<pc, ready, executed, completed>> /\ \A q \in Requests : Fanning(q)' <=> Fanning(q)
      /\ store[r] # "none" /\ replayed' \in {replayed, replayed \cup {r}}
      /\ \E l \in {"pending", "cancelled", "none"} : store' = [store EXCEPT ![r] = l]
      /\ queue' = queue \/ queue' = [queue EXCEPT ![r] = @ + 1]
      /\ r \notin replayed' => queue' = queue
  BY Zenon DEF ReplayJob, CancelJob, DeleteJob, Edit, Fanning
<1>2. \A q \in Requests : q # r => Same(q)
  BY <1>t, <1>1, Zenon DEF Same
<1>3. pc[r] \notin Before /\ \A d \in Deps[r] : Known(d)
  BY <1>1, Zenon DEF JobInv, Fresh, DepsSeen
<1>4. Fresh(r)'
  BY <1>1, <1>3, Zenon DEF Fresh
<1>5. Entitled(r)' /\ Single(r)'
  BY <1>1, Zenon DEF JobInv, Entitled, Single, At, Fanning
<1>6. DepsSeen(r)'
  BY <1>t, <1>3, Zenon DEF DepsSeen, Grows
<1>7. DepsDone(r)'
  BY <1>1, Zenon DEF JobInv, DepsDone
<1>8. Settled(r)'
  <2>1. store'[r] # "completed"
    BY <1>t, <1>1, Zenon
  <2>2. \/ r \in replayed' \/ r \in cancelled' \/ store'[r] = "none"
    BY <1>t, Zenon DEF ReplayJob, CancelJob, DeleteJob
  <2> QED  BY <2>1, <2>2, Zenon DEF Settled
<1> QED  BY <1>2, <1>4, <1>5, <1>6, <1>7, <1>8, Zenon DEF JobInv

(* A batch, and a crash.                                                   *)
LEMMA BatchStep ==
  ASSUME TypeInv, \A q \in Requests : JobInv(q), Grows, NEW q \in Requests, UNCHANGED fan,
         SaveBatch \/ \E r \in Requests : Crash(r)
  PROVE  JobInv(q)'
<1> USE DEF redisVars, envVars, histVars
<1>t. pc \in [Requests -> Places] /\ ready \in [Requests -> BOOLEAN] /\ Deps[q] \subseteq Requests
  BY SubmissionAssumption, Zenon DEF TypeInv, TypeOK, Places
<1>1. UNCHANGED <<store, queue, executed, completed, replayed, cancelled, deleted>> /\ (Fanning(q)' <=> Fanning(q))
  BY Zenon DEF SaveBatch, Crash, Fanning
<1>2. CASE pc'[q] = pc[q] /\ ready'[q] = ready[q]
  BY <1>1, <1>2, JobFrame, Zenon DEF Same
<1>3. CASE pc'[q] \in {"died", "error"} /\ ready'[q] = ready[q]
  <2>1. Fresh(q)' /\ Entitled(q)' /\ Single(q)' /\ Settled(q)'
    BY <1>1, <1>3, Zenon DEF JobInv, Fresh, Entitled, Single, Settled, At, Before
  <2>2. DepsSeen(q)'
    BY <1>t, <1>1, <1>3, Zenon DEF JobInv, DepsSeen, At, Grows
  <2>3. DepsDone(q)'
    BY <1>1, <1>3, Zenon DEF JobInv, DepsDone
  <2> QED  BY <2>1, <2>2, <2>3, Zenon DEF JobInv
<1>4. CASE pc[q] = "new" /\ pc'[q] = "enqueue" /\ (ready'[q] => Deps[q] = {})
  <2>1. /\ store[q] = "none" /\ queue[q] = 0 /\ ~ Fanning(q)
        /\ q \notin executed \cup completed \cup replayed
    BY <1>4, Zenon DEF JobInv, Fresh, Before
  <2>2. Fresh(q)' /\ Entitled(q)' /\ Single(q)' /\ Settled(q)'
    BY <1>1, <1>4, <2>1 DEF Fresh, Entitled, Single, Settled, Before
  <2>3. DepsSeen(q)' /\ DepsDone(q)'
    BY <1>1, <1>4, <2>1 DEF DepsSeen, DepsDone, At
  <2> QED  BY <2>2, <2>3, Zenon DEF JobInv
<1>5. CASE SaveBatch
  <2>1. q \in Batched => pc[q] = "new"
    BY <1>5, Zenon DEF SaveBatch, At
  <2>3. CASE q \in Batched
    BY <1>t, <1>3, <1>4, <1>5, <2>1, <2>3, Zenon DEF SaveBatch
  <2>4. CASE q \notin Batched
    BY <1>t, <1>2, <1>5, <2>4, Zenon DEF SaveBatch
  <2> QED  BY <2>3, <2>4, Zenon
<1>6. CASE \E r \in Requests : Crash(r)
  <2>1. ready' = ready /\ pc'[q] \in {pc[q], "died"}
    BY <1>6, Zenon DEF Crash
  <2> QED  BY <1>2, <1>3, <2>1, Zenon
<1> QED  BY <1>5, <1>6, Zenon
(* The map_reduce job and its submissions.                                 *)
LEMMA MapReduceStep ==
  ASSUME TypeInv, FanInv, \A q \in Requests : JobInv(q), Grows, NEW q \in Requests, MapReduce
  PROVE  JobInv(q)'
<1> USE DEF redisVars, envVars, histVars
<1>t. /\ pc \in [Requests -> Places] /\ store \in [Requests -> Statuses] /\ queue \in [Requests -> Nat]
      /\ fan \in 0 .. Len(Fan) /\ queue[q] \in Nat /\ Deps[q] \subseteq Requests
      /\ fan > 0 => Parent \in Requests
  BY SubmissionAssumption, Zenon DEF TypeInv, TypeOK, Places
<1>p. q = Parent => Deps[q] = {}
  BY FanFacts, Zenon
<1>1. ASSUME NEW k \in DOMAIN Fan, q = Fan[k], Goto(Fan[k], "new"), At(Fan[k], "absent"), fan' = k,
             UNCHANGED <<ready, store, replayed, cancelled, completed, deleted>>,
             queue'[q] = queue[q], q \in executed' => q \in executed, q # Parent
      PROVE  JobInv(q)'
  <2>1. /\ store[q] = "none" /\ queue[q] = 0 /\ q \notin executed \cup completed \cup replayed
    BY <1>1, Zenon DEF JobInv, Fresh, Before, At
  <2>2. pc'[q] = "new"
    BY <1>t, <1>1, Zenon DEF Goto
  <2>3. ~ Fanning(q)'
    BY <1>1, Zenon DEF Fanning
  <2> QED  BY <1>1, <2>1, <2>2, <2>3
           DEF JobInv, Fresh, Entitled, Single, DepsSeen, DepsDone, Settled, At
<1>f. \A i \in DOMAIN Fan : Fan[i] # Parent
  <2>1. Fan \in Seq(Requests \ (Batched \cup {Parent}))
    BY SubmissionAssumption, Zenon
  <2> QED  BY <2>1
<1>2. CASE MapReduceStarts
  <2>1. /\ Parent \in Requests /\ fan = 0 /\ At(Fan[1], "absent") /\ fan' = 1 /\ Goto(Fan[1], "new")
        /\ queue[Parent] > 0 /\ queue' = [queue EXCEPT ![Parent] = @ - 1] /\ executed' = executed \cup {Parent}
        /\ UNCHANGED <<ready, store, replayed, cancelled, completed, deleted>> /\ ~ Over(Parent)
    BY <1>2, Zenon DEF MapReduceStarts, Pop
  <2>2. 1 \in DOMAIN Fan /\ Fan[1] # Parent
    BY <1>f, <2>1, FanFacts
  <2>3. CASE q = Fan[1]
    BY <1>1, <1>t, <2>1, <2>2, <2>3, Zenon
  <2>4. CASE q = Parent
    <3>1. pc'[q] = pc[q] /\ queue'[q] = queue[q] - 1 /\ Fanning(q)' /\ q \in executed'
      BY <1>t, <2>1, <2>2, <2>4 DEF Goto, Fanning
    <3>2. pc[q] \notin Before /\ (ready[q] \/ q \in replayed)
      BY <1>t, <2>1, <2>4 DEF JobInv, Fresh, Entitled
    <3>3. q \notin replayed => queue[q] = 1 /\ ~ At(q, "enqueue") /\ q \notin completed
      BY <1>t, <2>1, <2>4 DEF JobInv, Single
    <3>4. q \notin replayed => queue'[q] = 0
      BY <3>1, <3>3
    <3>5. Fresh(q)' /\ Entitled(q)'
      BY <2>1, <3>1, <3>2, Zenon DEF Fresh, Entitled
    <3>6. Single(q)'
      BY <2>1, <3>1, <3>3, <3>4 DEF Single, At
    <3>7. DepsSeen(q)' /\ DepsDone(q)'
      BY <1>p, <2>4, Zenon DEF DepsSeen, DepsDone
    <3>8. Settled(q)'
      BY <2>1, Zenon DEF JobInv, Settled
    <3> QED  BY <3>5, <3>6, <3>7, <3>8, Zenon DEF JobInv
  <2>5. CASE q # Fan[1] /\ q # Parent
    <3>1. pc'[q] = pc[q] /\ queue'[q] = queue[q] /\ (q \in executed' <=> q \in executed)
      BY <1>t, <2>1, <2>5, Zenon DEF Goto
    <3> QED  BY <2>1, <2>5, <3>1, JobFrame, Zenon DEF Same, Fanning
  <2> QED  BY <2>3, <2>4, <2>5, Zenon
<1>3. CASE MapReduceGoesOn
  <2>1. /\ fan \in 1 .. Len(Fan) - 1 /\ fan' = fan + 1 /\ Goto(Fan[fan + 1], "new")
        /\ UNCHANGED <<ready, queue, store, executed, replayed, cancelled, completed, deleted>>
    BY <1>3, Zenon DEF MapReduceGoesOn
  <2>2. fan + 1 \in DOMAIN Fan /\ fan > 0 /\ fan + 1 > fan /\ fan' > 0
    BY <2>1, FanFacts
  <2>3. At(Fan[fan + 1], "absent") /\ Fan[fan + 1] # Parent
    BY <1>f, <2>2, Zenon DEF FanInv
  <2>4. CASE q = Fan[fan + 1]
    BY <1>1, <2>1, <2>2, <2>3, <2>4, Zenon
  <2>5. CASE q # Fan[fan + 1]
    <3>1. pc'[q] = pc[q]
      BY <1>t, <2>1, <2>5, Zenon DEF Goto
    <3>2. Fanning(q)' <=> Fanning(q)
      BY <2>2, Zenon DEF Fanning
    <3> QED  BY <2>1, <3>1, <3>2, JobFrame, Zenon DEF Same
  <2> QED  BY <2>4, <2>5, Zenon
<1>4. CASE MapReduceEnds
  <2>1. /\ fan > 0 /\ fan' = 0 /\ UNCHANGED <<pc, ready, queue, executed, replayed, cancelled, deleted>>
        /\ Parent \in Requests
    BY <1>t, <1>4, Zenon DEF MapReduceEnds
  <2>2. PICK out \in {"completed", "failed"} : Record(Parent, out)
    BY <1>4, Zenon DEF MapReduceEnds
  <2>3. ~ Fanning(q)'
    BY <2>1 DEF Fanning
  <2>4. CASE q = Parent
    <3>1. pc[q] \notin Before /\ (ready[q] \/ q \in replayed)
      BY <2>1, <2>4, Zenon DEF JobInv, Fresh, Entitled, Fanning
    <3>2. q \notin replayed => ~ At(q, "enqueue") /\ q \notin completed /\ ~ (queue[q] > 0)
      BY <2>1, <2>4, Zenon DEF JobInv, Single, Fanning
    <3>3. Fresh(q)' /\ Entitled(q)'
      BY <2>1, <3>1, Zenon DEF Fresh, Entitled
    <3>4. Single(q)'
      BY <2>1, <2>3, <3>2, Zenon DEF JobInv, Single, At
    <3>5. DepsSeen(q)' /\ DepsDone(q)'
      BY <1>p, <2>4, Zenon DEF DepsSeen, DepsDone
    <3>6. Settled(q)'
      <4>1. store'[q] \in {"none", out} /\ (out = "completed" => q \in completed')
        BY <1>t, <2>2, <2>4, Zenon DEF Record
      <4>2. out = "failed" => completed' = completed
        BY <2>2, Zenon DEF Record
      <4> QED  BY <2>1, <3>2, <4>1, <4>2, Zenon DEF Settled
    <3> QED  BY <3>3, <3>4, <3>5, <3>6, Zenon DEF JobInv
  <2>5. CASE q # Parent
    <3>1. store'[q] = store[q] /\ (q \in completed' <=> q \in completed)
      BY <1>t, <2>2, <2>5, Zenon DEF Record
    <3> QED  BY <2>1, <2>5, <3>1, JobFrame, Zenon DEF Same, Fanning
  <2> QED  BY <2>4, <2>5, Zenon
<1>5. CASE MapReduceReclaimed
  <2>1. /\ fan > 0 /\ fan' = 0 /\ queue' = [queue EXCEPT ![Parent] = @ + 1] /\ Parent \in Requests
        /\ UNCHANGED <<pc, ready, store, executed, completed, replayed, cancelled, deleted>>
    BY <1>t, <1>5, Zenon DEF MapReduceReclaimed
  <2>2. ~ Fanning(q)'
    BY <2>1 DEF Fanning
  <2>3. CASE q = Parent
    <3>1. pc[q] \notin Before /\ (ready[q] \/ q \in replayed)
      BY <2>1, <2>3, Zenon DEF JobInv, Fresh, Entitled, Fanning
    <3>2. q \notin replayed => ~ At(q, "enqueue") /\ q \notin completed /\ ~ (queue[q] > 0)
      BY <2>1, <2>3, Zenon DEF JobInv, Single, Fanning
    <3>3. q \notin replayed => queue'[q] = 1
      BY <1>t, <2>1, <2>3, <3>2
    <3>4. Fresh(q)' /\ Entitled(q)' /\ Settled(q)'
      BY <2>1, <3>1, Zenon DEF JobInv, Fresh, Entitled, Settled
    <3>5. Single(q)'
      BY <2>1, <2>2, <3>2, <3>3 DEF Single, At
    <3>6. DepsSeen(q)' /\ DepsDone(q)'
      BY <1>p, <2>3, Zenon DEF DepsSeen, DepsDone
    <3> QED  BY <3>4, <3>5, <3>6, Zenon DEF JobInv
  <2>4. CASE q # Parent
    <3>1. queue'[q] = queue[q]
      BY <1>t, <2>1, <2>4, Zenon
    <3> QED  BY <2>1, <2>4, <3>1, JobFrame, Zenon DEF Same, Fanning
  <2> QED  BY <2>3, <2>4, Zenon
<1> QED  BY <1>2, <1>3, <1>4, <1>5, Zenon DEF MapReduce

(* Every step keeps what is known of every job.                            *)
LEMMA JobsStep ==
  ASSUME TypeInv, FanInv, \A q \in Requests : JobInv(q), [Next]_vars
  PROVE  \A q \in Requests : JobInv(q)'
<1> SUFFICES ASSUME NEW q \in Requests PROVE JobInv(q)'
  OBVIOUS
<1>g. Grows
  BY StepGrows, Zenon
<1>1. ASSUME NEW r \in Requests, CreateJob(r) \/ Worker(r) \/ ReplayJob(r) \/ CancelJob(r) \/ DeleteJob(r),
             UNCHANGED fan
      PROVE  JobInv(q)'
  <2>1. JobInv(r)' /\ \A u \in Requests : u # r => Same(u)
    BY <1>1, <1>g, AdmissionStep, SubmitStep, WorkerStep, EditStep, Zenon
  <2> QED  BY <1>g, <2>1, JobFrame, Zenon
<1>2. ASSUME SaveBatch \/ \E r \in Requests : Crash(r), UNCHANGED fan PROVE JobInv(q)'
  BY <1>2, <1>g, BatchStep, Zenon
<1>3. CASE MapReduce
  BY <1>3, <1>g, MapReduceStep, Zenon
<1>4. CASE ((WindowEnds \/ DedupKeyExpires) /\ UNCHANGED fan) \/ UNCHANGED vars
  <2>1. UNCHANGED <<pc, fan, store, queue, ready, executed, completed, replayed>>
    BY <1>4, Zenon DEF WindowEnds, DedupKeyExpires, redisVars, histVars, vars
  <2> QED  BY <1>g, <2>1, JobFrame, Zenon DEF Same, Fanning
<1> QED  BY <1>1, <1>2, <1>3, <1>4, Zenon DEF Next

(* DependenciesFirst: a job is not executed before its dependencies but    *)
(* for an error or a deletion, not dropped but for a replay or a           *)
(* cancellation, not executed when it was accepted with an open dependency *)
(* unless it was replayed; and no reduce job is there before its map jobs. *)
THEOREM DependenciesFirstInvariant == Spec => []DependenciesFirst
<1>1. Init => DepsInv
  <2> SUFFICES ASSUME Init PROVE DepsInv
    OBVIOUS
  <2>1. \A r \in Requests : /\ store[r] = "none" /\ queue[r] = 0 /\ ~ Fanning(r)
                            /\ pc[r] \in {"new", "absent"}
    BY DEF Init, Fanning
  <2>2. /\ executed = {} /\ completed = {} /\ replayed = {} /\ early = {} /\ dropped = {}
    BY Zenon DEF Init
  <2>3. \A r \in Requests : Fresh(r) /\ Entitled(r) /\ Single(r) /\ Settled(r)
    BY <2>1, <2>2 DEF Fresh, Entitled, Single, Settled, At
  <2>4. \A r \in Requests : DepsSeen(r) /\ DepsDone(r)
    BY <2>1, <2>2 DEF DepsSeen, DepsDone, At
  <2> QED  BY <2>2, <2>3, <2>4, Zenon DEF DepsInv, JobInv
<1>2. TypeInv /\ FanInv /\ DepsInv /\ [Next]_vars => DepsInv'
  <2> SUFFICES ASSUME TypeInv, FanInv, DepsInv, [Next]_vars PROVE DepsInv'
    OBVIOUS
  <2>1. \A q \in Requests : JobInv(q)'
    BY JobsStep, Zenon DEF DepsInv
  <2>g. Grows
    BY StepGrows, Zenon
  <2>2. ASSUME NEW r \in early' PROVE errors' > 0 \/ Deps[r] \cap deleted' # {}
    <3>1. CASE r \in early
      BY <2>g, <3>1, Zenon DEF DepsInv, Grows
    <3>2. CASE r \notin early
      <4>1. r \in Requests /\ Execute(r) /\ ~ (Deps[r] \subseteq completed)
        <5>1. early' = early \/ \E q \in Requests : Execute(q)
          BY DEF Next, CreateJob, Dedup, CheckDeps, CheckDepsFails, Incr, IncrFails, Expire, Save,
             Enqueue, EnqueueFails, Crash, Worker, DropBlocked, ReplayJob, CancelJob, DeleteJob, SaveBatch,
             WindowEnds, DedupKeyExpires, MapReduce, MapReduceStarts, MapReduceGoesOn, MapReduceEnds,
             MapReduceReclaimed, histVars, vars
        <5>2. PICK q \in Requests : Execute(q)
          BY <2>2, <3>2, <5>1, Zenon
        <5>3. early' = early \/ (early' = early \cup {q} /\ ~ (Deps[q] \subseteq completed))
          BY <5>2, Zenon DEF Execute
        <5> QED  BY <2>2, <3>2, <5>2, <5>3, Zenon
      <4>2. CASE Error
        <5>1. errors \in Nat
          BY SubmissionAssumption DEF TypeInv, TypeOK
        <5> QED  BY <4>2, <5>1 DEF Error
      <4>3. CASE ~ Open(r)
        <5>1. queue[r] > 0 /\ deleted' = deleted
          BY <4>1, Zenon DEF Execute, Pop
        <5>2. PICK d \in Deps[r] : d \notin completed
          BY <4>1, Zenon
        <5>3. Known(d) /\ d \in Requests
          BY <4>1, <5>1, <5>2, SubmissionAssumption, Zenon DEF DepsInv, JobInv, DepsSeen
        <5>4. store[d] \in {"none", "completed"} /\ store[d] # "completed"
          BY <4>3, <5>2, <5>3, Zenon DEF Open, DepsInv, JobInv, Settled
        <5> QED  BY <5>1, <5>2, <5>3, <5>4, Zenon DEF Known
      <4> QED  BY <4>1, <4>2, <4>3 DEF Execute
    <3> QED  BY <3>1, <3>2, Zenon
  <2>3. ASSUME NEW r \in dropped' PROVE ({r} \cup Deps[r]) \cap (replayed' \cup cancelled') # {}
    <3>1. CASE r \in dropped
      BY <2>g, <3>1, Zenon DEF DepsInv, Grows
    <3>2. CASE r \notin dropped
      <4>1. r \in Requests /\ DropBlocked(r)
        BY <2>3, <3>2 DEF Next, CreateJob, Dedup, CheckDeps, CheckDepsFails, Incr, IncrFails, Expire, Save,
             Enqueue, EnqueueFails, Crash, Worker, DropBlocked, Execute, ReplayJob, CancelJob, DeleteJob, SaveBatch,
             WindowEnds, DedupKeyExpires, MapReduce, MapReduceStarts, MapReduceGoesOn, MapReduceEnds,
             MapReduceReclaimed, histVars, vars
      <4>2. queue[r] > 0 /\ UNCHANGED <<replayed, cancelled>> /\ Open(r)
        BY <4>1, Zenon DEF DropBlocked, Pop
      <4>3. CASE r \in replayed
        BY <4>2, <4>3, Zenon
      <4>4. CASE r \notin replayed
        <5>1. Deps[r] \subseteq completed /\ Deps[r] \subseteq Requests
          BY <4>1, <4>2, <4>4, SubmissionAssumption, Zenon DEF DepsInv, JobInv, Entitled, DepsDone
        <5>2. PICK d \in Deps[r] : store[d] \notin {"none", "completed"}
          BY <4>2, Zenon DEF Open
        <5>3. d \in replayed \cup cancelled
          BY <5>1, <5>2, Zenon DEF DepsInv, JobInv, Settled
        <5> QED  BY <4>2, <5>2, <5>3, Zenon
      <4> QED  BY <4>3, <4>4, Zenon
    <3> QED  BY <3>1, <3>2, Zenon
  <2> QED  BY <2>1, <2>2, <2>3, Zenon DEF DepsInv
<1>3. TypeInv /\ FanInv /\ DepsInv => DependenciesFirst
  <2> SUFFICES ASSUME TypeInv, FanInv, DepsInv PROVE DependenciesFirst
    OBVIOUS
  <2>1. \A r \in executed : ready[r] \/ r \in replayed
    BY Zenon DEF TypeInv, TypeOK, DepsInv, JobInv, Entitled
  <2>2. ASSUME Fan # << >>, store[Fan[Len(Fan)]] # "none" PROVE \A r \in MapJobs : At(r, "created")
    <3>1. Len(Fan) \in DOMAIN Fan
      BY <2>2, FanFacts
    <3>2. ~ At(Fan[Len(Fan)], "absent")
      BY <2>2, <3>1, FanFacts, Zenon DEF DepsInv, JobInv, Fresh, Before, At
    <3>3. \A r \in MapJobs : \E j \in DOMAIN Fan : r = Fan[j] /\ j < Len(Fan)
      BY FanFacts DEF MapJobs
    <3> QED  BY <3>1, <3>2, <3>3, Zenon DEF FanInv
  <2>3. Parent \in completed => \A r \in MapJobs : At(r, "created")
    BY Zenon DEF FanInv
  <2> QED  BY <2>1, <2>2, <2>3, Zenon DEF DependenciesFirst, DepsInv
<1> QED  BY <1>1, <1>2, <1>3, SubmissionTypeCorrect, FanOutInOrder, PTL DEF Spec
=============================================================================
