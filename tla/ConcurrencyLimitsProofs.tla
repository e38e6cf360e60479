---------------------- MODULE ConcurrencyLimitsProofs ----------------------
(***************************************************************************)
(* Type correctness of ConcurrencyLimits, the pairing of slots with        *)
(* in-flight records, that deferring keeps a job, and the limit itself,    *)
(* for any number of jobs, types, tenants and workers.                     *)
(***************************************************************************)
EXTENDS ConcurrencyLimits, FiniteSetTheorems, TLAPS

(* What the calls of a worker and of the reconciler rely on.               *)
Positions ==
  /\ \A w \in Workers : pc[w] # "brpop" => job[w] \in Jobs
  /\ rpc \in {"pop", "push"} => scope \in Scopes /\ avail > 0
  /\ rpc = "push" => moving \in Jobs

TypeInv == TypeOK /\ Positions

(* The number of live slots of a scope is a natural number.                *)
LEMMA LiveCount ==
  ASSUME TypeOK, NEW s \in Scopes
  PROVE  Cardinality(Live(s)) \in Nat
<1>1. Live(s) \subseteq Jobs /\ IsFiniteSet(Jobs)
  BY LimitsAssumption, Zenon DEF TypeOK, Live
<1> QED  BY <1>1, FS_Subset, FS_CardinalityType, Zenon

(* Every job has a type and a tenant.                                      *)
LEMMA JobScopes ==
  ASSUME NEW j \in Jobs
  PROVE  TypeOf[j] \in Scopes /\ TenantOf[j] \in Scopes /\ ScopesOf(j) \subseteq Scopes
BY LimitsAssumption, Zenon DEF Scopes, ScopesOf

(* A step of a worker in Dequeue, or its Ack, keeps the types.             *)
LEMMA WorkerStepTypes ==
  ASSUME TypeInv, NEW w \in Workers, Dequeue(w) \/ Complete(w) \/ Crash(w)
  PROVE  TypeInv'
<1> USE DEF TypeInv, TypeOK, Positions, Counting, Running
<1>1. ASSUME NEW j \in Jobs, BRPop(w, j) PROVE TypeInv'
  BY <1>1 DEF BRPop, configVars, reconVars, history
<1>2. CASE GetJobTypeState(w)
  <2>1. job[w] \in Jobs /\ limit[TypeOf[job[w]]] \in Nat
    BY <1>2, JobScopes, Zenon DEF GetJobTypeState
  <2> QED  BY <1>2, <2>1, Zenon DEF GetJobTypeState, queueVars, configVars, reconVars, history
<1>3. ASSUME NEW s \in Scopes, NEW n, NEW over \in Counting, NEW free \in Counting,
             CheckSlots(w, s, n, over, free), job[w] \in Jobs
      PROVE  TypeInv'
  <2>1. active' \in [Scopes -> SUBSET Jobs] /\ raced' \subseteq Scopes
    <3>1. CASE active' = active
      BY <1>3, <3>1, Zenon DEF CheckSlots
    <3>2. CASE active' = [active EXCEPT ![s] = active[s] \ expired]
      BY <1>3, <3>2, Zenon DEF CheckSlots
    <3> QED  BY <1>3, <3>1, <3>2, Zenon DEF CheckSlots, Purge, Live
  <2>2. pc' \in [Workers -> Counting \cup Running \cup {"brpop"}] /\ job' = job /\ lim' = lim
        /\ \A v \in Workers : pc'[v] # "brpop" => job'[v] \in Jobs
    BY <1>3, Zenon DEF CheckSlots, Goto
  <2> QED  BY <1>3, <2>1, <2>2, Zenon DEF CheckSlots, configVars, reconVars
<1>4. CASE CheckTenantLimit(w) \/ CheckTypeLimit(w)
  <2>1. job[w] \in Jobs
    BY <1>4, Zenon DEF CheckTenantLimit, CheckTypeLimit
  <2> QED  BY <1>3, <1>4, <2>1, JobScopes, Zenon DEF CheckTenantLimit, CheckTypeLimit
<1>5. CASE Defer(w)
  <2>1. PICK s \in Scopes : deferred' = [deferred EXCEPT ![s] = Append(@, job[w])]
    BY <1>5, JobScopes, Zenon DEF Defer
  <2>2. Append(deferred[s], job[w]) \in Seq(Jobs)
    BY <1>5 DEF Defer
  <2>3. deferred' \in [Scopes -> Seq(Jobs)]
    BY <2>1, <2>2, Zenon
  <2> QED  BY <1>5, <2>3, LimitsAssumption, Zenon DEF Defer, Release, configVars, reconVars, history
<1>6. CASE Track(w)
  BY <1>6, Zenon DEF Track, Goto, configVars, reconVars, history
<1>7. CASE Finish(w)
  BY <1>7, Zenon DEF Finish, Goto, queueVars, configVars, reconVars, history
<1>8. CASE Ack(w)
  <2>1. job[w] \in Jobs /\ raced' \subseteq Scopes
    BY <1>8, JobScopes, Zenon DEF Ack
  <2>2. active' \in [Scopes -> SUBSET Jobs] /\ inflight' \subseteq Jobs /\ expired' \subseteq Jobs
    BY <1>8, Zenon DEF Ack
  <2> QED  BY <1>8, <2>1, <2>2, Zenon DEF Ack, Release, configVars, reconVars
<1>9. CASE Crash(w)
  <2>1. events' \in 0 .. MaxEvents /\ dropped' \subseteq Jobs
    BY <1>9, LimitsAssumption DEF Crash, Event
  <2> QED  BY <1>9, <2>1, Zenon DEF Crash, Release, queueVars, configVars, reconVars
<1> QED  BY <1>1, <1>2, <1>4, <1>5, <1>6, <1>7, <1>8, <1>9, Zenon DEF Dequeue, Complete

(* A call of the reconciler keeps the types.                               *)
LEMMA ReconcilerStepTypes ==
  ASSUME TypeInv, ReconcileDeferredJobs \/ SchedulerCrash
  PROVE  TypeInv'
<1> USE DEF TypeInv, TypeOK, Positions
<1>1. CASE ReadConfigs
  BY <1>1, Zenon DEF ReadConfigs, queueVars, configVars, workerVars, history
<1>2. CASE NextPass
  BY <1>2, Zenon DEF NextPass, queueVars, configVars, workerVars, history
<1>3. ASSUME NEW s \in Scopes, Visit(s) PROVE TypeInv'
  <2>1. Len(deferred[s]) \in Nat /\ Cardinality(Live(s)) \in Nat /\ rlimit[s] \in Nat
    BY LiveCount
  <2>2. avail' \in Nat
    BY <1>3, <2>1 DEF Visit
  <2>3. active' \in [Scopes -> SUBSET Jobs]
    BY <1>3 DEF Visit, Purge, Live
  <2> QED  BY <1>3, <2>2, <2>3, Zenon DEF Visit, configVars, workerVars, history
<1>4. CASE PopDeferred
  <2>1. CASE deferred[scope] = << >>
    BY <1>4, <2>1, Zenon DEF PopDeferred, configVars, workerVars, history
  <2>2. CASE deferred[scope] # << >>
    <3>1. scope \in Scopes /\ deferred[scope] \in Seq(Jobs)
      BY <1>4, Zenon DEF PopDeferred
    <3>2. Head(deferred[scope]) \in Jobs /\ Tail(deferred[scope]) \in Seq(Jobs)
      BY <2>2, <3>1
    <3>3. deferred' \in [Scopes -> Seq(Jobs)] /\ moving' \in Jobs
      BY <1>4, <2>2, <3>2, Zenon DEF PopDeferred
    <3> QED  BY <1>4, <2>2, <3>1, <3>3, Zenon DEF PopDeferred, configVars, workerVars, history
  <2> QED  BY <2>1, <2>2, Zenon
<1>5. CASE PushBack
  BY <1>5 DEF PushBack, LPushMain, configVars, workerVars, history
<1>6. CASE SchedulerCrash
  <2>1. events' \in 0 .. MaxEvents /\ dropped' \subseteq Jobs
    BY <1>6, LimitsAssumption DEF SchedulerCrash, Event
  <2> QED  BY <1>6, <2>1, Zenon DEF SchedulerCrash, queueVars, configVars, workerVars
<1> QED  BY <1>1, <1>2, <1>3, <1>4, <1>5, <1>6, Zenon DEF ReconcileDeferredJobs

(* The clock, the reclaimer and the operators keep the types.              *)
LEMMA OtherStepTypes ==
  ASSUME TypeInv,
         \/ \E j \in Jobs : Expire(j) \/ Reclaim(j)
         \/ \E n \in Tenants, v \in Limits : UpdateTenantConfig(n, v)
         \/ \E t \in Types : DeleteJobType(t) \/ CreateJobType(t)
  PROVE  TypeInv'
<1> USE DEF TypeInv, TypeOK, Positions
<1>1. ASSUME NEW j \in Jobs, Expire(j) PROVE TypeInv'
  <2>1. raced' \subseteq Scopes
    BY <1>1, JobScopes, Zenon DEF Expire
  <2> QED  BY <1>1, <2>1, Zenon DEF Expire, configVars, workerVars, reconVars
<1>2. ASSUME NEW j \in Jobs, Reclaim(j) PROVE TypeInv'
  <2>1. events' \in 0 .. MaxEvents
    BY <1>2, LimitsAssumption DEF Reclaim, Event
  <2> QED  BY <1>2, <2>1 DEF Reclaim, LPushMain, configVars, workerVars, reconVars
<1>3. ASSUME NEW n \in Tenants, NEW v \in Limits, UpdateTenantConfig(n, v) PROVE TypeInv'
  <2>1. events' \in 0 .. MaxEvents /\ n \in Scopes /\ v \in Nat
    BY <1>3, LimitsAssumption DEF UpdateTenantConfig, Event, Scopes
  <2> QED  BY <1>3, <2>1, Zenon DEF UpdateTenantConfig, queueVars, workerVars, reconVars
<1>4. ASSUME NEW t \in Types, DeleteJobType(t) PROVE TypeInv'
  <2>1. events' \in 0 .. MaxEvents
    BY <1>4, LimitsAssumption DEF DeleteJobType, Event
  <2> QED  BY <1>4, <2>1, Zenon DEF DeleteJobType, queueVars, workerVars, reconVars
<1>5. ASSUME NEW t \in Types, CreateJobType(t) PROVE TypeInv'
  BY <1>5, Zenon DEF CreateJobType, Scopes, queueVars, workerVars, reconVars, history
<1> QED  BY <1>1, <1>2, <1>3, <1>4, <1>5, Zenon

(* Type correctness: every variable keeps its type, and no process makes a *)
(* call of Dequeue or of ReconcileDeferredJobs without the job it is about.*)
THEOREM LimitsTypeCorrect == Spec => [](TypeOK /\ Positions)
<1>1. Init => TypeInv
  <2> SUFFICES ASSUME Init PROVE TypeInv
    OBVIOUS
  <2>1. << >> \in Seq(Jobs) /\ \A s \in Scopes : (IF s \in Types THEN TypeLimit[s] ELSE 0) \in Nat
    BY LimitsAssumption
  <2> QED  BY <2>1, LimitsAssumption DEF Init, TypeInv, TypeOK, Positions, Scopes
<1>2. TypeInv /\ [Next]_vars => TypeInv'
  <2> SUFFICES ASSUME TypeInv, [Next]_vars PROVE TypeInv'
    OBVIOUS
  <2>1. CASE UNCHANGED vars
    BY <2>1, Zenon DEF vars, queueVars, configVars, workerVars, reconVars, history, TypeInv, TypeOK, Positions
  <2> QED  BY <2>1, WorkerStepTypes, ReconcilerStepTypes, OtherStepTypes, Zenon DEF Next
<1> QED  BY <1>1, <1>2, PTL DEF Spec, TypeInv

-----------------------------------------------------------------------------
(* A job occupies slots of its own type and tenant only.                   *)
SlotInv == SlotsPaired /\ \A s \in Scopes : \A j \in active[s] : s \in ScopesOf(j)

(* Every call keeps the slots as they should be.                           *)
LEMMA SlotsInvariant == Spec => []SlotInv
<1>1. Init => SlotInv
  BY Zenon DEF Init, SlotInv, SlotsPaired
<1>2. TypeInv /\ SlotInv /\ [Next]_vars => SlotInv'
  <2> SUFFICES ASSUME TypeInv, SlotInv, [Next]_vars PROVE SlotInv'
    OBVIOUS
  <2> USE DEF SlotInv, SlotsPaired
  <2>1. ASSUME NEW w \in Workers, Track(w) PROVE SlotInv'
    BY <2>1, Zenon DEF Track
  <2>2. ASSUME NEW w \in Workers, Ack(w) PROVE SlotInv'
    BY <2>2, Zenon DEF Ack
  <2>3. ASSUME NEW j \in Jobs, Expire(j) PROVE SlotInv'
    BY <2>3, Zenon DEF Expire
  <2>4. ASSUME NEW j \in Jobs, Reclaim(j) PROVE SlotInv'
    BY <2>4, Zenon DEF Reclaim
  <2>5. ASSUME NEW s \in Scopes, active' = active \/ Purge(s), UNCHANGED <<inflight, expired>>
        PROVE  SlotInv'
    <3>1. \A x \in Scopes, j \in Jobs \ expired : j \in active'[x] <=> j \in active[x]
      BY <2>5 DEF Purge, Live, TypeInv, TypeOK
    <3>2. \A x \in Scopes : active'[x] \subseteq active[x]
      BY <2>5 DEF Purge, Live, TypeInv, TypeOK
    <3> QED  BY <2>5, <3>1, <3>2, Zenon
  <2>6. ASSUME NEW w \in Workers, CheckTenantLimit(w) \/ CheckTypeLimit(w) PROVE SlotInv'
    <3>1. job[w] \in Jobs
      BY <2>6, Zenon DEF CheckTenantLimit, CheckTypeLimit, TypeInv, Positions
    <3> QED  BY <2>5, <2>6, <3>1, JobScopes, Zenon DEF CheckTenantLimit, CheckTypeLimit, CheckSlots
  <2>7. ASSUME NEW s \in Scopes, Visit(s) PROVE SlotInv'
    BY <2>5, <2>7, Zenon DEF Visit
  <2>8. ASSUME UNCHANGED <<inflight, active, expired>> PROVE SlotInv'
    BY <2>8, Zenon
  <2>9. ASSUME NEW w \in Workers, (\E j \in Jobs : BRPop(w, j)) \/ GetJobTypeState(w) \/ Defer(w)
               \/ Finish(w) \/ Crash(w)
        PROVE  SlotInv'
    BY <2>8, <2>9, Zenon DEF BRPop, GetJobTypeState, Defer, Finish, Crash, queueVars
  <2>10. CASE ReadConfigs \/ NextPass \/ PopDeferred \/ PushBack \/ SchedulerCrash
    BY <2>8, <2>10, Zenon DEF ReadConfigs, NextPass, PopDeferred, PushBack, SchedulerCrash, queueVars
  <2>11. CASE \/ \E n \in Tenants, v \in Limits : UpdateTenantConfig(n, v)
              \/ \E t \in Types : DeleteJobType(t) \/ CreateJobType(t)
              \/ UNCHANGED vars
    BY <2>8, <2>11, Zenon DEF UpdateTenantConfig, DeleteJobType, CreateJobType, queueVars, vars
  <2> QED  BY <2>1, <2>2, <2>3, <2>4, <2>6, <2>7, <2>9, <2>10, <2>11, Zenon
          DEF Next, Dequeue, Complete, ReconcileDeferredJobs
<1> QED  BY <1>1, <1>2, LimitsTypeCorrect, PTL DEF Spec, TypeInv

(* A slot is held exactly while the job is in flight, until both expire:   *)
(* what Dequeue takes, Ack and Fail give back, whoever else crashes,       *)
(* reclaims, purges or reconfigures in between.                            *)
THEOREM SlotsPairedInvariant == Spec => []SlotsPaired
<1>1. SlotInv => SlotsPaired
  BY Zenon DEF SlotInv
<1> QED  BY <1>1, SlotsInvariant, PTL
-----------------------------------------------------------------------------
(* How often a job occurs in a list.                                       *)

LEMMA OccursType ==
  ASSUME NEW q \in Seq(Jobs), NEW j
  PROVE  /\ IsFiniteSet({k \in 1 .. Len(q) : q[k] = j})
         /\ Occurs(q, j) \in Nat
<1>1. Len(q) \in Nat /\ IsFiniteSet(1 .. Len(q))
  BY FS_Interval
<1>2. {k \in 1 .. Len(q) : q[k] = j} \in SUBSET (1 .. Len(q))
  OBVIOUS
<1>3. IsFiniteSet({k \in 1 .. Len(q) : q[k] = j})
  BY <1>1, <1>2, FS_Subset, Zenon
<1> QED  BY <1>3, FS_CardinalityType, Zenon DEF Occurs

(* LPUSH adds one occurrence, of the job that is pushed.                   *)
LEMMA OccursAppend ==
  ASSUME NEW q \in Seq(Jobs), NEW x \in Jobs, NEW j
  PROVE  Occurs(Append(q, x), j) = Occurs(q, j) + (IF x = j THEN 1 ELSE 0)
<1> DEFINE At(p) == {k \in 1 .. Len(p) : p[k] = j}
<1>1. Append(q, x) \in Seq(Jobs) /\ Len(Append(q, x)) = Len(q) + 1 /\ Len(q) \in Nat
      /\ \A k \in 1 .. Len(q) + 1 : Append(q, x)[k] = IF k <= Len(q) THEN q[k] ELSE x
  OBVIOUS
<1>2. At(Append(q, x)) = IF x = j THEN At(q) \cup {Len(q) + 1} ELSE At(q)
  BY <1>1
<1>3. Len(q) + 1 \notin At(q)
  BY <1>1
<1>4. IsFiniteSet(At(q)) /\ Cardinality(At(q)) \in Nat
  BY OccursType, FS_CardinalityType, Zenon
<1>5. Occurs(Append(q, x), j) = Cardinality(At(Append(q, x))) /\ Occurs(q, j) = Cardinality(At(q))
  BY Zenon DEF Occurs
<1> HIDE DEF At
<1>6. Cardinality(At(q) \cup {Len(q) + 1}) = Cardinality(At(q)) + 1
  BY <1>3, <1>4, FS_AddElement, Zenon
<1> QED  BY <1>2, <1>4, <1>5, <1>6

(* RPOP takes one away, of the job at the end.                             *)
LEMMA OccursTail ==
  ASSUME NEW q \in Seq(Jobs), q # << >>, NEW j
  PROVE  Occurs(q, j) = Occurs(Tail(q), j) + (IF Head(q) = j THEN 1 ELSE 0)
<1> DEFINE At(p) == {k \in 1 .. Len(p) : p[k] = j}
           Rest  == {k \in 2 .. Len(q) : q[k] = j}
           shift == [k \in At(Tail(q)) |-> k + 1]
<1>1. Tail(q) \in Seq(Jobs) /\ Len(Tail(q)) = Len(q) - 1 /\ Len(q) \in Nat /\ Len(q) > 0
      /\ Head(q) = q[1]
      /\ \A k \in 1 .. Len(q) - 1 : Tail(q)[k] = q[k + 1]
  OBVIOUS
<1>2. At(q) = IF Head(q) = j THEN Rest \cup {1} ELSE Rest
  BY <1>1
<1>3. 1 \notin Rest
  OBVIOUS
<1>4. IsFiniteSet(At(Tail(q))) /\ Cardinality(At(Tail(q))) \in Nat
  BY <1>1, OccursType, FS_CardinalityType, Zenon
<1>5. Occurs(q, j) = Cardinality(At(q)) /\ Occurs(Tail(q), j) = Cardinality(At(Tail(q)))
  BY Zenon DEF Occurs
<1>6. ExistsBijection(At(Tail(q)), Rest)
  <2>1. shift \in [At(Tail(q)) -> Rest]
    BY <1>1
  <2>2. \A k, l \in At(Tail(q)) : shift[k] = shift[l] => k = l
    BY <1>1
  <2>3. ASSUME NEW m \in Rest PROVE \E k \in At(Tail(q)) : shift[k] = m
    <3>1. m - 1 \in At(Tail(q)) /\ (m - 1) + 1 = m
      BY <1>1, <2>3
    <3> QED  BY <3>1, Zenon
  <2>4. shift \in Bijection(At(Tail(q)), Rest)
    BY <2>1, <2>2, <2>3, Zenon DEF Bijection, Injection, Surjection, IsInjective
  <2> QED  BY <2>4, Zenon DEF ExistsBijection
<1> HIDE DEF At, Rest
<1>7. IsFiniteSet(Rest) /\ Cardinality(Rest) = Cardinality(At(Tail(q)))
  BY <1>4, <1>6, FS_Bijection, Zenon
<1>8. Cardinality(Rest \cup {1}) = Cardinality(Rest) + 1
  BY <1>3, <1>7, FS_AddElement, Zenon
<1> QED  BY <1>2, <1>4, <1>5, <1>7, <1>8

-----------------------------------------------------------------------------
(* Copies of a job no worker holds.                                        *)

Waiting(j) == main[j] + Occurs(deferred[TypeOf[j]], j) + Occurs(deferred[TenantOf[j]], j)
              + (IF moving = j THEN 1 ELSE 0)

(* A deferred list holds jobs of its scope; the reconciler has a job in its *)
(* memory between RPOP and LPUSH only; workers hold a job until Dequeue or  *)
(* Ack lets go of it, and acknowledge what they have finished.              *)
Whereabouts ==
  /\ \A s \in Scopes : \A k \in 1 .. Len(deferred[s]) : s \in ScopesOf(deferred[s][k])
  /\ rpc # "push" => moving = NoJob
  /\ \A w \in Workers : pc[w] = "brpop" => job[w] = NoJob
  /\ \A w \in Workers : pc[w] = "ack" => job[w] \in done

LEMMA WaitingType ==
  ASSUME TypeOK, NEW j \in Jobs
  PROVE  /\ Waiting(j) \in Nat
         /\ main[j] \in Nat
         /\ \A s \in Scopes : deferred[s] \in Seq(Jobs) /\ Occurs(deferred[s], j) \in Nat
<1>1. main[j] \in Nat /\ TypeOf[j] \in Scopes /\ TenantOf[j] \in Scopes
      /\ \A s \in Scopes : deferred[s] \in Seq(Jobs)
  BY JobScopes, Zenon DEF TypeOK
<1>2. \A s \in Scopes : Occurs(deferred[s], j) \in Nat
  BY <1>1, OccursType, Zenon
<1>3. Occurs(deferred[TypeOf[j]], j) \in Nat /\ Occurs(deferred[TenantOf[j]], j) \in Nat
  BY <1>1, <1>2, Zenon
<1>4. Waiting(j) \in Nat
  BY <1>1, <1>3 DEF Waiting
<1> QED  BY <1>1, <1>2, <1>4, Zenon

(* A list that gains n or loses n occurrences.                             *)
LEMMA WaitingDelta ==
  ASSUME TypeOK, NEW j \in Jobs, NEW s \in ScopesOf(j), NEW n \in Int,
         Occurs(deferred'[s], j) = Occurs(deferred[s], j) + n,
         \A u \in Scopes : u # s => Occurs(deferred'[u], j) = Occurs(deferred[u], j),
         main' = main
  PROVE  Waiting(j)' = Waiting(j) + n + (IF moving' = j THEN 1 ELSE 0) - (IF moving = j THEN 1 ELSE 0)
<1>1. TypeOf[j] \in Scopes /\ TenantOf[j] \in Scopes /\ TypeOf[j] # TenantOf[j]
  BY JobScopes, LimitsAssumption, Zenon
<1>2. main[j] \in Nat /\ Occurs(deferred[TypeOf[j]], j) \in Nat /\ Occurs(deferred[TenantOf[j]], j) \in Nat
  BY <1>1, WaitingType, Zenon
<1>3. Waiting(j)' = main[j] + Occurs(deferred'[TypeOf[j]], j) + Occurs(deferred'[TenantOf[j]], j)
                    + (IF moving' = j THEN 1 ELSE 0)
  BY Zenon DEF Waiting
<1>4. CASE s = TypeOf[j]
  <2>1. Occurs(deferred'[TypeOf[j]], j) = Occurs(deferred[TypeOf[j]], j) + n
        /\ Occurs(deferred'[TenantOf[j]], j) = Occurs(deferred[TenantOf[j]], j)
    BY <1>1, <1>4, Zenon
  <2> QED  BY <1>2, <1>3, <2>1 DEF Waiting
<1>5. CASE s = TenantOf[j]
  <2>1. Occurs(deferred'[TenantOf[j]], j) = Occurs(deferred[TenantOf[j]], j) + n
        /\ Occurs(deferred'[TypeOf[j]], j) = Occurs(deferred[TypeOf[j]], j)
    BY <1>1, <1>5, Zenon
  <2> QED  BY <1>2, <1>3, <2>1 DEF Waiting
<1> QED  BY <1>4, <1>5, Zenon DEF ScopesOf

(* The lists of deferred jobs are left alone.                              *)
LEMMA WaitingMain ==
  ASSUME TypeOK, NEW j \in Jobs, NEW n \in Int, main'[j] = main[j] + n, deferred' = deferred
  PROVE  Waiting(j)' = Waiting(j) + n + (IF moving' = j THEN 1 ELSE 0) - (IF moving = j THEN 1 ELSE 0)
<1>1. TypeOf[j] \in Scopes /\ TenantOf[j] \in Scopes
  BY JobScopes, Zenon
<1>2. main[j] \in Nat /\ Occurs(deferred[TypeOf[j]], j) \in Nat /\ Occurs(deferred[TenantOf[j]], j) \in Nat
  BY <1>1, WaitingType, Zenon
<1>3. Waiting(j)' = (main[j] + n) + Occurs(deferred[TypeOf[j]], j) + Occurs(deferred[TenantOf[j]], j)
                    + (IF moving' = j THEN 1 ELSE 0)
  BY Zenon DEF Waiting
<1> QED  BY <1>2, <1>3 DEF Waiting

(* BRPOP, LPUSH to a deferred list, RPOP from one, LPUSH to a main list,   *)
(* the reclaim script and a crash of the scheduler: what each does to the  *)
(* copies of every job.                                                    *)
LEMMA WaitingBRPop ==
  ASSUME TypeInv, NEW w \in Workers, NEW x \in Jobs, BRPop(w, x)
  PROVE  /\ Waiting(x) > 0
         /\ \A j \in Jobs : Waiting(j)' = Waiting(j) - (IF j = x THEN 1 ELSE 0)
<1>t. TypeOK
  BY Zenon DEF TypeInv
<1>1. deferred' = deferred /\ moving' = moving /\ main[x] > 0 /\ main \in [Jobs -> Nat]
      /\ main' = [main EXCEPT ![x] = @ - 1]
  BY <1>t, Zenon DEF BRPop, reconVars, TypeOK
<1>2. Waiting(x) > 0
  <2>1. TypeOf[x] \in Scopes /\ TenantOf[x] \in Scopes
    BY JobScopes, Zenon
  <2>2. main[x] \in Nat /\ Occurs(deferred[TypeOf[x]], x) \in Nat /\ Occurs(deferred[TenantOf[x]], x) \in Nat
    BY <1>t, <2>1, WaitingType, Zenon
  <2> QED  BY <1>1, <2>2 DEF Waiting
<1>3. ASSUME NEW j \in Jobs PROVE Waiting(j)' = Waiting(j) - (IF j = x THEN 1 ELSE 0)
  <2>1. main'[j] = main[j] + (IF j = x THEN -1 ELSE 0)
    BY <1>1
  <2>2. Waiting(j)' = Waiting(j) + (IF j = x THEN -1 ELSE 0) + (IF moving' = j THEN 1 ELSE 0)
                      - (IF moving = j THEN 1 ELSE 0)
    BY <1>t, <1>1, <2>1, WaitingMain
  <2>3. Waiting(j) \in Nat
    BY <1>t, WaitingType, Zenon
  <2> QED  BY <1>1, <2>2, <2>3
<1> QED  BY <1>2, <1>3, Zenon

LEMMA WaitingDefer ==
  ASSUME TypeInv, NEW w \in Workers, Defer(w)
  PROVE  \A j \in Jobs : Waiting(j)' = Waiting(j) + (IF j = job[w] THEN 1 ELSE 0)
<1>t. TypeOK
  BY Zenon DEF TypeInv
<1>1. job[w] \in Jobs /\ main' = main /\ moving' = moving /\ deferred \in [Scopes -> Seq(Jobs)]
  BY <1>t, Zenon DEF Defer, TypeInv, Positions, reconVars, TypeOK
<1>2. PICK s \in ScopesOf(job[w]) : deferred' = [deferred EXCEPT ![s] = Append(@, job[w])]
  BY Zenon DEF Defer, ScopesOf
<1>3. s \in Scopes
  BY <1>1, JobScopes, Zenon
<1>4. ASSUME NEW j \in Jobs PROVE Waiting(j)' = Waiting(j) + (IF j = job[w] THEN 1 ELSE 0)
  <2>1. \A u \in Scopes : u # s => deferred'[u] = deferred[u]
    BY <1>1, <1>2, Zenon
  <2>2. deferred'[s] = Append(deferred[s], job[w]) /\ deferred[s] \in Seq(Jobs)
    BY <1>1, <1>2, <1>3, Zenon
  <2>3. Occurs(deferred'[s], j) = Occurs(deferred[s], j) + (IF job[w] = j THEN 1 ELSE 0)
    BY <1>1, <2>2, OccursAppend
  <2>4. Waiting(j) \in Nat
    BY <1>t, WaitingType, Zenon
  <2>5. CASE j = job[w]
    <3>1. Waiting(j)' = Waiting(j) + 1 + (IF moving' = j THEN 1 ELSE 0) - (IF moving = j THEN 1 ELSE 0)
      BY <1>t, <1>1, <2>1, <2>3, <2>5, WaitingDelta
    <3> QED  BY <1>1, <2>4, <2>5, <3>1
  <2>6. CASE j # job[w]
    <3>1. Occurs(deferred[s], j) \in Nat /\ TypeOf[j] \in Scopes /\ TenantOf[j] \in Scopes
      BY <1>t, <1>3, WaitingType, JobScopes, Zenon
    <3>2. Occurs(deferred'[s], j) = Occurs(deferred[s], j)
      BY <2>3, <2>6, <3>1
    <3>3. \A u \in Scopes : Occurs(deferred'[u], j) = Occurs(deferred[u], j)
      BY <2>1, <3>2, Zenon
    <3>4. Waiting(j)' = Waiting(j)
      BY <1>1, <3>1, <3>3, Zenon DEF Waiting
    <3> QED  BY <2>4, <2>6, <3>4
  <2> QED  BY <2>5, <2>6, Zenon
<1> QED  BY <1>4, Zenon

LEMMA WaitingPop ==
  ASSUME TypeInv, Whereabouts, PopDeferred
  PROVE  \A j \in Jobs : Waiting(j)' = Waiting(j)
<1>t. TypeOK /\ rpc = "pop" /\ moving = NoJob /\ scope \in Scopes /\ main' = main
      /\ deferred \in [Scopes -> Seq(Jobs)]
  BY Zenon DEF TypeInv, Positions, PopDeferred, Whereabouts, TypeOK
<1>1. CASE deferred[scope] = << >>
  BY <1>t, <1>1, Zenon DEF PopDeferred, Waiting
<1>2. CASE deferred[scope] # << >>
  <2> DEFINE q == deferred[scope]
  <2>1. q \in Seq(Jobs) /\ moving' = Head(q) /\ deferred' = [deferred EXCEPT ![scope] = Tail(q)]
    BY <1>t, <1>2, Zenon DEF PopDeferred
  <2>2. Head(q) \in Jobs /\ Head(q) = q[1] /\ 1 \in 1 .. Len(q)
    BY <1>2, <2>1
  <2>3. scope \in ScopesOf(Head(q))
    BY <1>t, <2>2, Zenon DEF Whereabouts
  <2>4. deferred'[scope] = Tail(q) /\ \A u \in Scopes : u # scope => deferred'[u] = deferred[u]
    BY <1>t, <2>1, Zenon
  <2> HIDE DEF q
  <2>5. ASSUME NEW j \in Jobs PROVE Waiting(j)' = Waiting(j)
    <3>1. Occurs(q, j) = Occurs(Tail(q), j) + (IF Head(q) = j THEN 1 ELSE 0)
      BY <1>2, <2>1, OccursTail, Zenon DEF q
    <3>2. Tail(q) \in Seq(Jobs)
      BY <1>2, <2>1 DEF q
    <3>3. Occurs(q, j) \in Nat /\ Occurs(Tail(q), j) \in Nat
      BY <2>1, <3>2, OccursType, Zenon
    <3>4. Waiting(j) \in Nat /\ moving # j
      BY <1>t, WaitingType, LimitsAssumption, Zenon
    <3>5. CASE j = Head(q)
      <4>1. Occurs(deferred'[scope], j) = Occurs(deferred[scope], j) + (-1)
        BY <2>4, <3>1, <3>3, <3>5 DEF q
      <4>2. \A u \in Scopes : u # scope => Occurs(deferred'[u], j) = Occurs(deferred[u], j)
        BY <2>4, Zenon
      <4>3. scope \in ScopesOf(j) /\ -1 \in Int
        BY <2>3, <3>5
      <4>4. Waiting(j)' = Waiting(j) + (-1) + (IF moving' = j THEN 1 ELSE 0) - (IF moving = j THEN 1 ELSE 0)
        BY <1>t, <4>1, <4>2, <4>3, WaitingDelta, Zenon
      <4>5. moving' = j
        BY <2>1, <3>5, Zenon
      <4> QED  BY <3>4, <4>4, <4>5
    <3>6. CASE j # Head(q)
      <4>1. Occurs(deferred'[scope], j) = Occurs(deferred[scope], j)
        BY <2>4, <3>1, <3>3, <3>6 DEF q
      <4>2. \A u \in Scopes : Occurs(deferred'[u], j) = Occurs(deferred[u], j)
        BY <2>4, <4>1, Zenon
      <4>3. TypeOf[j] \in Scopes /\ TenantOf[j] \in Scopes /\ moving' # j
        BY <2>1, <3>6, JobScopes, Zenon
      <4> QED  BY <1>t, <3>4, <4>2, <4>3, Zenon DEF Waiting
    <3> QED  BY <3>5, <3>6, Zenon
  <2> QED  BY <2>5, Zenon
<1> QED  BY <1>1, <1>2, Zenon

LEMMA WaitingPushBack ==
  ASSUME TypeInv, PushBack
  PROVE  \A j \in Jobs : Waiting(j)' = Waiting(j)
<1>t. TypeOK /\ moving \in Jobs /\ moving' = NoJob /\ deferred' = deferred /\ main \in [Jobs -> Nat]
      /\ main' = [main EXCEPT ![moving] = @ + 1]
  BY Zenon DEF TypeInv, Positions, PushBack, LPushMain, TypeOK
<1>1. ASSUME NEW j \in Jobs PROVE Waiting(j)' = Waiting(j)
  <2>1. main'[j] = main[j] + (IF moving = j THEN 1 ELSE 0)
    BY <1>t
  <2>2. Waiting(j)' = Waiting(j) + (IF moving = j THEN 1 ELSE 0) + (IF moving' = j THEN 1 ELSE 0)
                      - (IF moving = j THEN 1 ELSE 0)
    BY <1>t, <2>1, WaitingMain
  <2>3. Waiting(j) \in Nat /\ moving' # j
    BY <1>t, WaitingType, LimitsAssumption, Zenon
  <2> QED  BY <2>2, <2>3
<1> QED  BY <1>1, Zenon

LEMMA WaitingReclaim ==
  ASSUME TypeInv, NEW x \in Jobs, Reclaim(x)
  PROVE  \A j \in Jobs : Waiting(j)' = Waiting(j) + (IF j = x THEN 1 ELSE 0)
<1>t. TypeOK /\ moving' = moving /\ deferred' = deferred /\ main \in [Jobs -> Nat]
      /\ main' = [main EXCEPT ![x] = @ + 1]
  BY Zenon DEF TypeInv, Reclaim, LPushMain, reconVars, TypeOK
<1>1. ASSUME NEW j \in Jobs PROVE Waiting(j)' = Waiting(j) + (IF j = x THEN 1 ELSE 0)
  <2>1. main'[j] = main[j] + (IF j = x THEN 1 ELSE 0)
    BY <1>t
  <2>2. Waiting(j)' = Waiting(j) + (IF j = x THEN 1 ELSE 0) + (IF moving' = j THEN 1 ELSE 0)
                      - (IF moving = j THEN 1 ELSE 0)
    BY <1>t, <2>1, WaitingMain
  <2>3. Waiting(j) \in Nat
    BY <1>t, WaitingType, Zenon
  <2> QED  BY <1>t, <2>2, <2>3
<1> QED  BY <1>1, Zenon

LEMMA WaitingSchedulerCrash ==
  ASSUME TypeInv, SchedulerCrash
  PROVE  \A j \in Jobs : /\ Waiting(j)' = Waiting(j) - (IF moving = j THEN 1 ELSE 0)
                         /\ moving = j => Waiting(j) > 0
<1>t. TypeOK /\ moving' = NoJob /\ deferred' = deferred /\ main' = main /\ main \in [Jobs -> Nat]
  BY Zenon DEF TypeInv, SchedulerCrash, queueVars, TypeOK
<1>1. ASSUME NEW j \in Jobs
      PROVE  Waiting(j)' = Waiting(j) - (IF moving = j THEN 1 ELSE 0) /\ (moving = j => Waiting(j) > 0)
  <2>1. main'[j] = main[j] + 0
    BY <1>t
  <2>2. Waiting(j)' = Waiting(j) + 0 + (IF moving' = j THEN 1 ELSE 0) - (IF moving = j THEN 1 ELSE 0)
    BY <1>t, <2>1, WaitingMain
  <2>3. Waiting(j) \in Nat /\ moving' # j
    BY <1>t, WaitingType, LimitsAssumption, Zenon
  <2>4. TypeOf[j] \in Scopes /\ TenantOf[j] \in Scopes
    BY JobScopes, Zenon
  <2>5. main[j] \in Nat /\ Occurs(deferred[TypeOf[j]], j) \in Nat /\ Occurs(deferred[TenantOf[j]], j) \in Nat
    BY <1>t, <2>4, WaitingType, Zenon
  <2>6. moving = j => Waiting(j) > 0
    BY <2>5 DEF Waiting
  <2> QED  BY <2>2, <2>3, <2>6
<1> QED  BY <1>1, Zenon
-----------------------------------------------------------------------------
(* Every step keeps track of where the jobs are.                           *)
LEMMA WhereaboutsStep ==
  ASSUME TypeInv, Whereabouts, [Next]_vars
  PROVE  Whereabouts'
<1> DEFINE Home(q, s) == \A k \in 1 .. Len(q) : s \in ScopesOf(q[k])
           Workplace  == /\ \A w \in Workers : pc[w] = "brpop" => job[w] = NoJob
                         /\ \A w \in Workers : pc[w] = "ack" => job[w] \in done
<1>t. /\ deferred \in [Scopes -> Seq(Jobs)] /\ \A s \in Scopes : Home(deferred[s], s)
      /\ pc \in [Workers -> Counting \cup Running \cup {"brpop"}] /\ job \in [Workers -> Jobs \cup {NoJob}]
      /\ \A w \in Workers : pc[w] # "brpop" => job[w] \in Jobs
      /\ rpc # "push" => moving = NoJob
      /\ rpc \in {"pop", "push"} => scope \in Scopes
      /\ Workplace
  BY Zenon DEF TypeInv, TypeOK, Positions, Whereabouts
<1>d. ASSUME \A s \in Scopes : Home(deferred'[s], s), rpc' # "push" => moving' = NoJob, Workplace'
      PROVE  Whereabouts'
  BY <1>d, Zenon DEF Whereabouts
<1>a. ASSUME NEW q \in Seq(Jobs), NEW s, Home(q, s), NEW x \in Jobs, s \in ScopesOf(x)
      PROVE  Home(Append(q, x), s)
  BY <1>a
<1>b. ASSUME NEW q \in Seq(Jobs), NEW s, Home(q, s), q # << >> PROVE Home(Tail(q), s)
  BY <1>b
<1> HIDE DEF Home
<1>1. ASSUME NEW w \in Workers, NEW j \in Jobs, BRPop(w, j) PROVE Whereabouts'
  <2>1. Workplace'
    BY <1>t, <1>1, Zenon DEF BRPop
  <2> QED  BY <1>t, <1>d, <1>1, <2>1, Zenon DEF BRPop, reconVars
<1>2. ASSUME NEW w \in Workers, UNCHANGED <<deferred, reconVars>>, NEW call \in Counting, Goto(w, call),
             pc[w] # "brpop", done' = done
      PROVE  Whereabouts'
  <2>1. Workplace'
    BY <1>t, <1>2, Zenon DEF Goto, Counting
  <2> QED  BY <1>t, <1>d, <1>2, <2>1, Zenon DEF reconVars
<1>3. ASSUME NEW w \in Workers, GetJobTypeState(w) PROVE Whereabouts'
  <2>1. Workplace'
    BY <1>t, <1>3, Zenon DEF GetJobTypeState
  <2> QED  BY <1>t, <1>d, <1>3, <2>1, Zenon DEF GetJobTypeState, queueVars, reconVars
<1>4. ASSUME NEW w \in Workers, CheckTenantLimit(w) \/ CheckTypeLimit(w) PROVE Whereabouts'
  <2>1. /\ \E call \in Counting : Goto(w, call)
        /\ pc[w] # "brpop" /\ UNCHANGED <<deferred, reconVars>> /\ done' = done
    BY <1>4, Zenon DEF CheckTenantLimit, CheckTypeLimit, CheckSlots, Counting
  <2> QED  BY <1>2, <2>1, Zenon
<1>5. ASSUME NEW w \in Workers, Release(w), pc[w] # "brpop", done' = done PROVE Workplace'
  BY <1>t, <1>5, Zenon DEF Release
<1>6. ASSUME NEW w \in Workers, Defer(w) PROVE Whereabouts'
  <2>1. job[w] \in Jobs /\ pc[w] # "brpop" /\ Release(w) /\ UNCHANGED <<rpc, moving, done>>
    BY <1>t, <1>6, Zenon DEF Defer, reconVars
  <2>2. PICK s \in ScopesOf(job[w]) : deferred' = [deferred EXCEPT ![s] = Append(@, job[w])]
    BY <1>6, Zenon DEF Defer, ScopesOf
  <2>3. s \in Scopes
    BY <2>1, JobScopes, Zenon
  <2>4. Home(Append(deferred[s], job[w]), s)
    BY <1>t, <1>a, <2>1, <2>2, <2>3, Zenon
  <2>5. \A u \in Scopes : Home(deferred'[u], u)
    BY <1>t, <2>2, <2>3, <2>4, Zenon
  <2> QED  BY <1>t, <1>d, <1>5, <2>1, <2>5, Zenon
<1>7. ASSUME NEW w \in Workers, Track(w) PROVE Whereabouts'
  <2>1. Workplace'
    BY <1>t, <1>7, Zenon DEF Track, Goto
  <2> QED  BY <1>t, <1>d, <1>7, <2>1, Zenon DEF Track, reconVars
<1>8. ASSUME NEW w \in Workers, Finish(w) PROVE Whereabouts'
  <2>1. Workplace'
    BY <1>t, <1>8, Zenon DEF Finish, Goto
  <2> QED  BY <1>t, <1>d, <1>8, <2>1, Zenon DEF Finish, queueVars, reconVars
<1>9. ASSUME NEW w \in Workers, Ack(w) \/ Crash(w) PROVE Whereabouts'
  <2>1. Release(w) /\ pc[w] # "brpop" /\ done' = done /\ UNCHANGED <<deferred, rpc, moving>>
    BY <1>9, Zenon DEF Ack, Crash, queueVars, reconVars
  <2> QED  BY <1>t, <1>d, <1>5, <2>1, Zenon
<1>10. ASSUME UNCHANGED <<workerVars, done>> PROVE Workplace'
  BY <1>t, <1>10, Zenon DEF workerVars
<1>11. CASE ReadConfigs \/ NextPass \/ \E s \in Scopes : Visit(s)
  <2>1. UNCHANGED <<workerVars, done, deferred, moving>> /\ rpc # "push"
    BY <1>11, Zenon DEF ReadConfigs, NextPass, Visit, queueVars
  <2> QED  BY <1>t, <1>d, <1>10, <2>1, Zenon
<1>12. CASE PopDeferred
  <2>1. UNCHANGED <<workerVars, done>> /\ scope \in Scopes
    BY <1>t, <1>12, Zenon DEF PopDeferred
  <2>2. CASE deferred[scope] = << >>
    BY <1>t, <1>d, <1>10, <1>12, <2>1, <2>2, Zenon DEF PopDeferred
  <2>3. CASE deferred[scope] # << >>
    <3>1. Home(Tail(deferred[scope]), scope)
      BY <1>t, <1>b, <2>1, <2>3, Zenon
    <3>2. deferred' = [deferred EXCEPT ![scope] = Tail(@)] /\ rpc' = "push"
      BY <1>12, <2>3, Zenon DEF PopDeferred
    <3>3. \A u \in Scopes : Home(deferred'[u], u)
      BY <1>t, <2>1, <3>1, <3>2, Zenon
    <3> QED  BY <1>d, <1>10, <2>1, <3>2, <3>3, Zenon
  <2> QED  BY <2>2, <2>3, Zenon
<1>13. CASE PushBack \/ SchedulerCrash
  <2>1. UNCHANGED <<workerVars, done, deferred>> /\ moving' = NoJob
    BY <1>13, Zenon DEF PushBack, SchedulerCrash, queueVars
  <2> QED  BY <1>t, <1>d, <1>10, <2>1, Zenon
<1>14. CASE \/ \E j \in Jobs : Expire(j) \/ Reclaim(j)
            \/ \E n \in Tenants, v \in Limits : UpdateTenantConfig(n, v)
            \/ \E t \in Types : DeleteJobType(t) \/ CreateJobType(t)
            \/ UNCHANGED vars
  <2>1. UNCHANGED <<workerVars, done, deferred, rpc, moving>>
    BY <1>14, Zenon DEF Expire, Reclaim, UpdateTenantConfig, DeleteJobType, CreateJobType,
              queueVars, reconVars, vars
  <2> QED  BY <1>t, <1>d, <1>10, <2>1, Zenon
<1> QED  BY <1>1, <1>3, <1>4, <1>6, <1>7, <1>8, <1>9, <1>11, <1>12, <1>13, <1>14, Zenon
         DEF Next, Dequeue, Complete, ReconcileDeferredJobs
-----------------------------------------------------------------------------
(* Deferral.                                                               *)

InHand(w, j) == job[w] = j /\ pc[w] # "ack"

(* A job that was not reclaimed waits once, or is in the hands of one      *)
(* worker; an open job is somewhere.                                       *)
OneCopy(j) ==
  /\ Waiting(j) <= 1
  /\ \A v, w \in Workers : InHand(v, j) /\ InHand(w, j) => v = w
  /\ \A w \in Workers : InHand(w, j) => Waiting(j) = 0

Somewhere(j) == Waiting(j) > 0 \/ j \in inflight \/ \E w \in Workers : InHand(w, j)

DeferralInv ==
  \A j \in Jobs : /\ j \notin copied => OneCopy(j)
                  /\ j \notin done \cup dropped => Somewhere(j)

(* Steps that touch neither the lists nor the workers' hands.              *)
LEMMA DeferralFrame ==
  ASSUME DeferralInv, \A j \in Jobs : Waiting(j)' = Waiting(j),
         \A w \in Workers, j \in Jobs : InHand(w, j)' = InHand(w, j),
         inflight \subseteq inflight', copied' = copied, done' = done, dropped' = dropped
  PROVE  DeferralInv'
<1> SUFFICES ASSUME NEW j \in Jobs
             PROVE  /\ j \notin copied => OneCopy(j)'
                    /\ j \notin done \cup dropped => Somewhere(j)'
  BY Zenon DEF DeferralInv
<1>1. Waiting(j)' = Waiting(j) /\ \A w \in Workers : InHand(w, j)' = InHand(w, j)
  BY Zenon
<1>2. j \notin copied => OneCopy(j)'
  BY <1>1, Zenon DEF DeferralInv, OneCopy
<1>3. j \notin done \cup dropped => Somewhere(j)'
  BY <1>1, Zenon DEF DeferralInv, Somewhere
<1> QED  BY <1>2, <1>3, Zenon

(* Pop, defer, track, finish, acknowledge, crash.                          *)
LEMMA DeferralWorker ==
  ASSUME TypeInv, Whereabouts, DeferralInv, NEW w \in Workers, Dequeue(w) \/ Complete(w) \/ Crash(w)
  PROVE  DeferralInv'
<1>t. /\ pc \in [Workers -> Counting \cup Running \cup {"brpop"}] /\ job \in [Workers -> Jobs \cup {NoJob}]
      /\ \A v \in Workers : pc[v] # "brpop" => job[v] \in Jobs
      /\ \A v \in Workers : pc[v] = "brpop" => job[v] = NoJob
      /\ \A v \in Workers : pc[v] = "ack" => job[v] \in done
      /\ TypeOK /\ NoJob \notin Jobs
  BY LimitsAssumption, Zenon DEF TypeInv, TypeOK, Positions, Whereabouts
<1>n. \A j \in Jobs : Waiting(j) \in Nat
  BY <1>t, WaitingType, Zenon
<1>i. \A j \in Jobs : /\ j \notin copied => OneCopy(j)
                      /\ j \notin done \cup dropped => Somewhere(j)
  BY Zenon DEF DeferralInv
<1>s. ASSUME \A j \in Jobs : /\ j \notin copied' => OneCopy(j)'
                             /\ j \notin done' \cup dropped' => Somewhere(j)'
      PROVE  DeferralInv'
  BY <1>s, Zenon DEF DeferralInv
<1>w. ASSUME UNCHANGED <<main, deferred, moving>> PROVE \A j \in Jobs : Waiting(j)' = Waiting(j)
  BY <1>w, Zenon DEF Waiting
<1>h. ASSUME NEW call \in Counting \cup {"run"}, pc' = [pc EXCEPT ![w] = call], job' = job, pc[w] # "ack"
      PROVE  \A v \in Workers, j \in Jobs : InHand(v, j)' = InHand(v, j)
  BY <1>t, <1>h, Zenon DEF InHand, Counting
<1>r. ASSUME Release(w)
      PROVE  \A j \in Jobs : ~InHand(w, j)' /\ \A v \in Workers : v # w => InHand(v, j)' = InHand(v, j)
  BY <1>t, <1>r, Zenon DEF Release, InHand
<1>1. ASSUME NEW x \in Jobs, BRPop(w, x) PROVE DeferralInv'
  <2>1. Waiting(x) > 0 /\ \A j \in Jobs : Waiting(j)' = Waiting(j) - (IF j = x THEN 1 ELSE 0)
    BY <1>1, WaitingBRPop, Zenon
  <2>2. /\ InHand(w, x)' /\ \A j \in Jobs : j # x => ~InHand(w, j)'
        /\ \A j \in Jobs : ~InHand(w, j)
        /\ \A v \in Workers, j \in Jobs : v # w => InHand(v, j)' = InHand(v, j)
    BY <1>t, <1>1, Zenon DEF BRPop, InHand
  <2>3. UNCHANGED <<inflight, done, copied, dropped>>
    BY <1>1, Zenon DEF BRPop, history
  <2>4. ASSUME NEW j \in Jobs
        PROVE  /\ j \notin copied => OneCopy(j)'
               /\ j \notin done \cup dropped => Somewhere(j)'
    BY <1>n, <1>i, <2>1, <2>2, <2>3 DEF OneCopy, Somewhere
  <2> QED  BY <1>s, <2>3, <2>4, Zenon
<1>2. CASE GetJobTypeState(w) \/ CheckTenantLimit(w) \/ CheckTypeLimit(w) \/ Track(w)
  <2>1. /\ UNCHANGED <<main, deferred, moving, copied, done, dropped>> /\ inflight \subseteq inflight'
        /\ pc[w] # "ack" /\ job' = job
        /\ \E call \in Counting \cup {"run"} : pc' = [pc EXCEPT ![w] = call]
    BY <1>2, Zenon DEF GetJobTypeState, CheckTenantLimit, CheckTypeLimit, CheckSlots, Track, Goto, Counting,
                queueVars, reconVars, history
  <2> QED  BY <1>w, <1>h, <2>1, DeferralFrame, Zenon
<1>3. CASE Defer(w)
  <2>1. \A j \in Jobs : Waiting(j)' = Waiting(j) + (IF j = job[w] THEN 1 ELSE 0)
    BY <1>3, WaitingDefer, Zenon
  <2>2. Release(w) /\ UNCHANGED <<inflight, done, copied, dropped>> /\ job[w] \in Jobs /\ pc[w] # "ack"
    BY <1>t, <1>3, Zenon DEF Defer, history
  <2>3. InHand(w, job[w]) /\ \A j \in Jobs : j # job[w] => ~InHand(w, j)
    BY <2>2, Zenon DEF InHand
  <2>4. \A j \in Jobs : ~InHand(w, j)' /\ \A v \in Workers : v # w => InHand(v, j)' = InHand(v, j)
    BY <1>r, <2>2, Zenon
  <2>5. ASSUME NEW j \in Jobs
        PROVE  /\ j \notin copied => OneCopy(j)'
               /\ j \notin done \cup dropped => Somewhere(j)'
    BY <1>n, <1>i, <2>1, <2>2, <2>3, <2>4 DEF OneCopy, Somewhere
  <2> QED  BY <1>s, <2>2, <2>5, Zenon
<1>4. CASE Finish(w)
  <2>1. /\ UNCHANGED <<main, deferred, moving, inflight, copied, dropped>> /\ done' = done \cup {job[w]}
        /\ job' = job /\ pc' = [pc EXCEPT ![w] = "ack"]
    BY <1>4, Zenon DEF Finish, Goto, queueVars, reconVars, history
  <2>2. \A j \in Jobs : Waiting(j)' = Waiting(j)
    BY <1>w, <2>1, Zenon
  <2>3. \A j \in Jobs : ~InHand(w, j)' /\ \A v \in Workers : v # w => InHand(v, j)' = InHand(v, j)
    BY <1>t, <2>1, Zenon DEF InHand
  <2>4. \A j \in Jobs : j # job[w] => ~InHand(w, j)
    BY Zenon DEF InHand
  <2>5. ASSUME NEW j \in Jobs
        PROVE  /\ j \notin copied => OneCopy(j)'
               /\ j \notin done' \cup dropped => Somewhere(j)'
    BY <1>n, <1>i, <2>1, <2>2, <2>3, <2>4 DEF OneCopy, Somewhere
  <2> QED  BY <1>s, <2>1, <2>5, Zenon
<1>5. CASE Ack(w)
  <2>1. /\ UNCHANGED <<main, deferred, moving, done, copied, dropped>> /\ inflight' = inflight \ {job[w]}
        /\ Release(w) /\ pc[w] = "ack" /\ job[w] \in done
    BY <1>t, <1>5, Zenon DEF Ack, reconVars
  <2>2. \A j \in Jobs : Waiting(j)' = Waiting(j)
    BY <1>w, <2>1, Zenon
  <2>3. \A j \in Jobs : ~InHand(w, j)' /\ ~InHand(w, j)
                        /\ \A v \in Workers : v # w => InHand(v, j)' = InHand(v, j)
    BY <1>r, <2>1, Zenon DEF InHand
  <2>4. ASSUME NEW j \in Jobs
        PROVE  /\ j \notin copied => OneCopy(j)'
               /\ j \notin done \cup dropped => Somewhere(j)'
    BY <1>n, <1>i, <2>1, <2>2, <2>3, Zenon DEF OneCopy, Somewhere
  <2> QED  BY <1>s, <2>1, <2>4, Zenon
<1>6. CASE Crash(w)
  <2>1. /\ UNCHANGED <<main, deferred, moving, inflight, done, copied>> /\ Release(w)
        /\ dropped \subseteq dropped'
        /\ pc[w] # "ack" => job[w] \in dropped' \cup inflight
        /\ pc[w] = "ack" => job[w] \in done
    BY <1>t, <1>6, Zenon DEF Crash, queueVars, reconVars
  <2>2. \A j \in Jobs : Waiting(j)' = Waiting(j)
    BY <1>w, <2>1, Zenon
  <2>3. \A j \in Jobs : ~InHand(w, j)' /\ \A v \in Workers : v # w => InHand(v, j)' = InHand(v, j)
    BY <1>r, <2>1, Zenon
  <2>4. \A j \in Jobs : InHand(w, j) => j \in dropped' \cup inflight
    BY <2>1, Zenon DEF InHand
  <2>5. ASSUME NEW j \in Jobs
        PROVE  /\ j \notin copied => OneCopy(j)'
               /\ j \notin done \cup dropped' => Somewhere(j)'
    BY <1>n, <1>i, <2>1, <2>2, <2>3, <2>4, Zenon DEF OneCopy, Somewhere
  <2> QED  BY <1>s, <2>1, <2>5, Zenon
<1> QED  BY <1>1, <1>2, <1>3, <1>4, <1>5, <1>6, Zenon DEF Dequeue, Complete

(* The reconciler, the clock, the reclaimer and the operators.             *)
LEMMA DeferralOther ==
  ASSUME TypeInv, Whereabouts, DeferralInv,
         \/ ReconcileDeferredJobs \/ SchedulerCrash
         \/ \E j \in Jobs : Expire(j) \/ Reclaim(j)
         \/ \E n \in Tenants, v \in Limits : UpdateTenantConfig(n, v)
         \/ \E t \in Types : DeleteJobType(t) \/ CreateJobType(t)
         \/ UNCHANGED vars
  PROVE  DeferralInv'
<1>t. TypeOK
  BY Zenon DEF TypeInv
<1>n. \A j \in Jobs : Waiting(j) \in Nat
  BY <1>t, WaitingType, Zenon
<1>i. \A j \in Jobs : /\ j \notin copied => OneCopy(j)
                      /\ j \notin done \cup dropped => Somewhere(j)
  BY Zenon DEF DeferralInv
<1>s. ASSUME \A j \in Jobs : /\ j \notin copied' => OneCopy(j)'
                             /\ j \notin done' \cup dropped' => Somewhere(j)'
      PROVE  DeferralInv'
  BY <1>s, Zenon DEF DeferralInv
<1>w. ASSUME UNCHANGED <<main, deferred, moving>> PROVE \A j \in Jobs : Waiting(j)' = Waiting(j)
  BY <1>w, Zenon DEF Waiting
<1>h. ASSUME UNCHANGED workerVars
      PROVE  \A v \in Workers, j \in Jobs : InHand(v, j)' = InHand(v, j)
  BY <1>h, Zenon DEF InHand, workerVars
<1>1. CASE PopDeferred \/ PushBack
  <2>1. UNCHANGED <<workerVars, inflight, copied, done, dropped>>
    BY <1>1, Zenon DEF PopDeferred, PushBack, history
  <2>2. \A j \in Jobs : Waiting(j)' = Waiting(j)
    BY <1>1, WaitingPop, WaitingPushBack, Zenon
  <2> QED  BY <1>h, <2>1, <2>2, DeferralFrame, Zenon
<1>2. CASE SchedulerCrash
  <2>1. UNCHANGED <<workerVars, inflight, copied, done>> /\ dropped' = dropped \cup ({moving} \ {NoJob})
    BY <1>2, Zenon DEF SchedulerCrash, queueVars
  <2>2. \A j \in Jobs : /\ Waiting(j)' = Waiting(j) - (IF moving = j THEN 1 ELSE 0)
                        /\ moving = j => Waiting(j) > 0
    BY <1>2, WaitingSchedulerCrash, Zenon
  <2>3. \A v \in Workers, j \in Jobs : InHand(v, j)' = InHand(v, j)
    BY <1>h, <2>1, Zenon
  <2>4. ASSUME NEW j \in Jobs
        PROVE  /\ j \notin copied => OneCopy(j)'
               /\ j \notin done \cup dropped' => Somewhere(j)'
    <3>1. j # NoJob /\ \A v \in Workers : InHand(v, j)' = InHand(v, j)
      BY <2>3, LimitsAssumption, Zenon
    <3>2. CASE moving = j
      <4>1. j \in dropped' /\ Waiting(j) \in Nat /\ Waiting(j)' = Waiting(j) - 1 /\ Waiting(j) > 0
        BY <1>n, <2>1, <2>2, <3>1, <3>2, Zenon
      <4> QED  BY <1>i, <3>1, <4>1 DEF OneCopy
    <3>3. CASE moving # j
      <4>1. Waiting(j)' = Waiting(j)
        BY <1>n, <2>2, <3>3
      <4>2. j \notin copied => OneCopy(j)'
        BY <1>i, <3>1, <4>1, Zenon DEF OneCopy
      <4>3. j \notin done \cup dropped' => Somewhere(j)'
        BY <1>i, <2>1, <3>1, <4>1, Zenon DEF Somewhere
      <4> QED  BY <4>2, <4>3, Zenon
    <3> QED  BY <3>2, <3>3, Zenon
  <2> QED  BY <1>s, <2>1, <2>4, Zenon
<1>3. ASSUME NEW x \in Jobs, Reclaim(x) PROVE DeferralInv'
  <2>1. UNCHANGED <<workerVars, done, dropped>> /\ copied' = copied \cup {x} /\ inflight' = inflight \ {x}
    BY <1>3, Zenon DEF Reclaim
  <2>2. \A j \in Jobs : Waiting(j)' = Waiting(j) + (IF j = x THEN 1 ELSE 0)
    BY <1>3, WaitingReclaim, Zenon
  <2>3. \A v \in Workers, j \in Jobs : InHand(v, j)' = InHand(v, j)
    BY <1>h, <2>1, Zenon
  <2>4. ASSUME NEW j \in Jobs
        PROVE  /\ j \notin copied' => OneCopy(j)'
               /\ j \notin done \cup dropped => Somewhere(j)'
    BY <1>n, <1>i, <2>1, <2>2, <2>3 DEF OneCopy, Somewhere
  <2> QED  BY <1>s, <2>1, <2>4, Zenon
<1>4. CASE \/ ReadConfigs \/ NextPass \/ \E s \in Scopes : Visit(s)
           \/ \E j \in Jobs : Expire(j)
           \/ \E n \in Tenants, v \in Limits : UpdateTenantConfig(n, v)
           \/ \E t \in Types : DeleteJobType(t) \/ CreateJobType(t)
           \/ UNCHANGED vars
  <2>1. UNCHANGED <<main, deferred, moving, inflight, workerVars, copied, done, dropped>>
    BY <1>4, Zenon DEF ReadConfigs, NextPass, Visit, Expire, UpdateTenantConfig, DeleteJobType, CreateJobType,
                queueVars, reconVars, history, vars
  <2> QED  BY <1>w, <1>h, <2>1, DeferralFrame, Zenon
<1> QED  BY <1>1, <1>2, <1>3, <1>4, Zenon DEF ReconcileDeferredJobs

LEMMA CopiesSplit ==
  ASSUME TypeOK, NEW j \in Jobs
  PROVE  /\ IsFiniteSet({w \in Holders(j) : pc[w] # "ack"})
         /\ Cardinality({w \in Holders(j) : pc[w] # "ack"}) \in Nat
         /\ Copies(j) = Waiting(j) + Cardinality({w \in Holders(j) : pc[w] # "ack"})
<1> DEFINE H == {w \in Holders(j) : pc[w] # "ack"}
<1>1. H \in SUBSET Workers /\ IsFiniteSet(Workers)
  BY LimitsAssumption, Zenon DEF Holders
<1>2. IsFiniteSet(H) /\ Cardinality(H) \in Nat
  BY <1>1, FS_Subset, FS_CardinalityType, Zenon
<1>3. TypeOf[j] \in Scopes /\ TenantOf[j] \in Scopes
  BY JobScopes, Zenon
<1>4. main[j] \in Nat /\ Occurs(deferred[TypeOf[j]], j) \in Nat /\ Occurs(deferred[TenantOf[j]], j) \in Nat
  BY <1>3, WaitingType, Zenon
<1>5. Copies(j) = main[j] + Occurs(deferred[TypeOf[j]], j) + Occurs(deferred[TenantOf[j]], j)
                  + Cardinality(H) + (IF moving = j THEN 1 ELSE 0)
  BY Zenon DEF Copies
<1> HIDE DEF H
<1>6. Copies(j) = Waiting(j) + Cardinality(H)
  BY <1>2, <1>4, <1>5 DEF Waiting
<1> QED  BY <1>2, <1>6, Zenon DEF H

(* Before the first pop every job waits once.                              *)
LEMMA WaitingInit ==
  ASSUME Init, NEW j \in Jobs
  PROVE  Waiting(j) = 1
<1>1. TypeOf[j] \in Scopes /\ TenantOf[j] \in Scopes /\ j # NoJob
  BY JobScopes, LimitsAssumption, Zenon
<1>2. Occurs(<< >>, j) = 0
  <2>1. {k \in 1 .. Len(<< >>) : << >>[k] = j} = {}
    OBVIOUS
  <2> QED  BY <2>1, FS_EmptySet, Zenon DEF Occurs
<1>3. main[j] = 1 /\ deferred[TypeOf[j]] = << >> /\ deferred[TenantOf[j]] = << >> /\ moving # j
  BY <1>1, Zenon DEF Init
<1> QED  BY <1>2, <1>3 DEF Waiting

LEMMA WhereaboutsInvariant == Spec => []Whereabouts
<1>1. Init => Whereabouts
  BY DEF Init, Whereabouts
<1> QED  BY <1>1, WhereaboutsStep, LimitsTypeCorrect, PTL DEF Spec, TypeInv

(* A limit that is full postpones a job and does nothing else to it: the   *)
(* LPUSH to a deferred list by Dequeue and the RPOP and LPUSH of the       *)
(* reconciler neither copy nor lose it, for any number of jobs, workers    *)
(* and scopes and any interleaving with crashes and reclaims.              *)
THEOREM DeferralKeepsTheJobInvariant == Spec => []DeferralKeepsTheJob
<1>1. Init => DeferralInv
  <2> SUFFICES ASSUME Init, NEW j \in Jobs PROVE OneCopy(j) /\ Somewhere(j)
    BY Zenon DEF DeferralInv
  <2>1. Waiting(j) = 1
    BY WaitingInit, Zenon
  <2>2. \A w \in Workers : ~InHand(w, j)
    BY LimitsAssumption, Zenon DEF Init, InHand
  <2> QED  BY <2>1, <2>2 DEF OneCopy, Somewhere
<1>2. TypeInv /\ Whereabouts /\ DeferralInv /\ [Next]_vars => DeferralInv'
  BY DeferralWorker, DeferralOther, Zenon DEF Next
<1>3. TypeInv /\ DeferralInv => DeferralKeepsTheJob
  <2> SUFFICES ASSUME TypeInv, DeferralInv, NEW j \in Jobs
               PROVE  /\ j \notin copied => Copies(j) <= 1
                      /\ j \notin done \cup dropped => Copies(j) > 0 \/ j \in inflight
    BY Zenon DEF DeferralKeepsTheJob
  <2> DEFINE H == {w \in Holders(j) : pc[w] # "ack"}
  <2>1. /\ IsFiniteSet(H) /\ Cardinality(H) \in Nat
        /\ Copies(j) = Waiting(j) + Cardinality(H) /\ Waiting(j) \in Nat
    BY CopiesSplit, WaitingType, Zenon DEF TypeInv
  <2>2. \A w : w \in H <=> w \in Workers /\ InHand(w, j)
    BY Zenon DEF Holders, InHand
  <2> HIDE DEF H
  <2>3. ASSUME j \notin copied PROVE Copies(j) <= 1
    <3>1. OneCopy(j)
      BY <2>3, Zenon DEF DeferralInv
    <3>2. CASE H = {}
      <4>1. Cardinality(H) = 0
        BY <3>2, FS_EmptySet, Zenon
      <4> QED  BY <2>1, <3>1, <4>1 DEF OneCopy
    <3>3. CASE H # {}
      <4>1. PICK w \in H : H = {w}
        BY <2>2, <3>1, <3>3, Zenon DEF OneCopy
      <4>2. Cardinality(H) = 1 /\ Waiting(j) = 0
        BY <2>2, <3>1, <4>1, FS_Singleton, Zenon DEF OneCopy
      <4> QED  BY <2>1, <4>2
    <3> QED  BY <3>2, <3>3, Zenon
  <2>4. ASSUME j \notin done \cup dropped PROVE Copies(j) > 0 \/ j \in inflight
    <3>1. Somewhere(j)
      BY <2>4, Zenon DEF DeferralInv
    <3>2. ASSUME NEW w \in Workers, InHand(w, j) PROVE Cardinality(H) # 0
      BY <2>1, <2>2, <3>2, FS_EmptySet, Zenon
    <3> QED  BY <2>1, <3>1, <3>2 DEF Somewhere
  <2> QED  BY <2>3, <2>4, Zenon
<1> QED  BY <1>1, <1>2, <1>3, LimitsTypeCorrect, WhereaboutsInvariant, PTL DEF Spec, TypeInv
-----------------------------------------------------------------------------
(* The limit.                                                              *)

(* One copy, in the stricter sense in which a worker that is about to      *)
(* acknowledge still holds the job, and so does the in-flight record of a  *)
(* worker that died; and a running job has its slots.                      *)
Single(j) ==
  /\ Waiting(j) <= 1
  /\ j \in inflight => Waiting(j) = 0
  /\ \A w \in Workers : job[w] = j => /\ Waiting(j) = 0
                                      /\ pc[w] \in Running => j \in inflight \ expired
                                      /\ pc[w] \notin Running => j \notin inflight
  /\ \A v, w \in Workers : job[v] = j /\ job[w] = j => v = w

Singles == \A j \in Jobs : ScopesOf(j) \subseteq raced \/ Single(j)

(* A worker that counts the slots of a type uses its limit, or the type is *)
(* gone.                                                                   *)
TypeRead ==
  \A w \in Workers : pc[w] \in {"tenantCheck", "typeCheck"} => limit[TypeOf[job[w]]] \in {0, lim[w]}

(* Workers that have a slot of s or are about to take one.                 *)
InUse(s) == RunningIn(s) \cup Pending(s)

WithinLimits == \A s \in Scopes \ raced : limit[s] > 0 => Cardinality(InUse(s)) <= limit[s]

LEMMA SinglesWorker ==
  ASSUME TypeInv, Whereabouts, Singles, NEW w \in Workers, Dequeue(w) \/ Complete(w) \/ Crash(w)
  PROVE  Singles'
<1>t. /\ pc \in [Workers -> Counting \cup Running \cup {"brpop"}] /\ job \in [Workers -> Jobs \cup {NoJob}]
      /\ \A v \in Workers : pc[v] # "brpop" => job[v] \in Jobs
      /\ \A v \in Workers : pc[v] = "brpop" => job[v] = NoJob
      /\ TypeOK /\ NoJob \notin Jobs
  BY LimitsAssumption, Zenon DEF TypeInv, TypeOK, Positions, Whereabouts
<1>n. \A j \in Jobs : Waiting(j) \in Nat
  BY <1>t, WaitingType, Zenon
<1>s. ASSUME raced \subseteq raced', \A j \in Jobs : Single(j) => Single(j)' PROVE Singles'
  BY <1>s, Zenon DEF Singles
<1>w. ASSUME UNCHANGED <<main, deferred, moving>> PROVE \A j \in Jobs : Waiting(j)' = Waiting(j)
  BY <1>w, Zenon DEF Waiting
<1>r. ASSUME Release(w)
      PROVE  job'[w] = NoJob /\ \A v \in Workers : v # w => job'[v] = job[v] /\ pc'[v] = pc[v]
  BY <1>t, <1>r, Zenon DEF Release
<1>1. ASSUME NEW x \in Jobs, BRPop(w, x) PROVE Singles'
  <2>1. Waiting(x) > 0 /\ \A j \in Jobs : Waiting(j)' = Waiting(j) - (IF j = x THEN 1 ELSE 0)
    BY <1>1, WaitingBRPop, Zenon
  <2>2. /\ job'[w] = x /\ pc'[w] = "typeState" /\ job[w] = NoJob
        /\ \A v \in Workers : v # w => job'[v] = job[v] /\ pc'[v] = pc[v]
        /\ UNCHANGED <<inflight, expired, raced>>
    BY <1>t, <1>1, Zenon DEF BRPop, history
  <2>3. ASSUME NEW j \in Jobs, Single(j) PROVE Single(j)'
    BY <1>t, <1>n, <2>1, <2>2, <2>3 DEF Single, Running
  <2> QED  BY <1>s, <2>2, <2>3, Zenon
<1>2. CASE GetJobTypeState(w) \/ CheckTenantLimit(w) \/ CheckTypeLimit(w)
  <2>1. /\ UNCHANGED <<main, deferred, moving, inflight, expired, job>> /\ raced \subseteq raced'
        /\ pc[w] \notin Running /\ pc'[w] \notin Running /\ \A v \in Workers : v # w => pc'[v] = pc[v]
    BY <1>t, <1>2, Zenon DEF GetJobTypeState, CheckTenantLimit, CheckTypeLimit, CheckSlots, Goto, Running,
                queueVars, reconVars, history
  <2>2. \A j \in Jobs : Waiting(j)' = Waiting(j)
    BY <1>w, <2>1, Zenon
  <2>3. \A v \in Workers : pc'[v] \in Running <=> pc[v] \in Running
    BY <2>1, Zenon
  <2>4. ASSUME NEW j \in Jobs, Single(j) PROVE Single(j)'
    BY <2>1, <2>2, <2>3, <2>4, Zenon DEF Single
  <2> QED  BY <1>s, <2>1, <2>4, Zenon
<1>3. CASE Defer(w)
  <2>1. \A j \in Jobs : Waiting(j)' = Waiting(j) + (IF j = job[w] THEN 1 ELSE 0)
    BY <1>3, WaitingDefer, Zenon
  <2>2. Release(w) /\ UNCHANGED <<inflight, expired, raced>> /\ job[w] \in Jobs /\ pc[w] \notin Running
    BY <1>t, <1>3, Zenon DEF Defer, history, Running
  <2>3. job'[w] = NoJob /\ \A v \in Workers : v # w => job'[v] = job[v] /\ pc'[v] = pc[v]
    BY <1>r, <2>2, Zenon
  <2>4. ASSUME NEW j \in Jobs, Single(j) PROVE Single(j)'
    BY <1>t, <1>n, <2>1, <2>2, <2>3, <2>4 DEF Single
  <2> QED  BY <1>s, <2>2, <2>4, Zenon
<1>4. CASE Track(w)
  <2>1. /\ UNCHANGED <<main, deferred, moving, job, raced>> /\ job[w] \in Jobs
        /\ inflight' = inflight \cup {job[w]} /\ expired' = expired \ {job[w]}
        /\ pc'[w] \in Running /\ pc[w] \notin Running /\ \A v \in Workers : v # w => pc'[v] = pc[v]
    BY <1>t, <1>4, Zenon DEF Track, Goto, Running, reconVars, history
  <2>2. \A j \in Jobs : Waiting(j)' = Waiting(j)
    BY <1>w, <2>1, Zenon
  <2>3. ASSUME NEW j \in Jobs, Single(j) PROVE Single(j)'
    BY <1>n, <2>1, <2>2, <2>3, Zenon DEF Single
  <2> QED  BY <1>s, <2>1, <2>3, Zenon
<1>5. CASE Finish(w)
  <2>1. /\ UNCHANGED <<main, deferred, moving, inflight, expired, job, raced>>
        /\ pc[w] \in Running /\ pc'[w] \in Running /\ \A v \in Workers : v # w => pc'[v] = pc[v]
    BY <1>t, <1>5, Zenon DEF Finish, Goto, Running, queueVars, reconVars, history
  <2>2. \A j \in Jobs : Waiting(j)' = Waiting(j)
    BY <1>w, <2>1, Zenon
  <2>3. \A v \in Workers : pc'[v] \in Running <=> pc[v] \in Running
    BY <2>1, Zenon
  <2>4. ASSUME NEW j \in Jobs, Single(j) PROVE Single(j)'
    BY <2>1, <2>2, <2>3, <2>4, Zenon DEF Single
  <2> QED  BY <1>s, <2>1, <2>4, Zenon
<1>6. CASE Ack(w) \/ Crash(w)
  <2>1. /\ UNCHANGED <<main, deferred, moving>> /\ raced \subseteq raced' /\ Release(w)
        /\ \/ inflight' = inflight \ {job[w]} /\ expired' = expired \ {job[w]}
           \/ UNCHANGED <<inflight, expired>>
    BY <1>6, Zenon DEF Ack, Crash, queueVars, reconVars
  <2>2. \A j \in Jobs : Waiting(j)' = Waiting(j)
    BY <1>w, <2>1, Zenon
  <2>3. job'[w] = NoJob /\ \A v \in Workers : v # w => job'[v] = job[v] /\ pc'[v] = pc[v]
    BY <1>r, <2>1, Zenon
  <2>4. ASSUME NEW j \in Jobs, Single(j) PROVE Single(j)'
    BY <1>t, <1>n, <2>1, <2>2, <2>3, <2>4 DEF Single
  <2> QED  BY <1>s, <2>1, <2>4, Zenon
<1> QED  BY <1>1, <1>2, <1>3, <1>4, <1>5, <1>6, Zenon DEF Dequeue, Complete

LEMMA SinglesOther ==
  ASSUME TypeInv, Whereabouts, Singles,
         \/ ReconcileDeferredJobs \/ SchedulerCrash
         \/ \E j \in Jobs : Expire(j) \/ Reclaim(j)
         \/ \E n \in Tenants, v \in Limits : UpdateTenantConfig(n, v)
         \/ \E t \in Types : DeleteJobType(t) \/ CreateJobType(t)
         \/ UNCHANGED vars
  PROVE  Singles'
<1>t. TypeOK
  BY Zenon DEF TypeInv
<1>n. \A j \in Jobs : Waiting(j) \in Nat
  BY <1>t, WaitingType, Zenon
<1>s. ASSUME raced \subseteq raced', \A j \in Jobs : Single(j) => Single(j)' PROVE Singles'
  BY <1>s, Zenon DEF Singles
<1>w. ASSUME UNCHANGED <<main, deferred, moving>> PROVE \A j \in Jobs : Waiting(j)' = Waiting(j)
  BY <1>w, Zenon DEF Waiting
<1>1. CASE PopDeferred \/ PushBack
  <2>1. UNCHANGED <<pc, job, inflight, expired, raced>>
    BY <1>1, Zenon DEF PopDeferred, PushBack, workerVars, history
  <2>2. \A j \in Jobs : Waiting(j)' = Waiting(j)
    BY <1>1, WaitingPop, WaitingPushBack, Zenon
  <2>3. ASSUME NEW j \in Jobs, Single(j) PROVE Single(j)'
    BY <2>1, <2>2, <2>3, Zenon DEF Single
  <2> QED  BY <1>s, <2>1, <2>3, Zenon
<1>2. CASE SchedulerCrash
  <2>1. UNCHANGED <<pc, job, inflight, expired, raced>>
    BY <1>2, Zenon DEF SchedulerCrash, queueVars, workerVars
  <2>2. \A j \in Jobs : /\ Waiting(j)' = Waiting(j) - (IF moving = j THEN 1 ELSE 0)
                        /\ moving = j => Waiting(j) > 0
    BY <1>2, WaitingSchedulerCrash, Zenon
  <2>3. ASSUME NEW j \in Jobs, Single(j) PROVE Single(j)'
    <3>1. Waiting(j)' <= Waiting(j) /\ (Waiting(j) = 0 => Waiting(j)' = 0) /\ Waiting(j)' \in Int
      BY <1>n, <2>2
    <3> QED  BY <1>n, <2>1, <2>3, <3>1 DEF Single
  <2> QED  BY <1>s, <2>1, <2>3, Zenon
<1>3. ASSUME NEW x \in Jobs, Reclaim(x) PROVE Singles'
  <2>1. UNCHANGED <<pc, job, expired, raced>> /\ inflight' = inflight \ {x} /\ x \in inflight \cap expired
    BY <1>3, Zenon DEF Reclaim, workerVars
  <2>2. \A j \in Jobs : Waiting(j)' = Waiting(j) + (IF j = x THEN 1 ELSE 0)
    BY <1>3, WaitingReclaim, Zenon
  <2>3. ASSUME NEW j \in Jobs, Single(j) PROVE Single(j)'
    BY <1>n, <2>1, <2>2, <2>3 DEF Single
  <2> QED  BY <1>s, <2>1, <2>3, Zenon
<1>4. ASSUME NEW x \in Jobs, Expire(x) PROVE Singles'
  <2>1. /\ UNCHANGED <<main, deferred, moving, pc, job, inflight>> /\ expired' = expired \cup {x}
        /\ raced' = IF Holders(x) # {} THEN raced \cup ScopesOf(x) ELSE raced
    BY <1>4, Zenon DEF Expire, workerVars, reconVars
  <2>2. \A j \in Jobs : Waiting(j)' = Waiting(j)
    BY <1>w, <2>1, Zenon
  <2>3. ASSUME NEW j \in Jobs, Single(j), ~(ScopesOf(j) \subseteq raced') PROVE Single(j)'
    <3>1. j = x => \A w \in Workers : job[w] # j
      BY <2>1, <2>3, Zenon DEF Holders
    <3> QED  BY <2>1, <2>2, <2>3, <3>1, Zenon DEF Single
  <2>4. raced \subseteq raced'
    BY <2>1, Zenon
  <2> QED  BY <2>3, <2>4, Zenon DEF Singles
<1>5. CASE \/ ReadConfigs \/ NextPass \/ \E s \in Scopes : Visit(s)
           \/ \E n \in Tenants, v \in Limits : UpdateTenantConfig(n, v)
           \/ \E t \in Types : DeleteJobType(t) \/ CreateJobType(t)
           \/ UNCHANGED vars
  <2>1. UNCHANGED <<main, deferred, moving, inflight, expired, pc, job>> /\ raced \subseteq raced'
    BY <1>5, Zenon DEF ReadConfigs, NextPass, Visit, UpdateTenantConfig, DeleteJobType, CreateJobType,
                queueVars, workerVars, reconVars, history, vars
  <2>2. \A j \in Jobs : Waiting(j)' = Waiting(j)
    BY <1>w, <2>1, Zenon
  <2>3. ASSUME NEW j \in Jobs, Single(j) PROVE Single(j)'
    BY <2>1, <2>2, <2>3, Zenon DEF Single
  <2> QED  BY <1>s, <2>1, <2>3, Zenon
<1> QED  BY <1>1, <1>2, <1>3, <1>4, <1>5, Zenon DEF ReconcileDeferredJobs

(* A type is not a tenant, and the limit of a type never changes but to 0. *)
LEMMA TypeReadStep ==
  ASSUME TypeInv, TypeRead, [Next]_vars
  PROVE  TypeRead'
<1>t. /\ pc \in [Workers -> Counting \cup Running \cup {"brpop"}] /\ job \in [Workers -> Jobs \cup {NoJob}]
      /\ lim \in [Workers -> Nat] /\ limit \in [Scopes -> Nat]
      /\ \A v \in Workers : pc[v] # "brpop" => job[v] \in Jobs
      /\ Types \cap Tenants = {} /\ Scopes = Types \cup Tenants /\ TypeOf \in [Jobs -> Types]
  BY LimitsAssumption, Zenon DEF TypeInv, TypeOK, Positions, Scopes
<1>1. ASSUME NEW w \in Workers, limit' = limit,
             \A v \in Workers : v # w => job'[v] = job[v] /\ pc'[v] = pc[v] /\ lim'[v] = lim[v],
             pc'[w] \notin {"tenantCheck", "typeCheck"}
      PROVE  TypeRead'
  BY <1>1, Zenon DEF TypeRead
<1>2. ASSUME NEW w \in Workers,
             \/ (\E j \in Jobs : BRPop(w, j)) \/ CheckTypeLimit(w) \/ Defer(w)
             \/ Track(w) \/ Complete(w) \/ Crash(w)
      PROVE  TypeRead'
  <2>1. /\ limit' = limit /\ pc'[w] \notin {"tenantCheck", "typeCheck"}
        /\ \A v \in Workers : v # w => job'[v] = job[v] /\ pc'[v] = pc[v] /\ lim'[v] = lim[v]
    BY <1>t, <1>2, Zenon DEF BRPop, CheckTypeLimit, CheckSlots, Goto, Defer, Release, Track, Complete, Finish, Ack,
                      Crash, configVars
  <2> QED  BY <1>1, <2>1, Zenon
<1>3. ASSUME NEW w \in Workers, GetJobTypeState(w) PROVE TypeRead'
  <2>1. /\ limit' = limit /\ job' = job /\ lim'[w] = limit[TypeOf[job[w]]]
        /\ \A v \in Workers : v # w => pc'[v] = pc[v] /\ lim'[v] = lim[v]
    BY <1>t, <1>3, Zenon DEF GetJobTypeState, configVars
  <2> QED  BY <2>1, Zenon DEF TypeRead
<1>4. ASSUME NEW w \in Workers, CheckTenantLimit(w) PROVE TypeRead'
  <2>1. /\ UNCHANGED <<limit, job, lim>> /\ pc[w] = "tenantCheck"
        /\ \A v \in Workers : v # w => pc'[v] = pc[v]
    BY <1>t, <1>4, Zenon DEF CheckTenantLimit, CheckSlots, Goto, configVars
  <2> QED  BY <2>1, Zenon DEF TypeRead
<1>5. ASSUME UNCHANGED workerVars, \A t \in Types : limit'[t] \in {0, limit[t]} PROVE TypeRead'
  <2>1. ASSUME NEW w \in Workers, pc[w] \in {"tenantCheck", "typeCheck"} PROVE TypeOf[job[w]] \in Types
    BY <1>t, <2>1, Zenon
  <2>2. ASSUME NEW w \in Workers, pc[w] \in {"tenantCheck", "typeCheck"}
        PROVE  limit'[TypeOf[job[w]]] \in {0, lim[w]}
    <3>1. limit'[TypeOf[job[w]]] \in {0, limit[TypeOf[job[w]]]} /\ limit[TypeOf[job[w]]] \in {0, lim[w]}
      BY <1>5, <2>1, <2>2, Zenon DEF TypeRead
    <3> QED  BY <3>1, Zenon
  <2> QED  BY <1>5, <2>2, Zenon DEF TypeRead, workerVars
<1>6. ASSUME NEW n \in Tenants, NEW v \in Limits, UpdateTenantConfig(n, v) PROVE TypeRead'
  BY <1>t, <1>5, <1>6, Zenon DEF UpdateTenantConfig
<1>7. ASSUME NEW t \in Types, DeleteJobType(t) PROVE TypeRead'
  BY <1>t, <1>5, <1>7, Zenon DEF DeleteJobType
<1>8. CASE \/ ReconcileDeferredJobs \/ SchedulerCrash
           \/ \E j \in Jobs : Expire(j) \/ Reclaim(j)
           \/ \E t \in Types : CreateJobType(t)
           \/ UNCHANGED vars
  <2>1. UNCHANGED <<workerVars, limit>>
    BY <1>8, Zenon DEF ReconcileDeferredJobs, ReadConfigs, NextPass, Visit, PopDeferred, PushBack, SchedulerCrash,
                Expire, Reclaim, CreateJobType, configVars, vars
  <2> QED  BY <1>5, <2>1, Zenon
<1> QED  BY <1>2, <1>3, <1>4, <1>6, <1>7, <1>8, Zenon DEF Next, Dequeue

(* Running jobs of a scope that nothing has raced have a slot each.        *)
LEMMA RunningHaveSlots ==
  ASSUME TypeInv, SlotInv, Singles, NEW s \in Scopes \ raced
  PROVE  /\ IsFiniteSet(RunningIn(s)) /\ Cardinality(RunningIn(s)) \in Nat
         /\ Cardinality(Live(s)) \in Nat
         /\ Cardinality(RunningIn(s)) <= Cardinality(Live(s))
<1> DEFINE f == [w \in RunningIn(s) |-> job[w]]
<1>1. IsFiniteSet(RunningIn(s)) /\ IsFiniteSet(Live(s))
  <2>1. RunningIn(s) \in SUBSET Workers /\ Live(s) \in SUBSET Jobs
    BY Zenon DEF RunningIn, Live, TypeInv, TypeOK
  <2> QED  BY <2>1, LimitsAssumption, FS_Subset, Zenon
<1>2. ASSUME NEW w \in RunningIn(s)
      PROVE  /\ w \in Workers /\ job[w] \in Live(s)
             /\ \A v \in RunningIn(s) : job[v] = job[w] => v = w
  <2>1. w \in Workers /\ job[w] \in Jobs /\ s \in ScopesOf(job[w]) /\ pc[w] \in Running
    BY <1>2, Zenon DEF RunningIn, JobsOf
  <2>2. Single(job[w])
    BY <2>1, Zenon DEF Singles
  <2>3. job[w] \in inflight \ expired
    BY <2>1, <2>2, Zenon DEF Single
  <2>4. job[w] \in Live(s)
    BY <2>1, <2>3, Zenon DEF SlotInv, SlotsPaired, Live
  <2>5. ASSUME NEW v \in RunningIn(s), job[v] = job[w] PROVE v = w
    <3>1. v \in Workers
      BY <2>5, Zenon DEF RunningIn
    <3> QED  BY <2>1, <2>2, <2>5, <3>1, Zenon DEF Single
  <2> QED  BY <2>1, <2>4, <2>5, Zenon
<1>3. f \in Injection(RunningIn(s), Live(s))
  BY <1>2, Zenon DEF Injection, IsInjective
<1> HIDE DEF f
<1> QED  BY <1>1, <1>3, FS_Injection, FS_CardinalityType, Zenon

LEMMA InUseFinite ==
  ASSUME NEW s
  PROVE  /\ IsFiniteSet(InUse(s)) /\ Cardinality(InUse(s)) \in Nat
         /\ IsFiniteSet(InUse(s)') /\ Cardinality(InUse(s)') \in Nat
<1>1. InUse(s) \in SUBSET Workers /\ InUse(s)' \in SUBSET Workers
  BY Zenon DEF InUse, RunningIn, Pending
<1> QED  BY <1>1, LimitsAssumption, FS_Subset, FS_CardinalityType, Zenon

(* Who has, or is about to take, a slot of s.                              *)
Using(w, s) ==
  job[w] \in JobsOf(s) /\ pc[w] \in Running \cup (IF s \in Tenants THEN {"typeCheck", "deferType", "track"}
                                                                  ELSE {"track"})

LEMMA UsingIsInUse ==
  ASSUME NEW s
  PROVE  /\ InUse(s) = {w \in Workers : Using(w, s)}
         /\ InUse(s)' = {w \in Workers : Using(w, s)'}
BY Zenon DEF InUse, RunningIn, Pending, Using

(* No worker comes to use a scope and its limit stays, or goes.            *)
LEMMA WithinFrame ==
  ASSUME TypeInv, WithinLimits, NEW s \in Scopes, raced \subseteq raced', s \notin raced',
         limit'[s] \in {0, limit[s]}, \A w \in Workers : Using(w, s)' => Using(w, s)
  PROVE  limit'[s] > 0 => Cardinality(InUse(s)') <= limit'[s]
<1> SUFFICES ASSUME limit'[s] > 0 PROVE Cardinality(InUse(s)') <= limit'[s]
  OBVIOUS
<1>1. limit[s] \in Nat /\ s \in Scopes \ raced
  BY Zenon DEF TypeInv, TypeOK
<1>2. limit'[s] = limit[s] /\ limit[s] > 0
  BY <1>1
<1>3. Cardinality(InUse(s)) <= limit[s]
  BY <1>1, <1>2, Zenon DEF WithinLimits
<1>4. InUse(s)' \in SUBSET InUse(s)
  BY UsingIsInUse, Zenon
<1>5. /\ IsFiniteSet(InUse(s)) /\ Cardinality(InUse(s)) \in Nat
      /\ Cardinality(InUse(s)') \in Nat
  BY InUseFinite, Zenon
<1>6. Cardinality(InUse(s)') <= Cardinality(InUse(s))
  BY <1>4, <1>5, FS_Subset, Zenon
<1> QED  BY <1>1, <1>2, <1>3, <1>5, <1>6

(* The count that finds room, with nobody between count and slot.          *)
LEMMA WithinCount ==
  ASSUME TypeInv, SlotInv, Singles, NEW s \in Scopes \ raced, NEW w \in Workers, limit' = limit,
         Pending(s) = {}, Cardinality(Live(s)) < limit[s],
         \A v \in Workers : v # w /\ Using(v, s)' => Using(v, s)
  PROVE  Cardinality(InUse(s)') <= limit'[s]
<1>1. limit[s] \in Nat
  BY Zenon DEF TypeInv, TypeOK
<1>2. InUse(s)' \in SUBSET (RunningIn(s) \cup {w})
  <2>1. InUse(s) = RunningIn(s)
    BY Zenon DEF InUse
  <2>2. InUse(s)' \in SUBSET (InUse(s) \cup {w})
    BY UsingIsInUse, Zenon
  <2> QED  BY <2>1, <2>2, Zenon
<1>3. /\ IsFiniteSet(RunningIn(s)) /\ Cardinality(RunningIn(s)) \in Nat
      /\ Cardinality(Live(s)) \in Nat
      /\ Cardinality(RunningIn(s)) <= Cardinality(Live(s))
  BY RunningHaveSlots, Zenon
<1>4. /\ IsFiniteSet(RunningIn(s) \cup {w})
      /\ Cardinality(RunningIn(s) \cup {w}) \in {Cardinality(RunningIn(s)), Cardinality(RunningIn(s)) + 1}
  BY <1>3, FS_AddElement, Zenon
<1>5. Cardinality(InUse(s)') <= Cardinality(RunningIn(s) \cup {w}) /\ Cardinality(InUse(s)') \in Nat
  BY <1>2, <1>4, FS_Subset, InUseFinite, Zenon
<1> QED  BY <1>1, <1>3, <1>4, <1>5

(* A count of slots, and what the worker does next.                        *)
LEMMA WithinCheck ==
  ASSUME TypeInv, SlotInv, Singles, TypeRead, WithinLimits, NEW w \in Workers,
         CheckTenantLimit(w) \/ CheckTypeLimit(w)
  PROVE  WithinLimits'
<1>t. /\ pc \in [Workers -> Counting \cup Running \cup {"brpop"}] /\ job \in [Workers -> Jobs \cup {NoJob}]
      /\ \A v \in Workers : pc[v] # "brpop" => job[v] \in Jobs
      /\ limit \in [Scopes -> Nat] /\ lim \in [Workers -> Nat]
      /\ Types \cap Tenants = {} /\ TypeOf \in [Jobs -> Types] /\ TenantOf \in [Jobs -> Tenants]
  BY LimitsAssumption, Zenon DEF TypeInv, TypeOK, Positions
<1>1. /\ UNCHANGED <<job, limit>> /\ raced \subseteq raced' /\ job[w] \in Jobs
      /\ \A v \in Workers : v # w => pc'[v] = pc[v]
  BY <1>t, Zenon DEF CheckTenantLimit, CheckTypeLimit, CheckSlots, Goto, configVars
<1>2. \A v \in Workers, s \in Scopes : v # w => Using(v, s)' = Using(v, s)
  BY <1>1, Zenon DEF Using
<1>3. TypeOf[job[w]] \in Scopes /\ TenantOf[job[w]] \in Scopes
  BY <1>1, JobScopes, Zenon
<1>4. ASSUME NEW s \in Scopes, s \notin raced',
             \/ Using(w, s)' => Using(w, s)
             \/ limit[s] > 0 => Pending(s) = {} /\ Cardinality(Live(s)) < limit[s]
      PROVE  limit'[s] > 0 => Cardinality(InUse(s)') <= limit'[s]
  <2>1. s \in Scopes \ raced /\ limit'[s] \in {0, limit[s]}
    BY <1>1, <1>4, Zenon
  <2>2. CASE Using(w, s)' => Using(w, s)
    BY <1>1, <1>2, <1>4, <2>1, <2>2, WithinFrame, Zenon
  <2>3. CASE limit[s] > 0 => Pending(s) = {} /\ Cardinality(Live(s)) < limit[s]
    BY <1>1, <1>2, <2>1, <2>3, WithinCount, Zenon
  <2> QED  BY <1>4, <2>2, <2>3, Zenon
<1>5. CASE CheckTenantLimit(w)
  <2>1. ASSUME NEW s \in Scopes, s # TenantOf[job[w]] PROVE Using(w, s)' => Using(w, s)
    <3>1. s \in Tenants => job[w] \notin JobsOf(s)
      BY <1>t, <1>1, <2>1, Zenon DEF JobsOf, ScopesOf
    <3>2. pc'[w] \in {"deferTenant", "typeCheck"}
      BY <1>t, <1>5, Zenon DEF CheckTenantLimit, CheckSlots, Goto
    <3> QED  BY <1>1, <3>1, <3>2, Zenon DEF Using, Running
  <2>2. ASSUME NEW s \in Scopes, s = TenantOf[job[w]], s \notin raced', Using(w, s)', limit[s] > 0
        PROVE  Pending(s) = {} /\ Cardinality(Live(s)) < limit[s]
    <3>1. Pending(s) = {}
      BY <1>5, <2>2, Zenon DEF CheckTenantLimit, CheckSlots
    <3>2. pc'[w] # "deferTenant"
      BY <2>2, Zenon DEF Using, Running
    <3>3. ~(limit[s] > 0 /\ Cardinality(Live(s)) >= limit[s])
      BY <1>t, <1>5, <2>2, <3>2, Zenon DEF CheckTenantLimit, CheckSlots, Goto
    <3>4. Cardinality(Live(s)) \in Nat /\ limit[s] \in Nat
      BY <1>t, <1>3, LiveCount, Zenon DEF TypeInv
    <3> QED  BY <2>2, <3>1, <3>3, <3>4
  <2>3. ASSUME NEW s \in Scopes, s \notin raced' PROVE limit'[s] > 0 => Cardinality(InUse(s)') <= limit'[s]
    <3>1. CASE s = TenantOf[job[w]]
      BY <1>4, <2>2, <2>3, <3>1, Zenon
    <3>2. CASE s # TenantOf[job[w]]
      BY <1>4, <2>1, <2>3, <3>2, Zenon
    <3> QED  BY <3>1, <3>2, Zenon
  <2> QED  BY <2>3, Zenon DEF WithinLimits
<1>6. CASE CheckTypeLimit(w)
  <2>1. ASSUME NEW s \in Scopes, s # TypeOf[job[w]] PROVE Using(w, s)' => Using(w, s)
    <3>1. s \notin Tenants => job[w] \notin JobsOf(s)
      BY <1>t, <1>1, <2>1, Zenon DEF JobsOf, ScopesOf
    <3>2. pc[w] = "typeCheck"
      BY <1>6, Zenon DEF CheckTypeLimit
    <3> QED  BY <1>1, <3>1, <3>2, Zenon DEF Using
  <2>2. ASSUME NEW s \in Scopes, s = TypeOf[job[w]], s \notin raced', Using(w, s)', limit[s] > 0
        PROVE  Pending(s) = {} /\ Cardinality(Live(s)) < limit[s]
    <3>1. Pending(s) = {}
      BY <1>6, <2>2, Zenon DEF CheckTypeLimit, CheckSlots
    <3>2. s \in Types /\ s \notin Tenants
      <4>1. job[w] \in Jobs
        BY <1>1, Zenon
      <4> QED  BY <1>t, <2>2, <4>1, Zenon
    <3>3. pc'[w] # "deferType"
      BY <2>2, <3>2, Zenon DEF Using, Running
    <3>4. limit[s] = lim[w]
      <4>1. pc[w] = "typeCheck"
        BY <1>6, Zenon DEF CheckTypeLimit
      <4>2. limit[s] \in {0, lim[w]}
        BY <2>2, <4>1, Zenon DEF TypeRead
      <4> QED  BY <2>2, <4>2
    <3>5. ~(lim[w] > 0 /\ Cardinality(Live(s)) >= lim[w])
      BY <1>t, <1>6, <2>2, <3>3, Zenon DEF CheckTypeLimit, CheckSlots, Goto
    <3>6. Cardinality(Live(s)) \in Nat /\ limit[s] \in Nat
      BY <1>t, <1>3, LiveCount, Zenon DEF TypeInv
    <3> QED  BY <2>2, <3>1, <3>4, <3>5, <3>6
  <2>3. ASSUME NEW s \in Scopes, s \notin raced' PROVE limit'[s] > 0 => Cardinality(InUse(s)') <= limit'[s]
    <3>1. CASE s = TypeOf[job[w]]
      BY <1>4, <2>2, <2>3, <3>1, Zenon
    <3>2. CASE s # TypeOf[job[w]]
      BY <1>4, <2>1, <2>3, <3>2, Zenon
    <3> QED  BY <3>1, <3>2, Zenon
  <2> QED  BY <2>3, Zenon DEF WithinLimits
<1> QED  BY <1>5, <1>6, Zenon

LEMMA WithinStep ==
  ASSUME TypeInv, SlotInv, Singles, TypeRead, WithinLimits, [Next]_vars
  PROVE  WithinLimits'
<1>t. /\ pc \in [Workers -> Counting \cup Running \cup {"brpop"}] /\ job \in [Workers -> Jobs \cup {NoJob}]
      /\ limit \in [Scopes -> Nat] /\ NoJob \notin Jobs
  BY LimitsAssumption, Zenon DEF TypeInv, TypeOK
<1>f. ASSUME raced \subseteq raced', \A s \in Scopes : limit'[s] \in {0, limit[s]},
             \A w \in Workers, s \in Scopes : Using(w, s)' => Using(w, s)
      PROVE  WithinLimits'
  <2>1. ASSUME NEW s \in Scopes, s \notin raced' PROVE limit'[s] > 0 => Cardinality(InUse(s)') <= limit'[s]
    BY <1>f, <2>1, WithinFrame, Zenon
  <2> QED  BY <2>1, Zenon DEF WithinLimits
<1>1. ASSUME NEW w \in Workers, limit' = limit, raced \subseteq raced',
             \A v \in Workers : v # w => job'[v] = job[v] /\ pc'[v] = pc[v],
             \/ job'[w] = NoJob
             \/ pc'[w] \in {"typeState", "tenantCheck"}
             \/ job'[w] = job[w] /\ pc[w] \in {"track", "run"} /\ pc'[w] \in Running
      PROVE  WithinLimits'
  <2>1. ASSUME NEW s \in Scopes PROVE Using(w, s)' => Using(w, s)
    <3>1. NoJob \notin JobsOf(s)
      BY <1>t, Zenon DEF JobsOf
    <3> QED  BY <1>1, <3>1, Zenon DEF Using, Running
  <2>2. \A v \in Workers, s \in Scopes : v # w => Using(v, s)' = Using(v, s)
    BY <1>1, Zenon DEF Using
  <2>3. \A s \in Scopes : limit'[s] \in {0, limit[s]}
    BY <1>1, Zenon
  <2> QED  BY <1>1, <1>f, <2>1, <2>2, <2>3, Zenon
<1>2. ASSUME NEW w \in Workers,
             \/ (\E j \in Jobs : BRPop(w, j)) \/ GetJobTypeState(w) \/ Defer(w)
             \/ Track(w) \/ Complete(w) \/ Crash(w)
      PROVE  WithinLimits'
  <2>1. /\ limit' = limit /\ raced \subseteq raced'
        /\ \A v \in Workers : v # w => job'[v] = job[v] /\ pc'[v] = pc[v]
    BY <1>t, <1>2, Zenon DEF BRPop, GetJobTypeState, Defer, Release, Track, Complete, Finish, Ack, Crash, Goto,
                      configVars, history
  <2>2. \/ job'[w] = NoJob
        \/ pc'[w] \in {"typeState", "tenantCheck"}
        \/ job'[w] = job[w] /\ pc[w] \in {"track", "run"} /\ pc'[w] \in Running
    BY <1>t, <1>2, Zenon DEF BRPop, GetJobTypeState, Defer, Release, Track, Complete, Finish, Ack, Crash, Goto, Running
  <2> QED  BY <1>1, <2>1, <2>2, Zenon
<1>3. ASSUME UNCHANGED workerVars PROVE \A w \in Workers, s \in Scopes : Using(w, s)' = Using(w, s)
  BY <1>3, Zenon DEF Using, workerVars
<1>4. ASSUME NEW n \in Tenants, NEW v \in Limits, UpdateTenantConfig(n, v) PROVE WithinLimits'
  <2>1. /\ UNCHANGED workerVars /\ raced \subseteq raced' /\ limit' = [limit EXCEPT ![n] = v] /\ v \in Nat
        /\ raced' = IF \E j \in JobsOf(n) : Holders(j) # {} THEN raced \cup {n} ELSE raced
    BY <1>4, LimitsAssumption, Zenon DEF UpdateTenantConfig
  <2>2. \A w \in Workers, s \in Scopes : Using(w, s)' = Using(w, s)
    BY <1>3, <2>1, Zenon
  <2>3. ASSUME NEW s \in Scopes, s \notin raced' PROVE limit'[s] > 0 => Cardinality(InUse(s)') <= limit'[s]
    <3>1. CASE s # n
      <4>1. limit'[s] \in {0, limit[s]}
        BY <1>t, <2>1, <3>1, Zenon
      <4> QED  BY <2>1, <2>2, <2>3, <4>1, WithinFrame, Zenon
    <3>2. CASE s = n
      <4>1. \A w \in Workers : ~Using(w, s)
        BY <2>1, <2>3, <3>2, Zenon DEF Using, Holders
      <4>2. InUse(s)' = {}
        BY <2>2, <4>1, UsingIsInUse, Zenon
      <4>3. Cardinality(InUse(s)') = 0 /\ limit'[s] \in Nat
        BY <1>t, <2>1, <3>2, <4>2, FS_EmptySet, Zenon
      <4> QED  BY <4>3
    <3> QED  BY <3>1, <3>2, Zenon
  <2> QED  BY <2>3, Zenon DEF WithinLimits
<1>5. ASSUME NEW t \in Types, DeleteJobType(t) PROVE WithinLimits'
  <2>1. UNCHANGED workerVars /\ raced \subseteq raced' /\ limit' = [limit EXCEPT ![t] = 0]
    BY <1>5, Zenon DEF DeleteJobType
  <2>2. \A s \in Scopes : limit'[s] \in {0, limit[s]}
    BY <1>t, <2>1, Zenon
  <2> QED  BY <1>f, <1>3, <2>1, <2>2, Zenon
<1>6. CASE \/ ReconcileDeferredJobs \/ SchedulerCrash
           \/ \E j \in Jobs : Expire(j) \/ Reclaim(j)
           \/ \E t \in Types : CreateJobType(t)
           \/ UNCHANGED vars
  <2>1. UNCHANGED <<workerVars, limit>> /\ raced \subseteq raced'
    BY <1>6, Zenon DEF ReconcileDeferredJobs, ReadConfigs, NextPass, Visit, PopDeferred, PushBack, SchedulerCrash,
                Expire, Reclaim, CreateJobType, configVars, history, vars
  <2>2. \A s \in Scopes : limit'[s] \in {0, limit[s]}
    BY <2>1, Zenon
  <2> QED  BY <1>f, <1>3, <2>1, <2>2, Zenon
<1> QED  BY <1>2, <1>4, <1>5, <1>6, WithinCheck, Zenon DEF Next, Dequeue

(* The concurrency limit of a type or tenant, across all workers of the    *)
(* cluster: no more than limit[s] jobs of s run at once, unless one of the *)
(* named races touched s.  Checking and taking a slot are different calls  *)
(* of Dequeue, and the limit is read before either.                        *)
THEOREM LimitHeldInvariant == Spec => []LimitHeldUnlessRaced
<1> DEFINE LimitInv == Singles /\ TypeRead /\ WithinLimits
<1>1. Init => LimitInv
  <2> SUFFICES ASSUME Init PROVE LimitInv
    OBVIOUS
  <2>1. Singles
    <3> SUFFICES ASSUME NEW j \in Jobs PROVE Single(j)
      BY Zenon DEF Singles
    <3>1. Waiting(j) = 1 /\ j \notin inflight /\ \A w \in Workers : job[w] # j
      BY WaitingInit, LimitsAssumption, Zenon DEF Init
    <3> QED  BY <3>1 DEF Single
  <2>2. TypeRead
    BY Zenon DEF Init, TypeRead
  <2>3. WithinLimits
    <3> SUFFICES ASSUME NEW s \in Scopes, limit[s] > 0 PROVE Cardinality(InUse(s)) <= limit[s]
      BY Zenon DEF WithinLimits
    <3>1. InUse(s) = {}
      BY LimitsAssumption, Zenon DEF Init, InUse, RunningIn, Pending, JobsOf
    <3>2. Cardinality(InUse(s)) = 0 /\ limit[s] \in Nat
      BY <3>1, FS_EmptySet, LimitsAssumption, Zenon DEF Init
    <3> QED  BY <3>2
  <2> QED  BY <2>1, <2>2, <2>3, Zenon
<1>2. TypeInv /\ Whereabouts /\ SlotInv /\ LimitInv /\ [Next]_vars => LimitInv'
  <2> SUFFICES ASSUME TypeInv, Whereabouts, SlotInv, Singles, TypeRead, WithinLimits, [Next]_vars
               PROVE  LimitInv'
    OBVIOUS
  <2>1. Singles'
    BY SinglesWorker, SinglesOther, Zenon DEF Next
  <2> QED  BY <2>1, TypeReadStep, WithinStep, Zenon
<1>3. TypeInv /\ WithinLimits => LimitHeldUnlessRaced
  <2> SUFFICES ASSUME TypeInv, WithinLimits, NEW s \in Scopes \ raced, limit[s] > 0
               PROVE  Cardinality(RunningIn(s)) <= limit[s]
    BY Zenon DEF LimitHeldUnlessRaced
  <2>1. RunningIn(s) \in SUBSET InUse(s)
    BY Zenon DEF InUse
  <2>2. IsFiniteSet(InUse(s)) /\ Cardinality(InUse(s)) \in Nat
    BY InUseFinite, Zenon
  <2>3. Cardinality(RunningIn(s)) \in Nat /\ Cardinality(RunningIn(s)) <= Cardinality(InUse(s))
    BY <2>1, <2>2, FS_Subset, FS_CardinalityType, Zenon
  <2>4. limit[s] \in Nat /\ Cardinality(InUse(s)) <= limit[s]
    BY Zenon DEF WithinLimits, TypeInv, TypeOK
  <2> QED  BY <2>2, <2>3, <2>4
<1> QED  BY <1>1, <1>2, <1>3, LimitsTypeCorrect, WhereaboutsInvariant, SlotsInvariant, PTL DEF Spec, TypeInv
=============================================================================
