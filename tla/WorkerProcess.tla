---------------------------- MODULE WorkerProcess ----------------------------
(***************************************************************************)
(* Inside one worker process: the goroutines of the pool                   *)
(* (internal/worker/pool/pool.go) share a token bucket                     *)
(* (internal/worker/limiter/limiter.go) and the circuit breaker of a       *)
(* plugin (internal/worker/plugin/circuitbreaker.go), execute jobs         *)
(* (internal/worker/executor/job_executor.go), and are drained by the      *)
(* shutdown coordinator (cmd/worker/shutdown.go, cmd/worker/main.go).      *)
(*                                                                         *)
(* The breakers of different job types share nothing, so one is modelled.  *)
(* IsAllowed reads a breaker without its lock while RecordFailure writes   *)
(* it: each read and each write is a step of its own.  What Redis and the  *)
(* store see of an execution is the subject of TaskQueue.                  *)
(***************************************************************************)
EXTENDS Integers, FiniteSets

CONSTANTS Workers, NoWorker,
          Threshold,     \* failures that open the circuit
          Burst,         \* size of the bucket, 0 = no limiter
          MaxResets      \* bound on resets by an operator

ASSUME ProcessAssumption ==
  /\ NoWorker \notin Workers /\ IsFiniteSet(Workers)
  /\ Threshold \in Nat \ {0} /\ Burst \in Nat /\ MaxResets \in Nat

VARIABLES pc,         \* what a worker does next
          tokens,     \* tokens in the bucket
          breaker,    \* state of the breaker
          failures,   \* its count, kept up to Threshold
          cooled,     \* time.Since(lastFailure) > cooldown
          mu,         \* holder of the breaker's lock
          phase,      \* of the shutdown
          signalled   \* the process got SIGINT or SIGTERM

(* History.                                                                *)
VARIABLES streak,     \* failed executions since the last success or reset, up to Threshold
          overtaken,  \* a half-open was written over a later close
          late,       \* executions a worker started after the drain began
          resets

breakerVars  == <<breaker, failures, cooled, mu, streak, overtaken, resets>>
shutdownVars == <<phase, signalled>>
vars == <<pc, tokens, breakerVars, shutdownVars, late>>

Executing == {"run", "recordSuccess", "recordFailure", "trip",
              "recordPanic", "tripPanic", "recordAgain"}

(* The bucket never holds more than Burst tokens, the breaker is in one of *)
(* its three states, each worker is at one of the calls of Run.            *)
TypeOK ==
  /\ pc \in [Workers -> {"idle", "dequeue", "wait", "select", "check",
                          "cooldown", "half", "exited"} \cup Executing]
  /\ tokens \in 0 .. Burst
  /\ breaker \in {"closed", "open", "halfOpen"}
  /\ failures \in 0 .. Threshold /\ streak \in 0 .. Threshold
  /\ cooled \in BOOLEAN /\ overtaken \in BOOLEAN /\ signalled \in BOOLEAN
  /\ mu \in Workers \cup {NoWorker}
  /\ phase \in {"serving", "draining", "drained", "exited", "forced"}
  /\ late \in [Workers -> Nat]
  /\ resets \in 0 .. MaxResets

Init ==
  /\ pc = [w \in Workers |-> "idle"]
  /\ tokens = Burst
  /\ breaker = "closed" /\ failures = 0 /\ cooled = TRUE /\ mu = NoWorker
  /\ phase = "serving" /\ signalled = FALSE
  /\ streak = 0 /\ overtaken = FALSE /\ late = [w \in Workers |-> 0] /\ resets = 0

Up       == phase \notin {"exited", "forced"}
Draining == phase # "serving"
At(w, l) == Up /\ pc[w] = l
Goto(w, l) == pc' = [pc EXCEPT ![w] = l]
Locked   == mu # NoWorker
Up1(n)   == IF n < Threshold THEN n + 1 ELSE n

-----------------------------------------------------------------------------
(* Run and the limiter.                                                    *)

(* The loop of Run looks for the shutdown, then blocks in Dequeue.         *)
Poll(w) ==
  /\ At(w, "idle") /\ ~ Draining
  /\ Goto(w, "dequeue")
  /\ UNCHANGED <<tokens, breakerVars, shutdownVars, late>>

(* No job came, or it is not to be executed; what a draining pool pops     *)
(* fails in Dequeue (see TaskQueue).                                       *)
NoJob(w) ==
  /\ At(w, "dequeue")
  /\ Goto(w, "idle")
  /\ UNCHANGED <<tokens, breakerVars, shutdownVars, late>>

TakeJob(w) ==
  /\ At(w, "dequeue") /\ ~ Draining
  /\ Goto(w, IF Burst = 0 THEN "check" ELSE "wait")
  /\ UNCHANGED <<tokens, breakerVars, shutdownVars, late>>

Leave(w) ==
  /\ At(w, "idle") /\ Draining
  /\ Goto(w, "exited")
  /\ UNCHANGED <<tokens, breakerVars, shutdownVars, late>>

(* The first select of Wait, and the cases of the second: with a token     *)
(* there and the context done, either may be taken.                        *)
WaitFirst(w) ==
  /\ At(w, "wait")
  /\ Goto(w, IF Draining THEN "idle" ELSE "select")
  /\ UNCHANGED <<tokens, breakerVars, shutdownVars, late>>

WaitDone(w) ==
  /\ At(w, "select") /\ Draining
  /\ Goto(w, "idle")
  /\ UNCHANGED <<tokens, breakerVars, shutdownVars, late>>

WaitToken(w) ==
  /\ At(w, "select") /\ tokens > 0
  /\ tokens' = tokens - 1
  /\ Goto(w, "check")
  /\ UNCHANGED <<breakerVars, shutdownVars, late>>

Replenish ==
  /\ Up /\ tokens < Burst
  /\ tokens' = tokens + 1
  /\ UNCHANGED <<pc, breakerVars, shutdownVars, late>>

-----------------------------------------------------------------------------
(* IsAllowed.                                                              *)

Begin(w) == late' = [late EXCEPT ![w] = IF Draining THEN @ + 1 ELSE @]

(* pb.state is read without the lock.                                      *)
ReadState(w) ==
  /\ At(w, "check")
  /\ IF breaker = "open" THEN Goto(w, "cooldown") /\ UNCHANGED late
                         ELSE Goto(w, "run") /\ Begin(w)
  /\ UNCHANGED <<tokens, breakerVars, shutdownVars>>

(* Bug: the trial does not move the circuit to half-open.                  *)
ReadLastFailureStaysOpen(w) ==
  /\ At(w, "cooldown")
  /\ IF cooled THEN Goto(w, "run") /\ Begin(w)
               ELSE Goto(w, "idle") /\ UNCHANGED late
  /\ UNCHANGED <<tokens, breakerVars, shutdownVars>>

(* pb.lastFailure, likewise.  Within the cooldown the job is refused.      *)
ReadLastFailure(w) ==
  /\ At(w, "cooldown")
  /\ Goto(w, IF cooled THEN "half" ELSE "idle")
  /\ UNCHANGED <<tokens, breakerVars, shutdownVars, late>>

(* Bug: the count starts again with the trial.                             *)
HalfOpenForgets(w) ==
  /\ At(w, "half") /\ ~ Locked
  /\ breaker' = "halfOpen" /\ failures' = 0
  /\ overtaken' = (overtaken \/ breaker = "closed")
  /\ Goto(w, "run") /\ Begin(w)
  /\ UNCHANGED <<tokens, cooled, mu, streak, resets, shutdownVars>>

(* The state is not read again under the lock.                             *)
HalfOpen(w) ==
  /\ At(w, "half") /\ ~ Locked
  /\ breaker' = "halfOpen"
  /\ overtaken' = (overtaken \/ breaker = "closed")
  /\ Goto(w, "run") /\ Begin(w)
  /\ UNCHANGED <<tokens, failures, cooled, mu, streak, resets, shutdownVars>>

-----------------------------------------------------------------------------
(* Execute.                                                                *)

(* Bug: a failed execution is tried again in place.                        *)
ExecuteTriesAgain(w) ==
  /\ At(w, "run")
  /\ \E l \in {"recordSuccess", "check", "recordPanic", "idle"} : Goto(w, l)
  /\ UNCHANGED <<tokens, breakerVars, shutdownVars, late>>

(* The plugin returns, fails, panics, or there is no plugin for the type,  *)
(* which the breaker does not hear of.                                     *)
Execute(w) ==
  /\ At(w, "run")
  /\ \E l \in {"recordSuccess", "recordFailure", "recordPanic", "idle"} : Goto(w, l)
  /\ UNCHANGED <<tokens, breakerVars, shutdownVars, late>>

RecordSuccess(w) ==
  /\ At(w, "recordSuccess") /\ ~ Locked
  /\ failures' = 0 /\ breaker' = "closed" /\ streak' = 0 /\ overtaken' = FALSE
  /\ Goto(w, "idle")
  /\ UNCHANGED <<tokens, cooled, mu, resets, shutdownVars, late>>

(* RecordFailure under the lock: the count and the time of the failure ... *)
(* A panic is recorded by the recovery and, as an error, a second time.    *)
RecordFailure(w) ==
  /\ \E l \in {"recordFailure", "recordPanic", "recordAgain"} : At(w, l)
  /\ ~ Locked
  /\ mu' = w
  /\ failures' = Up1(failures) /\ cooled' = FALSE
  /\ streak' = IF pc[w] = "recordPanic" THEN streak ELSE Up1(streak)
  /\ Goto(w, IF pc[w] = "recordPanic" THEN "tripPanic" ELSE "trip")
  /\ UNCHANGED <<tokens, breaker, overtaken, resets, shutdownVars, late>>

(* ... then the state, and the lock is released.                           *)
Trip(w) ==
  /\ At(w, "trip") \/ At(w, "tripPanic")
  /\ mu' = NoWorker
  /\ breaker' = IF failures >= Threshold THEN "open" ELSE breaker
  /\ overtaken' = (overtaken /\ failures < Threshold)
  /\ Goto(w, IF pc[w] = "tripPanic" THEN "recordAgain" ELSE "idle")
  /\ UNCHANGED <<tokens, failures, cooled, streak, resets, shutdownVars, late>>

CooldownPasses ==
  /\ Up /\ ~ cooled
  /\ cooled' = TRUE
  /\ UNCHANGED <<pc, tokens, breaker, failures, mu, streak, overtaken, resets, shutdownVars, late>>

(* POST /circuit-breaker/reset/{type}.                                     *)
Reset ==
  /\ Up /\ ~ Locked /\ resets < MaxResets
  /\ resets' = resets + 1
  /\ failures' = 0 /\ breaker' = "closed" /\ streak' = 0 /\ overtaken' = FALSE
  /\ UNCHANGED <<pc, tokens, cooled, mu, shutdownVars, late>>

-----------------------------------------------------------------------------
(* Shutdown.                                                               *)

(* Initiate: the first call, by signal or by HTTP, starts the drain.       *)
Initiate == phase' = IF phase = "serving" THEN "draining" ELSE phase

Signal ==
  /\ Up /\ ~ signalled
  /\ signalled' = TRUE
  /\ Initiate
  /\ UNCHANGED <<pc, tokens, breakerVars, late>>

ShutdownRequest ==
  /\ phase = "serving"
  /\ Initiate
  /\ UNCHANGED <<pc, tokens, breakerVars, signalled, late>>

(* waitForDrain: Pool.Stop returned ...                                    *)
Drained ==
  /\ phase = "draining" /\ \A w \in Workers : pc[w] = "exited"
  /\ phase' = "drained"
  /\ UNCHANGED <<pc, tokens, breakerVars, signalled, late>>

(* Bug: the timeout is looked at after Stop returned.                      *)
DrainTimeoutAfterStop ==
  /\ phase = "draining" /\ \A w \in Workers : pc[w] = "exited"
  /\ phase' = "forced"
  /\ UNCHANGED <<pc, tokens, breakerVars, signalled, late>>

(* ... or the timeout came first: os.Exit(1).                              *)
DrainTimeout ==
  /\ phase = "draining"
  /\ phase' = "forced"
  /\ UNCHANGED <<pc, tokens, breakerVars, signalled, late>>

(* main: the signal, then Wait.                                            *)
Exit ==
  /\ signalled /\ phase = "drained"
  /\ phase' = "exited"
  /\ UNCHANGED <<pc, tokens, breakerVars, signalled, late>>

-----------------------------------------------------------------------------
Run(w)       == Poll(w) \/ NoJob(w) \/ TakeJob(w) \/ Leave(w)
Wait(w)      == WaitFirst(w) \/ WaitDone(w) \/ WaitToken(w)
IsAllowed(w) == ReadState(w) \/ ReadLastFailure(w) \/ HalfOpen(w)
Record(w)    == RecordSuccess(w) \/ RecordFailure(w) \/ Trip(w)

Next ==
  \/ \E w \in Workers : Run(w) \/ Wait(w) \/ IsAllowed(w) \/ Execute(w) \/ Record(w)
  \/ Replenish \/ CooldownPasses \/ Reset
  \/ Signal \/ ShutdownRequest \/ Drained \/ DrainTimeout \/ Exit

Spec == Init /\ [][Next]_vars

(* Goroutines run, time passes, and jobs of the type keep coming.  Nothing *)
(* makes a plugin return: its context expires, which it may ignore.        *)
Fairness ==
  /\ \A w \in Workers : /\ WF_vars(Run(w) \/ Wait(w) \/ IsAllowed(w) \/ Record(w))
                        /\ SF_vars(TakeJob(w))
  /\ WF_vars(Replenish) /\ WF_vars(CooldownPasses)
  /\ WF_vars(Drained) /\ WF_vars(DrainTimeout) /\ WF_vars(Exit)

FairSpec == Spec /\ Fairness

-----------------------------------------------------------------------------
(* Properties.                                                             *)

(* The circuit is open only after Threshold recorded failures without a    *)
(* success in between, which are at least half as many failed executions   *)
(* (a panic is recorded twice), however the workers interleave.  A         *)
(* half-open circuit is one failure away from being open, unless the       *)
(* half-open was written over a success or a reset that came between the   *)
(* read of the state and the write.                                        *)
BreakerIsEarned ==
  /\ breaker = "open" =>
       /\ failures = Threshold
       /\ 2 * streak + Cardinality({w \in Workers : pc[w] \in {"tripPanic", "recordAgain"}}) >= Threshold
  /\ breaker = "halfOpen" => failures = Threshold \/ overtaken

(* Once the drain has begun a worker starts one more execution at most:    *)
(* the one it already had a job for.                                       *)
DrainStartsNothingNew == \A w \in Workers : late[w] <= 1

(* While the plugins return, an open circuit lets a trial through in the   *)
(* end.                                                                    *)
CircuitRecovers ==
  (\A w \in Workers : []<>(pc[w] # "run")) => (breaker = "open" ~> breaker # "open" \/ Draining)

(* A signal ends the process, also when a plugin never returns and when    *)
(* the drain was already begun, or over, by a request.                     *)
ShutdownEnds == signalled ~> phase \in {"exited", "forced"}
=============================================================================
