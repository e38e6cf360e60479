---------------------------- MODULE JobContract -----------------------------
(***************************************************************************)
(* What the queue promises about the outcome of a job, without queues,     *)
(* workers or messages.  A job is submitted once; its executions succeed   *)
(* or fail; it concludes as completed only after a success and as failed   *)
(* only after MaxFailures failures.  A job is settled when nothing has     *)
(* loosened it: then it is not executed again once it succeeded or         *)
(* concluded, and its conclusion is not revised.  A second copy (a reclaim *)
(* or a replay) or a cancel loosens a job, and the promise shrinks to:     *)
(* whatever conclusion is recorded was earned.                             *)
(***************************************************************************)
EXTENDS Naturals

CONSTANTS Jobs, MaxFailures

VARIABLES phase,   \* new, open, completed, failed or cancelled
          won,     \* jobs with a successful execution
          lost,    \* failed executions of a job, saturating at MaxFailures
          loose    \* jobs that were copied or cancelled

contractVars == <<phase, won, lost, loose>>

ContractInit ==
  /\ phase = [j \in Jobs |-> "new"]
  /\ won = {}
  /\ lost = [j \in Jobs |-> 0]
  /\ loose = {}

Earned(j) == (IF j \in won THEN {"completed"} ELSE {})
             \cup (IF lost[j] = MaxFailures THEN {"failed"} ELSE {})

Submit(j) ==
  /\ phase[j] = "new"
  /\ phase' = [phase EXCEPT ![j] = "open"]
  /\ UNCHANGED <<won, lost, loose>>

Attempt(j) ==
  /\ phase[j] # "new"
  /\ j \in loose \/ (phase[j] = "open" /\ j \notin won)
  /\ \/ won' = won \cup {j} /\ lost' = lost
     \/ /\ won' = won
        /\ lost' = [lost EXCEPT ![j] = IF @ < MaxFailures THEN @ + 1 ELSE @]
  /\ UNCHANGED <<phase, loose>>

Conclude(j) ==
  /\ phase[j] = "open"
  /\ \E e \in Earned(j) : phase' = [phase EXCEPT ![j] = e]
  /\ UNCHANGED <<won, lost, loose>>

(* Jobs are copied (some of them reopened) or cancelled.                   *)
Loosen(S) ==
  /\ loose' = loose \cup S
  /\ \A j \in S : phase[j] # "new"
  /\ \E e \in {"open", "cancelled"} :
       phase' \in {phase} \cup {[phase EXCEPT ![j] = e] : j \in S}
  /\ UNCHANGED <<won, lost>>

Revise(j) ==
  /\ j \in loose /\ phase[j] # "new"
  /\ \E e \in Earned(j) \cup {"open"} : phase' = [phase EXCEPT ![j] = e]
  /\ UNCHANGED <<won, lost, loose>>

ContractNext ==
  \/ \E j \in Jobs : Submit(j) \/ Attempt(j) \/ Conclude(j) \/ Revise(j)
  \/ \E S \in SUBSET Jobs : Loosen(S)

ContractSpec == ContractInit /\ [][ContractNext]_contractVars
=============================================================================
