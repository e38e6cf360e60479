----------------------------- MODULE Migrations -----------------------------
(* Opening the Postgres store: every process (API, workers, scheduler)     *)
(* connects and runs the missing migrations by itself when it starts       *)
(* (NewWithRetry in internal/storage/postgres/postgres.go, RunMigrations   *)
(* in migrate.go), and an operator may roll the last one back meanwhile.   *)
EXTENDS Naturals, FiniteSets, Sequences, SequencesExt

CONSTANTS Procs,
          NumVersions,    \* the migration files, numbered in name order
          Undoable,       \* versions with a rollback file of their name: the last
          MaxRetries,     \* retries of NewWithRetry
          MaxRollbacks    \* bound: rollbacks

ASSUME VersionsAssumption ==
    /\ NumVersions \in Nat /\ Undoable \subseteq {NumVersions}
    /\ MaxRetries \in Nat /\ MaxRollbacks \in Nat

VARIABLES applied,     \* rows of schema_migrations, in the order of applied_at
          opener,      \* where each process is in NewWithRetry
          rollbacks
migVars == <<applied, opener, rollbacks>>

Versions == 1 .. NumVersions
Openers == [pc: {"closed", "connected", "applying", "open", "failed"},
            seen: SUBSET Versions, attempt: 0 .. MaxRetries]

MigrationsTypeOK ==
    /\ applied \in Seq(Versions)
    /\ opener \in [Procs -> Openers]
    /\ rollbacks \in 0 .. MaxRollbacks

Closed == [pc |-> "closed", seen |-> {}, attempt |-> 0]
Ended(pc) == [Closed EXCEPT !.pc = pc]

MigrationsInit ==
    /\ applied = << >>
    /\ opener = [p \in Procs |-> Closed]
    /\ rollbacks = 0

IsOpen(p) == opener[p].pc = "open"
Opening(p) == opener[p].pc \notin {"open", "failed"}

(* An attempt failed: the pool is closed, and either the next attempt      *)
(* starts from the connection or NewWithRetry gives up.                    *)
NextAttempt(p) ==
    opener' = [opener EXCEPT ![p] =
        IF opener[p].attempt = MaxRetries THEN Ended("failed")
        ELSE [pc |-> "closed", seen |-> {}, attempt |-> opener[p].attempt + 1]]

(* Creating the pool and the ping: either may fail.                        *)
Connect(p) ==
    /\ opener[p].pc = "closed"
    /\ opener' = [opener EXCEPT ![p].pc = "connected"] \/ NextAttempt(p)
    /\ UNCHANGED <<applied, rollbacks>>

(* RunMigrations reads the applied versions once ...                       *)
AppliedVersions(p) ==
    /\ opener[p].pc = "connected"
    /\ opener' = [opener EXCEPT ![p].pc = "applying", ![p].seen = ToSet(applied)]
    /\ UNCHANGED <<applied, rollbacks>>

Missing(p) == Versions \ opener[p].seen
NextFile(p) == CHOOSE v \in Missing(p) : \A u \in Missing(p) : v <= u

(* Bug: the version is not unique in schema_migrations and the scripts     *)
(* succeed when they are run twice.                                        *)
ApplyNextTwice(p) ==
    /\ opener[p].pc = "applying" /\ Missing(p) # {}
    /\ applied' = Append(applied, NextFile(p))
    /\ opener' = [opener EXCEPT ![p].seen = @ \cup {NextFile(p)}]
    /\ UNCHANGED rollbacks

(* ... and applies each missing one in a transaction of its own. The       *)
(* version is the primary key: the transaction of the process that comes   *)
(* second fails and is undone.                                             *)
ApplyNext(p) ==
    /\ opener[p].pc = "applying" /\ Missing(p) # {}
    /\ \/ /\ NextFile(p) \notin ToSet(applied)
          /\ applied' = Append(applied, NextFile(p))
          /\ opener' = [opener EXCEPT ![p].seen = @ \cup {NextFile(p)}]
       \/ /\ NextFile(p) \in ToSet(applied)
          /\ NextAttempt(p)
          /\ UNCHANGED applied
    /\ UNCHANGED rollbacks

RunMigrationsReturns(p) ==
    /\ opener[p].pc = "applying" /\ Missing(p) = {}
    /\ opener' = [opener EXCEPT ![p] = Ended("open")]
    /\ UNCHANGED <<applied, rollbacks>>

(* The operator's command: the last version, if it has a rollback file.    *)
RollbackLastMigration ==
    /\ rollbacks < MaxRollbacks /\ rollbacks' = rollbacks + 1
    /\ applied # << >> /\ Last(applied) \in Undoable
    /\ applied' = Front(applied)
    /\ UNCHANGED opener

NewWithRetry(p) == Connect(p) \/ AppliedVersions(p) \/ ApplyNext(p) \/ RunMigrationsReturns(p)

MigNext == RollbackLastMigration \/ \E p \in Procs : NewWithRetry(p)

(***************************************************************************)
(* Properties                                                              *)
(***************************************************************************)

(* However many processes start at once, RunMigrations applies every       *)
(* version once and in order, and a process that has opened the store      *)
(* finds all of them, unless one was rolled back.                          *)
SchemaWhole ==
    /\ applied = [i \in 1 .. Len(applied) |-> i]
    /\ (\E p \in Procs : IsOpen(p)) => Len(applied) = NumVersions \/ rollbacks > 0
=============================================================================
