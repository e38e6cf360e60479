-------------------------- MODULE MigrationsProofs --------------------------
(* However many processes open the store at once, and whatever they do     *)
(* with it afterwards, the schema is whole.                                *)
EXTENDS Stores, TLAPS

UpTo(n) == [i \in 1 .. n |-> i]

(* What a process believes is applied is a prefix of the versions, and the *)
(* table has at least that prefix: only the last version can have been     *)
(* taken away meanwhile. Without this the next file of one process could   *)
(* leave a gap that another one's rollback made.                           *)
SeenIsPrefix(p, n) ==
    opener[p].pc = "applying" =>
        \E k \in 0 .. NumVersions :
            /\ opener[p].seen = 1 .. k
            /\ k <= n \/ (k = NumVersions /\ rollbacks > 0)

MigInv(n) ==
    /\ n \in 0 .. NumVersions
    /\ applied = UpTo(n)
    /\ rollbacks \in Nat
    /\ opener \in [Procs -> Openers]
    /\ \A p \in Procs : SeenIsPrefix(p, n)
    /\ (\E p \in Procs : IsOpen(p)) => n = NumVersions \/ rollbacks > 0

Whole == \E n \in Nat : MigInv(n)

(* What the operators on sequences make of 1, 2, ..., n.                   *)
LEMMA UpToFacts ==
  ASSUME NEW n \in Nat
  PROVE  /\ Len(UpTo(n)) = n
         /\ UpTo(n) \in Seq(Nat)
         /\ ToSet(UpTo(n)) = 1 .. n
         /\ Append(UpTo(n), n + 1) = UpTo(n + 1)
         /\ n > 0 => Last(UpTo(n)) = n /\ Front(UpTo(n)) = UpTo(n - 1)
         /\ UpTo(n) = << >> <=> n = 0
<1>1. UpTo(n) \in Seq(Nat) /\ Len(UpTo(n)) = n /\ DOMAIN UpTo(n) = 1 .. n  BY DEF UpTo
<1>2. \A i \in 1 .. n : UpTo(n)[i] = i  BY DEF UpTo
<1>3. ToSet(UpTo(n)) = 1 .. n
  <2>1. ToSet(UpTo(n)) = {UpTo(n)[i] : i \in 1 .. n}  BY <1>1 DEF ToSet
  <2> QED  BY <2>1, <1>2
<1>4. Append(UpTo(n), n + 1) = UpTo(n + 1)
  <2>1. UpTo(n + 1) \in Seq(Nat) /\ Len(UpTo(n + 1)) = n + 1  BY DEF UpTo
  <2>2. Append(UpTo(n), n + 1) \in Seq(Nat) /\ Len(Append(UpTo(n), n + 1)) = n + 1  BY <1>1
  <2>3. ASSUME NEW i \in 1 .. n + 1  PROVE Append(UpTo(n), n + 1)[i] = UpTo(n + 1)[i]
    <3>1. UpTo(n + 1)[i] = i  BY DEF UpTo
    <3>2. CASE i = n + 1  BY <1>1, <3>1, <3>2
    <3>3. CASE i \in 1 .. n  BY <1>1, <1>2, <3>1, <3>3
    <3>4. i = n + 1 \/ i \in 1 .. n  OBVIOUS
    <3> QED  BY <3>2, <3>3, <3>4
  <2> QED  BY <2>1, <2>2, <2>3
<1>5. ASSUME n > 0  PROVE Last(UpTo(n)) = n /\ Front(UpTo(n)) = UpTo(n - 1)
  <2>1. Last(UpTo(n)) = n  BY <1>1, <1>2, <1>5 DEF Last
  <2>2. UpTo(n - 1) \in Seq(Nat) /\ Len(UpTo(n - 1)) = n - 1 /\ \A i \in 1 .. n - 1 : UpTo(n - 1)[i] = i
    BY <1>5 DEF UpTo
  <2>3. Front(UpTo(n)) = SubSeq(UpTo(n), 1, n - 1)  BY <1>1 DEF Front
  <2>4. SubSeq(UpTo(n), 1, n - 1) = [i \in 1 .. n - 1 |-> UpTo(n)[i]]  BY <1>1, <1>5
  <2>5. [i \in 1 .. n - 1 |-> UpTo(n)[i]] = UpTo(n - 1)
    <3>1. \A i \in 1 .. n - 1 : UpTo(n)[i] = i  BY <1>2
    <3> QED  BY <3>1 DEF UpTo
  <2> QED  BY <2>1, <2>3, <2>4, <2>5
<1>6. UpTo(n) = << >> <=> n = 0  BY <1>1
<1> QED  BY <1>1, <1>3, <1>4, <1>5, <1>6

(* The first file that is missing behind a prefix is the next number.      *)
LEMMA NextFileIsNext ==
  ASSUME NEW p \in Procs, NEW k \in 0 .. NumVersions, opener[p].seen = 1 .. k, Missing(p) # {}
  PROVE  k < NumVersions /\ NextFile(p) = k + 1
<1>0. NumVersions \in Nat  BY VersionsAssumption
<1>1. Missing(p) = k + 1 .. NumVersions  BY <1>0 DEF Missing, Versions
<1>2. k < NumVersions  BY <1>0, <1>1
<1>3. k + 1 \in Missing(p) /\ \A u \in Missing(p) : k + 1 <= u  BY <1>0, <1>1, <1>2
<1>4. NextFile(p) \in Missing(p) /\ \A u \in Missing(p) : NextFile(p) <= u  BY <1>3 DEF NextFile
<1>5. NextFile(p) = k + 1  BY <1>0, <1>1, <1>3, <1>4
<1> QED  BY <1>2, <1>5

LEMMA InitWhole == MigrationsInit => Whole
<1> SUFFICES ASSUME MigrationsInit PROVE MigInv(0)  BY DEF Whole
<1>0. NumVersions \in Nat /\ MaxRetries \in Nat  BY VersionsAssumption
<1>1. applied = UpTo(0)  BY UpToFacts DEF MigrationsInit
<1>2. Closed \in Openers  BY <1>0 DEF Closed, Openers
<1>3. opener \in [Procs -> Openers] /\ \A p \in Procs : opener[p].pc = "closed"
  BY <1>2 DEF MigrationsInit, Closed
<1> QED  BY <1>0, <1>1, <1>3 DEF MigrationsInit, MigInv, SeenIsPrefix, IsOpen

(* A failed attempt forgets what it had seen.                              *)
LEMMA NextAttemptWhole ==
  ASSUME NEW n \in Nat, MigInv(n), NEW p \in Procs, NextAttempt(p),
         UNCHANGED <<applied, rollbacks>>
  PROVE  MigInv(n)'
<1>0. NumVersions \in Nat /\ MaxRetries \in Nat  BY VersionsAssumption
<1>1. opener[p] \in Openers  BY DEF MigInv
<1>2. opener'[p] \in Openers /\ opener'[p].pc \in {"failed", "closed"}
  <2>1. CASE opener[p].attempt = MaxRetries
    <3>1. opener'[p] = Ended("failed")  BY <2>1 DEF NextAttempt, MigInv
    <3> QED  BY <3>1, <1>0 DEF Ended, Closed, Openers
  <2>2. CASE opener[p].attempt # MaxRetries
    <3>1. opener'[p] = [pc |-> "closed", seen |-> {}, attempt |-> opener[p].attempt + 1]
      BY <2>2 DEF NextAttempt, MigInv
    <3>2. opener[p].attempt + 1 \in 0 .. MaxRetries  BY <1>0, <1>1, <2>2 DEF Openers
    <3> QED  BY <3>1, <3>2 DEF Openers
  <2> QED  BY <2>1, <2>2
<1>3. opener' \in [Procs -> Openers] /\ \A q \in Procs \ {p} : opener'[q] = opener[q]
  BY <1>2 DEF NextAttempt, MigInv
<1>4. \A q \in Procs : SeenIsPrefix(q, n)'
  BY <1>2, <1>3 DEF SeenIsPrefix, MigInv
<1>5. (\E q \in Procs : IsOpen(q)') => \E q \in Procs : IsOpen(q)
  BY <1>2, <1>3 DEF IsOpen
<1> QED  BY <1>3, <1>4, <1>5 DEF MigInv, IsOpen

(* A process moves from one place to another one it may be in, the table   *)
(* is left alone.                                                          *)
LEMMA MoveWhole ==
  ASSUME NEW n \in Nat, MigInv(n), NEW p \in Procs, UNCHANGED <<applied, rollbacks>>,
         NEW o \in Openers, opener' = [opener EXCEPT ![p] = o],
         SeenIsPrefix(p, n)',
         o.pc = "open" => n = NumVersions \/ rollbacks > 0
  PROVE  MigInv(n)'
<1>1. opener'[p] = o /\ opener' \in [Procs -> Openers]
      /\ \A q \in Procs \ {p} : opener'[q] = opener[q]
  BY DEF MigInv
<1>2. \A q \in Procs : SeenIsPrefix(q, n)'  BY <1>1 DEF SeenIsPrefix, MigInv
<1>3. (\E q \in Procs : IsOpen(q)') => n = NumVersions \/ rollbacks > 0
  BY <1>1 DEF IsOpen, MigInv
<1> QED  BY <1>1, <1>2, <1>3 DEF MigInv, IsOpen

LEMMA ConnectWhole ==
  ASSUME NEW n \in Nat, MigInv(n), NEW p \in Procs, Connect(p)
  PROVE  MigInv(n)'
<1>1. CASE opener' = [opener EXCEPT ![p].pc = "connected"]
  <2> DEFINE o == [opener[p] EXCEPT !.pc = "connected"]
  <2>1. opener[p] \in Openers  BY DEF MigInv
  <2>2. o \in Openers /\ o.pc = "connected"  BY <2>1 DEF Openers
  <2>3. opener' = [opener EXCEPT ![p] = o]  BY <1>1
  <2>4. SeenIsPrefix(p, n)'  BY <2>2, <2>3 DEF SeenIsPrefix, MigInv
  <2> QED  BY <2>2, <2>3, <2>4, MoveWhole DEF Connect
<1>2. CASE NextAttempt(p)  BY <1>2, NextAttemptWhole DEF Connect
<1> QED  BY <1>1, <1>2 DEF Connect

LEMMA AppliedVersionsWhole ==
  ASSUME NEW n \in Nat, MigInv(n), NEW p \in Procs, AppliedVersions(p)
  PROVE  MigInv(n)'
<1> DEFINE o == [opener[p] EXCEPT !.pc = "applying", !.seen = 1 .. n]
<1>0. NumVersions \in Nat /\ n \in 0 .. NumVersions  BY VersionsAssumption DEF MigInv
<1>1. ToSet(applied) = 1 .. n  BY UpToFacts DEF MigInv
<1>2. opener[p] \in Openers  BY DEF MigInv
<1>3. 1 .. n \subseteq Versions  BY <1>0 DEF Versions
<1>4. o \in Openers /\ o.pc = "applying" /\ o.seen = 1 .. n  BY <1>2, <1>3 DEF Openers
<1>5. opener' = [opener EXCEPT ![p] = o]  BY <1>1 DEF AppliedVersions
<1>6. opener'[p] = o  BY <1>5 DEF MigInv
<1>7. SeenIsPrefix(p, n)'  BY <1>0, <1>4, <1>6 DEF SeenIsPrefix
<1> QED  BY <1>4, <1>5, <1>7, MoveWhole DEF AppliedVersions

LEMMA ReturnWhole ==
  ASSUME NEW n \in Nat, MigInv(n), NEW p \in Procs, RunMigrationsReturns(p)
  PROVE  MigInv(n)'
<1>0. NumVersions \in Nat /\ MaxRetries \in Nat /\ n \in 0 .. NumVersions
  BY VersionsAssumption DEF MigInv
<1>1. PICK k \in 0 .. NumVersions : /\ opener[p].seen = 1 .. k
                                    /\ k <= n \/ (k = NumVersions /\ rollbacks > 0)
  BY DEF RunMigrationsReturns, MigInv, SeenIsPrefix
<1>2. k = NumVersions
  <2>1. NumVersions \notin 1 .. NumVersions \ (1 .. k)  BY <1>1 DEF RunMigrationsReturns, Missing, Versions
  <2> QED  BY <2>1, <1>0
<1>3. n = NumVersions \/ rollbacks > 0  BY <1>0, <1>1, <1>2
<1>4. Ended("open") \in Openers /\ Ended("open").pc = "open"  BY <1>0 DEF Ended, Closed, Openers
<1>5. opener' = [opener EXCEPT ![p] = Ended("open")]  BY DEF RunMigrationsReturns
<1>6. opener'[p].pc = "open"  BY <1>4, <1>5 DEF MigInv
<1>7. SeenIsPrefix(p, n)'  BY <1>6 DEF SeenIsPrefix
<1> QED  BY <1>3, <1>4, <1>5, <1>7, MoveWhole DEF RunMigrationsReturns

(* The next file extends the prefix in the table, or is found there.       *)
LEMMA ApplyNextWhole ==
  ASSUME NEW n \in Nat, MigInv(n), NEW p \in Procs, ApplyNext(p)
  PROVE  Whole'
<1>0. NumVersions \in Nat /\ n \in 0 .. NumVersions  BY VersionsAssumption DEF MigInv
<1>1. PICK k \in 0 .. NumVersions : /\ opener[p].seen = 1 .. k
                                    /\ k <= n \/ (k = NumVersions /\ rollbacks > 0)
  BY DEF ApplyNext, MigInv, SeenIsPrefix
<1>2. k < NumVersions /\ NextFile(p) = k + 1  BY <1>1, NextFileIsNext DEF ApplyNext
<1>3. ToSet(applied) = 1 .. n  BY UpToFacts DEF MigInv
<1>4. CASE NextFile(p) \in ToSet(applied)
  <2>1. NextAttempt(p) /\ UNCHANGED <<applied, rollbacks>>  BY <1>4 DEF ApplyNext
  <2>2. MigInv(n)'  BY <2>1, NextAttemptWhole
  <2> QED  BY <2>2 DEF Whole
<1>5. CASE NextFile(p) \notin ToSet(applied)
  <2> DEFINE o == [opener[p] EXCEPT !.seen = 1 .. k + 1]
  <2>1. k = n /\ n + 1 \in 0 .. NumVersions  BY <1>0, <1>1, <1>2, <1>3, <1>5
  <2>2. applied' = Append(applied, n + 1) /\ opener' = [opener EXCEPT ![p].seen = @ \cup {k + 1}]
        /\ rollbacks' = rollbacks
    BY <1>2, <1>5, <2>1 DEF ApplyNext
  <2>3. applied' = UpTo(n + 1)  BY <2>2, UpToFacts DEF MigInv
  <2>4. (1 .. k) \cup {k + 1} = 1 .. k + 1  OBVIOUS
  <2>5. opener[p] \in Openers /\ opener[p].pc = "applying"  BY DEF MigInv, ApplyNext
  <2>6. opener' = [opener EXCEPT ![p] = o]  BY <1>1, <2>2, <2>4, <2>5 DEF Openers
  <2>7. 1 .. k + 1 \subseteq Versions  BY <1>0, <2>1 DEF Versions
  <2>8. o \in Openers /\ o.pc = "applying" /\ o.seen = 1 .. k + 1  BY <2>5, <2>7 DEF Openers
  <2>9. opener'[p] = o /\ opener' \in [Procs -> Openers]
        /\ \A q \in Procs \ {p} : opener'[q] = opener[q]
    BY <2>6, <2>8 DEF MigInv
  <2>10. SeenIsPrefix(p, n + 1)'  BY <2>1, <2>8, <2>9 DEF SeenIsPrefix
  <2>11. ASSUME NEW q \in Procs \ {p}  PROVE SeenIsPrefix(q, n + 1)'
    <3>1. SeenIsPrefix(q, n)  BY DEF MigInv
    <3>2. \A j \in 0 .. NumVersions : j <= n => j <= n + 1  BY <1>0
    <3> QED  BY <2>2, <2>9, <3>1, <3>2 DEF SeenIsPrefix
  <2>12. \A q \in Procs : SeenIsPrefix(q, n + 1)'  BY <2>10, <2>11
  <2>13. (\E q \in Procs : IsOpen(q)') => rollbacks' > 0
    <3>1. (\E q \in Procs : IsOpen(q)') => \E q \in Procs : IsOpen(q)  BY <2>8, <2>9 DEF IsOpen
    <3>2. n # NumVersions  BY <1>2, <2>1
    <3> QED  BY <2>2, <3>1, <3>2 DEF MigInv
  <2>14. rollbacks' \in Nat  BY <2>2 DEF MigInv
  <2>15. MigInv(n + 1)'  BY <2>1, <2>3, <2>9, <2>12, <2>13, <2>14 DEF MigInv, IsOpen
  <2> QED  BY <2>15 DEF Whole
<1> QED  BY <1>4, <1>5

(* A rollback takes away the last version, which only a process that has   *)
(* seen all of them can believe is there.                                  *)
LEMMA RollbackWhole ==
  ASSUME NEW n \in Nat, MigInv(n), RollbackLastMigration
  PROVE  Whole'
<1>0. NumVersions \in Nat /\ n \in 0 .. NumVersions /\ Undoable \subseteq {NumVersions}
  BY VersionsAssumption DEF MigInv
<1>1. n # 0 /\ applied = UpTo(n)  BY UpToFacts DEF RollbackLastMigration, MigInv
<1>2. Last(applied) = n /\ Front(applied) = UpTo(n - 1)  BY <1>1, UpToFacts
<1>3. n = NumVersions /\ n - 1 \in 0 .. NumVersions /\ n - 1 \in Nat
  BY <1>0, <1>1, <1>2 DEF RollbackLastMigration
<1>4. applied' = UpTo(n - 1)  BY <1>2 DEF RollbackLastMigration
<1>5. rollbacks' \in Nat /\ rollbacks' > 0 /\ opener' = opener  BY DEF RollbackLastMigration, MigInv
<1>6. ASSUME NEW q \in Procs  PROVE SeenIsPrefix(q, n - 1)'
  <2>1. ASSUME NEW k \in 0 .. NumVersions  PROVE k <= n - 1 \/ k = NumVersions  BY <1>0, <1>3
  <2>2. SeenIsPrefix(q, n)  BY DEF MigInv
  <2> QED  BY <1>5, <2>1, <2>2 DEF SeenIsPrefix
<1>7. MigInv(n - 1)'  BY <1>3, <1>4, <1>5, <1>6 DEF MigInv, IsOpen
<1> QED  BY <1>3, <1>7 DEF Whole

LEMMA StepWhole == Whole /\ [MigNext]_migVars => Whole'
<1> SUFFICES ASSUME NEW n \in Nat, MigInv(n), [MigNext]_migVars  PROVE Whole'  BY DEF Whole
<1>1. CASE RollbackLastMigration  BY <1>1, RollbackWhole
<1>2. ASSUME NEW p \in Procs, NewWithRetry(p)  PROVE Whole'
  <2>1. CASE Connect(p)  BY <2>1, ConnectWhole DEF Whole
  <2>2. CASE AppliedVersions(p)  BY <2>2, AppliedVersionsWhole DEF Whole
  <2>3. CASE ApplyNext(p)  BY <2>3, ApplyNextWhole
  <2>4. CASE RunMigrationsReturns(p)  BY <2>4, ReturnWhole DEF Whole
  <2> QED  BY <1>2, <2>1, <2>2, <2>3, <2>4 DEF NewWithRetry
<1>3. CASE UNCHANGED migVars
  <2>1. MigInv(n)'  BY <1>3 DEF migVars, MigInv, SeenIsPrefix, IsOpen
  <2> QED  BY <2>1 DEF Whole
<1> QED  BY <1>1, <1>2, <1>3 DEF MigNext

LEMMA WholeIsWhole == Whole => SchemaWhole
<1> SUFFICES ASSUME NEW n \in Nat, MigInv(n)  PROVE SchemaWhole  BY DEF Whole
<1>1. applied = UpTo(n) /\ Len(applied) = n  BY UpToFacts DEF MigInv
<1> QED  BY <1>1 DEF MigInv, SchemaWhole, UpTo

(* RunMigrations, run by any number of processes that start at the same    *)
(* time, fail, retry, and go on to use the store on any backend, applies   *)
(* every version once and in order; a process that was let through finds   *)
(* all of them unless one was rolled back.                                 *)
THEOREM SchemaStaysWhole == Spec => []SchemaWhole
<1>1. Init => Whole  BY InitWhole DEF Init
<1>2. Whole /\ [Next]_vars => Whole'
  <2>1. [Next]_vars => [MigNext]_migVars  BY DEF Next, vars
  <2> QED  BY <2>1, StepWhole
<1> QED  BY <1>1, <1>2, WholeIsWhole, PTL DEF Spec
=============================================================================
