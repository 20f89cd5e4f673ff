-------------------------- MODULE Database_proofs ---------------------------
(***************************************************************************)
(* Proofs about the modules that stand for the database: SchemaSound of    *)
(* Migrations, for any number of processes, builds, migrations, statements *)
(* and kills; RowsSound of Catalogue, for any files, tags and scans; and   *)
(* AnswersSound and WalkIsComplete of CatalogueApi, for any texts,         *)
(* requests and page size.                                                 *)
(***************************************************************************)
EXTENDS Migrations, CatalogueApi, FiniteSetTheorems, SequenceTheorems, TLAPS

(* Migrations.                                                              *)

\* Migrations are recorded without a gap: the largest version says it all.
NoGap == \E n \in 0..MaxVersion : recorded = 1..n

\* The write lock and the exclusive one are held by whoever is between taking
\* and releasing them, and by nobody else.
Exclusive ==
    \A p \in Process : proc[p].phase \in {"switch", "check", "exec"} <=> writer = p

\* What a process that has got to migration x.at knows of the database.
Progress(x, rec) ==
    /\ x.phase \in {"begin", "check", "exec"} =>
           x.at >= 1 /\ x.at <= x.build + 1 /\ 1..(x.at - 1) \subseteq rec
    /\ x.phase \in {"check", "exec"} => x.at <= x.build
    /\ x.phase = "ready" => 1..x.build \subseteq rec

\* What its transaction has changed: the first statements of a migration that
\* is not recorded.
Transaction(x, rec) ==
    /\ x.phase # "exec" => x.tx = {}
    /\ x.phase = "exec" => /\ x.at \notin rec
                           /\ IsFiniteSet(x.tx) /\ Cardinality(x.tx) <= Stmts
                           /\ x.tx = {x.at} \X (1..Cardinality(x.tx))

MigrationIInv ==
    /\ TypeOK /\ SchemaMatchesRecord /\ NoGap /\ Exclusive
    /\ \A p \in Process : Progress(proc[p], recorded) /\ Transaction(proc[p], recorded)

-----------------------------------------------------------------------------

ProcState == [phase : Phases, build : 0..MaxVersion, repo : 0..Repos,
              at : 0..MaxVersion + 1, tx : SUBSET Change]

LEMMA CurrentVersion ==
    ASSUME NEW n \in Nat, recorded = 1..n
    PROVE  currentSchemaVersion = n
<1>1. CASE n = 0
  BY <1>1 DEF currentSchemaVersion
<1>2. CASE n # 0
  <2>1. n \in recorded /\ \A w \in recorded : w <= n
    BY <1>2
  <2>2. recorded # {}
    BY <2>1
  <2>3. \A v \in recorded : (\A w \in recorded : w <= v) => v = n
    BY <2>1
  <2> QED BY <2>1, <2>2, <2>3 DEF currentSchemaVersion
<1> QED BY <1>1, <1>2

LEMMA DownState ==
    ASSUME NEW ph \in Phases
    PROVE  /\ [Down EXCEPT !.phase = ph] \in ProcState
           /\ [Down EXCEPT !.phase = ph].phase = ph
           /\ [Down EXCEPT !.phase = ph].tx = {}
  BY MigrationAssumption DEF Down, ProcState

LEMMA InitMigrationIInv == MigrateInit => MigrationIInv
<1> SUFFICES ASSUME MigrateInit PROVE MigrationIInv
  OBVIOUS
<1>1. Down \in ProcState
  BY MigrationAssumption DEF Down, ProcState, Phases
<1>2. TypeOK
  <2>1. proc \in [Process -> ProcState]
    BY <1>1 DEF MigrateInit
  <2>2. starts \in [Process -> 0..MaxStarts]
    BY MigrationAssumption DEF MigrateInit
  <2> QED BY <2>1, <2>2 DEF MigrateInit, TypeOK, ProcState
<1>3. SchemaMatchesRecord
  BY DEF MigrateInit, SchemaMatchesRecord
<1>4. NoGap
  <2>1. 0 \in 0..MaxVersion /\ {} = 1..0
    BY MigrationAssumption
  <2> QED BY <2>1 DEF MigrateInit, NoGap
<1>5. Exclusive
  BY MigrationAssumption DEF MigrateInit, Exclusive, Down
<1>6. \A p \in Process : Progress(proc[p], recorded) /\ Transaction(proc[p], recorded)
  BY DEF MigrateInit, Down, Progress, Transaction
<1> QED BY <1>2, <1>3, <1>4, <1>5, <1>6 DEF MigrationIInv

\* A step of one process that leaves the tables alone: what has to be shown of
\* its new local state.
LEMMA LocalStep ==
    ASSUME MigrationIInv, NEW p \in Process, NEW next \in ProcState, Local(p, next),
           wal' \in BOOLEAN, starts' \in [Process -> 0..MaxStarts],
           UNCHANGED <<schema, recorded>>,
           writer' \in Process \cup {None},
           next.phase \in {"switch", "check", "exec"} <=> writer' = p,
           \A q \in Process \ {p} : writer = q <=> writer' = q,
           Progress(next, recorded), Transaction(next, recorded)
    PROVE  MigrationIInv'
<1>1. proc \in [Process -> ProcState]
  BY DEF MigrationIInv, TypeOK, ProcState
<1>2. /\ proc' \in [Process -> ProcState] /\ proc'[p] = next
      /\ \A q \in Process \ {p} : proc'[q] = proc[q]
  BY <1>1 DEF Local
<1>3. TypeOK'
  BY <1>2 DEF MigrationIInv, TypeOK, ProcState
<1>4. SchemaMatchesRecord' /\ NoGap'
  BY DEF MigrationIInv, SchemaMatchesRecord, NoGap
<1>5. Exclusive'
  BY <1>2 DEF MigrationIInv, Exclusive
<1>6. (\A q \in Process : Progress(proc[q], recorded) /\ Transaction(proc[q], recorded))'
  BY <1>2 DEF MigrationIInv
<1> QED BY <1>3, <1>4, <1>5, <1>6 DEF MigrationIInv

LEMMA NextMigrationIInv == MigrationIInv /\ [MigrateNext]_vars => MigrationIInv'
<1> SUFFICES ASSUME MigrationIInv, [MigrateNext]_vars PROVE MigrationIInv'
  OBVIOUS
<1> DEFINE Holding == {"switch", "check", "exec"}
<1>a. /\ proc \in [Process -> ProcState] /\ wal \in BOOLEAN
      /\ writer \in Process \cup {None} /\ starts \in [Process -> 0..MaxStarts]
      /\ \A q \in Process : proc[q].phase \in Holding <=> writer = q
      /\ \A q \in Process : Progress(proc[q], recorded) /\ Transaction(proc[q], recorded)
  BY DEF MigrationIInv, TypeOK, ProcState, Exclusive
<1>b. \A ph \in Phases : /\ [Down EXCEPT !.phase = ph] \in ProcState
                         /\ [Down EXCEPT !.phase = ph].phase = ph
                         /\ [Down EXCEPT !.phase = ph].tx = {}
  BY DownState
<1>1. ASSUME NEW p \in Process, NEW b \in Version, Start(p, b) PROVE MigrationIInv'
  <2> DEFINE next == [Down EXCEPT !.phase = "open", !.build = b, !.repo = 1]
  <2>1. next \in ProcState /\ next.phase = "open" /\ next.tx = {}
    <3>1. b \in 0..MaxVersion /\ 1 \in 0..Repos /\ 0 \in 0..MaxVersion + 1
      BY MigrationAssumption DEF Version
    <3> QED BY <3>1 DEF Down, ProcState, Phases
  <2>2. starts' \in [Process -> 0..MaxStarts]
    BY <1>1, <1>a, MigrationAssumption DEF Start
  <2>3. proc[p].phase \notin Holding
    BY <1>1 DEF Start
  <2> HIDE DEF next
  <2>4. Local(p, next) /\ UNCHANGED <<wal, schema, recorded, writer>>
    BY <1>1 DEF Start, next
  <2>5. Progress(next, recorded) /\ Transaction(next, recorded)
    BY <2>1 DEF Progress, Transaction
  <2> QED BY <1>a, <2>1, <2>2, <2>3, <2>4, <2>5, LocalStep
<1>2. ASSUME NEW p \in Process, OpenWal(p) \/ SwitchToWal(p) PROVE MigrationIInv'
  <2> DEFINE next == [proc[p] EXCEPT !.phase = "begin", !.at = 1]
  <2>1. /\ next \in ProcState /\ next.phase = "begin" /\ next.tx = proc[p].tx
        /\ next.at = 1 /\ next.build \in 0..MaxVersion
    <3>1. 1 \in 0..MaxVersion + 1
      BY MigrationAssumption
    <3> QED BY <3>1, <1>a DEF ProcState, Phases
  <2>2. proc[p].tx = {} /\ proc[p].phase \in {"open", "switch"}
    BY <1>2, <1>a DEF OpenWal, SwitchToWal, Transaction
  <2> HIDE DEF next
  <2>3. /\ Local(p, next) /\ UNCHANGED <<schema, recorded, starts>> /\ wal' \in BOOLEAN
        /\ \/ proc[p].phase = "open" /\ writer' = writer
           \/ proc[p].phase = "switch" /\ writer' = None
    BY <1>2, <1>a DEF OpenWal, SwitchToWal, next
  <2>4. Progress(next, recorded) /\ Transaction(next, recorded)
    <3>1. 1..(next.at - 1) = {}
      BY <2>1
    <3> QED BY <2>1, <2>2, <3>1, MigrationAssumption DEF Progress, Transaction
  <2>5. writer' # p /\ writer' \in Process \cup {None}
    BY <2>3, <1>a, MigrationAssumption
  <2>6. \A q \in Process \ {p} : writer = q <=> writer' = q
    BY <2>3, <1>a, MigrationAssumption
  <2> QED BY <1>a, <2>1, <2>3, <2>4, <2>5, <2>6, LocalStep
<1>3. ASSUME NEW p \in Process, TakeExclusive(p) \/ BeginImmediate(p) PROVE MigrationIInv'
  <2> DEFINE next == [proc[p] EXCEPT !.phase = IF proc[p].phase = "open" THEN "switch" ELSE "check"]
  <2>1. /\ next \in ProcState /\ next.tx = proc[p].tx /\ next.at = proc[p].at
        /\ next.build = proc[p].build
        /\ next.phase = IF proc[p].phase = "open" THEN "switch" ELSE "check"
    BY <1>a DEF ProcState, Phases
  <2> HIDE DEF next
  <2>2. /\ Local(p, next) /\ UNCHANGED <<wal, schema, recorded, starts>>
        /\ writer = None /\ writer' = p
        /\ \/ proc[p].phase = "open"
           \/ proc[p].phase = "begin" /\ proc[p].at <= proc[p].build
    BY <1>3 DEF TakeExclusive, BeginImmediate, Goto, next
  <2>3. Progress(next, recorded) /\ Transaction(next, recorded)
    BY <2>1, <2>2, <1>a DEF Progress, Transaction
  <2>4. next.phase \in Holding
    BY <2>1
  <2> QED BY <1>a, <2>1, <2>2, <2>3, <2>4, MigrationAssumption, LocalStep
<1>4. ASSUME NEW p \in Process, OpenLocked(p) \/ LoadFails(p) \/ BusyTimeout(p) \/ Kill(p)
      PROVE  MigrationIInv'
  <2>1. PICK ph \in {"locked", "failed", "down"} : Fail(p, ph)
    BY <1>4 DEF OpenLocked, LoadFails, BusyTimeout, Kill
  <2> DEFINE next == [Down EXCEPT !.phase = ph]
  <2>2. next \in ProcState /\ next.phase = ph /\ next.tx = {}
    BY <1>b DEF Phases
  <2> HIDE DEF next
  <2>3. Local(p, next) /\ UNCHANGED <<wal, schema, recorded, starts>>
    BY <1>4, <2>1 DEF OpenLocked, LoadFails, BusyTimeout, Kill, Fail, next
  <2>4. writer' = IF writer = p THEN None ELSE writer
    BY <1>4, <1>a DEF OpenLocked, LoadFails, BusyTimeout, Kill
  <2>5. Progress(next, recorded) /\ Transaction(next, recorded)
    BY <2>2 DEF Progress, Transaction
  <2>6. /\ next.phase \in Holding <=> writer' = p
        /\ writer' \in Process \cup {None}
        /\ \A q \in Process \ {p} : writer = q <=> writer' = q
    BY <2>2, <2>4, <1>a, MigrationAssumption
  <2> QED BY <1>a, <2>2, <2>3, <2>5, <2>6, LocalStep
<1>5. ASSUME NEW p \in Process, Check(p) PROVE MigrationIInv'
  <2>1. PICK n \in 0..MaxVersion : recorded = 1..n
    BY DEF MigrationIInv, NoGap
  <2>2. currentSchemaVersion = n
    BY <2>1, CurrentVersion, MigrationAssumption
  <2>3. /\ proc[p].phase = "check" /\ writer = p /\ proc[p].tx = {}
        /\ UNCHANGED <<wal, schema, recorded, starts>>
        /\ proc[p].at \in Nat /\ proc[p].build \in 0..MaxVersion
        /\ proc[p].at >= 1 /\ proc[p].at <= proc[p].build
        /\ 1..(proc[p].at - 1) \subseteq recorded
    BY <1>5, <1>a, MigrationAssumption DEF Check, Progress, Transaction, ProcState
  <2>4. CASE proc[p].at <= n
    <3> DEFINE next == [proc[p] EXCEPT !.phase = "begin", !.at = skip(p)]
    <3>1. /\ next \in ProcState /\ next.phase = "begin" /\ next.tx = {}
          /\ next.at = proc[p].at + 1 /\ next.build = proc[p].build
      <4>1. proc[p].at + 1 \in 0..MaxVersion + 1
        BY <2>3, MigrationAssumption
      <4> QED BY <4>1, <2>3, <1>a DEF ProcState, Phases, skip
    <3> HIDE DEF next
    <3>2. Local(p, next) /\ writer' = None
      BY <1>5, <2>2, <2>4 DEF Check, next
    <3>3. 1..(next.at - 1) \subseteq recorded
      BY <2>1, <2>3, <2>4, <3>1
    <3>4. Progress(next, recorded) /\ Transaction(next, recorded)
      BY <3>1, <3>3, <2>3 DEF Progress, Transaction
    <3> QED BY <1>a, <2>3, <3>1, <3>2, <3>4, MigrationAssumption, LocalStep
  <2>5. CASE ~(proc[p].at <= n)
    <3> DEFINE next == [proc[p] EXCEPT !.phase = "exec"]
    <3>1. /\ next \in ProcState /\ next.phase = "exec" /\ next.tx = {}
          /\ next.at = proc[p].at /\ next.build = proc[p].build
      BY <2>3, <1>a DEF ProcState, Phases
    <3> HIDE DEF next
    <3>2. Local(p, next) /\ writer' = writer
      BY <1>5, <2>2, <2>5 DEF Check, Goto, next
    <3>3. next.at \notin recorded
      BY <2>1, <2>3, <2>5, <3>1
    <3>4. IsFiniteSet(next.tx) /\ Cardinality(next.tx) = 0
      BY <3>1, FS_EmptySet
    <3>5. Progress(next, recorded)
      BY <3>1, <2>3 DEF Progress
    <3>6. Transaction(next, recorded)
      <4>1. {next.at} \X (1..0) = {}
        OBVIOUS
      <4> QED BY <3>1, <3>3, <3>4, <4>1, MigrationAssumption DEF Transaction
    <3> QED BY <1>a, <2>3, <3>1, <3>2, <3>5, <3>6, LocalStep
  <2> QED BY <2>4, <2>5
<1>6. ASSUME NEW p \in Process, Exec(p) PROVE MigrationIInv'
  <2> DEFINE change == <<proc[p].at, done(p) + 1>>
  <2>1. /\ proc[p].phase = "exec" /\ writer = p
        /\ UNCHANGED <<wal, schema, recorded, starts>>
        /\ proc[p].at \in Nat /\ proc[p].build \in 0..MaxVersion
        /\ proc[p].at >= 1 /\ proc[p].at <= proc[p].build
        /\ 1..(proc[p].at - 1) \subseteq recorded
        /\ proc[p].at \notin recorded /\ IsFiniteSet(proc[p].tx)
        /\ proc[p].tx \subseteq Change
        /\ proc[p].tx = {proc[p].at} \X (1..done(p)) /\ done(p) < Stmts
    BY <1>6, <1>a, MigrationAssumption DEF Exec, Progress, Transaction, ProcState, done
  <2>2. done(p) \in Nat
    BY <2>1, FS_CardinalityType DEF done
  <2>3. CASE change \in schema
    <3> DEFINE next == [Down EXCEPT !.phase = "failed"]
    <3>1. next \in ProcState /\ next.phase = "failed" /\ next.tx = {}
      BY <1>b DEF Phases
    <3> HIDE DEF next
    <3>2. Local(p, next) /\ writer' = None
      BY <1>6, <2>3 DEF Exec, Fail, next
    <3>3. Progress(next, recorded) /\ Transaction(next, recorded)
      BY <3>1 DEF Progress, Transaction
    <3> QED BY <1>a, <2>1, <3>1, <3>2, <3>3, MigrationAssumption, LocalStep
  <2>4. CASE change \notin schema
    <3> DEFINE next == [proc[p] EXCEPT !.tx = @ \cup {change}]
    <3>1. change \in Change
      BY <2>1, <2>2, MigrationAssumption DEF Change, Version
    <3>2. /\ next \in ProcState /\ next.phase = "exec" /\ next.tx = proc[p].tx \cup {change}
          /\ next.at = proc[p].at /\ next.build = proc[p].build
      BY <2>1, <3>1, <1>a DEF ProcState
    <3>3. change \notin proc[p].tx
      BY <2>1, <2>2
    <3>4. IsFiniteSet(next.tx) /\ Cardinality(next.tx) = done(p) + 1
      <4> HIDE DEF change, next
      <4>1. /\ IsFiniteSet(proc[p].tx \cup {change})
            /\ Cardinality(proc[p].tx \cup {change}) = done(p) + 1
        BY <2>1, <3>3, FS_AddElement DEF done
      <4> QED BY <3>2, <4>1
    <3>5. next.tx = {next.at} \X (1..(done(p) + 1))
      <4>1. 1..(done(p) + 1) = (1..done(p)) \cup {done(p) + 1}
        BY <2>2
      <4> QED BY <2>1, <3>2, <4>1
    <3> HIDE DEF next
    <3>6. Local(p, next) /\ writer' = writer
      BY <1>6, <2>4 DEF Exec, next
    <3>7. Progress(next, recorded)
      BY <3>2, <2>1 DEF Progress
    <3>8. Transaction(next, recorded)
      <4>1. done(p) + 1 <= Stmts
        BY <2>1, <2>2, MigrationAssumption
      <4>2. next.at \notin recorded
        BY <2>1, <3>2
      <4> QED BY <3>2, <3>4, <3>5, <4>1, <4>2 DEF Transaction
    <3> QED BY <1>a, <2>1, <3>2, <3>6, <3>7, <3>8, LocalStep
  <2> QED BY <2>3, <2>4
<1>7. ASSUME NEW p \in Process, CommitMigration(p) PROVE MigrationIInv'
  <2> DEFINE next == [proc[p] EXCEPT !.phase = "begin", !.at = @ + 1, !.tx = {}]
  <2>1. PICK n \in 0..MaxVersion : recorded = 1..n
    BY DEF MigrationIInv, NoGap
  <2>2. /\ proc[p].phase = "exec" /\ writer = p /\ UNCHANGED <<wal, starts>>
        /\ proc[p].at \in Nat /\ proc[p].build \in 0..MaxVersion
        /\ proc[p].at >= 1 /\ proc[p].at <= proc[p].build
        /\ 1..(proc[p].at - 1) \subseteq recorded
        /\ proc[p].at \notin recorded
        /\ proc[p].tx = {proc[p].at} \X (1..Stmts)
        /\ schema' = schema \cup proc[p].tx /\ recorded' = recorded \cup {proc[p].at}
        /\ writer' = None /\ Local(p, next)
    BY <1>7, <1>a, MigrationAssumption
    DEF CommitMigration, Progress, Transaction, ProcState, done
  <2>3. /\ next \in ProcState /\ next.phase = "begin" /\ next.tx = {}
        /\ next.at = proc[p].at + 1 /\ next.build = proc[p].build
    <3>1. proc[p].at + 1 \in 0..MaxVersion + 1
      BY <2>2, MigrationAssumption
    <3> QED BY <3>1, <1>a DEF ProcState, Phases
  <2> HIDE DEF next
  <2>4. proc[p].at = n + 1
    <3>1. n < proc[p].at
      BY <2>1, <2>2, MigrationAssumption
    <3>2. proc[p].at - 1 <= n
      <4>1. CASE proc[p].at = 1
        BY <4>1, <2>1, MigrationAssumption
      <4>2. CASE proc[p].at # 1
        <5>1. proc[p].at - 1 \in 1..(proc[p].at - 1)
          BY <4>2, <2>2
        <5> QED BY <5>1, <2>1, <2>2
      <4> QED BY <4>1, <4>2
    <3> QED BY <3>1, <3>2, <2>1, <2>2, MigrationAssumption
  <2>5. recorded' = 1..(n + 1) /\ n + 1 \in 0..MaxVersion /\ n + 1 \in Version
    BY <2>1, <2>2, <2>4, MigrationAssumption DEF Version
  <2>6. NoGap'
    BY <2>5 DEF NoGap
  <2>7. /\ proc' \in [Process -> ProcState] /\ proc'[p] = next
        /\ \A q \in Process \ {p} : proc'[q] = proc[q]
    BY <1>a, <2>2, <2>3 DEF Local
  <2>8. proc[p].tx \subseteq Change
    BY <1>a DEF ProcState
  <2>9. TypeOK'
    <3>1. recorded' \subseteq Version
      BY <2>5, MigrationAssumption DEF Version
    <3>2. schema' \subseteq Change
      BY <2>2, <2>8 DEF MigrationIInv, TypeOK
    <3> QED BY <3>1, <3>2, <2>2, <2>7 DEF MigrationIInv, TypeOK, ProcState
  <2>10. SchemaMatchesRecord'
    <3>1. schema = {c \in Change : c[1] \in recorded}
      BY DEF MigrationIInv, SchemaMatchesRecord
    <3>2. proc[p].tx = {c \in Change : c[1] = proc[p].at}
      BY <2>2, <2>4, <2>5 DEF Change
    <3> QED BY <3>1, <3>2, <2>2 DEF SchemaMatchesRecord
  <2>11. Exclusive'
    BY <2>2, <2>3, <2>7, <1>a, MigrationAssumption DEF Exclusive
  <2>12. ASSUME NEW q \in Process \ {p}
         PROVE  Progress(proc[q], recorded)' /\ Transaction(proc[q], recorded)'
    <3>1. proc'[q] = proc[q] /\ proc[q].phase # "exec" /\ recorded \subseteq recorded'
      BY <2>7, <2>2, <1>a
    <3>2. Progress(proc[q], recorded) /\ Transaction(proc[q], recorded)
      BY <1>a
    <3> QED BY <3>1, <3>2 DEF Progress, Transaction
  <2>13. Progress(next, recorded') /\ Transaction(next, recorded')
    <3>1. 1..(next.at - 1) \subseteq recorded'
      BY <2>3, <2>4, <2>5
    <3> QED BY <3>1, <2>2, <2>3 DEF Progress, Transaction
  <2>14. (\A q \in Process : Progress(proc[q], recorded) /\ Transaction(proc[q], recorded))'
    BY <2>7, <2>12, <2>13
  <2> QED BY <2>6, <2>9, <2>10, <2>11, <2>14 DEF MigrationIInv
<1>8. ASSUME NEW p \in Process, Constructed(p) PROVE MigrationIInv'
  <2>1. /\ proc[p].phase = "begin" /\ proc[p].at > proc[p].build /\ proc[p].tx = {}
        /\ UNCHANGED <<wal, schema, recorded, writer, starts>> /\ writer # p
        /\ proc[p].at \in Nat /\ proc[p].build \in 0..MaxVersion
        /\ proc[p].at <= proc[p].build + 1 /\ 1..(proc[p].at - 1) \subseteq recorded
    BY <1>8, <1>a, MigrationAssumption DEF Constructed, Progress, Transaction, ProcState
  <2>2. CASE proc[p].repo < Repos
    <3> DEFINE next == [proc[p] EXCEPT !.phase = "open", !.repo = @ + 1, !.at = 0]
    <3>1. next \in ProcState /\ next.phase = "open" /\ next.tx = {}
      <4>1. proc[p].repo \in 0..Repos
        BY <1>a DEF ProcState
      <4>2. proc[p].repo + 1 \in 0..Repos /\ 0 \in 0..MaxVersion + 1
        BY <4>1, <2>2, MigrationAssumption
      <4> QED BY <4>2, <2>1, <1>a DEF ProcState, Phases
    <3> HIDE DEF next
    <3>2. Local(p, next)
      BY <1>8, <2>2 DEF Constructed, next
    <3>3. Progress(next, recorded) /\ Transaction(next, recorded)
      BY <3>1 DEF Progress, Transaction
    <3> QED BY <1>a, <2>1, <3>1, <3>2, <3>3, LocalStep
  <2>3. CASE ~(proc[p].repo < Repos)
    <3> DEFINE next == [proc[p] EXCEPT !.phase = "ready"]
    <3>1. /\ next \in ProcState /\ next.phase = "ready" /\ next.tx = {}
          /\ next.build = proc[p].build
      BY <2>1, <1>a DEF ProcState, Phases
    <3> HIDE DEF next
    <3>2. Local(p, next)
      BY <1>8, <2>3 DEF Constructed, next
    <3>3. 1..next.build \subseteq recorded
      BY <2>1, <3>1, MigrationAssumption
    <3>4. Progress(next, recorded) /\ Transaction(next, recorded)
      BY <3>1, <3>3 DEF Progress, Transaction
    <3> QED BY <1>a, <2>1, <3>1, <3>2, <3>4, LocalStep
  <2> QED BY <2>2, <2>3
<1>9. CASE UNCHANGED vars
  BY <1>9 DEF vars, MigrationIInv, TypeOK, SchemaMatchesRecord, NoGap, Exclusive
<1> QED BY <1>1, <1>2, <1>3, <1>4, <1>5, <1>6, <1>7, <1>8, <1>9 DEF MigrateNext, Run

LEMMA MigrationIInvImplies == MigrationIInv => SchemaSound
<1> SUFFICES ASSUME MigrationIInv PROVE SchemaSound
  OBVIOUS
<1>1. NoDoubleApply
  BY DEF MigrationIInv, Transaction, SchemaMatchesRecord, NoDoubleApply
<1>2. ReadyIsMigrated
  BY DEF MigrationIInv, Progress, ReadyIsMigrated
<1> QED BY <1>1, <1>2 DEF MigrationIInv, SchemaSound

\* Whichever processes start together on an old or a new database, and
\* wherever one is killed, each migration is applied once and entirely, and
\* before anybody relies on it (MigrationRunner.cpp:95-122): for any number of
\* processes, migrations and statements.
THEOREM MigrationsSound == MigrateSpec => []SchemaSound
  BY InitMigrationIInv, NextMigrationIInv, MigrationIInvImplies, PTL DEF MigrateSpec

-----------------------------------------------------------------------------
(* Catalogue.                                                               *)

Names == ({raw.artist : raw \in RawTags} \cup {raw.albumArtist : raw \in RawTags}) \ {NoTag}
AlbumTitles == {raw.album : raw \in RawTags}
TrackTitles == {raw.title : raw \in RawTags} \cup {Stem[p] : p \in Path}

AlbumRow == [title : AlbumTitles, artist : Nat]
TrackRow == [path : Path, title : TrackTitles, artist : Nat, album : Nat,
             deleted : BOOLEAN, raw : RawTags]
Tables == [artists : Seq(Names), albums : Seq(AlbumRow), tracks : Seq(TrackRow)]

WriteJob == [step : {"artist", "albumArtist", "album", "track", "commit"}, path : Path,
             raw : RawTags,
             data : [title : TrackTitles, artist : Names \cup {NoTag},
                     album : AlbumTitles \cup {NoTag}, albumArtist : Names \cup {NoTag}],
             tx : Tables, artist : Nat, albumArtist : Nat, album : Nat]

Single(table) == \A i, j \in DOMAIN table : table[i] = table[j] => i = j

nameIn(d, id) == IF id = 0 THEN NoTag ELSE d.artists[id]

AlbumRefers(d, row) == row.artist \in 0..Len(d.artists)

TrackMatches(d, row) ==
    /\ row.artist \in 0..Len(d.artists) /\ row.album \in 0..Len(d.albums)
    /\ nameIn(d, row.artist) = ArtistOf(row.raw)
    /\ (row.album = 0) <=> (row.raw.album = <<>>)
    /\ row.album # 0 => /\ d.albums[row.album].title = row.raw.album
                        /\ nameIn(d, d.albums[row.album].artist) = AlbumArtistOf(row.raw)
    /\ row.title = IF row.raw.title = <<>> THEN Stem[row.path] ELSE row.raw.title

\* RowsSound, of any version of the tables.
TablesSound(d) ==
    /\ d \in Tables /\ Single(d.artists) /\ Single(d.albums)
    /\ \A i, j \in DOMAIN d.tracks : d.tracks[i].path = d.tracks[j].path => i = j
    /\ \A i \in DOMAIN d.albums : AlbumRefers(d, d.albums[i])
    /\ \A i \in DOMAIN d.tracks : TrackMatches(d, d.tracks[i])

\* The view of an open transaction is sound too, and the ids that upsert() has
\* found so far are those of the tags.
JobSound(j) ==
    /\ j \in WriteJob /\ j.data = extract(j.path, j.raw) /\ TablesSound(j.tx)
    /\ j.step # "artist" =>
           j.artist \in 0..Len(j.tx.artists) /\ nameIn(j.tx, j.artist) = ArtistOf(j.raw)
    /\ j.step \in {"album", "track"} =>
           /\ j.albumArtist \in 0..Len(j.tx.artists)
           /\ nameIn(j.tx, j.albumArtist) = AlbumArtistOf(j.raw)
    /\ j.step = "track" =>
           /\ j.album \in 0..Len(j.tx.albums)
           /\ (j.album = 0) <=> (j.raw.album = <<>>)
           /\ j.album # 0 => j.tx.albums[j.album] = [title |-> j.raw.album,
                                                    artist |-> j.albumArtist]

CatalogueIInv ==
    /\ TablesSound(db) /\ lock \in Scanner \cup {NoTag} /\ writes \in 0..MaxWrites
    /\ job \in [Scanner -> WriteJob \cup {Idle}]
    /\ \A s \in Scanner : job[s] # Idle => lock = s /\ JobSound(job[s])

\* Find or create: no row is lost or doubled, and the id is that of the row.
LEMMA WithRowProperties ==
    ASSUME NEW S, NEW table \in Seq(S), NEW row \in S, Single(table)
    PROVE  /\ WithRow(table, row) \in Seq(S) /\ Single(WithRow(table, row))
           /\ Len(table) <= Len(WithRow(table, row)) /\ Len(WithRow(table, row)) \in Nat
           /\ \A i \in DOMAIN table :
                  i \in DOMAIN WithRow(table, row) /\ WithRow(table, row)[i] = table[i]
           /\ IdOf(WithRow(table, row), row) \in 1..Len(WithRow(table, row))
           /\ WithRow(table, row)[IdOf(WithRow(table, row), row)] = row
           /\ \A i \in DOMAIN WithRow(table, row) :
                  i \in DOMAIN table \/ WithRow(table, row)[i] = row
<1>1. Len(table) \in Nat /\ DOMAIN table = 1..Len(table)
  BY LenProperties
<1>2. CASE \E i \in DOMAIN table : table[i] = row
  <2>1. IdOf(table, row) \in 1..Len(table) /\ table[IdOf(table, row)] = row
    BY <1>1, <1>2 DEF IdOf
  <2>2. WithRow(table, row) = table
    <3>1. IdOf(table, row) # 0
      BY <1>1, <2>1
    <3> QED BY <3>1 DEF WithRow
  <2> QED BY <1>1, <2>1, <2>2
<1>3. CASE ~\E i \in DOMAIN table : table[i] = row
  <2> DEFINE t == Append(table, row)
  <2>1. IdOf(table, row) = 0
    BY <1>3 DEF IdOf
  <2>2. WithRow(table, row) = t
    BY <2>1 DEF WithRow
  <2>3. /\ t \in Seq(S) /\ Len(t) = Len(table) + 1 /\ DOMAIN t = 1..Len(table) + 1
        /\ \A i \in 1..Len(table) : t[i] = table[i]
        /\ t[Len(table) + 1] = row
    BY AppendProperties, <1>1
  <2> HIDE DEF t
  <2>4. Single(t)
    <3>1. \A i \in DOMAIN t : i \in DOMAIN table \/ i = Len(table) + 1
      BY <1>1, <2>3
    <3> QED BY <1>1, <1>3, <2>3, <3>1 DEF Single
  <2>5. Len(table) + 1 \in DOMAIN t /\ t[Len(table) + 1] = row
    BY <1>1, <2>3
  <2>6. IdOf(t, row) \in DOMAIN t /\ t[IdOf(t, row)] = row
    BY <2>5 DEF IdOf
  <2>7. \A i \in DOMAIN t : i \in DOMAIN table \/ t[i] = row
    BY <1>1, <2>3
  <2> QED BY <1>1, <2>2, <2>3, <2>4, <2>6, <2>7
<1> QED BY <1>2, <1>3

\* A table of artists or albums that has grown leaves every reference as it was.
LEMMA GrownArtists ==
    ASSUME NEW d, TablesSound(d), NEW t \in Seq(Names), Single(t), Len(d.artists) <= Len(t),
           \A i \in DOMAIN d.artists : t[i] = d.artists[i]
    PROVE  /\ TablesSound([d EXCEPT !.artists = t])
           /\ \A id \in 0..Len(d.artists) :
                 /\ id \in 0..Len(t)
                 /\ nameIn([d EXCEPT !.artists = t], id) = nameIn(d, id)
<1> DEFINE e == [d EXCEPT !.artists = t]
<1>1. /\ e \in Tables /\ e.artists = t /\ e.albums = d.albums /\ e.tracks = d.tracks
      /\ d \in Tables
  BY DEF TablesSound, Tables
<1>2. /\ Len(t) \in Nat /\ Len(d.artists) \in Nat /\ DOMAIN d.artists = 1..Len(d.artists)
      /\ Len(d.albums) \in Nat /\ DOMAIN d.albums = 1..Len(d.albums)
  BY <1>1, LenProperties DEF Tables
<1> HIDE DEF e
<1>3. \A id \in 0..Len(d.artists) : id \in 0..Len(t) /\ nameIn(e, id) = nameIn(d, id)
  BY <1>1, <1>2 DEF nameIn
<1>4. \A i \in DOMAIN e.albums : AlbumRefers(e, e.albums[i])
  BY <1>1, <1>2, <1>3 DEF TablesSound, AlbumRefers
<1>5. ASSUME NEW i \in DOMAIN e.tracks PROVE TrackMatches(e, e.tracks[i])
  <2>1. TrackMatches(d, d.tracks[i])
    BY <1>1 DEF TablesSound
  <2>2. \A a \in DOMAIN d.albums : d.albums[a].artist \in 0..Len(d.artists)
    BY DEF TablesSound, AlbumRefers
  <2>3. d.tracks[i].album # 0 => d.tracks[i].album \in DOMAIN d.albums
    BY <1>2, <2>1 DEF TrackMatches
  <2> QED BY <1>1, <1>2, <1>3, <2>1, <2>2, <2>3 DEF TrackMatches
<1> QED BY <1>1, <1>3, <1>4, <1>5 DEF TablesSound, e

LEMMA GrownAlbums ==
    ASSUME NEW d, TablesSound(d), NEW t \in Seq(AlbumRow), Single(t), Len(d.albums) <= Len(t),
           \A i \in DOMAIN d.albums : t[i] = d.albums[i],
           \A i \in DOMAIN t : AlbumRefers(d, t[i])
    PROVE  TablesSound([d EXCEPT !.albums = t])
<1> DEFINE e == [d EXCEPT !.albums = t]
<1>1. /\ e \in Tables /\ e.artists = d.artists /\ e.albums = t /\ e.tracks = d.tracks
      /\ d \in Tables
  BY DEF TablesSound, Tables
<1>2. /\ Len(t) \in Nat /\ Len(d.albums) \in Nat /\ DOMAIN d.albums = 1..Len(d.albums)
  BY <1>1, LenProperties DEF Tables
<1> HIDE DEF e
<1>3. \A id : nameIn(e, id) = nameIn(d, id)
  BY <1>1 DEF nameIn
<1>4. \A i \in DOMAIN e.albums : AlbumRefers(e, e.albums[i])
  BY <1>1 DEF AlbumRefers
<1>5. ASSUME NEW i \in DOMAIN e.tracks PROVE TrackMatches(e, e.tracks[i])
  <2>1. TrackMatches(d, d.tracks[i])
    BY <1>1 DEF TablesSound
  <2>2. /\ d.tracks[i].album # 0 => d.tracks[i].album \in DOMAIN d.albums
        /\ d.tracks[i].album \in 0..Len(t)
    BY <1>2, <2>1 DEF TrackMatches
  <2> QED BY <1>1, <1>3, <2>1, <2>2 DEF TrackMatches
<1> QED BY <1>1, <1>4, <1>5 DEF TablesSound, e

\* A row that matches its tags, in the place of the path's row or as a new one.
LEMMA WrittenTrack ==
    ASSUME NEW d, TablesSound(d), NEW row \in TrackRow, TrackMatches(d, row)
    PROVE  TablesSound([d EXCEPT !.tracks = writeTrack(@, row)])
<1> DEFINE t == writeTrack(d.tracks, row)
           e == [d EXCEPT !.tracks = t]
<1>1. d \in Tables /\ d.tracks \in Seq(TrackRow)
  BY DEF TablesSound, Tables
<1>2. /\ Len(d.tracks) \in Nat /\ DOMAIN d.tracks = 1..Len(d.tracks)
      /\ \A i \in DOMAIN d.tracks : d.tracks[i] \in TrackRow
  BY <1>1, LenProperties, ElementOfSeq
<1>3. /\ t \in Seq(TrackRow)
      /\ \A i, j \in DOMAIN t : t[i].path = t[j].path => i = j
      /\ \A i \in DOMAIN t : t[i] = row \/ (i \in DOMAIN d.tracks /\ t[i] = d.tracks[i])
  <2>1. CASE \E i \in DOMAIN d.tracks : d.tracks[i].path = row.path
    <3>1. t = [i \in DOMAIN d.tracks |->
                  IF d.tracks[i].path = row.path THEN row ELSE d.tracks[i]]
      BY <2>1 DEF writeTrack, updated
    <3> HIDE DEF t
    <3>2. t \in [1..Len(d.tracks) -> TrackRow]
      BY <1>2, <3>1
    <3>3. t \in Seq(TrackRow)
      BY <1>2, <3>2
    <3>4. \A i \in DOMAIN t : i \in DOMAIN d.tracks /\ t[i].path = d.tracks[i].path
      BY <3>1
    <3> QED BY <3>1, <3>3, <3>4 DEF TablesSound
  <2>2. CASE ~\E i \in DOMAIN d.tracks : d.tracks[i].path = row.path
    <3>1. t = Append(d.tracks, row)
      BY <2>2 DEF writeTrack
    <3> HIDE DEF t
    <3>2. /\ t \in Seq(TrackRow) /\ DOMAIN t = 1..Len(d.tracks) + 1
          /\ \A i \in 1..Len(d.tracks) : t[i] = d.tracks[i]
          /\ t[Len(d.tracks) + 1] = row
      BY <1>1, <1>2, <3>1, AppendProperties
    <3>3. \A i \in DOMAIN t : i \in DOMAIN d.tracks \/ i = Len(d.tracks) + 1
      BY <1>2, <3>2
    <3> QED BY <1>2, <2>2, <3>2, <3>3 DEF TablesSound
  <2> QED BY <2>1, <2>2
<1> HIDE DEF t
<1>4. e \in Tables /\ e.artists = d.artists /\ e.albums = d.albums /\ e.tracks = t
  BY <1>1, <1>3 DEF Tables
<1> HIDE DEF e
<1>5. \A r : TrackMatches(d, r) => TrackMatches(e, r)
  BY <1>4 DEF TrackMatches, nameIn
<1>6. \A i \in DOMAIN e.tracks : TrackMatches(e, e.tracks[i])
  BY <1>3, <1>4, <1>5 DEF TablesSound
<1>7. TablesSound(e)
  BY <1>3, <1>4, <1>6 DEF TablesSound, AlbumRefers
<1> QED BY <1>7 DEF e, t

LEMMA DeletedTrack ==
    ASSUME NEW d, TablesSound(d), NEW id \in DOMAIN d.tracks
    PROVE  TablesSound([d EXCEPT !.tracks[id].deleted = TRUE])
<1> DEFINE e == [d EXCEPT !.tracks[id].deleted = TRUE]
<1>1. d \in Tables /\ d.tracks \in Seq(TrackRow)
  BY DEF TablesSound, Tables
<1>2. /\ Len(d.tracks) \in Nat /\ DOMAIN d.tracks = 1..Len(d.tracks)
      /\ \A i \in DOMAIN d.tracks : d.tracks[i] \in TrackRow
  BY <1>1, LenProperties, ElementOfSeq
<1> DEFINE gone == [d.tracks[id] EXCEPT !.deleted = TRUE]
<1>3. gone \in TrackRow /\ TrackMatches(d, gone) /\ gone.path = d.tracks[id].path
  BY <1>2 DEF TrackRow, TablesSound, TrackMatches
<1>4. e = [d EXCEPT !.tracks = writeTrack(@, gone)]
  <2>1. \A i \in DOMAIN d.tracks : d.tracks[i].path = gone.path <=> i = id
    BY <1>3 DEF TablesSound
  <2> HIDE DEF gone
  <2>2. writeTrack(d.tracks, gone) = [i \in DOMAIN d.tracks |-> IF i = id THEN gone ELSE d.tracks[i]]
    BY <2>1 DEF writeTrack, updated
  <2>3. [d.tracks EXCEPT ![id] = gone] = [i \in DOMAIN d.tracks |-> IF i = id THEN gone ELSE d.tracks[i]]
    BY <1>1
  <2> QED BY <2>2, <2>3 DEF gone
<1> HIDE DEF gone
<1> QED BY <1>3, <1>4, WrittenTrack

LEMMA IdleIsNoJob == Idle \notin WriteJob /\ Idle.step = "idle"
  BY DEF Idle, WriteJob

\* A step of the scanner that holds the lock, inside its transaction.
LEMMA StatementStep ==
    ASSUME CatalogueIInv, NEW s \in Scanner, job[s] # Idle, NEW j, JobSound(j),
           job' = [job EXCEPT ![s] = j], UNCHANGED <<db, lock, writes>>
    PROVE  CatalogueIInv'
<1>1. j \in WriteJob
  BY DEF JobSound
<1>2. job' \in [Scanner -> WriteJob \cup {Idle}]
  BY <1>1 DEF CatalogueIInv
<1>3. \A r \in Scanner : job'[r] # Idle => lock' = r /\ JobSound(job'[r])
  BY DEF CatalogueIInv
<1> QED BY <1>2, <1>3 DEF CatalogueIInv

\* The transaction ends, and the lock is free.
LEMMA EndStep ==
    ASSUME CatalogueIInv, NEW s \in Scanner, job[s] # Idle, TablesSound(db'),
           job' = [job EXCEPT ![s] = Idle], lock' = NoTag, UNCHANGED writes
    PROVE  CatalogueIInv'
<1>1. job' \in [Scanner -> WriteJob \cup {Idle}]
  BY DEF CatalogueIInv
<1>2. \A r \in Scanner : job'[r] = Idle
  BY DEF CatalogueIInv
<1> QED BY <1>1, <1>2 DEF CatalogueIInv

LEMMA ExtractProperties ==
    ASSUME NEW p \in Path, NEW raw \in RawTags
    PROVE  /\ extract(p, raw) \in
                  [title : TrackTitles, artist : Names \cup {NoTag},
                   album : AlbumTitles \cup {NoTag}, albumArtist : Names \cup {NoTag}]
           /\ extract(p, raw).title = IF raw.title = <<>> THEN Stem[p] ELSE raw.title
           /\ extract(p, raw).artist = ArtistOf(raw)
           /\ noName(ArtistOf(raw)) <=> ArtistOf(raw) = NoTag
           /\ IF extract(p, raw).albumArtist = NoTag
              THEN AlbumArtistOf(raw) = ArtistOf(raw)
              ELSE /\ extract(p, raw).albumArtist = AlbumArtistOf(raw)
                   /\ ~noName(AlbumArtistOf(raw))
           /\ IF raw.album = <<>> THEN noName(extract(p, raw).album)
              ELSE extract(p, raw).album = raw.album /\ ~noName(raw.album)
<1>1. raw.artist \in Names /\ raw.albumArtist \in Names \cup {NoTag} /\ raw.album \in AlbumTitles
      /\ raw.title \in TrackTitles /\ Stem[p] \in TrackTitles
  BY CatalogueAssumption DEF Names, AlbumTitles, TrackTitles
<1>2. raw.artist # NoTag /\ raw.album # NoTag
  BY CatalogueAssumption
<1>3. /\ ArtistOf(raw) \in Names \cup {NoTag} /\ nonEmpty(raw.album) \in AlbumTitles \cup {NoTag}
      /\ firstStringProperty(raw.albumArtist) \in Names \cup {NoTag}
  BY <1>1 DEF ArtistOf, nonEmpty, firstStringProperty
<1>4. /\ extract(p, raw).title = (IF raw.title = <<>> THEN Stem[p] ELSE raw.title)
      /\ extract(p, raw).artist = ArtistOf(raw) /\ extract(p, raw).album = nonEmpty(raw.album)
      /\ extract(p, raw).albumArtist = firstStringProperty(raw.albumArtist)
  BY DEF extract, ArtistOf
<1>5. extract(p, raw) \in
                  [title : TrackTitles, artist : Names \cup {NoTag},
                   album : AlbumTitles \cup {NoTag}, albumArtist : Names \cup {NoTag}]
  BY <1>1, <1>3 DEF extract, ArtistOf
<1>6. noName(ArtistOf(raw)) <=> ArtistOf(raw) = NoTag
  BY DEF ArtistOf, nonEmpty, noName
<1>7. IF extract(p, raw).albumArtist = NoTag
      THEN AlbumArtistOf(raw) = ArtistOf(raw)
      ELSE /\ extract(p, raw).albumArtist = AlbumArtistOf(raw)
           /\ ~noName(AlbumArtistOf(raw))
  BY <1>4 DEF firstStringProperty, nonEmpty, AlbumArtistOf, noName
<1>8. IF raw.album = <<>> THEN noName(extract(p, raw).album)
      ELSE extract(p, raw).album = raw.album /\ ~noName(raw.album)
  BY <1>2, <1>4 DEF nonEmpty, noName
<1> QED BY <1>4, <1>5, <1>6, <1>7, <1>8

\* resolveArtist(), on the tables of a transaction.
LEMMA ResolvedArtist ==
    ASSUME NEW d, TablesSound(d), NEW name \in Names \cup {NoTag},
           noName(name) => name = NoTag, name # NoTag => name \in Names
    PROVE  LET r == resolveArtist(d.artists, name)
               e == [d EXCEPT !.artists = r.table]
           IN  /\ TablesSound(e) /\ r.id \in 0..Len(e.artists) /\ nameIn(e, r.id) = name
               /\ e.albums = d.albums /\ e.tracks = d.tracks
               /\ \A id \in 0..Len(d.artists) :
                     id \in 0..Len(e.artists) /\ nameIn(e, id) = nameIn(d, id)
<1> DEFINE r == resolveArtist(d.artists, name)
           t == r.table
           e == [d EXCEPT !.artists = t]
<1>1. d \in Tables /\ d.artists \in Seq(Names) /\ Single(d.artists) /\ Len(d.artists) \in Nat
  BY LenProperties DEF TablesSound, Tables
<1>2. /\ t \in Seq(Names) /\ Single(t) /\ Len(d.artists) <= Len(t) /\ Len(t) \in Nat
      /\ \A i \in DOMAIN d.artists : t[i] = d.artists[i]
      /\ name = NoTag => r.id = 0
      /\ name # NoTag => r.id \in 1..Len(t) /\ t[r.id] = name
  <2>1. CASE noName(name)
    <3>1. name = NoTag /\ t = d.artists /\ r.id = 0
      BY <2>1 DEF resolveArtist
    <3> HIDE DEF r, t
    <3> QED BY <1>1, <3>1
  <2>2. CASE ~noName(name)
    <3>1. name # NoTag /\ name \in Names
      BY <2>2 DEF noName
    <3>2. t = WithRow(d.artists, name) /\ r.id = IdOf(WithRow(d.artists, name), name)
      BY <2>2 DEF resolveArtist
    <3> HIDE DEF r, t
    <3> DEFINE a == d.artists
               w == WithRow(a, name)
    <3>a. a \in Seq(Names) /\ Single(a)
      BY <1>1
    <3> HIDE DEF a
    <3>3. /\ w \in Seq(Names) /\ Single(w) /\ Len(a) <= Len(w) /\ Len(w) \in Nat
          /\ \A i \in DOMAIN a : w[i] = a[i]
          /\ IdOf(w, name) \in 1..Len(w) /\ w[IdOf(w, name)] = name
      BY <3>a, <3>1, WithRowProperties
    <3> USE DEF a
    <3>4. t[r.id] = name
      BY <3>2, <3>3
    <3> QED BY <3>1, <3>2, <3>3, <3>4
  <2> QED BY <2>1, <2>2
<1>3. e.artists = t /\ e.albums = d.albums /\ e.tracks = d.tracks
  BY <1>1 DEF Tables
<1> HIDE DEF r, t
<1>4. /\ TablesSound(e)
      /\ \A id \in 0..Len(d.artists) : id \in 0..Len(t) /\ nameIn(e, id) = nameIn(d, id)
  BY <1>2, GrownArtists
<1>5. r.id \in 0..Len(t)
  BY <1>2
<1> HIDE DEF e
<1>6. nameIn(e, r.id) = name
  <2>1. CASE name = NoTag
    BY <1>2, <2>1 DEF nameIn
  <2>2. CASE name # NoTag
    <3>1. r.id # 0 /\ t[r.id] = name
      BY <1>2, <2>2
    <3> QED BY <1>3, <3>1 DEF nameIn
  <2> QED BY <2>1, <2>2
<1> QED BY <1>3, <1>4, <1>5, <1>6 DEF e, t, r

\* resolveAlbum(), on the tables of a transaction.
LEMMA ResolvedAlbum ==
    ASSUME NEW d, TablesSound(d), NEW title \in AlbumTitles \cup {NoTag},
           ~noName(title) => title \in AlbumTitles, NEW artist \in 0..Len(d.artists)
    PROVE  LET r == resolveAlbum(d.albums, title, artist)
               e == [d EXCEPT !.albums = r.table]
           IN  /\ TablesSound(e) /\ r.id \in 0..Len(e.albums) /\ e.artists = d.artists
               /\ r.id = 0 <=> noName(title)
               /\ r.id # 0 => e.albums[r.id] = [title |-> title, artist |-> artist]
<1> DEFINE r == resolveAlbum(d.albums, title, artist)
           t == r.table
           e == [d EXCEPT !.albums = t]
           row == [title |-> title, artist |-> artist]
           a == d.albums
<1>1. d \in Tables /\ a \in Seq(AlbumRow) /\ Single(a) /\ Len(a) \in Nat /\ DOMAIN a = 1..Len(a)
      /\ Len(d.artists) \in Nat
  BY LenProperties DEF TablesSound, Tables
<1>2. e.artists = d.artists /\ e.albums = t
  BY <1>1 DEF Tables
<1>3. \A i \in DOMAIN a : AlbumRefers(d, a[i])
  BY DEF TablesSound
<1> HIDE DEF a
<1>4. CASE noName(title)
  <2>1. t = a /\ r.id = 0
    BY <1>4 DEF resolveAlbum, a
  <2> HIDE DEF r, t
  <2>2. TablesSound(e)
    BY <1>1, <1>3, <2>1, GrownAlbums DEF a
  <2> QED BY <1>1, <1>2, <1>4, <2>1, <2>2 DEF r, t
<1>5. CASE ~noName(title)
  <2>1. t = WithRow(a, row) /\ r.id = IdOf(WithRow(a, row), row)
    BY <1>5 DEF resolveAlbum, a
  <2> HIDE DEF r, t
  <2>2. row \in AlbumRow /\ AlbumRefers(d, row)
    BY <1>1, <1>5 DEF AlbumRow, AlbumRefers
  <2> HIDE DEF row
  <2>3. /\ t \in Seq(AlbumRow) /\ Single(t) /\ Len(a) <= Len(t) /\ Len(t) \in Nat
        /\ \A i \in DOMAIN a : t[i] = a[i]
        /\ r.id \in 1..Len(t) /\ t[r.id] = row
        /\ \A i \in DOMAIN t : i \in DOMAIN a \/ t[i] = row
    <3> DEFINE w == WithRow(a, row)
    <3>1. /\ w \in Seq(AlbumRow) /\ Single(w) /\ Len(a) <= Len(w) /\ Len(w) \in Nat
          /\ \A i \in DOMAIN a : w[i] = a[i]
          /\ IdOf(w, row) \in 1..Len(w) /\ w[IdOf(w, row)] = row
          /\ \A i \in DOMAIN w : i \in DOMAIN a \/ w[i] = row
      <4>1. a \in Seq(AlbumRow) /\ Single(a)
        BY <1>1
      <4>2. row \in AlbumRow
        BY <2>2
      <4>3. /\ w \in Seq(AlbumRow) /\ Single(w) /\ Len(a) <= Len(w) /\ Len(w) \in Nat
            /\ \A i \in DOMAIN a : w[i] = a[i]
            /\ IdOf(w, row) \in 1..Len(w) /\ w[IdOf(w, row)] = row
        BY <4>1, <4>2, WithRowProperties
      <4>4. \A i \in DOMAIN w : i \in DOMAIN a \/ w[i] = row
        BY <4>1, <4>2, WithRowProperties
      <4> QED BY <4>3, <4>4
    <3> HIDE DEF w
    <3> QED BY <2>1, <3>1 DEF w
  <2>4. \A i \in DOMAIN t : AlbumRefers(d, t[i])
    BY <1>3, <2>2, <2>3
  <2>5. TablesSound(e)
    BY <2>3, <2>4, GrownAlbums DEF a
  <2>6. r.id \in 0..Len(t) /\ r.id # 0
    BY <2>3
  <2> QED BY <1>2, <1>5, <2>3, <2>5, <2>6 DEF r, t, row
<1> QED BY <1>4, <1>5

LEMMA BeginKeepsRows ==
    ASSUME CatalogueIInv, NEW s \in Scanner, NEW p \in Path, NEW raw \in RawTags,
           Begin(s, p, raw)
    PROVE  CatalogueIInv'
<1> DEFINE j == [step |-> "artist", path |-> p, raw |-> raw,
                 data |-> extract(p, raw), tx |-> db,
                 artist |-> 0, albumArtist |-> 0, album |-> 0]
<1>1. /\ job[s] = Idle /\ lock = NoTag /\ lock' = s /\ writes' \in 0..MaxWrites
      /\ job' = [job EXCEPT ![s] = j] /\ db' = db
  BY CatalogueAssumption DEF Begin, CatalogueIInv
<1>2. db \in Tables /\ TablesSound(db)
  BY DEF CatalogueIInv, TablesSound
<1>3. j \in WriteJob
  BY <1>2, ExtractProperties DEF WriteJob
<1>4. JobSound(j)
  BY <1>2, <1>3 DEF JobSound
<1> HIDE DEF j
<1>5. job' \in [Scanner -> WriteJob \cup {Idle}]
  BY <1>1, <1>3 DEF CatalogueIInv
<1>6. \A r \in Scanner : job[r] = Idle
  BY <1>1, CatalogueAssumption DEF CatalogueIInv
<1>7. \A r \in Scanner : job'[r] # Idle => lock' = r /\ JobSound(job'[r])
  BY <1>1, <1>4, <1>6 DEF CatalogueIInv
<1> QED BY <1>1, <1>2, <1>5, <1>7 DEF CatalogueIInv

LEMMA ArtistKeepsRows ==
    ASSUME CatalogueIInv, NEW s \in Scanner, Artist(s) PROVE CatalogueIInv'
<1> DEFINE j == job[s]
           r == resolveArtist(j.tx.artists, j.data.artist)
           e == [j.tx EXCEPT !.artists = r.table]
           k == [j EXCEPT !.tx = e, !.artist = r.id, !.step = "albumArtist"]
<1>1. job[s] # Idle /\ JobSound(j) /\ j \in WriteJob /\ j.step = "artist"
  BY IdleIsNoJob DEF Artist, CatalogueIInv, JobSound
<1>2. j.data.artist = ArtistOf(j.raw) /\ TablesSound(j.tx) /\ j.path \in Path /\ j.raw \in RawTags
  BY <1>1, ExtractProperties DEF JobSound, WriteJob
<1>3. job' = [job EXCEPT ![s] = k] /\ UNCHANGED <<db, lock, writes>>
  BY <1>1 DEF Artist, CatalogueIInv, WriteJob, Tables
<1> HIDE DEF j
<1>4. /\ j.data.artist \in Names \cup {NoTag}
      /\ noName(j.data.artist) => j.data.artist = NoTag
      /\ j.data.artist # NoTag => j.data.artist \in Names
  BY <1>1, <1>2, ExtractProperties DEF WriteJob
<1>5. TablesSound(e) /\ r.id \in 0..Len(e.artists) /\ nameIn(e, r.id) = ArtistOf(j.raw)
  BY <1>2, <1>4, ResolvedArtist
<1> HIDE DEF r, e
<1>6. e \in Tables /\ r.id \in Nat
  <2>1. e \in Tables
    BY <1>5 DEF TablesSound
  <2>2. Len(e.artists) \in Nat
    BY <2>1, LenProperties DEF Tables
  <2> QED BY <1>5, <2>1, <2>2
<1>7. /\ k \in WriteJob /\ k.step = "albumArtist" /\ k.tx = e /\ k.artist = r.id
      /\ k.raw = j.raw /\ k.path = j.path /\ k.data = j.data
  BY <1>1, <1>6 DEF WriteJob
<1> HIDE DEF k
<1>8. JobSound(k)
  BY <1>1, <1>5, <1>7 DEF JobSound
<1> QED BY <1>1, <1>3, <1>8, StatementStep

LEMMA AlbumArtistKeepsRows ==
    ASSUME CatalogueIInv, NEW s \in Scanner, AlbumArtist(s) PROVE CatalogueIInv'
<1> DEFINE j == job[s]
           r == IF j.data.albumArtist = NoTag
                THEN [table |-> j.tx.artists, id |-> j.artist]
                ELSE resolveArtist(j.tx.artists, j.data.albumArtist)
           e == [j.tx EXCEPT !.artists = r.table]
           k == [j EXCEPT !.tx = e, !.albumArtist = r.id, !.step = "album"]
<1>1. job[s] # Idle /\ JobSound(j) /\ j \in WriteJob /\ j.step = "albumArtist"
  BY IdleIsNoJob DEF AlbumArtist, CatalogueIInv, JobSound
<1>2. /\ TablesSound(j.tx) /\ j.tx \in Tables /\ j.path \in Path /\ j.raw \in RawTags
      /\ j.artist \in 0..Len(j.tx.artists) /\ nameIn(j.tx, j.artist) = ArtistOf(j.raw)
  BY <1>1 DEF JobSound, WriteJob
<1>3. job' = [job EXCEPT ![s] = k] /\ UNCHANGED <<db, lock, writes>>
  BY <1>1 DEF AlbumArtist, CatalogueIInv, WriteJob, Tables
<1>4. IF j.data.albumArtist = NoTag THEN AlbumArtistOf(j.raw) = ArtistOf(j.raw)
      ELSE /\ j.data.albumArtist = AlbumArtistOf(j.raw)
           /\ ~noName(AlbumArtistOf(j.raw))
  BY <1>1, <1>2, ExtractProperties DEF JobSound
<1>5. j.data.albumArtist \in Names \cup {NoTag}
  BY <1>1 DEF WriteJob
<1> HIDE DEF j
<1>6. /\ TablesSound(e) /\ r.id \in 0..Len(e.artists)
      /\ nameIn(e, r.id) = AlbumArtistOf(j.raw)
      /\ j.artist \in 0..Len(e.artists) /\ nameIn(e, j.artist) = ArtistOf(j.raw)
  <2>1. CASE j.data.albumArtist = NoTag
    <3>1. e = j.tx /\ r.id = j.artist
      BY <1>2, <2>1 DEF Tables
    <3> HIDE DEF e, r
    <3> QED BY <1>2, <1>4, <2>1, <3>1
  <2>2. CASE j.data.albumArtist # NoTag
    <3>1. r = resolveArtist(j.tx.artists, j.data.albumArtist)
      BY <2>2
    <3>2. j.data.albumArtist \in Names /\ ~noName(j.data.albumArtist)
      BY <1>4, <1>5, <2>2
    <3> HIDE DEF r
    <3> QED BY <1>2, <1>4, <2>2, <3>1, <3>2, ResolvedArtist
  <2> QED BY <2>1, <2>2
<1> HIDE DEF r, e
<1>7. e \in Tables /\ r.id \in Nat
  <2>1. e \in Tables
    BY <1>6 DEF TablesSound
  <2>2. Len(e.artists) \in Nat
    BY <2>1, LenProperties DEF Tables
  <2> QED BY <1>6, <2>1, <2>2
<1>8. /\ k \in WriteJob /\ k.step = "album" /\ k.tx = e /\ k.artist = j.artist
      /\ k.albumArtist = r.id /\ k.raw = j.raw /\ k.path = j.path /\ k.data = j.data
  BY <1>1, <1>7 DEF WriteJob
<1> HIDE DEF k
<1>9. JobSound(k)
  BY <1>1, <1>6, <1>8 DEF JobSound
<1> QED BY <1>1, <1>3, <1>9, StatementStep

LEMMA AlbumKeepsRows ==
    ASSUME CatalogueIInv, NEW s \in Scanner, Album(s) PROVE CatalogueIInv'
<1> DEFINE j == job[s]
           r == resolveAlbum(j.tx.albums, j.data.album, j.albumArtist)
           e == [j.tx EXCEPT !.albums = r.table]
           k == [j EXCEPT !.tx = e, !.album = r.id, !.step = "track"]
<1>1. job[s] # Idle /\ JobSound(j) /\ j \in WriteJob /\ j.step = "album"
  BY IdleIsNoJob DEF Album, CatalogueIInv, JobSound
<1>2. /\ TablesSound(j.tx) /\ j.tx \in Tables /\ j.path \in Path /\ j.raw \in RawTags
      /\ j.artist \in 0..Len(j.tx.artists) /\ nameIn(j.tx, j.artist) = ArtistOf(j.raw)
      /\ j.albumArtist \in 0..Len(j.tx.artists)
      /\ nameIn(j.tx, j.albumArtist) = AlbumArtistOf(j.raw)
  BY <1>1 DEF JobSound, WriteJob
<1>3. job' = [job EXCEPT ![s] = k] /\ UNCHANGED <<db, lock, writes>>
  BY <1>1 DEF Album, CatalogueIInv, WriteJob, Tables
<1>4. IF j.raw.album = <<>> THEN noName(j.data.album)
      ELSE j.data.album = j.raw.album /\ ~noName(j.raw.album)
  BY <1>1, <1>2, ExtractProperties DEF JobSound
<1>5. /\ j.data.album \in AlbumTitles \cup {NoTag}
      /\ ~noName(j.data.album) => j.data.album \in AlbumTitles
  BY <1>1 DEF WriteJob, noName
<1> HIDE DEF j
<1>6. /\ TablesSound(e) /\ r.id \in 0..Len(e.albums) /\ e.artists = j.tx.artists
      /\ r.id = 0 <=> noName(j.data.album)
      /\ r.id # 0 => e.albums[r.id] = [title |-> j.data.album, artist |-> j.albumArtist]
  BY <1>2, <1>5, ResolvedAlbum
<1> HIDE DEF r, e
<1>7. e \in Tables /\ r.id \in Nat
  <2>1. e \in Tables
    BY <1>6 DEF TablesSound
  <2>2. Len(e.albums) \in Nat
    BY <2>1, LenProperties DEF Tables
  <2> QED BY <1>6, <2>1, <2>2
<1>8. /\ k \in WriteJob /\ k.step = "track" /\ k.tx = e /\ k.artist = j.artist /\ k.album = r.id
      /\ k.albumArtist = j.albumArtist /\ k.raw = j.raw /\ k.path = j.path /\ k.data = j.data
  BY <1>1, <1>7 DEF WriteJob
<1>9. \A id : nameIn(e, id) = nameIn(j.tx, id)
  BY <1>6 DEF nameIn
<1> HIDE DEF k
<1>10. JobSound(k)
  BY <1>1, <1>2, <1>4, <1>6, <1>8, <1>9 DEF JobSound
<1> QED BY <1>1, <1>3, <1>10, StatementStep

LEMMA TrackKeepsRows ==
    ASSUME CatalogueIInv, NEW s \in Scanner, Track(s) PROVE CatalogueIInv'
<1> DEFINE j == job[s]
           row == [path |-> j.path, title |-> j.data.title, artist |-> j.artist,
                   album |-> j.album, deleted |-> FALSE, raw |-> j.raw]
           e == [j.tx EXCEPT !.tracks = writeTrack(@, row)]
           k == [j EXCEPT !.tx = e, !.step = "commit"]
<1>1. job[s] # Idle /\ JobSound(j) /\ j \in WriteJob /\ j.step = "track"
  BY IdleIsNoJob DEF Track, CatalogueIInv, JobSound
<1>2. /\ TablesSound(j.tx) /\ j.tx \in Tables /\ j.path \in Path /\ j.raw \in RawTags
      /\ j.artist \in 0..Len(j.tx.artists) /\ nameIn(j.tx, j.artist) = ArtistOf(j.raw)
      /\ nameIn(j.tx, j.albumArtist) = AlbumArtistOf(j.raw)
      /\ j.album \in 0..Len(j.tx.albums)
      /\ (j.album = 0) <=> (j.raw.album = <<>>)
      /\ j.album # 0 => j.tx.albums[j.album] = [title |-> j.raw.album, artist |-> j.albumArtist]
  BY <1>1 DEF JobSound, WriteJob
<1>3. job' = [job EXCEPT ![s] = k] /\ UNCHANGED <<db, lock, writes>>
  BY <1>1 DEF Track, CatalogueIInv, WriteJob, Tables
<1>4. j.data.title = IF j.raw.title = <<>> THEN Stem[j.path] ELSE j.raw.title
  BY <1>1, <1>2, ExtractProperties DEF JobSound
<1>5. j.data.title \in TrackTitles /\ j.artist \in Nat /\ j.album \in Nat
  BY <1>1 DEF WriteJob
<1> HIDE DEF j
<1>6. row \in TrackRow
  BY <1>2, <1>5 DEF TrackRow
<1>7. TrackMatches(j.tx, row)
  BY <1>2, <1>4 DEF TrackMatches
<1> HIDE DEF row
<1>8. TablesSound(e) /\ e.artists = j.tx.artists
  BY <1>2, <1>6, <1>7, WrittenTrack DEF Tables
<1> HIDE DEF e
<1>9. /\ k \in WriteJob /\ k.step = "commit" /\ k.tx = e /\ k.artist = j.artist
      /\ k.raw = j.raw /\ k.path = j.path /\ k.data = j.data
  <2>1. e \in Tables
    BY <1>8 DEF TablesSound
  <2> QED BY <1>1, <2>1 DEF WriteJob
<1> HIDE DEF k
<1>10. JobSound(k)
  BY <1>1, <1>2, <1>8, <1>9 DEF JobSound, nameIn
<1> QED BY <1>1, <1>3, <1>10, StatementStep

LEMMA WriterKeepsRows == CatalogueIInv /\ WNext => CatalogueIInv'
<1> SUFFICES ASSUME CatalogueIInv, NEW s \in Scanner,
                    upsert(s) \/ \E id \in DOMAIN db.tracks : softDelete(s, id)
             PROVE  CatalogueIInv'
  BY DEF WNext
<1>1. CASE Commit(s)
  <2>1. job[s] # Idle /\ TablesSound(job[s].tx)
    BY <1>1, IdleIsNoJob DEF Commit, CatalogueIInv, JobSound
  <2> QED BY <1>1, <2>1, EndStep DEF Commit
<1>2. CASE Rollback(s)
  <2>1. TablesSound(db')
    BY <1>2 DEF Rollback, CatalogueIInv
  <2> QED BY <1>2, <2>1, EndStep DEF Rollback
<1>3. ASSUME NEW id \in DOMAIN db.tracks, softDelete(s, id) PROVE CatalogueIInv'
  <2>1. TablesSound(db')
    BY <1>3, DeletedTrack DEF softDelete, CatalogueIInv
  <2>2. writes' \in 0..MaxWrites /\ UNCHANGED <<job, lock>>
    BY <1>3, CatalogueAssumption DEF softDelete, CatalogueIInv
  <2> QED BY <2>1, <2>2 DEF CatalogueIInv
<1> QED BY <1>1, <1>2, <1>3, BeginKeepsRows, ArtistKeepsRows, AlbumArtistKeepsRows,
           AlbumKeepsRows, TrackKeepsRows DEF upsert

LEMMA CatalogueInitIInv == WInit => CatalogueIInv
<1> SUFFICES ASSUME WInit PROVE CatalogueIInv
  OBVIOUS
<1>1. EmptyDb \in Tables /\ EmptyDb.artists = <<>> /\ EmptyDb.albums = <<>>
      /\ EmptyDb.tracks = <<>>
  BY EmptySeq DEF EmptyDb, Tables
<1>2. TablesSound(EmptyDb)
  BY <1>1 DEF TablesSound, Single
<1>3. 0 \in 0..MaxWrites
  BY CatalogueAssumption
<1> QED BY <1>2, <1>3 DEF WInit, CatalogueIInv

LEMMA CatalogueNextIInv == CatalogueIInv /\ [Next]_avars => CatalogueIInv'
<1> SUFFICES ASSUME CatalogueIInv, [Next]_avars PROVE CatalogueIInv'
  OBVIOUS
<1>1. CASE UNCHANGED wvars
  BY <1>1 DEF wvars, CatalogueIInv
<1>2. CASE Scan
  BY <1>2, WriterKeepsRows DEF Scan
<1>3. CASE UNCHANGED avars
  BY <1>1, <1>3 DEF avars, wvars
<1> QED BY <1>1, <1>2, <1>3
        DEF Next, Receive, getById, getList, getSearch, getStatus, getPage, findTrack, findOther,
            listRows, countRows, renderArtist, trackJson, albumJson, Return, WalkEnds

LEMMA CatalogueIInvImplies == CatalogueIInv => RowsSound
<1> SUFFICES ASSUME CatalogueIInv PROVE RowsSound
  OBVIOUS
<1>1. /\ db \in Tables /\ \A i \in DOMAIN db.tracks : db.tracks[i] \in TrackRow
  BY ElementOfSeq, LenProperties DEF CatalogueIInv, TablesSound, Tables
<1>2. WTypeOK
  BY <1>1 DEF CatalogueIInv, TablesSound, AlbumRefers, TrackMatches, TrackRow, WTypeOK
<1>3. OneRowEach
  BY DEF CatalogueIInv, TablesSound, Single, OneRowEach
<1>4. RowsMatchTags
  BY DEF CatalogueIInv, TablesSound, TrackMatches, nameIn, RowsMatchTags
<1> QED BY <1>2, <1>3, <1>4 DEF RowsSound

\* Between any two statements of any scans, killed ones included, the tables hold
\* one row for each artist, album and track, and each track's row leads to what
\* the tags of its file say (SqliteTrackRepository.cpp:26-80, 200-263), for any
\* files and tags and any number of scans.
THEOREM RowsAreSound == Spec => []RowsSound
<1>1. Init => CatalogueIInv
  BY CatalogueInitIInv DEF Init
<1> QED BY <1>1, CatalogueNextIInv, CatalogueIInvImplies, PTL DEF Spec

-----------------------------------------------------------------------------
(* CatalogueApi: NoTornAnswer and WalkIsComplete.                           *)

\* The tables e have all that is in d; only the rows of tracks may be others.
Extends(d, e) ==
    /\ Len(d.artists) <= Len(e.artists) /\ \A i \in DOMAIN d.artists : e.artists[i] = d.artists[i]
    /\ Len(d.albums) <= Len(e.albums) /\ \A i \in DOMAIN d.albums : e.albums[i] = d.albums[i]
    /\ Len(d.tracks) <= Len(e.tracks)

Growing == \A s \in Scanner : job[s] # Idle => Extends(db, job[s].tx)

Item == [kind : {"track"}, id : Nat, row : TrackRow] \cup [kind : {"album"}, id : Nat, row : AlbumRow]

Json == [kind : {"track"}, id : Nat, title : TrackTitles, artist : Names \cup {NoTag},
         album : AlbumTitles \cup {NoTag}, raw : RawTags]
        \cup [kind : {"album"}, id : Nat, title : AlbumTitles, artist : Names \cup {NoTag},
              trackCount : Nat]
        \cup [kind : {"artist"}, id : Nat, name : Names]

Queries == [page : [limit : Nat, offset : Nat], search : Terms \cup {NoTag},
            artistId : RawFilter \cup {NotGiven}, albumId : RawFilter \cup {NotGiven}]

Kinds == {"track", "artwork", "album", "artist", "tracks", "albums", "artists", "count", "search",
          "status", "page"}

Request == [kind : Kinds, calls : Seq(Kinds), q : Queries, id : RawId \cup {0},
            items : Seq(Item), artist : Seq(Names \cup {NoTag}) \cup {NoTag}, out : Seq(Json)]

\* A row read earlier still says what its file said.
ItemSound(item, d) ==
    IF item.kind = "track" THEN TrackMatches(d, item.row)
    ELSE item.id \in DOMAIN d.albums /\ item.row = d.albums[item.id]

\* NoTornAnswer, of one element of an answer.
WholeJson(j, d) ==
    /\ j.kind = "track" => j.artist = ArtistOf(j.raw) /\ j.album = nonEmpty(j.raw.album)
    /\ j.kind = "album" => /\ j.id \in DOMAIN d.albums
                           /\ j.artist = nameIn(d, d.albums[j.id].artist)

RequestSound(x, d) ==
    /\ x \in Request
    /\ \A k \in DOMAIN x.items : ItemSound(x.items[k], d)
    /\ \A k \in DOMAIN x.out : WholeJson(x.out[k], d)
    /\ x.items = <<>> => x.artist = NoTag
    /\ x.artist # NoTag => x.artist[1] = nameIn(d, x.items[1].row.artist)

AnswersIInv ==
    /\ Growing
    /\ rd = NoRequest \/ RequestSound(rd, db)
    /\ \A k \in DOMAIN resp.out : WholeJson(resp.out[k], db)

\* The tracks a client sees, and the place of one of them in the order of ids.
shown(d) == {i \in DOMAIN d.tracks : ~d.tracks[i].deleted}
upTo(d, i) == {j \in shown(d) : j <= i}
place(d, i) == Cardinality(upTo(d, i))

\* A page that has been read: it starts at the client's offset; if it is short, all
\* tracks of the start of the walk are on it or on a page before.
PageRead(x, w, d) ==
    /\ \A k \in DOMAIN x.out :
          x.out[k].id \in shown(d) /\ place(d, x.out[k].id) = w.offset + k
    /\ \A k \in DOMAIN x.items :
          /\ x.items[k].kind = "track" /\ x.items[k].id \in shown(d)
          /\ place(d, x.items[k].id) = w.offset + Len(x.out) + k
    /\ Len(x.out) + Len(x.items) <= PageSize
    /\ Len(x.out) + Len(x.items) < PageSize =>
          \A i \in shown(d) : i <= w.from => place(d, i) <= w.offset + Len(x.out) + Len(x.items)

PageAsked(x, w) ==
    /\ x.calls = <<"tracks">> /\ x.items = <<>> /\ x.out = <<>>
    /\ x.q = Query([limit |-> PageSize, offset |-> w.offset], NoTag, NotGiven, NotGiven)

\* What the client has got so far, in the order of ids and without a gap.
Gathered(w, d) ==
    /\ w.from <= Len(d.tracks)
    /\ \A k \in DOMAIN w.got : w.got[k] \in shown(d) /\ place(d, w.got[k]) = k
    /\ w.on => Len(w.got) = w.offset
    /\ ~w.on => \A i \in shown(d) : i <= w.from => place(d, i) <= Len(w.got)

PageSound(x, w, d) ==
    x.kind = "page" => PageAsked(x, w) \/ (x.calls = <<>> /\ PageRead(x, w, d))

WalkIInv ==
    /\ walk \in [on : BOOLEAN, offset : Nat, got : Seq(Nat), from : Nat, disturbed : BOOLEAN]
    /\ rd.kind = "page" => walk.on
    /\ ~walk.disturbed => Gathered(walk, db) /\ PageSound(rd, walk, db)

ApiIInv == CatalogueIInv /\ AnswersIInv /\ WalkIInv

LEMMA ExtendsItself == ASSUME NEW d \in Tables PROVE Extends(d, d)
<1>1. Len(d.artists) \in Nat /\ Len(d.albums) \in Nat /\ Len(d.tracks) \in Nat
  BY LenProperties DEF Tables
<1> QED BY <1>1 DEF Extends

LEMMA ExtendsMore ==
    ASSUME NEW d \in Tables, NEW e \in Tables, NEW f \in Tables, Extends(d, e), Extends(e, f)
    PROVE  Extends(d, f)
<1>1. \A x \in Tables : /\ Len(x.artists) \in Nat /\ DOMAIN x.artists = 1..Len(x.artists)
                        /\ Len(x.albums) \in Nat /\ DOMAIN x.albums = 1..Len(x.albums)
                        /\ Len(x.tracks) \in Nat
  BY LenProperties DEF Tables
<1>2. Len(d.artists) <= Len(f.artists) /\ Len(d.albums) <= Len(f.albums)
      /\ Len(d.tracks) <= Len(f.tracks)
  <2>1. \A x, y, z \in Nat : x <= y /\ y <= z => x <= z
    OBVIOUS
  <2> QED BY <1>1, <2>1 DEF Extends
<1>3. \A i \in DOMAIN d.artists : i \in DOMAIN e.artists
  BY <1>1 DEF Extends
<1>4. \A i \in DOMAIN d.albums : i \in DOMAIN e.albums
  BY <1>1 DEF Extends
<1> QED BY <1>2, <1>3, <1>4 DEF Extends

\* Find or create keeps the table, and so do both resolvers.
LEMMA ResolversGrow ==
    ASSUME NEW d, TablesSound(d)
    PROVE  /\ \A name \in Names \cup {NoTag} :
                 LET t == resolveArtist(d.artists, name).table
                 IN  Len(d.artists) <= Len(t) /\ \A i \in DOMAIN d.artists : t[i] = d.artists[i]
           /\ \A title \in AlbumTitles \cup {NoTag}, artist \in Nat :
                 LET t == resolveAlbum(d.albums, title, artist).table
                 IN  Len(d.albums) <= Len(t) /\ \A i \in DOMAIN d.albums : t[i] = d.albums[i]
<1>1. /\ d.artists \in Seq(Names) /\ Single(d.artists) /\ d.albums \in Seq(AlbumRow)
      /\ Single(d.albums)
  BY DEF TablesSound, Tables
<1>2. Len(d.artists) \in Nat /\ Len(d.albums) \in Nat
  BY <1>1, LenProperties
<1>3. \A name : ~noName(name) => name # NoTag
  BY DEF noName
<1>4. ASSUME NEW name \in Names \cup {NoTag}
      PROVE  LET t == resolveArtist(d.artists, name).table
             IN  Len(d.artists) <= Len(t) /\ \A i \in DOMAIN d.artists : t[i] = d.artists[i]
  <2>1. CASE noName(name)
    BY <1>2, <2>1 DEF resolveArtist
  <2>2. CASE ~noName(name)
    <3>1. resolveArtist(d.artists, name).table = WithRow(d.artists, name)
      BY <2>2 DEF resolveArtist
    <3>2. name \in Names
      BY <1>3, <2>2
    <3> DEFINE a == d.artists
    <3>3. a \in Seq(Names) /\ Single(a)
      BY <1>1
    <3> HIDE DEF a
    <3>4. Len(a) <= Len(WithRow(a, name)) /\ \A i \in DOMAIN a : WithRow(a, name)[i] = a[i]
      BY <3>2, <3>3, WithRowProperties
    <3> QED BY <3>1, <3>4 DEF a
  <2> QED BY <2>1, <2>2
<1>5. ASSUME NEW title \in AlbumTitles \cup {NoTag}, NEW artist \in Nat
      PROVE  LET t == resolveAlbum(d.albums, title, artist).table
             IN  Len(d.albums) <= Len(t) /\ \A i \in DOMAIN d.albums : t[i] = d.albums[i]
  <2>1. CASE noName(title)
    BY <1>2, <2>1 DEF resolveAlbum
  <2>2. CASE ~noName(title)
    <3> DEFINE row == [title |-> title, artist |-> artist]
    <3>1. resolveAlbum(d.albums, title, artist).table = WithRow(d.albums, row)
      BY <2>2 DEF resolveAlbum
    <3>2. row \in AlbumRow
      BY <1>3, <2>2 DEF AlbumRow
    <3> DEFINE a == d.albums
    <3>3. a \in Seq(AlbumRow) /\ Single(a)
      BY <1>1
    <3> HIDE DEF a, row
    <3>4. Len(a) <= Len(WithRow(a, row)) /\ \A i \in DOMAIN a : WithRow(a, row)[i] = a[i]
      BY <3>2, <3>3, WithRowProperties
    <3> QED BY <3>1, <3>4 DEF a
  <2> QED BY <2>1, <2>2
<1> QED BY <1>4, <1>5, Zenon

LEMMA WrittenGrows ==
    ASSUME NEW d \in Tables, NEW row \in TrackRow
    PROVE  Len(d.tracks) <= Len(writeTrack(d.tracks, row))
<1>1. d.tracks \in Seq(TrackRow) /\ Len(d.tracks) \in Nat /\ DOMAIN d.tracks = 1..Len(d.tracks)
  BY LenProperties DEF Tables
<1>2. CASE \E i \in DOMAIN d.tracks : d.tracks[i].path = row.path
  <2>1. writeTrack(d.tracks, row) = [i \in 1..Len(d.tracks) |->
             IF d.tracks[i].path = row.path THEN updated(d.tracks[i], row) ELSE d.tracks[i]]
    BY <1>1, <1>2 DEF writeTrack
  <2>2. Len(writeTrack(d.tracks, row)) = Len(d.tracks)
    BY <1>1, <2>1
  <2> QED BY <1>1, <2>2
<1>3. CASE ~\E i \in DOMAIN d.tracks : d.tracks[i].path = row.path
  <2>1. writeTrack(d.tracks, row) = Append(d.tracks, row)
    BY <1>3 DEF writeTrack
  <2>2. Len(writeTrack(d.tracks, row)) = Len(d.tracks) + 1
    BY <1>1, <2>1, AppendProperties
  <2> QED BY <1>1, <2>2
<1> QED BY <1>2, <1>3

\* A statement of a transaction.
LEMMA GrowStatement ==
    ASSUME CatalogueIInv, CatalogueIInv', Growing, NEW s \in Scanner, job[s] # Idle,
           job'[s] # Idle, Extends(job[s].tx, job'[s].tx),
           \A r \in Scanner : r # s => job'[r] = job[r], db' = db
    PROVE  Growing' /\ Extends(db, db')
<1>1. db \in Tables /\ job[s].tx \in Tables /\ job'[s].tx \in Tables /\ Extends(db, job[s].tx)
  <2>1. JobSound(job[s]) /\ TablesSound(db)
    BY DEF CatalogueIInv
  <2>2. JobSound(job'[s])
    BY DEF CatalogueIInv
  <2>3. Extends(db, job[s].tx)
    BY DEF Growing
  <2> QED BY <2>1, <2>2, <2>3 DEF TablesSound, JobSound
<1>2. Extends(db, job'[s].tx) /\ Extends(db, db)
  BY <1>1, ExtendsMore, ExtendsItself
<1> QED BY <1>2 DEF Growing

LEMMA StatementsGrow ==
    ASSUME CatalogueIInv, CatalogueIInv', Growing, NEW s \in Scanner,
           Artist(s) \/ AlbumArtist(s) \/ Album(s) \/ Track(s)
    PROVE  Growing' /\ Extends(db, db')
<1> PICK j : j = job[s]
  OBVIOUS
<1>1. /\ j # Idle /\ JobSound(j) /\ j \in WriteJob /\ job \in [Scanner -> WriteJob \cup {Idle}]
      /\ db' = db
  BY IdleIsNoJob DEF Artist, AlbumArtist, Album, Track, CatalogueIInv, JobSound
<1> PICK d : d = j.tx
  OBVIOUS
<1>2. TablesSound(d) /\ d \in Tables
  BY <1>1 DEF JobSound, TablesSound
<1>3. Len(d.artists) \in Nat /\ Len(d.albums) \in Nat /\ Len(d.tracks) \in Nat
  BY <1>2, LenProperties DEF Tables
<1>4. ASSUME Extends(d, job'[s].tx), job'[s] # Idle, \A r \in Scanner : r # s => job'[r] = job[r]
      PROVE  Growing' /\ Extends(db, db')
  BY <1>1, <1>4, GrowStatement
<1>5. ASSUME NEW t, Len(d.artists) <= Len(t), \A i \in DOMAIN d.artists : t[i] = d.artists[i]
      PROVE  Extends(d, [d EXCEPT !.artists = t])
  BY <1>2, <1>3, <1>5 DEF Tables, Extends
<1>6. CASE Artist(s)
  <2> DEFINE r == resolveArtist(d.artists, j.data.artist)
  <2>1. job' = [job EXCEPT ![s].tx.artists = r.table, ![s].artist = r.id, ![s].step = "albumArtist"]
    BY <1>6 DEF Artist
  <2>2. j.data.artist \in Names \cup {NoTag}
    BY <1>1 DEF WriteJob
  <2>3. Len(d.artists) <= Len(r.table) /\ \A i \in DOMAIN d.artists : r.table[i] = d.artists[i]
    BY <1>2, <2>2, ResolversGrow
  <2> HIDE DEF r
  <2>4. /\ job'[s].tx = [d EXCEPT !.artists = r.table] /\ job'[s].step = "albumArtist"
        /\ \A q \in Scanner : q # s => job'[q] = job[q]
    BY <1>1, <2>1 DEF WriteJob
  <2> QED BY <1>4, <1>5, <2>3, <2>4, IdleIsNoJob
<1>7. CASE AlbumArtist(s)
  <2> DEFINE r == IF j.data.albumArtist = NoTag THEN [table |-> d.artists, id |-> j.artist]
                  ELSE resolveArtist(d.artists, j.data.albumArtist)
  <2>1. job' = [job EXCEPT ![s].tx.artists = r.table, ![s].albumArtist = r.id, ![s].step = "album"]
    BY <1>7 DEF AlbumArtist
  <2>2. j.data.albumArtist \in Names \cup {NoTag}
    BY <1>1 DEF WriteJob
  <2>3. Len(d.artists) <= Len(r.table) /\ \A i \in DOMAIN d.artists : r.table[i] = d.artists[i]
    <3>1. CASE j.data.albumArtist = NoTag
      BY <1>3, <3>1
    <3>2. CASE j.data.albumArtist # NoTag
      <4>1. r = resolveArtist(d.artists, j.data.albumArtist)
        BY <3>2
      <4> HIDE DEF r
      <4> QED BY <1>2, <2>2, <4>1, ResolversGrow
    <3> QED BY <3>1, <3>2
  <2> HIDE DEF r
  <2>4. /\ job'[s].tx = [d EXCEPT !.artists = r.table] /\ job'[s].step = "album"
        /\ \A q \in Scanner : q # s => job'[q] = job[q]
    BY <1>1, <2>1 DEF WriteJob
  <2> QED BY <1>4, <1>5, <2>3, <2>4, IdleIsNoJob
<1>8. CASE Album(s)
  <2> DEFINE r == resolveAlbum(d.albums, j.data.album, j.albumArtist)
  <2>1. job' = [job EXCEPT ![s].tx.albums = r.table, ![s].album = r.id, ![s].step = "track"]
    BY <1>8 DEF Album
  <2>2. j.data.album \in AlbumTitles \cup {NoTag} /\ j.albumArtist \in Nat
    BY <1>1 DEF WriteJob
  <2>3. Len(d.albums) <= Len(r.table) /\ \A i \in DOMAIN d.albums : r.table[i] = d.albums[i]
    BY <1>2, <2>2, ResolversGrow
  <2> HIDE DEF r
  <2>4. /\ job'[s].tx = [d EXCEPT !.albums = r.table] /\ job'[s].step = "track"
        /\ \A q \in Scanner : q # s => job'[q] = job[q]
    BY <1>1, <2>1 DEF WriteJob
  <2>5. Extends(d, job'[s].tx)
    BY <1>2, <1>3, <2>3, <2>4 DEF Tables, Extends
  <2> QED BY <1>4, <2>4, <2>5, IdleIsNoJob
<1>9. CASE Track(s)
  <2> DEFINE row == [path |-> j.path, title |-> j.data.title, artist |-> j.artist,
                     album |-> j.album, deleted |-> FALSE, raw |-> j.raw]
             t == writeTrack(d.tracks, row)
  <2>1. job' = [job EXCEPT ![s].tx.tracks = t, ![s].step = "commit"]
    BY <1>1, <1>9 DEF Track, WriteJob, Tables
  <2>2. row \in TrackRow
    BY <1>1 DEF WriteJob, TrackRow
  <2>3. Len(d.tracks) <= Len(t)
    BY <1>2, <2>2, WrittenGrows
  <2> HIDE DEF t
  <2>4. /\ job'[s].tx = [d EXCEPT !.tracks = t] /\ job'[s].step = "commit"
        /\ \A q \in Scanner : q # s => job'[q] = job[q]
    BY <1>1, <2>1 DEF WriteJob
  <2>5. Extends(d, job'[s].tx)
    BY <1>2, <1>3, <2>3, <2>4 DEF Tables, Extends
  <2> QED BY <1>4, <2>4, <2>5, IdleIsNoJob
<1> QED BY <1>6, <1>7, <1>8, <1>9

\* The scan's steps keep what is committed, and what its transactions see of it.
LEMMA WriterGrows == CatalogueIInv /\ Growing /\ WNext => Growing' /\ Extends(db, db')
<1> SUFFICES ASSUME CatalogueIInv, Growing, NEW s \in Scanner,
                    upsert(s) \/ \E id \in DOMAIN db.tracks : softDelete(s, id)
             PROVE  Growing' /\ Extends(db, db')
  BY DEF WNext
<1>1. CatalogueIInv'
  BY WriterKeepsRows DEF WNext
<1>2. db \in Tables /\ Extends(db, db) /\ job \in [Scanner -> WriteJob \cup {Idle}]
  BY ExtendsItself DEF CatalogueIInv, TablesSound
<1>3. ASSUME NEW p \in Path, NEW raw \in RawTags, Begin(s, p, raw)
      PROVE  Growing' /\ Extends(db, db')
  <2>1. db' = db
    BY <1>3 DEF Begin
  <2>2. job'[s].tx = db /\ \A r \in Scanner : r # s => job'[r] = job[r]
    BY <1>2, <1>3 DEF Begin
  <2> QED BY <1>2, <2>1, <2>2 DEF Growing
<1>4. CASE Commit(s)
  <2>1. job[s] # Idle /\ \A r \in Scanner : job[r] # Idle => r = s
    BY <1>4, IdleIsNoJob DEF Commit, CatalogueIInv
  <2>2. db' = job[s].tx /\ job' = [job EXCEPT ![s] = Idle]
    BY <1>4 DEF Commit
  <2>3. \A r \in Scanner : job'[r] = Idle
    BY <1>2, <2>1, <2>2
  <2> QED BY <2>1, <2>2, <2>3 DEF Growing
<1>5. CASE Rollback(s)
  <2>1. db' = db /\ job' = [job EXCEPT ![s] = Idle]
    BY <1>5 DEF Rollback
  <2> QED BY <1>2, <2>1 DEF Growing
<1>6. ASSUME NEW id \in DOMAIN db.tracks, softDelete(s, id)
      PROVE  Growing' /\ Extends(db, db')
  <2>1. /\ db' = [db EXCEPT !.tracks[id].deleted = TRUE] /\ job' = job
        /\ \A r \in Scanner : job[r] = Idle
    BY <1>6, CatalogueAssumption DEF softDelete, CatalogueIInv
  <2>2. db'.artists = db.artists /\ db'.albums = db.albums /\ Len(db'.tracks) = Len(db.tracks)
    BY <1>2, <2>1 DEF Tables
  <2> QED BY <1>2, <2>1, <2>2 DEF Extends, Growing
<1> QED BY <1>1, <1>3, <1>4, <1>5, <1>6, StatementsGrow DEF upsert

\* What is true of a row read earlier, or of an answer, stays true.
LEMMA ExtensionKeeps ==
    ASSUME NEW d, NEW e, TablesSound(d), TablesSound(e), Extends(d, e)
    PROVE  /\ \A id \in 0..Len(d.artists) :
                 id \in 0..Len(e.artists) /\ nameIn(e, id) = nameIn(d, id)
           /\ \A row : TrackMatches(d, row) => TrackMatches(e, row)
           /\ \A item : ItemSound(item, d) => ItemSound(item, e)
           /\ \A j : WholeJson(j, d) => WholeJson(j, e)
<1>1. \A x \in {d, e} : /\ Len(x.artists) \in Nat /\ DOMAIN x.artists = 1..Len(x.artists)
                        /\ Len(x.albums) \in Nat /\ DOMAIN x.albums = 1..Len(x.albums)
  BY LenProperties DEF TablesSound, Tables
<1>2. \A id \in 0..Len(d.artists) : id \in 0..Len(e.artists) /\ nameIn(e, id) = nameIn(d, id)
  BY <1>1 DEF Extends, nameIn
<1>3. \A id \in DOMAIN d.albums : /\ id \in DOMAIN e.albums /\ e.albums[id] = d.albums[id]
                                  /\ d.albums[id].artist \in 0..Len(d.artists)
  BY <1>1 DEF Extends, TablesSound, AlbumRefers
<1>4. \A row : TrackMatches(d, row) => TrackMatches(e, row)
  BY <1>1, <1>2, <1>3 DEF TrackMatches
<1>5. \A item : ItemSound(item, d) => ItemSound(item, e)
  BY <1>3, <1>4 DEF ItemSound
<1>6. \A j : WholeJson(j, d) => WholeJson(j, e)
  BY <1>2, <1>3 DEF WholeJson
<1> QED BY <1>2, <1>4, <1>5, <1>6

LEMMA RequestKept ==
    ASSUME NEW d, NEW e, TablesSound(d), TablesSound(e), Extends(d, e), NEW x, RequestSound(x, d)
    PROVE  RequestSound(x, e)
<1>1. x.items \in Seq(Item)
  BY DEF RequestSound, Request
<1>2. ASSUME x.artist # NoTag
      PROVE  nameIn(e, x.items[1].row.artist) = nameIn(d, x.items[1].row.artist)
  <2>1. 1 \in DOMAIN x.items
    BY <1>1, <1>2, LenProperties, EmptySeq DEF RequestSound
  <2>2. ItemSound(x.items[1], d)
    BY <2>1 DEF RequestSound
  <2>3. x.items[1].row.artist \in 0..Len(d.artists)
    BY <2>2 DEF ItemSound, TrackMatches, TablesSound, AlbumRefers
  <2> QED BY <2>3, ExtensionKeeps
<1>3. \A k \in DOMAIN x.items : ItemSound(x.items[k], e)
  BY ExtensionKeeps DEF RequestSound
<1>4. \A k \in DOMAIN x.out : WholeJson(x.out[k], e)
  BY ExtensionKeeps DEF RequestSound
<1> QED BY <1>2, <1>3, <1>4 DEF RequestSound

-----------------------------------------------------------------------------
(* CatalogueApi: the SELECTs.                                               *)

\* LIMIT and OFFSET: the page is the rows from the offset on, and it is short only
\* if it has the last row.
LEMMA PageOf ==
    ASSUME NEW S, NEW t \in Seq(S), NEW page \in [limit : Nat, offset : Nat]
    PROVE  LET p == pageOf(t, page) IN
           /\ p \in Seq(S) /\ Len(p) \in Nat /\ DOMAIN p = 1..Len(p) /\ Len(p) <= page.limit
           /\ \A k \in 1..Len(p) : page.offset + k \in 1..Len(t) /\ p[k] = t[page.offset + k]
           /\ Len(p) < page.limit => Len(t) <= page.offset + Len(p)
<1>1. PICK n \in Nat : n = Len(t) /\ DOMAIN t = 1..n
  BY LenProperties
<1>2. PICK limit \in Nat, offset \in Nat : limit = page.limit /\ offset = page.offset
  OBVIOUS
<1>3. PICK m \in Nat : m = offset + 1
  OBVIOUS
<1>4. PICK last \in Nat : last = IF offset + limit < n THEN offset + limit ELSE n
  OBVIOUS
<1>5. PICK p : p = SubSeq(t, m, last)
  OBVIOUS
<1>6. pageOf(t, page) = p
  BY <1>1, <1>2, <1>3, <1>4, <1>5 DEF pageOf
<1>7. m \in Int /\ last \in Int /\ \A i \in m..last : t[i] \in S
  <2>1. \A i \in m..last : i \in 1..n
    BY <1>3, <1>4
  <2> QED BY <1>1, <2>1, ElementOfSeq
<1>8. p \in Seq(S)
  BY <1>5, <1>7, SubSeqProperties
<1>9. Len(p) = IF m <= last THEN last - m + 1 ELSE 0
  BY <1>7, <1>5, SubSeqProperties, Zenon
<1>10. \A i \in 1..last - m + 1 : p[i] = t[m + i - 1]
  BY <1>5, <1>7, SubSeqProperties
<1>11. PICK l \in Nat : l = Len(p) /\ DOMAIN p = 1..l
  BY <1>8, LenProperties
<1>12. l = IF m <= last THEN last - m + 1 ELSE 0
  BY <1>9, <1>11
<1>13. l <= limit /\ (l < limit => n <= offset + l) /\ (l = 0 \/ (l = last - offset /\ last <= n))
  BY <1>3, <1>4, <1>12
<1>14. \A k \in 1..l : offset + k \in 1..n /\ p[k] = t[offset + k]
  <2> TAKE k \in 1..l
  <2>1. k \in 1..last - m + 1 /\ offset + k \in 1..n /\ m + k - 1 = offset + k
    BY <1>3, <1>13
  <2> QED BY <1>10, <2>1
<1> QED BY <1>1, <1>2, <1>6, <1>8, <1>11, <1>13, <1>14

\* The ids in the order of the key.
LEMMA SequenceOf ==
    ASSUME NEW n \in Nat, NEW ids \in SUBSET (1..n), NEW key, NEW t \in sequences(ids, key)
    PROVE  t \in Seq(ids) /\ Len(t) = Cardinality(ids) /\ Cardinality(ids) \in Nat
<1>1. IsFiniteSet(ids)
  <2>1. IsFiniteSet(1..n)
    BY FS_Interval
  <2> QED BY <2>1, FS_Subset
<1>2. Cardinality(ids) \in Nat
  BY <1>1, FS_CardinalityType
<1>3. t \in [1..Cardinality(ids) -> ids]
  BY DEF sequences
<1> QED BY <1>2, <1>3

LEMMA ListedRows ==
    ASSUME NEW d, TablesSound(d), NEW q, q.page \in [limit : Nat, offset : Nat]
    PROVE  /\ \A rows \in listTracks(d, q) \cup listAlbums(d, q) :
                 rows \in Seq(Item) /\ \A k \in DOMAIN rows : ItemSound(rows[k], d)
           /\ \A rows \in listArtists(d, q) :
                 rows \in Seq(Json) /\ \A k \in DOMAIN rows : WholeJson(rows[k], d)
<1>1. /\ Len(d.artists) \in Nat /\ DOMAIN d.artists = 1..Len(d.artists)
      /\ Len(d.albums) \in Nat /\ DOMAIN d.albums = 1..Len(d.albums)
      /\ Len(d.tracks) \in Nat /\ DOMAIN d.tracks = 1..Len(d.tracks)
      /\ \A i \in DOMAIN d.artists : d.artists[i] \in Names
      /\ \A i \in DOMAIN d.albums : d.albums[i] \in AlbumRow
      /\ \A i \in DOMAIN d.tracks : d.tracks[i] \in TrackRow /\ TrackMatches(d, d.tracks[i])
  BY ElementOfSeq, LenProperties DEF TablesSound, Tables
<1>2. ASSUME NEW n \in Nat, NEW ids \in SUBSET (1..n), NEW key, NEW t \in sequences(ids, key)
      PROVE  LET s == pageOf(t, q.page) IN
             Len(s) \in Nat /\ DOMAIN s = 1..Len(s) /\ \A k \in DOMAIN s : s[k] \in ids
  <2>1. t \in Seq(ids)
    BY SequenceOf
  <2> DEFINE s == pageOf(t, q.page)
  <2>2. s \in Seq(ids) /\ Len(s) \in Nat /\ DOMAIN s = 1..Len(s)
    BY <2>1, PageOf
  <2> HIDE DEF s
  <2>3. \A k \in DOMAIN s : s[k] \in ids
    BY <2>2, ElementOfSeq
  <2> QED BY <2>2, <2>3 DEF s
<1>3. ASSUME NEW rows \in listTracks(d, q)
      PROVE  rows \in Seq(Item) /\ \A k \in DOMAIN rows : ItemSound(rows[k], d)
  <2> DEFINE itself == [i \in DOMAIN d.tracks |-> i]
             ids == trackIds(d, q)
  <2>1. PICK t \in sequences(ids, itself) :
           rows = [k \in DOMAIN pageOf(t, q.page) |->
                      [kind |-> "track", id |-> pageOf(t, q.page)[k],
                       row |-> d.tracks[pageOf(t, q.page)[k]]]]
    BY <1>3 DEF listTracks
  <2>2. ids \in SUBSET (1..Len(d.tracks))
    BY <1>1 DEF trackIds
  <2> DEFINE s == pageOf(t, q.page)
  <2> HIDE DEF ids, itself
  <2>3. Len(s) \in Nat /\ DOMAIN s = 1..Len(s) /\ \A k \in DOMAIN s : s[k] \in 1..Len(d.tracks)
    BY <1>1, <1>2, <2>2
  <2> HIDE DEF s
  <2>4. /\ rows = [k \in 1..Len(s) |-> [kind |-> "track", id |-> s[k], row |-> d.tracks[s[k]]]]
        /\ \A k \in 1..Len(s) : [kind |-> "track", id |-> s[k], row |-> d.tracks[s[k]]] \in Item
    BY <1>1, <2>1, <2>3 DEF s, Item
  <2>5. rows \in Seq(Item)
    BY <2>3, <2>4
  <2>6. \A k \in DOMAIN rows : ItemSound(rows[k], d)
    BY <1>1, <2>3, <2>4 DEF ItemSound
  <2> QED BY <2>5, <2>6
<1>4. ASSUME NEW rows \in listAlbums(d, q)
      PROVE  rows \in Seq(Item) /\ \A k \in DOMAIN rows : ItemSound(rows[k], d)
  <2> DEFINE title == [i \in DOMAIN d.albums |-> Rank[d.albums[i].title]]
             ids == albumIds(d, q)
  <2>1. PICK t \in sequences(ids, title) :
           rows = [k \in DOMAIN pageOf(t, q.page) |->
                      [kind |-> "album", id |-> pageOf(t, q.page)[k],
                       row |-> d.albums[pageOf(t, q.page)[k]]]]
    BY <1>4 DEF listAlbums
  <2>2. ids \in SUBSET (1..Len(d.albums))
    BY <1>1 DEF albumIds
  <2> DEFINE s == pageOf(t, q.page)
  <2> HIDE DEF ids, title
  <2>3. Len(s) \in Nat /\ DOMAIN s = 1..Len(s) /\ \A k \in DOMAIN s : s[k] \in 1..Len(d.albums)
    BY <1>1, <1>2, <2>2
  <2> HIDE DEF s
  <2>4. /\ rows = [k \in 1..Len(s) |-> [kind |-> "album", id |-> s[k], row |-> d.albums[s[k]]]]
        /\ \A k \in 1..Len(s) : [kind |-> "album", id |-> s[k], row |-> d.albums[s[k]]] \in Item
    BY <1>1, <2>1, <2>3 DEF s, Item
  <2>5. rows \in Seq(Item)
    BY <2>3, <2>4
  <2>6. \A k \in DOMAIN rows : ItemSound(rows[k], d)
    BY <1>1, <2>3, <2>4 DEF ItemSound
  <2> QED BY <2>5, <2>6
<1>5. ASSUME NEW rows \in listArtists(d, q)
      PROVE  rows \in Seq(Json) /\ \A k \in DOMAIN rows : WholeJson(rows[k], d)
  <2> DEFINE name == [i \in DOMAIN d.artists |-> Rank[d.artists[i]]]
             ids == artistIds(d, q)
  <2>1. PICK t \in sequences(ids, name) :
           rows = [k \in DOMAIN pageOf(t, q.page) |->
                      [kind |-> "artist", id |-> pageOf(t, q.page)[k],
                       name |-> d.artists[pageOf(t, q.page)[k]]]]
    BY <1>5 DEF listArtists
  <2>2. ids \in SUBSET (1..Len(d.artists))
    BY <1>1 DEF artistIds
  <2> DEFINE s == pageOf(t, q.page)
  <2> HIDE DEF ids, name
  <2>3. Len(s) \in Nat /\ DOMAIN s = 1..Len(s) /\ \A k \in DOMAIN s : s[k] \in 1..Len(d.artists)
    BY <1>1, <1>2, <2>2
  <2> HIDE DEF s
  <2>4. /\ rows = [k \in 1..Len(s) |-> [kind |-> "artist", id |-> s[k], name |-> d.artists[s[k]]]]
        /\ \A k \in 1..Len(s) : [kind |-> "artist", id |-> s[k], name |-> d.artists[s[k]]] \in Json
    BY <1>1, <2>1, <2>3 DEF s, Json
  <2>5. rows \in Seq(Json)
    BY <2>3, <2>4
  <2>6. \A k \in DOMAIN rows : WholeJson(rows[k], d)
    BY <2>3, <2>4 DEF WholeJson
  <2> QED BY <2>5, <2>6
<1> QED BY <1>3, <1>4, <1>5, Zenon

-----------------------------------------------------------------------------
(* CatalogueApi: the handlers.                                              *)

LEMMA ParsedPage ==
    ASSUME NEW limit \in Int \cup {NotGiven}, NEW offset \in Int \cup {NotGiven}
    PROVE  /\ parsePagination(limit, offset) \in [limit : Nat, offset : Nat]
           /\ offset \in Nat => parsePagination(PageSize, offset) = [limit |-> PageSize, offset |-> offset]
<1>1. /\ DefaultLimit \in Nat /\ MaxLimit \in Nat /\ 1 <= MaxLimit /\ NotGiven \notin Int
      /\ PageSize \in 1..MaxLimit
  BY PagingAssumption, ApiAssumption
<1>2. \A n \in Int : clamp(n) \in Nat
  BY <1>1 DEF clamp
<1>3. clamp(PageSize) = PageSize /\ PageSize # NotGiven
  BY <1>1 DEF clamp
<1> QED BY <1>1, <1>2, <1>3 DEF parsePagination

LEMMA HandledRequest ==
    ASSUME NEW d, NEW kind \in Kinds, NEW calls \in Seq(Kinds), NEW q \in Queries,
           NEW id \in RawId \cup {0}
    PROVE  RequestSound([kind |-> kind, calls |-> calls, q |-> q, id |-> id, items |-> <<>>,
                         artist |-> NoTag, out |-> <<>>], d)
<1> DEFINE x == [kind |-> kind, calls |-> calls, q |-> q, id |-> id, items |-> <<>>,
                 artist |-> NoTag, out |-> <<>>]
<1>1. <<>> \in Seq(Item) /\ <<>> \in Seq(Json)
  BY EmptySeq
<1>2. x \in Request
  BY <1>1 DEF Request
<1>3. x.items = <<>> /\ x.out = <<>> /\ x.artist = NoTag
  OBVIOUS
<1> HIDE DEF x
<1>4. DOMAIN x.items = {} /\ DOMAIN x.out = {}
  BY <1>3
<1>5. RequestSound(x, d)
  BY <1>2, <1>3, <1>4 DEF RequestSound
<1> QED BY <1>5 DEF x

LEMMA FoundRequest ==
    ASSUME NEW d, NEW x, RequestSound(x, d), x.items = <<>>, x.calls # <<>>,
           NEW items \in Seq(Item), \A k \in DOMAIN items : ItemSound(items[k], d)
    PROVE  RequestSound([x EXCEPT !.calls = Tail(@), !.items = items], d)
<1> DEFINE y == [x EXCEPT !.calls = Tail(@), !.items = items]
<1>1. x \in Request /\ x.artist = NoTag
  BY DEF RequestSound
<1>2. Tail(x.calls) \in Seq(Kinds)
  BY <1>1, HeadTailProperties DEF Request
<1>3. y \in Request /\ y.items = items /\ y.out = x.out /\ y.artist = NoTag
  BY <1>1, <1>2 DEF Request
<1> HIDE DEF y
<1>4. RequestSound(y, d)
  BY <1>3 DEF RequestSound
<1> QED BY <1>4 DEF y

LEMMA RenderedRequest ==
    ASSUME NEW d, NEW x, RequestSound(x, d), x.items # <<>>, NEW json \in Json, WholeJson(json, d)
    PROVE  RequestSound([x EXCEPT !.items = Tail(@), !.artist = NoTag, !.out = Append(@, json)], d)
<1> DEFINE y == [x EXCEPT !.items = Tail(@), !.artist = NoTag, !.out = Append(@, json)]
<1>1. x \in Request /\ x.items \in Seq(Item) /\ x.out \in Seq(Json)
  BY DEF RequestSound, Request
<1> PICK a, b : a = Tail(x.items) /\ b = Append(x.out, json)
  OBVIOUS
<1>2. /\ a \in Seq(Item) /\ DOMAIN a = 1..Len(a) /\ Len(a) = Len(x.items) - 1
      /\ \A i \in 1..Len(a) : a[i] = x.items[i + 1]
      /\ Len(x.items) \in Nat /\ DOMAIN x.items = 1..Len(x.items)
  BY <1>1, HeadTailProperties, LenProperties
<1>3. /\ b \in Seq(Json) /\ DOMAIN b = 1..Len(x.out) + 1 /\ b[Len(x.out) + 1] = json
      /\ \A i \in 1..Len(x.out) : b[i] = x.out[i]
      /\ Len(x.out) \in Nat /\ DOMAIN x.out = 1..Len(x.out)
  BY <1>1, AppendProperties, LenProperties
<1>4. y \in Request /\ y.items = a /\ y.out = b /\ y.artist = NoTag
  BY <1>1, <1>2, <1>3 DEF Request
<1> HIDE DEF y
<1>5. \A k \in DOMAIN a : ItemSound(a[k], d)
  BY <1>2 DEF RequestSound
<1>6. \A k \in DOMAIN b : WholeJson(b[k], d)
  BY <1>3 DEF RequestSound
<1>7. RequestSound(y, d)
  BY <1>4, <1>5, <1>6 DEF RequestSound
<1> QED BY <1>7 DEF y

\* The first row to be rendered.
LEMMA FirstItem ==
    ASSUME NEW d, TablesSound(d), NEW x, RequestSound(x, d), x.items # <<>>
    PROVE  /\ Head(x.items) = x.items[1] /\ Head(x.items) \in Item /\ ItemSound(Head(x.items), d)
           /\ Head(x.items).row.artist \in 0..Len(d.artists)
<1>1. x.items \in Seq(Item)
  BY DEF RequestSound, Request
<1>2. 1 \in DOMAIN x.items /\ Head(x.items) = x.items[1] /\ Head(x.items) \in Item
  BY <1>1, HeadTailProperties, LenProperties, EmptySeq
<1>3. ItemSound(Head(x.items), d)
  BY <1>2 DEF RequestSound
<1>4. Head(x.items).row.artist \in 0..Len(d.artists)
  BY <1>3 DEF ItemSound, TrackMatches, TablesSound, AlbumRefers
<1> QED BY <1>2, <1>3, <1>4

\* Whatever a handler does, it leaves the tables and the scan alone.
LEMMA HandlerStep ==
    ASSUME AnswersIInv, UNCHANGED wvars, rd' = NoRequest \/ RequestSound(rd', db),
           \A k \in DOMAIN resp'.out : WholeJson(resp'.out[k], db)
    PROVE  AnswersIInv'
<1>1. db' = db /\ job' = job
  BY DEF wvars
<1>2. Growing'
  BY <1>1 DEF AnswersIInv, Growing
<1> QED BY <1>1, <1>2 DEF AnswersIInv

LEMMA Refused ==
    ASSUME AnswersIInv, UNCHANGED wvars, NEW status, Answer(status, <<>>) PROVE AnswersIInv'
<1>1. rd' = NoRequest /\ resp'.out = <<>>
  BY DEF Answer
<1>2. DOMAIN resp'.out = {}
  BY <1>1
<1> QED BY <1>1, <1>2, HandlerStep

LEMMA Started ==
    ASSUME AnswersIInv, UNCHANGED wvars, NEW kind \in Kinds, NEW calls \in Seq(Kinds),
           NEW q \in Queries, NEW id \in RawId \cup {0}, Handle(kind, calls, q, id)
    PROVE  AnswersIInv'
<1>1. RequestSound(rd', db)
  BY HandledRequest DEF Handle
<1>2. resp'.out = <<>>
  BY DEF Handle, NoResponse
<1>3. DOMAIN resp'.out = {}
  BY <1>2
<1> QED BY <1>1, <1>3, HandlerStep

LEMMA CallNames ==
    /\ \A name \in Kinds : <<name>> \in Seq(Kinds)
    /\ <<"artists", "albums", "tracks">> \in Seq(Kinds)
<1>1. ASSUME NEW S, NEW a \in S, NEW b \in S, NEW c \in S
      PROVE  <<a>> \in Seq(S) /\ <<a, b, c>> \in Seq(S)
  OBVIOUS
<1>2. "artists" \in Kinds /\ "albums" \in Kinds /\ "tracks" \in Kinds
  BY DEF Kinds
<1> QED BY <1>1, <1>2

LEMMA ReceiveAnswers ==
    ASSUME AnswersIInv, walk.offset \in Nat, Receive PROVE AnswersIInv'
<1>1. UNCHANGED wvars
  BY DEF Receive, getById, getList, getSearch, getStatus, getPage
<1>2. AllTracks \in Queries
  BY ParsedPage DEF AllTracks, Query, Queries
<1>3. ASSUME NEW kind \in {"track", "artwork", "album", "artist"}, NEW raw \in RawId, getById(kind, raw)
      PROVE  AnswersIInv'
  <2>1. CASE raw = Unparsable \/ raw <= 0
    BY <1>1, <1>3, <2>1, Refused DEF getById
  <2>2. CASE ~(raw = Unparsable \/ raw <= 0)
    <3>1. Handle(kind, <<kind>>, AllTracks, raw)
      BY <1>3, <2>2 DEF getById
    <3>2. kind \in Kinds /\ <<kind>> \in Seq(Kinds)
      BY CallNames DEF Kinds
    <3> QED BY <1>1, <1>2, <3>1, <3>2, Started
  <2> QED BY <2>1, <2>2
<1>4. ASSUME NEW kind \in {"tracks", "albums", "artists"}, NEW limit \in RawLimit,
             NEW offset \in RawLimit, NEW term \in Terms, NEW artistId \in RawFilter,
             NEW albumId \in RawFilter, getList(kind, limit, offset, term, artistId, albumId)
      PROVE  AnswersIInv'
  <2>1. CASE \E raw \in {limit, offset, artistId, albumId} : invalid(raw)
    BY <1>1, <1>4, <2>1, Refused DEF getList
  <2>2. CASE ~\E raw \in {limit, offset, artistId, albumId} : invalid(raw)
    <3> DEFINE q == Query(parsePagination(limit, offset), searchOf(term), artistId, albumId)
    <3>1. Handle(kind, <<kind>>, q, 0)
      BY <1>4, <2>2 DEF getList
    <3>2. limit \in Int \cup {NotGiven} /\ offset \in Int \cup {NotGiven}
      BY <2>2, ApiAssumption DEF invalid
    <3>3. q \in Queries
      BY <3>2, ParsedPage DEF Query, Queries, searchOf
    <3>4. kind \in Kinds /\ <<kind>> \in Seq(Kinds)
      BY CallNames DEF Kinds
    <3> HIDE DEF q
    <3> QED BY <1>1, <3>1, <3>3, <3>4, Started
  <2> QED BY <2>1, <2>2
<1>5. ASSUME NEW term \in Terms, getSearch(term) PROVE AnswersIInv'
  <2>1. CASE term \in {NoTag, <<>>}
    BY <1>1, <1>5, <2>1, Refused DEF getSearch
  <2>2. CASE term \notin {NoTag, <<>>}
    <3> DEFINE q == Query([limit |-> SearchLimit, offset |-> 0], term, NotGiven, NotGiven)
               calls == <<"artists", "albums", "tracks">>
    <3>1. Handle("search", calls, q, 0)
      BY <1>5, <2>2 DEF getSearch
    <3>2. q \in Queries
      BY ApiAssumption DEF Query, Queries
    <3>3. "search" \in Kinds /\ calls \in Seq(Kinds)
      BY CallNames DEF Kinds
    <3> HIDE DEF q, calls
    <3> QED BY <1>1, <3>1, <3>2, <3>3, Started
  <2> QED BY <2>1, <2>2
<1>6. CASE getStatus
  <2>1. Handle("status", <<"count">>, AllTracks, 0)
    BY <1>6 DEF getStatus
  <2>2. "status" \in Kinds /\ <<"count">> \in Seq(Kinds)
    BY CallNames DEF Kinds
  <2> QED BY <1>1, <1>2, <2>1, <2>2, Started
<1>7. CASE getPage
  <2> DEFINE q == Query(parsePagination(PageSize, walk.offset), NoTag, NotGiven, NotGiven)
  <2>1. Handle("page", <<"tracks">>, q, 0)
    BY <1>7 DEF getPage
  <2>2. PageSize \in Int \cup {NotGiven} /\ walk.offset \in Int \cup {NotGiven}
    BY ApiAssumption, PagingAssumption
  <2>3. q \in Queries
    <3>1. parsePagination(PageSize, walk.offset) \in [limit : Nat, offset : Nat]
      BY <2>2, ParsedPage
    <3> QED BY <3>1 DEF Query, Queries
  <2>4. "page" \in Kinds /\ <<"tracks">> \in Seq(Kinds)
    BY CallNames DEF Kinds
  <2> HIDE DEF q
  <2> QED BY <1>1, <2>1, <2>3, <2>4, Started
<1> QED BY <1>3, <1>4, <1>5, <1>6, <1>7 DEF Receive

\* A request that a step works on is sound.
LEMMA Handled == ASSUME AnswersIInv, rd # NoRequest PROVE RequestSound(rd, db) /\ rd \in Request
  BY DEF AnswersIInv, RequestSound

LEMMA RowsFound ==
    ASSUME AnswersIInv, NextCall, UNCHANGED wvars, NEW items \in Seq(Item), Found(items),
           \A k \in DOMAIN items : ItemSound(items[k], db)
    PROVE  AnswersIInv'
<1>1. RequestSound(rd, db) /\ rd.items = <<>> /\ rd.calls # <<>>
  BY Handled DEF NextCall
<1>2. rd' = [rd EXCEPT !.calls = Tail(@), !.items = items] /\ resp' = resp
  BY DEF Found
<1>3. RequestSound([rd EXCEPT !.calls = Tail(@), !.items = items], db)
  BY <1>1, FoundRequest, Zenon
<1>4. RequestSound(rd', db)
  BY <1>2, <1>3
<1> QED BY <1>2, <1>4, HandlerStep DEF AnswersIInv

\* The answer is one JSON object that comes from one SELECT.
LEMMA OneObject ==
    ASSUME AnswersIInv, UNCHANGED wvars, NEW j, j.kind \notin {"track", "album"},
           Answer(200, <<j>>)
    PROVE  AnswersIInv'
<1>1. rd' = NoRequest /\ resp'.out = <<j>>
  BY DEF Answer
<1>2. \A k \in DOMAIN resp'.out : WholeJson(resp'.out[k], db)
  BY <1>1 DEF WholeJson
<1> QED BY <1>1, <1>2, HandlerStep

LEMMA findTrackAnswers == ASSUME CatalogueIInv, AnswersIInv, findTrack PROVE AnswersIInv'
<1>1. NextCall /\ UNCHANGED wvars
  BY DEF findTrack
<1> DEFINE item == [kind |-> "track", id |-> rd.id, row |-> db.tracks[rd.id]]
<1>2. CASE rd.id \in DOMAIN db.tracks /\ ~db.tracks[rd.id].deleted /\ Head(rd.calls) = "track"
  <2>1. Found(<<item>>)
    BY <1>2 DEF findTrack
  <2>2. db.tracks[rd.id] \in TrackRow /\ TrackMatches(db, db.tracks[rd.id]) /\ rd.id \in Nat
    BY <1>2, ElementOfSeq, LenProperties DEF CatalogueIInv, TablesSound, Tables
  <2>3. item \in Item /\ ItemSound(item, db)
    BY <2>2 DEF Item, ItemSound
  <2> HIDE DEF item
  <2>4. <<item>> \in Seq(Item) /\ \A k \in DOMAIN <<item>> : ItemSound(<<item>>[k], db)
    BY <2>3
  <2> QED BY <1>1, <2>1, <2>4, RowsFound
<1>3. CASE ~(rd.id \in DOMAIN db.tracks /\ ~db.tracks[rd.id].deleted /\ Head(rd.calls) = "track")
  BY <1>1, <1>3, Refused DEF findTrack
<1> QED BY <1>2, <1>3

LEMMA findOtherAnswers == ASSUME CatalogueIInv, AnswersIInv, findOther PROVE AnswersIInv'
<1>1. NextCall /\ UNCHANGED wvars
  BY DEF findOther
<1> DEFINE item == [kind |-> "album", id |-> rd.id, row |-> db.albums[rd.id]]
           json == [kind |-> "artist", id |-> rd.id, name |-> db.artists[rd.id]]
<1>2. CASE rd.id \in DOMAIN db.albums /\ Found(<<item>>)
  <2>1. db.albums[rd.id] \in AlbumRow /\ rd.id \in Nat
    BY <1>2, ElementOfSeq, LenProperties DEF CatalogueIInv, TablesSound, Tables
  <2>2. item \in Item /\ ItemSound(item, db)
    BY <1>2, <2>1 DEF Item, ItemSound
  <2>3. Found(<<item>>)
    BY <1>2
  <2> HIDE DEF item
  <2>4. <<item>> \in Seq(Item) /\ \A k \in DOMAIN <<item>> : ItemSound(<<item>>[k], db)
    BY <2>2
  <2> QED BY <1>1, <2>3, <2>4, RowsFound
<1>3. CASE Answer(200, <<json>>)
  <2>1. json.kind = "artist"
    OBVIOUS
  <2>2. Answer(200, <<json>>)
    BY <1>3
  <2> HIDE DEF json
  <2> QED BY <1>1, <2>1, <2>2, OneObject
<1>4. CASE Answer(404, <<>>)
  BY <1>1, <1>4, Refused
<1> QED BY <1>2, <1>3, <1>4 DEF findOther

LEMMA listRowsAnswers == ASSUME CatalogueIInv, AnswersIInv, listRows PROVE AnswersIInv'
<1>1. NextCall /\ UNCHANGED wvars
  BY Zenon DEF listRows
<1>2. RequestSound(rd, db) /\ rd \in Request /\ rd.items = <<>> /\ rd.calls # <<>>
      /\ rd.q.page \in [limit : Nat, offset : Nat] /\ TablesSound(db)
  BY <1>1, Handled DEF NextCall, Request, Queries, CatalogueIInv
<1>3. ASSUME NEW rows \in listTracks(db, rd.q) \cup listAlbums(db, rd.q), Found(rows)
      PROVE  AnswersIInv'
  <2>1. rows \in Seq(Item) /\ \A k \in DOMAIN rows : ItemSound(rows[k], db)
    BY <1>2, ListedRows
  <2> QED BY <1>1, <1>3, <2>1, RowsFound
<1>4. ASSUME NEW rows \in listArtists(db, rd.q),
             rd' = [rd EXCEPT !.calls = Tail(@), !.out = @ \o rows], resp' = resp
      PROVE  AnswersIInv'
  <2>1. rows \in Seq(Json) /\ \A k \in DOMAIN rows : WholeJson(rows[k], db)
    BY <1>2, ListedRows
  <2> PICK x : x = rd
    OBVIOUS
  <2> PICK y : y = rd'
    OBVIOUS
  <2>2. x \in Request /\ x.out \in Seq(Json)
    BY <1>2 DEF Request
  <2>3. Tail(x.calls) \in Seq(Kinds)
    BY <1>2, HeadTailProperties DEF Request
  <2> PICK o : o = x.out \o rows
    OBVIOUS
  <2>4. /\ o \in Seq(Json) /\ Len(o) = Len(x.out) + Len(rows)
        /\ \A k \in 1..Len(x.out) + Len(rows) : o[k] = IF k <= Len(x.out) THEN x.out[k]
                                                       ELSE rows[k - Len(x.out)]
    BY <2>1, <2>2, ConcatProperties
  <2>5. /\ Len(x.out) \in Nat /\ DOMAIN x.out = 1..Len(x.out)
        /\ Len(rows) \in Nat /\ DOMAIN rows = 1..Len(rows) /\ DOMAIN o = 1..Len(o)
    BY <2>1, <2>2, <2>4, LenProperties
  <2>6. \A k \in DOMAIN o : WholeJson(o[k], db)
    <3> TAKE k \in DOMAIN o
    <3>1. CASE k <= Len(x.out)
      BY <1>2, <2>4, <2>5, <3>1 DEF RequestSound
    <3>2. CASE ~(k <= Len(x.out))
      <4>1. k - Len(x.out) \in DOMAIN rows
        BY <2>4, <2>5, <3>2
      <4> QED BY <2>1, <2>4, <2>5, <3>2, <4>1
    <3> QED BY <3>1, <3>2
  <2>7. y \in Request /\ y.items = <<>> /\ y.out = o /\ y.artist = NoTag
    <3>1. y = [x EXCEPT !.calls = Tail(x.calls), !.out = o] /\ x.items = <<>> /\ x.artist = NoTag
      BY <1>2, <1>4 DEF RequestSound
    <3> QED BY <2>2, <2>3, <2>4, <3>1 DEF Request
  <2>8. RequestSound(y, db)
    BY <2>6, <2>7, EmptySeq DEF RequestSound
  <2> QED BY <1>1, <1>4, <2>8, HandlerStep DEF AnswersIInv
<1>5. \/ \E rows \in listTracks(db, rd.q) \cup listAlbums(db, rd.q) : Found(rows)
      \/ \E rows \in listArtists(db, rd.q) :
            rd' = [rd EXCEPT !.calls = Tail(@), !.out = @ \o rows] /\ resp' = resp
  BY Zenon DEF listRows
<1> QED BY <1>3, <1>4, <1>5, Zenon

LEMMA countRowsAnswers == ASSUME AnswersIInv, countRows PROVE AnswersIInv'
<1> DEFINE json == [kind |-> "count", count |-> countTracks(db, rd.q)]
<1>1. UNCHANGED wvars /\ Answer(200, <<json>>) /\ json.kind = "count"
  BY DEF countRows
<1> HIDE DEF json
<1> QED BY <1>1, OneObject

LEMMA renderArtistAnswers == ASSUME CatalogueIInv, AnswersIInv, renderArtist PROVE AnswersIInv'
<1> PICK x, y, d : x = rd /\ y = rd' /\ d = db
  OBVIOUS
<1>1. UNCHANGED wvars /\ resp' = resp /\ TablesSound(d) /\ RequestSound(x, d) /\ x \in Request
      /\ x.items # <<>>
  BY Handled DEF renderArtist, CatalogueIInv
<1>2. y = [x EXCEPT !.artist = <<artistName(Head(x.items).row.artist)>>]
  BY DEF renderArtist
<1>3. /\ Head(x.items) = x.items[1] /\ Head(x.items).row.artist \in 0..Len(d.artists)
      /\ Len(d.artists) \in Nat /\ DOMAIN d.artists = 1..Len(d.artists)
      /\ \A id \in DOMAIN d.artists : d.artists[id] \in Names
  BY <1>1, FirstItem, ElementOfSeq, LenProperties DEF TablesSound, Tables
<1> PICK name : name = artistName(Head(x.items).row.artist)
  OBVIOUS
<1>4. name = nameIn(d, x.items[1].row.artist) /\ name \in Names \cup {NoTag}
  BY <1>3 DEF artistName, nameIn
<1>5. <<name>> \in Seq(Names \cup {NoTag}) /\ <<name>>[1] = name
  BY <1>4
<1>6. y \in Request /\ y.items = x.items /\ y.out = x.out /\ y.artist = <<name>>
  BY <1>1, <1>2, <1>5 DEF Request
<1>7. RequestSound(y, d)
  BY <1>1, <1>4, <1>5, <1>6 DEF RequestSound
<1> QED BY <1>1, <1>7, HandlerStep DEF AnswersIInv

LEMMA TrackCount == ASSUME CatalogueIInv, NEW q PROVE countTracks(db, q) \in Nat
<1>1. Len(db.tracks) \in Nat /\ DOMAIN db.tracks = 1..Len(db.tracks)
  BY LenProperties DEF CatalogueIInv, TablesSound, Tables
<1>2. IsFiniteSet(1..Len(db.tracks)) /\ trackIds(db, q) \in SUBSET (1..Len(db.tracks))
  BY <1>1, FS_Interval DEF trackIds
<1> QED BY <1>2, FS_Subset, FS_CardinalityType DEF countTracks

\* An element is rendered from a row that was read and an artist name.
LEMMA RenderedStep ==
    ASSUME AnswersIInv, UNCHANGED <<wvars, resp>>, rd # NoRequest, rd.items # <<>>,
           NEW item, NEW json \in Json, Rendered(item, json), WholeJson(json, db)
    PROVE  AnswersIInv'
<1>1. rd' = [rd EXCEPT !.items = Tail(@), !.artist = NoTag, !.out = Append(@, json)]
  BY DEF Rendered
<1>2. RequestSound(rd, db)
  BY Handled
<1>3. RequestSound([rd EXCEPT !.items = Tail(@), !.artist = NoTag, !.out = Append(@, json)], db)
  BY <1>2, RenderedRequest, Zenon
<1>4. RequestSound(rd', db)
  BY <1>1, <1>3
<1> QED BY <1>4, HandlerStep DEF AnswersIInv

LEMMA trackJsonElement ==
    ASSUME CatalogueIInv, AnswersIInv, trackJson
    PROVE  \E json \in Json : /\ json.id = Head(rd.items).id /\ WholeJson(json, db)
                              /\ Rendered(Head(rd.items), json)
<1> PICK x, d, item : x = rd /\ d = db /\ item = Head(x.items)
  OBVIOUS
<1> DEFINE album == IF item.row.album \in DOMAIN d.albums THEN d.albums[item.row.album].title ELSE NoTag
           json == [kind |-> "track", id |-> item.id, title |-> item.row.title,
                    artist |-> x.artist[1], album |-> album, raw |-> item.row.raw]
<1>1. /\ UNCHANGED <<wvars, resp>> /\ TablesSound(d) /\ RequestSound(x, d) /\ x # NoRequest
      /\ x.items # <<>> /\ x.artist # NoTag /\ item.kind = "track"
  BY Handled DEF trackJson, CatalogueIInv
<1>2. Rendered(item, json)
  BY DEF trackJson
<1>3. /\ item = x.items[1] /\ item \in Item /\ TrackMatches(d, item.row)
      /\ item.row \in TrackRow /\ item.id \in Nat
  BY <1>1, FirstItem DEF ItemSound, Item
<1>4. /\ Len(d.albums) \in Nat /\ DOMAIN d.albums = 1..Len(d.albums)
      /\ \A id \in DOMAIN d.albums : d.albums[id] \in AlbumRow
  BY <1>1, ElementOfSeq, LenProperties DEF TablesSound, Tables
<1>5. x.artist[1] = ArtistOf(item.row.raw)
  BY <1>1, <1>3 DEF RequestSound, TrackMatches
<1>6. album = nonEmpty(item.row.raw.album)
  BY <1>3, <1>4 DEF TrackMatches, nonEmpty
<1>7. ArtistOf(item.row.raw) \in Names \cup {NoTag} /\ album \in AlbumTitles \cup {NoTag}
  <2>1. item.row.raw \in RawTags
    BY <1>3 DEF TrackRow
  <2> QED BY <1>4, <2>1 DEF ArtistOf, nonEmpty, Names, AlbumRow
<1> HIDE DEF album
<1>8. json \in Json /\ WholeJson(json, d)
  BY <1>3, <1>5, <1>6, <1>7 DEF Json, WholeJson, TrackRow
<1>9. json.id = item.id
  OBVIOUS
<1> HIDE DEF json
<1> QED BY <1>2, <1>8, <1>9

LEMMA albumJsonElement ==
    ASSUME CatalogueIInv, AnswersIInv, albumJson
    PROVE  \E json \in Json : /\ json.id = Head(rd.items).id /\ WholeJson(json, db)
                              /\ Rendered(Head(rd.items), json)
<1> PICK x, d, item : x = rd /\ d = db /\ item = Head(x.items)
  OBVIOUS
<1> PICK count : count = countTracks(db, [AllTracks EXCEPT !.albumId = item.id])
  OBVIOUS
<1> DEFINE json == [kind |-> "album", id |-> item.id, title |-> item.row.title,
                    artist |-> x.artist[1], trackCount |-> count]
<1>1. /\ UNCHANGED <<wvars, resp>> /\ TablesSound(d) /\ RequestSound(x, d) /\ x # NoRequest
      /\ x.items # <<>> /\ x.artist # NoTag /\ item.kind = "album"
  BY Handled DEF albumJson, CatalogueIInv
<1>2. Rendered(item, json) /\ count \in Nat
  BY TrackCount DEF albumJson
<1>3. /\ item = x.items[1] /\ item.row \in AlbumRow /\ item.id \in Nat
      /\ item.id \in DOMAIN d.albums /\ item.row = d.albums[item.id]
      /\ item.row.artist \in 0..Len(d.artists)
  BY <1>1, FirstItem DEF ItemSound, Item
<1>4. /\ Len(d.artists) \in Nat /\ DOMAIN d.artists = 1..Len(d.artists)
      /\ \A id \in DOMAIN d.artists : d.artists[id] \in Names
  BY <1>1, ElementOfSeq, LenProperties DEF TablesSound, Tables
<1>5. x.artist[1] = nameIn(d, item.row.artist) /\ x.artist[1] \in Names \cup {NoTag}
  BY <1>1, <1>3, <1>4 DEF RequestSound, nameIn
<1>6. json \in Json /\ WholeJson(json, d)
  BY <1>2, <1>3, <1>5 DEF Json, WholeJson, AlbumRow
<1>7. json.id = item.id
  OBVIOUS
<1> HIDE DEF json
<1> QED BY <1>2, <1>6, <1>7

LEMMA JsonAnswers ==
    ASSUME CatalogueIInv, AnswersIInv, trackJson \/ albumJson PROVE AnswersIInv'
<1>1. UNCHANGED <<wvars, resp>> /\ rd # NoRequest /\ rd.items # <<>>
  BY DEF trackJson, albumJson
<1>2. PICK json \in Json : /\ json.id = Head(rd.items).id /\ WholeJson(json, db)
                          /\ Rendered(Head(rd.items), json)
  BY trackJsonElement, albumJsonElement
<1> QED BY <1>1, <1>2, RenderedStep

LEMMA ScanAnswers == ASSUME CatalogueIInv, AnswersIInv, Scan PROVE AnswersIInv'
<1>1. WNext /\ rd' = rd /\ resp'.out = <<>>
  BY DEF Scan, NoResponse
<1>2. Growing' /\ Extends(db, db') /\ TablesSound(db) /\ TablesSound(db')
  BY <1>1, WriterKeepsRows, WriterGrows DEF AnswersIInv, CatalogueIInv
<1>3. rd' = NoRequest \/ RequestSound(rd', db')
  BY <1>1, <1>2, RequestKept DEF AnswersIInv
<1>4. DOMAIN resp'.out = {}
  BY <1>1
<1> QED BY <1>2, <1>3, <1>4 DEF AnswersIInv

LEMMA NextAnswers ==
    CatalogueIInv /\ AnswersIInv /\ walk.offset \in Nat /\ [Next]_avars => AnswersIInv'
<1> SUFFICES ASSUME CatalogueIInv, AnswersIInv, walk.offset \in Nat, [Next]_avars
             PROVE  AnswersIInv'
  OBVIOUS
<1>1. CASE Return
  <2>1. UNCHANGED wvars /\ rd' = NoRequest /\ resp'.out = rd.out /\ rd # NoRequest
    BY <1>1 DEF Return, Answer
  <2>2. \A k \in DOMAIN rd.out : WholeJson(rd.out[k], db)
    BY <2>1, Handled DEF RequestSound
  <2> QED BY <2>1, <2>2, HandlerStep
<1>2. CASE WalkEnds \/ UNCHANGED avars
  <2>1. UNCHANGED <<wvars, rd, resp>>
    BY <1>2 DEF WalkEnds, avars, wvars
  <2> QED BY <2>1, HandlerStep DEF AnswersIInv
<1>3. CASE Receive
  BY <1>3, ReceiveAnswers
<1>4. CASE findTrack \/ findOther \/ listRows \/ countRows
  BY <1>4, findTrackAnswers, findOtherAnswers, listRowsAnswers, countRowsAnswers
<1>5. CASE renderArtist \/ trackJson \/ albumJson
  BY <1>5, renderArtistAnswers, JsonAnswers
<1>6. CASE Scan
  BY <1>6, ScanAnswers
<1> QED BY <1>1, <1>2, <1>3, <1>4, <1>5, <1>6 DEF Next

-----------------------------------------------------------------------------
(* CatalogueApi: places in the order of ids.                                *)

LEMMA PlaceType ==
    ASSUME NEW d \in Tables, NEW i
    PROVE  /\ IsFiniteSet(shown(d)) /\ IsFiniteSet(upTo(d, i)) /\ upTo(d, i) \subseteq shown(d)
           /\ Cardinality(shown(d)) \in Nat /\ place(d, i) \in 0..Cardinality(shown(d))
           /\ i \in shown(d) => i \in Nat /\ place(d, i) \in 1..Cardinality(shown(d))
<1>1. Len(d.tracks) \in Nat /\ DOMAIN d.tracks = 1..Len(d.tracks)
  BY LenProperties DEF Tables
<1>2. IsFiniteSet(1..Len(d.tracks)) /\ shown(d) \in SUBSET (1..Len(d.tracks))
  BY <1>1, FS_Interval DEF shown
<1>3. IsFiniteSet(shown(d)) /\ upTo(d, i) \in SUBSET shown(d)
  BY <1>2, FS_Subset DEF upTo
<1>4. IsFiniteSet(upTo(d, i)) /\ Cardinality(upTo(d, i)) <= Cardinality(shown(d))
  BY <1>3, FS_Subset
<1>5. Cardinality(shown(d)) \in Nat /\ Cardinality(upTo(d, i)) \in Nat
  BY <1>3, <1>4, FS_CardinalityType
<1>6. ASSUME i \in shown(d) PROVE i \in Nat /\ Cardinality(upTo(d, i)) # 0
  <2>1. i \in Nat
    BY <1>1, <1>6 DEF shown
  <2>2. i \in upTo(d, i)
    BY <1>6, <2>1 DEF upTo
  <2> QED BY <1>4, <2>1, <2>2, FS_EmptySet
<1> QED BY <1>3, <1>4, <1>5, <1>6 DEF place

LEMMA PlaceIsOwn ==
    ASSUME NEW d \in Tables, NEW i \in shown(d), NEW j \in shown(d), place(d, i) = place(d, j)
    PROVE  i = j
<1>1. i \in Nat /\ j \in Nat
  BY PlaceType
<1>2. ASSUME NEW a \in shown(d), NEW b \in shown(d), a \in Nat, b \in Nat, a < b,
             place(d, a) = place(d, b)
      PROVE  FALSE
  <2>1. upTo(d, a) \in SUBSET upTo(d, b) /\ b \in upTo(d, b) /\ b \notin upTo(d, a)
    <3>1. upTo(d, a) \subseteq upTo(d, b)
      <4>1. \A c \in shown(d) : c \in Nat
        BY PlaceType
      <4>2. \A c \in shown(d) : c <= a => c <= b
        BY <1>2, <4>1
      <4> QED BY <4>2 DEF upTo
    <3> QED BY <1>2, <3>1 DEF upTo
  <2>2. IsFiniteSet(upTo(d, b)) /\ Cardinality(upTo(d, b)) = Cardinality(upTo(d, a))
    BY <1>2, PlaceType DEF place
  <2>3. upTo(d, b) = upTo(d, a)
    BY <2>1, <2>2, FS_Subset
  <2> QED BY <2>1, <2>3
<1>3. i < j \/ j < i \/ i = j
  BY <1>1
<1> QED BY <1>1, <1>2, <1>3

\* Rows that are added come last, so the tracks that were there keep their places.
LEMMA PlaceKept ==
    ASSUME NEW d \in Tables, NEW e \in Tables, Len(d.tracks) <= Len(e.tracks),
           \A i \in DOMAIN d.tracks : e.tracks[i].deleted = d.tracks[i].deleted,
           NEW i \in DOMAIN d.tracks
    PROVE  (i \in shown(d) <=> i \in shown(e)) /\ place(e, i) = place(d, i)
<1>1. /\ Len(d.tracks) \in Nat /\ DOMAIN d.tracks = 1..Len(d.tracks)
      /\ Len(e.tracks) \in Nat /\ DOMAIN e.tracks = 1..Len(e.tracks)
  BY LenProperties DEF Tables
<1>2. \A j \in DOMAIN d.tracks : j \in shown(d) <=> j \in shown(e)
  BY <1>1 DEF shown
<1>3. \A j \in DOMAIN e.tracks : j <= i => j \in DOMAIN d.tracks
  BY <1>1
<1>4. upTo(e, i) = upTo(d, i)
  BY <1>1, <1>2, <1>3 DEF upTo, shown
<1> QED BY <1>2, <1>4 DEF place

\* In a list of all tracks ordered by id each stands at its place.
LEMMA SortedPlace ==
    ASSUME NEW d \in Tables,
           NEW t \in sequences(shown(d), [i \in DOMAIN d.tracks |-> i]), NEW k \in DOMAIN t
    PROVE  place(d, t[k]) = k
<1> DEFINE V == shown(d)
           n == Cardinality(V)
           U == upTo(d, t[k])
           g == [m \in 1..k |-> t[m]]
<1>1. IsFiniteSet(V) /\ n \in Nat /\ IsFiniteSet(U) /\ \A v \in V : v \in Nat
  BY PlaceType
<1>2. t \in [1..n -> V] /\ \A i, j \in 1..n : t[i] = t[j] => i = j
  BY DEF sequences
<1>3. \A i, j \in 1..n : i < j => t[i] <= t[j]
  <2>1. \A v \in V : v \in DOMAIN d.tracks
    BY DEF shown
  <2> QED BY <1>2, <2>1 DEF sequences
<1> HIDE DEF V, n
<1>4. k \in 1..n /\ \A i \in 1..n : t[i] \in Nat
  BY <1>1, <1>2
<1>5. t \in Surjection(1..n, V)
  <2>1. t \in Injection(1..n, V)
    BY <1>2 DEF Injection, IsInjective
  <2>2. Cardinality(1..n) = Cardinality(V)
    BY <1>1, FS_Interval DEF n
  <2> QED BY <1>1, <2>1, <2>2, FS_Injection
<1>6. g \in [1..k -> U]
  <2>1. \A m \in 1..k : m \in 1..n /\ (m < k \/ m = k)
    BY <1>1, <1>4
  <2>2. \A m \in 1..k : m \in 1..n /\ t[m] <= t[k]
    BY <1>3, <1>4, <2>1
  <2> QED BY <1>2, <2>2 DEF upTo, V
<1>7. \A u \in U : \E m \in 1..k : t[m] = u
  <2> TAKE u \in U
  <2>1. u \in V /\ u <= t[k]
    BY DEF upTo, V
  <2>2. PICK m \in 1..n : t[m] = u
    BY <1>5, <2>1 DEF Surjection
  <2>3. ~(k < m)
    BY <1>2, <1>3, <1>4, <2>1, <2>2
  <2> QED BY <1>4, <2>2, <2>3
<1>8. g \in Bijection(1..k, U)
  <2>1. \A i, j \in 1..k : g[i] = g[j] => i = j
    BY <1>1, <1>2, <1>4
  <2>2. \A u \in U : \E m \in 1..k : g[m] = u
    BY <1>7
  <2> HIDE DEF g
  <2> QED BY <1>6, <2>1, <2>2 DEF Bijection, Injection, IsInjective, Surjection
<1>9. Cardinality(U) = Cardinality(1..k)
  BY <1>8, <1>4, FS_Bijection, FS_Interval DEF ExistsBijection
<1> QED BY <1>4, <1>9, FS_Interval DEF place

-----------------------------------------------------------------------------
(* CatalogueApi: the client that walks.                                     *)

\* The walk itself does not move.
LEMMA WalkStays ==
    ASSUME WalkIInv, UNCHANGED <<wvars, walk>>, rd'.kind = "page" => walk.on,
           ~walk.disturbed => PageSound(rd', walk, db)
    PROVE  WalkIInv'
<1>1. db' = db /\ walk' = walk
  BY DEF wvars
<1>2. /\ walk' \in [on : BOOLEAN, offset : Nat, got : Seq(Nat), from : Nat, disturbed : BOOLEAN]
      /\ rd'.kind = "page" => walk'.on
  BY <1>1 DEF WalkIInv
<1>3. ~walk'.disturbed => Gathered(walk', db') /\ PageSound(rd', walk', db')
  BY <1>1 DEF WalkIInv
<1> QED BY <1>2, <1>3 DEF WalkIInv

LEMMA WalkUnasked ==
    ASSUME WalkIInv, UNCHANGED <<wvars, walk>>, rd'.kind # "page" PROVE WalkIInv'
  BY WalkStays DEF PageSound

LEMMA ReceiveWalks == ASSUME CatalogueIInv, WalkIInv, Receive PROVE WalkIInv'
<1>1. CASE getPage
  <2> DEFINE q == Query(parsePagination(PageSize, walk.offset), NoTag, NotGiven, NotGiven)
  <2> PICK w, v, y : w = walk /\ v = walk' /\ y = rd'
    OBVIOUS
  <2>1. /\ rd = NoRequest /\ (w.on \/ w = NoWalk) /\ db' = db
        /\ v = IF w.on THEN w ELSE [NoWalk EXCEPT !.on = TRUE, !.from = Len(db.tracks)]
    BY <1>1 DEF getPage, wvars
  <2>2. y = [kind |-> "page", calls |-> <<"tracks">>, q |-> q, id |-> 0, items |-> <<>>,
             artist |-> NoTag, out |-> <<>>]
    BY <1>1 DEF getPage, Handle
  <2>3. /\ w \in [on : BOOLEAN, offset : Nat, got : Seq(Nat), from : Nat, disturbed : BOOLEAN]
        /\ ~w.disturbed => Gathered(w, db)
    BY DEF WalkIInv
  <2>4. /\ v \in [on : BOOLEAN, offset : Nat, got : Seq(Nat), from : Nat, disturbed : BOOLEAN]
        /\ v.on /\ v.offset = w.offset
        /\ ~v.disturbed => Gathered(v, db)
    <3>1. CASE w.on
      BY <2>1, <2>3, <3>1
    <3>2. CASE ~w.on
      <4>1. v = [on |-> TRUE, offset |-> 0, got |-> <<>>, from |-> Len(db.tracks),
                 disturbed |-> FALSE] /\ w.offset = 0
        BY <2>1, <3>2 DEF NoWalk
      <4>2. Len(db.tracks) \in Nat /\ <<>> \in Seq(Nat) /\ Len(<<>>) = 0
        BY LenProperties, EmptySeq DEF CatalogueIInv, TablesSound, Tables
      <4>3. DOMAIN v.got = {}
        BY <4>1
      <4>4. Gathered(v, db)
        BY <4>1, <4>2, <4>3 DEF Gathered
      <4> QED BY <4>1, <4>2, <4>4
    <3> QED BY <3>1, <3>2
  <2>5. PageAsked(y, v)
    <3>1. PageSize \in Int \cup {NotGiven} /\ w.offset \in Int \cup {NotGiven} /\ w.offset \in Nat
      BY <2>3, ApiAssumption, PagingAssumption
    <3>2. parsePagination(PageSize, w.offset) = [limit |-> PageSize, offset |-> w.offset]
      BY <3>1, ParsedPage
    <3> QED BY <2>2, <2>4, <3>2 DEF PageAsked
  <2> QED BY <2>1, <2>4, <2>5 DEF WalkIInv, PageSound
<1>2. CASE ~getPage
  <2>1. UNCHANGED <<wvars, walk>>
    BY <1>2 DEF Receive, getById, getList, getSearch, getStatus
  <2>2. rd'.kind # "page"
    <3>1. ASSUME NEW kind, NEW calls, NEW q, NEW id, Handle(kind, calls, q, id) PROVE rd'.kind = kind
      BY <3>1 DEF Handle
    <3>2. ASSUME NEW status, Answer(status, <<>>) PROVE rd'.kind = "none"
      BY <3>2 DEF Answer, NoRequest
    <3> QED BY <1>2, <3>1, <3>2 DEF Receive, getById, getList, getSearch, getStatus
  <2> QED BY <2>1, <2>2, WalkUnasked
<1> QED BY <1>1, <1>2

\* The page is a piece of the list of all tracks by id.
LEMMA PageListed ==
    ASSUME NEW d, TablesSound(d), NEW w, w.offset \in Nat, NEW x, x \in Request, PageAsked(x, w),
           NEW rows \in listTracks(d, x.q)
    PROVE  PageRead([x EXCEPT !.calls = Tail(@), !.items = rows], w, d)
<1> PICK y : y = [x EXCEPT !.calls = Tail(@), !.items = rows]
  OBVIOUS
<1> PICK page : page = [limit |-> PageSize, offset |-> w.offset]
  OBVIOUS
<1>1. y.items = rows /\ y.out = <<>>
  BY DEF PageAsked, Request
<1>2. trackIds(d, x.q) = shown(d) /\ x.q.page = page
  BY DEF PageAsked, Query, trackIds, shown, trackFilter, matchesId, matchesTerm
<1>3. page \in [limit : Nat, offset : Nat] /\ PageSize \in Nat
  BY ApiAssumption, PagingAssumption
<1>4. d \in Tables
  BY DEF TablesSound
<1>5. PICK t \in sequences(shown(d), [i \in DOMAIN d.tracks |-> i]) :
         rows = [k \in DOMAIN pageOf(t, page) |->
                    [kind |-> "track", id |-> pageOf(t, page)[k],
                     row |-> d.tracks[pageOf(t, page)[k]]]]
  BY <1>2 DEF listTracks
<1>6. t \in Seq(shown(d)) /\ Len(t) = Cardinality(shown(d)) /\ DOMAIN t = 1..Len(t)
      /\ Len(t) \in Nat
  <2>1. Len(d.tracks) \in Nat /\ shown(d) \in SUBSET (1..Len(d.tracks))
    BY <1>4, LenProperties DEF Tables, shown
  <2>2. t \in Seq(shown(d)) /\ Len(t) = Cardinality(shown(d))
    BY <2>1, SequenceOf
  <2> QED BY <2>2, LenProperties
<1> PICK p : p = pageOf(t, page)
  OBVIOUS
<1>7. /\ p \in Seq(shown(d)) /\ Len(p) \in Nat /\ DOMAIN p = 1..Len(p) /\ Len(p) <= PageSize
      /\ \A k \in 1..Len(p) : w.offset + k \in 1..Len(t) /\ p[k] = t[w.offset + k]
      /\ Len(p) < PageSize => Len(t) <= w.offset + Len(p)
  <2>1. t \in Seq(shown(d)) /\ page \in [limit : Nat, offset : Nat]
    BY <1>3, <1>6
  <2>2. /\ p \in Seq(shown(d)) /\ Len(p) \in Nat /\ DOMAIN p = 1..Len(p) /\ Len(p) <= page.limit
        /\ \A k \in 1..Len(p) : page.offset + k \in 1..Len(t) /\ p[k] = t[page.offset + k]
        /\ Len(p) < page.limit => Len(t) <= page.offset + Len(p)
    BY <2>1, PageOf
  <2>3. page.limit = PageSize /\ page.offset = w.offset
    OBVIOUS
  <2> QED BY <2>2, <2>3
<1>8. /\ DOMAIN rows = 1..Len(p) /\ Len(rows) = Len(p)
      /\ \A k \in 1..Len(p) : rows[k].kind = "track" /\ rows[k].id = p[k]
  BY <1>5, <1>7
<1>9. \A k \in 1..Len(p) : p[k] \in shown(d) /\ place(d, p[k]) = w.offset + k
  BY <1>4, <1>6, <1>7, SortedPlace, ElementOfSeq
<1>10. \A i : place(d, i) <= Len(t) /\ place(d, i) \in Nat
  BY <1>4, <1>6, PlaceType
<1>11. DOMAIN y.out = {} /\ Len(y.out) = 0
  BY <1>1
<1>12. \A k \in DOMAIN y.items :
          /\ y.items[k].kind = "track" /\ y.items[k].id \in shown(d)
          /\ place(d, y.items[k].id) = w.offset + Len(y.out) + k
  BY <1>1, <1>7, <1>8, <1>9, <1>11
<1>13. Len(y.out) + Len(y.items) = Len(p) /\ w.offset + Len(y.out) + Len(y.items) = w.offset + Len(p)
  <2>1. Len(y.out) = 0 /\ Len(y.items) = Len(p) /\ Len(p) \in Nat
    BY <1>1, <1>7, <1>8, <1>11
  <2> QED BY <2>1
<1>14. Len(p) < PageSize => \A i \in shown(d) : i <= w.from => place(d, i) <= w.offset + Len(p)
  BY <1>6, <1>7, <1>10
<1>15. PageRead(y, w, d)
  BY <1>7, <1>11, <1>12, <1>13, <1>14 DEF PageRead
<1> QED BY <1>15

\* Any other SELECT than that of all tracks is for another request than the walk's.
LEMMA OtherCall ==
    ASSUME WalkIInv, UNCHANGED <<wvars, walk>>, NextCall, Head(rd.calls) # "tracks",
           rd'.kind = rd.kind \/ rd'.kind = "none"
    PROVE  WalkIInv'
<1>1. rd'.kind = "page" => walk.on
  BY DEF WalkIInv
<1>2. ASSUME ~walk.disturbed PROVE PageSound(rd', walk, db)
  <2>1. PageSound(rd, walk, db) /\ rd.calls # <<>>
    BY <1>2 DEF WalkIInv, NextCall
  <2>2. rd.kind # "page"
    BY <2>1 DEF PageSound, PageAsked
  <2> QED BY <2>2 DEF PageSound
<1> QED BY <1>1, <1>2, WalkStays

LEMMA SelectWalks ==
    ASSUME CatalogueIInv, AnswersIInv, WalkIInv, findTrack \/ findOther \/ listRows \/ countRows
    PROVE  WalkIInv'
<1>1. NextCall /\ UNCHANGED <<wvars, walk>> /\ rd # NoRequest
  BY Zenon DEF findTrack, findOther, listRows, countRows, NextCall
<1>2. RequestSound(rd, db) /\ rd \in Request
  BY <1>1, Handled
<1>3. \A items : Found(items) => rd'.kind = rd.kind
  BY <1>2 DEF Found, Request
<1>4. \A status, out : Answer(status, out) => rd'.kind = "none"
  BY DEF Answer, NoRequest
<1>5. CASE findTrack
  <2>1. Head(rd.calls) # "tracks" /\ (rd'.kind = rd.kind \/ rd'.kind = "none")
    BY <1>3, <1>4, <1>5 DEF findTrack
  <2> QED BY <1>1, <2>1, OtherCall
<1>6. CASE findOther
  <2>1. Head(rd.calls) # "tracks" /\ (rd'.kind = rd.kind \/ rd'.kind = "none")
    BY <1>3, <1>4, <1>6 DEF findOther
  <2> QED BY <1>1, <2>1, OtherCall
<1>7. CASE countRows
  <2>1. Head(rd.calls) # "tracks" /\ (rd'.kind = rd.kind \/ rd'.kind = "none")
    BY <1>3, <1>4, <1>7 DEF countRows
  <2> QED BY <1>1, <2>1, OtherCall
<1>8. CASE listRows
  <2>1. CASE Head(rd.calls) = "tracks"
    <3>1. PICK rows \in listTracks(db, rd.q) : Found(rows)
      <4>1. "tracks" # "albums" /\ "tracks" # "artists"
        OBVIOUS
      <4> QED BY <1>8, <2>1, <4>1, Zenon DEF listRows
    <3> PICK x, y, w, d : x = rd /\ y = rd' /\ w = walk /\ d = db
      OBVIOUS
    <3>2. y = [x EXCEPT !.calls = Tail(@), !.items = rows]
      BY <3>1 DEF Found
    <3>3. x \in Request /\ y.kind = x.kind /\ TablesSound(d) /\ w.offset \in Nat /\ x.calls # <<>>
      BY <1>1, <1>2, <1>3, <3>1 DEF CatalogueIInv, WalkIInv, NextCall
    <3>4. ASSUME ~w.disturbed, y.kind = "page" PROVE y.calls = <<>> /\ PageRead(y, w, d)
      <4>1. PageAsked(x, w)
        BY <3>3, <3>4 DEF WalkIInv, PageSound
      <4>2. rows \in listTracks(d, x.q)
        BY <3>1
      <4>3. PageRead([x EXCEPT !.calls = Tail(@), !.items = rows], w, d)
        BY <3>3, <4>1, <4>2, PageListed, Zenon
      <4>4. Tail(<<"tracks">>) = <<>>
        OBVIOUS
      <4> QED BY <3>2, <3>3, <4>1, <4>3, <4>4 DEF PageAsked, Request
    <3> QED BY <1>1, <3>3, <3>4, WalkStays DEF WalkIInv, PageSound
  <2>2. CASE Head(rd.calls) # "tracks"
    <3>1. rd'.kind = rd.kind
      <4>1. \A rows : rd' = [rd EXCEPT !.calls = Tail(@), !.out = @ \o rows] => rd'.kind = rd.kind
        BY <1>2 DEF Request
      <4> QED BY <1>3, <1>8, <4>1, Zenon DEF listRows
    <3> QED BY <1>1, <2>2, <3>1, OtherCall
  <2> QED BY <2>1, <2>2
<1> QED BY <1>5, <1>6, <1>7, <1>8

LEMMA renderArtistWalks == ASSUME AnswersIInv, WalkIInv, renderArtist PROVE WalkIInv'
<1> PICK x, y, w, d : x = rd /\ y = rd' /\ w = walk /\ d = db
  OBVIOUS
<1> PICK name : name = artistName(Head(x.items).row.artist)
  OBVIOUS
<1>1. /\ UNCHANGED <<wvars, walk>> /\ x \in Request /\ x.items # <<>>
      /\ y = [x EXCEPT !.artist = <<name>>]
  BY Handled DEF renderArtist
<1>2. y.kind = x.kind /\ y.calls = x.calls /\ y.items = x.items /\ y.out = x.out
  BY <1>1 DEF Request
<1>3. ASSUME ~w.disturbed PROVE PageSound(y, w, d)
  <2>1. PageSound(x, w, d) /\ ~PageAsked(x, w)
    BY <1>1, <1>3 DEF WalkIInv, PageAsked
  <2>2. PageRead(x, w, d) => PageRead(y, w, d)
    BY <1>2 DEF PageRead
  <2> QED BY <1>2, <2>1, <2>2 DEF PageSound
<1> QED BY <1>1, <1>2, <1>3, WalkStays DEF WalkIInv

LEMMA Sums ==
    /\ \A n, m \in Nat : n + (m + 1) = (n + 1) + m /\ n + m + 1 = n + (m + 1)
    /\ \A o, n, m \in Nat : o + n + (m + 1) = o + (n + 1) + m
    /\ \A m \in Nat : \A k \in 1..m : k \in Nat /\ k + 1 \in 1..m + 1
    /\ \A n \in Nat : \A k \in 1..n + 1 : k \in 1..n \/ k = n + 1
  OBVIOUS

\* One more track of the page is rendered.
LEMMA PageRendered ==
    ASSUME NEW x, NEW w, NEW d, x \in Request, w.offset \in Nat, x.items # <<>>,
           NEW json \in Json, json.id = Head(x.items).id, PageRead(x, w, d)
    PROVE  PageRead([x EXCEPT !.items = Tail(@), !.artist = NoTag, !.out = Append(@, json)], w, d)
<1>0. PICK y, a, b : /\ y = [x EXCEPT !.items = Tail(@), !.artist = NoTag, !.out = Append(@, json)]
                     /\ a = Tail(x.items) /\ b = Append(x.out, json)
  OBVIOUS
<1>1. x.items \in Seq(Item) /\ x.out \in Seq(Json)
  BY DEF Request
<1>2. /\ a \in Seq(Item) /\ DOMAIN a = 1..Len(a) /\ Len(a) = Len(x.items) - 1 /\ Len(a) \in Nat
      /\ \A i \in 1..Len(a) : a[i] = x.items[i + 1]
      /\ Len(x.items) \in Nat \ {0} /\ DOMAIN x.items = 1..Len(x.items)
      /\ Head(x.items) = x.items[1]
  BY <1>0, <1>1, HeadTailProperties, LenProperties, EmptySeq
<1>3. /\ b \in Seq(Json) /\ DOMAIN b = 1..Len(x.out) + 1 /\ b[Len(x.out) + 1] = json
      /\ Len(b) = Len(x.out) + 1
      /\ \A i \in 1..Len(x.out) : b[i] = x.out[i]
      /\ Len(x.out) \in Nat /\ DOMAIN x.out = 1..Len(x.out)
  BY <1>0, <1>1, AppendProperties, LenProperties
<1>4. y.items = a /\ y.out = b
  BY <1>0 DEF Request
<1>5. PICK n \in Nat, m \in Nat, o \in Nat :
         /\ n = Len(x.out) /\ m = Len(a) /\ o = w.offset
         /\ Len(x.items) = m + 1 /\ Len(b) = n + 1
  BY <1>2, <1>3
<1>6. \A k \in DOMAIN b : b[k].id \in shown(d) /\ place(d, b[k].id) = o + k
  <2>1. json.id \in shown(d) /\ place(d, json.id) = o + n + 1
    BY <1>2, <1>5 DEF PageRead
  <2>2. \A k \in 1..n : b[k].id \in shown(d) /\ place(d, b[k].id) = o + k
    BY <1>3, <1>5 DEF PageRead
  <2>3. o + n + 1 = o + (n + 1) /\ \A k \in 1..n + 1 : k \in 1..n \/ k = n + 1
    BY Sums, Zenon
  <2> QED BY <1>3, <1>5, <2>1, <2>2, <2>3
<1>7. \A k \in DOMAIN a : /\ a[k].kind = "track" /\ a[k].id \in shown(d)
                          /\ place(d, a[k].id) = o + (n + 1) + k
  <2>1. ASSUME NEW k \in 1..m
        PROVE  k + 1 \in 1..m + 1 /\ o + n + (k + 1) = o + (n + 1) + k
    BY Sums, Zenon
  <2>2. ASSUME NEW k \in 1..m PROVE a[k] = x.items[k + 1]
    BY <1>2, <1>5
  <2>3. \A k \in 1..m + 1 : /\ x.items[k].kind = "track" /\ x.items[k].id \in shown(d)
                            /\ place(d, x.items[k].id) = o + n + k
    BY <1>2, <1>5 DEF PageRead
  <2>4. \A k \in 1..m : /\ a[k].kind = "track" /\ a[k].id \in shown(d)
                        /\ place(d, a[k].id) = o + (n + 1) + k
    BY <2>1, <2>2, <2>3, Zenon
  <2> QED BY <1>2, <1>5, <2>4
<1>8. n + (m + 1) = (n + 1) + m /\ o + n + (m + 1) = o + (n + 1) + m
  BY Sums, Zenon
<1>9. /\ Len(b) + Len(a) = Len(x.out) + Len(x.items)
      /\ w.offset + Len(b) + Len(a) = w.offset + Len(x.out) + Len(x.items)
  BY <1>5, <1>8
<1>10. PageRead(y, w, d)
  BY <1>4, <1>5, <1>6, <1>7, <1>9 DEF PageRead
<1> QED BY <1>0, <1>10

LEMMA RenderedWalks ==
    ASSUME AnswersIInv, WalkIInv, UNCHANGED <<wvars, walk>>, rd # NoRequest, rd.items # <<>>,
           NEW item, item = Head(rd.items), NEW json \in Json, json.id = item.id,
           Rendered(item, json)
    PROVE  WalkIInv'
<1> PICK x, y, w, d : x = rd /\ y = rd' /\ w = walk /\ d = db
  OBVIOUS
<1>1. x \in Request /\ w.offset \in Nat /\ x.items # <<>> /\ json.id = Head(x.items).id
  BY Handled DEF WalkIInv
<1>2. y = [x EXCEPT !.items = Tail(@), !.artist = NoTag, !.out = Append(@, json)]
  BY DEF Rendered
<1>3. y.kind = x.kind /\ y.calls = x.calls
  BY <1>1, <1>2 DEF Request
<1>4. ASSUME ~w.disturbed PROVE PageSound(y, w, d)
  <2>1. PageSound(x, w, d) /\ ~PageAsked(x, w)
    BY <1>1, <1>4 DEF WalkIInv, PageAsked
  <2>2. PageRead(x, w, d) => PageRead(y, w, d)
    <3>1. PageRead(x, w, d) =>
             PageRead([x EXCEPT !.items = Tail(@), !.artist = NoTag, !.out = Append(@, json)], w, d)
      BY <1>1, PageRendered, Zenon
    <3> QED BY <1>2, <3>1
  <2> QED BY <1>3, <2>1, <2>2 DEF PageSound
<1> QED BY <1>3, <1>4, WalkStays DEF WalkIInv

LEMMA JsonWalks ==
    ASSUME CatalogueIInv, AnswersIInv, WalkIInv, trackJson \/ albumJson PROVE WalkIInv'
<1>1. UNCHANGED <<wvars, walk>> /\ rd # NoRequest /\ rd.items # <<>>
  BY DEF trackJson, albumJson
<1>2. PICK json \in Json : /\ json.id = Head(rd.items).id /\ WholeJson(json, db)
                          /\ Rendered(Head(rd.items), json)
  BY trackJsonElement, albumJsonElement
<1> QED BY <1>1, <1>2, RenderedWalks

\* The response has arrived: the client has one page more.
LEMMA ReturnWalks == ASSUME AnswersIInv, WalkIInv, Return PROVE WalkIInv'
<1> PICK x, w, v, d : x = rd /\ w = walk /\ v = walk' /\ d = db
  OBVIOUS
<1>1. /\ db' = d /\ rd'.kind = "none" /\ UNCHANGED wvars /\ x \in Request /\ x.items = <<>>
  BY Handled DEF Return, Answer, NoRequest, wvars
<1>2. CASE x.kind # "page"
  BY <1>1, <1>2, WalkUnasked DEF Return
<1>3. CASE x.kind = "page"
  <2> PICK ids : ids = [k \in DOMAIN x.out |-> x.out[k].id]
    OBVIOUS
  <2>1. v = [w EXCEPT !.got = @ \o ids, !.offset = @ + PageSize, !.on = Len(x.out) = PageSize]
    BY <1>3 DEF Return
  <2>2. /\ w \in [on : BOOLEAN, offset : Nat, got : Seq(Nat), from : Nat, disturbed : BOOLEAN]
        /\ w.on /\ PageSize \in Nat
    BY <1>3, ApiAssumption, PagingAssumption DEF WalkIInv
  <2>3. x.out \in Seq(Json) /\ Len(x.out) \in Nat /\ DOMAIN x.out = 1..Len(x.out)
    BY <1>1, LenProperties DEF Request
  <2>4. ids \in Seq(Nat) /\ Len(ids) = Len(x.out)
    <3>1. \A k \in 1..Len(x.out) : x.out[k].id \in Nat
      BY <2>3, ElementOfSeq DEF Json
    <3> QED BY <2>3, <3>1
  <2> PICK got : got = w.got \o ids
    OBVIOUS
  <2>5. /\ got \in Seq(Nat) /\ Len(got) = Len(w.got) + Len(x.out)
        /\ \A k \in 1..Len(w.got) + Len(x.out) :
              got[k] = IF k <= Len(w.got) THEN w.got[k] ELSE ids[k - Len(w.got)]
    <3>1. w.got \in Seq(Nat) /\ ids \in Seq(Nat)
      BY <2>2, <2>4
    <3>2. /\ got \in Seq(Nat) /\ Len(got) = Len(w.got) + Len(ids)
          /\ \A k \in 1..Len(w.got) + Len(ids) :
                got[k] = IF k <= Len(w.got) THEN w.got[k] ELSE ids[k - Len(w.got)]
      BY <3>1, ConcatProperties
    <3> QED BY <2>4, <3>2
  <2>6. /\ Len(w.got) \in Nat /\ DOMAIN w.got = 1..Len(w.got)
        /\ DOMAIN got = 1..Len(w.got) + Len(x.out)
    BY <2>2, <2>3, <2>5, LenProperties
  <2>7. /\ v \in [on : BOOLEAN, offset : Nat, got : Seq(Nat), from : Nat, disturbed : BOOLEAN]
        /\ v.got = got /\ v.offset = w.offset + PageSize /\ (v.on <=> Len(x.out) = PageSize)
        /\ v.from = w.from /\ v.disturbed = w.disturbed
    <3>1. PICK on \in BOOLEAN : on <=> Len(x.out) = PageSize
      OBVIOUS
    <3>2. PICK offset \in Nat : offset = w.offset + PageSize
      BY <2>2
    <3>3. v = [w EXCEPT !.got = got, !.offset = offset, !.on = on]
      BY <2>1, <2>2, <3>1, <3>2
    <3> QED BY <2>2, <2>5, <3>1, <3>2, <3>3
  <2>8. ASSUME ~w.disturbed PROVE Gathered(v, d)
    <3>1. Gathered(w, d) /\ PageSound(x, w, d) /\ x.calls = <<>>
      BY <2>8 DEF WalkIInv, Return
    <3>2. PageRead(x, w, d)
      BY <1>3, <3>1 DEF PageSound, PageAsked
    <3>3. Len(w.got) = w.offset /\ Len(x.items) = 0
      BY <1>1, <2>2, <3>1 DEF Gathered
    <3>4. \A k \in DOMAIN got : got[k] \in shown(d) /\ place(d, got[k]) = k
      <4> TAKE k \in DOMAIN got
      <4>1. CASE k <= Len(w.got)
        BY <2>5, <2>6, <3>1, <4>1 DEF Gathered
      <4>2. CASE ~(k <= Len(w.got))
        <5>1. PICK m \in 1..Len(x.out) : k = Len(w.got) + m /\ k - Len(w.got) = m
          <6>1. PICK a \in Nat, c \in Nat : a = Len(w.got) /\ c = Len(x.out)
            BY <2>3, <2>6
          <6>2. k \in 1..a + c /\ ~(k <= a)
            BY <2>6, <4>2, <6>1
          <6>3. k - a \in 1..c /\ k = a + (k - a)
            BY <6>2
          <6> QED BY <6>1, <6>3
        <5>2. got[k] = x.out[m].id
          BY <2>3, <2>5, <2>6, <4>2, <5>1
        <5> QED BY <2>3, <3>2, <3>3, <5>1, <5>2 DEF PageRead
      <4> QED BY <4>1, <4>2
    <3>5. v.on => Len(v.got) = v.offset
      BY <2>5, <2>7, <3>3
    <3>6. ~v.on => \A i \in shown(d) : i <= v.from => place(d, i) <= Len(v.got)
      <4>1. /\ Len(x.out) + Len(x.items) = Len(x.out)
            /\ w.offset + Len(x.out) + Len(x.items) = Len(got)
        BY <2>2, <2>3, <2>5, <3>3
      <4>2. ~v.on => Len(x.out) < PageSize
        <5>1. Len(x.out) <= PageSize
          BY <3>2, <4>1 DEF PageRead
        <5>2. PageSize \in Nat /\ Len(x.out) \in Nat
          BY <2>2, <2>3
        <5> QED BY <2>7, <5>1, <5>2
      <4> QED BY <2>7, <3>2, <4>1, <4>2 DEF PageRead
    <3> QED BY <2>7, <3>1, <3>4, <3>5, <3>6 DEF Gathered
  <2> QED BY <1>1, <2>7, <2>8 DEF WalkIInv, PageSound
<1> QED BY <1>2, <1>3

\* The scan adds tracks at the end, or the walk is disturbed.
LEMMA ScanWalks == ASSUME CatalogueIInv, AnswersIInv, WalkIInv, Scan PROVE WalkIInv'
<1> PICK x, w, v, d, e : x = rd /\ w = walk /\ v = walk' /\ d = db /\ e = db'
  OBVIOUS
<1>1. /\ WNext /\ rd' = rd
      /\ v = [w EXCEPT !.disturbed = @ \/ \E i \in DOMAIN d.tracks :
                                            e.tracks[i].deleted # d.tracks[i].deleted]
  BY DEF Scan
<1>2. d \in Tables /\ e \in Tables /\ Extends(d, e)
  BY <1>1, WriterKeepsRows, WriterGrows DEF AnswersIInv, CatalogueIInv, TablesSound
<1>3. w \in [on : BOOLEAN, offset : Nat, got : Seq(Nat), from : Nat, disturbed : BOOLEAN]
  BY DEF WalkIInv
<1>4. /\ v \in [on : BOOLEAN, offset : Nat, got : Seq(Nat), from : Nat, disturbed : BOOLEAN]
      /\ v.on = w.on /\ v.offset = w.offset /\ v.got = w.got /\ v.from = w.from
      /\ ~v.disturbed => /\ ~w.disturbed
                         /\ \A i \in DOMAIN d.tracks : e.tracks[i].deleted = d.tracks[i].deleted
  BY <1>1, <1>3
<1>5. ASSUME ~v.disturbed PROVE Gathered(v, e) /\ PageSound(x, v, e)
  <2>1. Gathered(w, d) /\ PageSound(x, w, d)
    BY <1>4, <1>5 DEF WalkIInv
  <2>2. \A i \in DOMAIN d.tracks : (i \in shown(d) <=> i \in shown(e)) /\ place(e, i) = place(d, i)
    BY <1>2, <1>4, <1>5, PlaceKept DEF Extends
  <2>3. /\ Len(d.tracks) \in Nat /\ DOMAIN d.tracks = 1..Len(d.tracks)
        /\ Len(e.tracks) \in Nat /\ DOMAIN e.tracks = 1..Len(e.tracks)
        /\ Len(d.tracks) <= Len(e.tracks)
    BY <1>2, LenProperties DEF Tables, Extends
  <2>4. \A i \in shown(d) : i \in DOMAIN d.tracks /\ i \in shown(e) /\ place(e, i) = place(d, i)
    BY <2>2 DEF shown
  <2>5. \A i \in shown(e) : i <= w.from => i \in shown(d) /\ place(e, i) = place(d, i)
    <3>1. \A i \in shown(e) : i <= w.from => i \in DOMAIN d.tracks
      BY <1>3, <2>1, <2>3 DEF Gathered, shown
    <3> QED BY <2>2, <3>1
  <2>6. Gathered(v, e)
    <3>1. v.from <= Len(e.tracks)
      BY <1>3, <1>4, <2>1, <2>3 DEF Gathered
    <3>2. \A k \in DOMAIN v.got : v.got[k] \in shown(e) /\ place(e, v.got[k]) = k
      BY <1>4, <2>1, <2>4 DEF Gathered
    <3> QED BY <1>4, <2>1, <2>5, <3>1, <3>2 DEF Gathered
  <2>7. PageAsked(x, w) => PageAsked(x, v)
    BY <1>4 DEF PageAsked
  <2>8. PageRead(x, w, d) => PageRead(x, v, e)
    BY <1>4, <2>4, <2>5 DEF PageRead
  <2> QED BY <2>1, <2>6, <2>7, <2>8 DEF PageSound
<1> QED BY <1>1, <1>4, <1>5 DEF WalkIInv

LEMMA ApiNextIInv == ApiIInv /\ [Next]_avars => ApiIInv'
<1> SUFFICES ASSUME ApiIInv, [Next]_avars PROVE ApiIInv'
  OBVIOUS
<1> USE DEF ApiIInv
<1>1. CatalogueIInv'
  BY CatalogueNextIInv
<1>2. AnswersIInv'
  BY NextAnswers DEF WalkIInv
<1>3. CASE WalkEnds
  <2>1. walk' = NoWalk /\ rd'.kind = "none" /\ db' = db
    BY <1>3 DEF WalkEnds, NoRequest, wvars
  <2>2. NoWalk \in [on : BOOLEAN, offset : Nat, got : Seq(Nat), from : Nat, disturbed : BOOLEAN]
        /\ NoWalk.from = 0 /\ ~NoWalk.on /\ DOMAIN NoWalk.got = {}
    BY EmptySeq DEF NoWalk
  <2>3. Gathered(NoWalk, db)
    <3>1. Len(db.tracks) \in Nat /\ \A i \in shown(db) : i \in Nat \ {0}
      BY LenProperties DEF CatalogueIInv, TablesSound, Tables, shown
    <3> QED BY <2>2, <3>1 DEF Gathered
  <2>4. rd'.kind # "page"
    BY <2>1
  <2>5. PageSound(rd', walk', db') /\ Gathered(walk', db')
    BY <2>1, <2>3, <2>4 DEF PageSound
  <2> QED BY <1>1, <1>2, <2>1, <2>2, <2>4, <2>5 DEF WalkIInv
<1>4. CASE UNCHANGED avars
  <2>1. UNCHANGED <<wvars, walk>> /\ rd' = rd
    BY <1>4 DEF avars, wvars
  <2>2. (rd'.kind = "page" => walk.on) /\ (~walk.disturbed => PageSound(rd', walk, db))
    BY <2>1 DEF WalkIInv
  <2> QED BY <1>1, <1>2, <2>1, <2>2, WalkStays
<1>5. CASE Receive
  BY <1>1, <1>2, <1>5, ReceiveWalks
<1>6. CASE findTrack \/ findOther \/ listRows \/ countRows
  BY <1>1, <1>2, <1>6, SelectWalks
<1>7. CASE renderArtist
  BY <1>1, <1>2, <1>7, renderArtistWalks
<1>8. CASE trackJson \/ albumJson
  BY <1>1, <1>2, <1>8, JsonWalks
<1>9. CASE Return
  BY <1>1, <1>2, <1>9, ReturnWalks
<1>10. CASE Scan
  BY <1>1, <1>2, <1>10, ScanWalks
<1> QED BY <1>1, <1>2, <1>3, <1>4, <1>5, <1>6, <1>7, <1>8, <1>9, <1>10 DEF Next

LEMMA ApiInitIInv == Init => ApiIInv
<1> SUFFICES ASSUME Init PROVE ApiIInv
  OBVIOUS
<1>1. CatalogueIInv /\ db = EmptyDb /\ job = [s \in Scanner |-> Idle]
  BY CatalogueInitIInv DEF Init, WInit
<1>2. rd = NoRequest /\ rd.kind = "none" /\ resp.out = <<>> /\ walk = NoWalk
  BY DEF Init, NoRequest, NoResponse
<1>3. AnswersIInv
  <2>1. DOMAIN resp.out = {}
    BY <1>2
  <2> QED BY <1>1, <1>2, <2>1 DEF AnswersIInv, Growing
<1>4. NoWalk \in [on : BOOLEAN, offset : Nat, got : Seq(Nat), from : Nat, disturbed : BOOLEAN]
      /\ NoWalk.from = 0 /\ ~NoWalk.on /\ DOMAIN NoWalk.got = {}
  BY EmptySeq DEF NoWalk
<1>5. Gathered(NoWalk, db)
  <2>1. Len(db.tracks) \in Nat /\ \A i \in shown(db) : i \in Nat \ {0}
    BY <1>1, LenProperties DEF CatalogueIInv, TablesSound, Tables, shown
  <2> QED BY <1>4, <2>1 DEF Gathered
<1> QED BY <1>1, <1>2, <1>3, <1>4, <1>5 DEF ApiIInv, WalkIInv, PageSound

LEMMA ApiIInvImplies == ApiIInv => NoTornAnswer /\ WalkIsComplete
<1> SUFFICES ASSUME ApiIInv PROVE NoTornAnswer /\ WalkIsComplete
  OBVIOUS
<1>1. NoTornAnswer
  BY DEF ApiIInv, AnswersIInv, WholeJson, nameIn, NoTornAnswer
<1>2. ASSUME ~walk.on, ~walk.disturbed
      PROVE  /\ \A i, j \in DOMAIN walk.got : walk.got[i] = walk.got[j] => i = j
             /\ \A i \in 1..walk.from : ~db.tracks[i].deleted =>
                   \E k \in DOMAIN walk.got : walk.got[k] = i
  <2>1. Gathered(walk, db) /\ walk.got \in Seq(Nat) /\ walk.from \in Nat /\ db \in Tables
    BY <1>2 DEF ApiIInv, WalkIInv, CatalogueIInv, TablesSound
  <2>2. \A i, j \in DOMAIN walk.got : walk.got[i] = walk.got[j] => i = j
    BY <2>1 DEF Gathered
  <2>3. ASSUME NEW i \in 1..walk.from, ~db.tracks[i].deleted
        PROVE  \E k \in DOMAIN walk.got : walk.got[k] = i
    <3>1. i \in shown(db) /\ i <= walk.from
      <4>1. Len(db.tracks) \in Nat /\ DOMAIN db.tracks = 1..Len(db.tracks)
        BY <2>1, LenProperties DEF Tables
      <4> QED BY <2>1, <2>3, <4>1 DEF Gathered, shown
    <3>2. place(db, i) <= Len(walk.got) /\ place(db, i) \in Nat /\ place(db, i) # 0
      BY <1>2, <2>1, <3>1, PlaceType DEF Gathered
    <3>3. place(db, i) \in DOMAIN walk.got
      BY <2>1, <3>2, LenProperties
    <3>4. walk.got[place(db, i)] \in shown(db) /\ place(db, walk.got[place(db, i)]) = place(db, i)
      BY <2>1, <3>3 DEF Gathered
    <3>5. walk.got[place(db, i)] = i
      BY <2>1, <3>1, <3>4, PlaceIsOwn
    <3> QED BY <3>3, <3>5
  <2> QED BY <2>2, <2>3
<1> QED BY <1>1, <1>2 DEF WalkIsComplete

(* Searching.                                                               *)

\* A set of numbers that has 0, and with each its successor, has all.
LEMMA SetInduction ==
    ASSUME NEW T, 0 \in T, \A n \in Nat : n \in T => n + 1 \in T
    PROVE  Nat \subseteq T
<1> DEFINE R == OpToRel(<, Nat)
           U == {n \in Nat : n \notin T}
<1>1. IsWellFoundedOn(R, Nat)
  BY NatLessThanWellFounded
<1>2. \A x, y \in Nat : x < y => <<x, y>> \in R
  BY DEF OpToRel
<1>3. SUFFICES ASSUME U # {} PROVE FALSE
  OBVIOUS
<1> HIDE DEF R
<1>4. PICK n \in U : \A k \in U : ~(<<k, n>> \in R)
  BY <1>1, <1>3, WFMin
<1>5. n \in Nat /\ n # 0 /\ n \notin T
  OBVIOUS
<1>6. n - 1 \in Nat /\ n - 1 < n /\ (n - 1) + 1 = n
  BY <1>5
<1>7. n - 1 \notin U
  BY <1>2, <1>4, <1>5, <1>6
<1> QED BY <1>5, <1>6, <1>7

\* The table that LIKE fills: where the text can end that the first j characters of
\* the pattern match.
LikeTable(m, text, p) ==
    [j \in 0..Len(p) |->
        IF j = 0 THEN {0}
        ELSE IF p[j] = AnyText THEN {i \in 0..Len(text) : \E e \in m[j - 1] : e <= i}
        ELSE {i \in 1..Len(text) : /\ i - 1 \in m[j - 1]
                                   /\ p[j] = AnyCharacter \/ Fold[p[j]] = Fold[text[i]]}]

\* There is one such table.
LEMMA LikeIsTable ==
    ASSUME NEW text, NEW p, Len(p) \in Nat, NEW g, g = LikeTable(g, text, p)
    PROVE  like(text, p) <=> Len(text) \in g[Len(p)]
<1> DEFINE m == CHOOSE f : f = LikeTable(f, text, p)
<1>1. m = LikeTable(m, text, p)
  OBVIOUS
<1>2. like(text, p) <=> Len(text) \in m[Len(p)]
  BY DEF like, LikeTable
<1> HIDE DEF m
<1> DEFINE T == {j \in Nat : j <= Len(p) => m[j] = g[j]}
<1>3. 0 \in T
  <2>1. 0 \in 0..Len(p)
    OBVIOUS
  <2>2. m[0] = {0}
    BY <1>1, <2>1 DEF LikeTable
  <2>3. g[0] = {0}
    BY <2>1 DEF LikeTable
  <2> QED BY <2>2, <2>3
<1>4. ASSUME NEW j \in Nat, j \in T PROVE j + 1 \in T
  <2> SUFFICES ASSUME j + 1 <= Len(p) PROVE m[j + 1] = g[j + 1]
    OBVIOUS
  <2>1. j + 1 \in 0..Len(p) /\ j + 1 # 0 /\ (j + 1) - 1 = j /\ m[j] = g[j]
    BY <1>4
  <2>2. m[j + 1] = IF p[j + 1] = AnyText THEN {i \in 0..Len(text) : \E e \in m[j] : e <= i}
                   ELSE {i \in 1..Len(text) :
                            /\ i - 1 \in m[j]
                            /\ p[j + 1] = AnyCharacter \/ Fold[p[j + 1]] = Fold[text[i]]}
    BY <1>1, <2>1 DEF LikeTable
  <2>3. g[j + 1] = IF p[j + 1] = AnyText THEN {i \in 0..Len(text) : \E e \in g[j] : e <= i}
                   ELSE {i \in 1..Len(text) :
                            /\ i - 1 \in g[j]
                            /\ p[j + 1] = AnyCharacter \/ Fold[p[j + 1]] = Fold[text[i]]}
    BY <2>1 DEF LikeTable
  <2> QED BY <2>1, <2>2, <2>3
<1>5. Nat \subseteq T
  <2> HIDE DEF T
  <2> QED BY <1>3, <1>4, SetInduction
<1>6. m[Len(p)] = g[Len(p)]
  BY <1>5
<1> QED BY <1>2, <1>6

\* The first j characters of the term stand in the text up to place i.
EndsAt(text, term, j, i) ==
    j <= i /\ \A h \in 1..j : Fold[text[i - j + h]] = Fold[term[h]]

\* A search term without wildcards, as SQLite is given it, matches what contains it.
LEMMA LikeIsContains ==
    ASSUME NEW text \in Text, NEW term \in Text, Literal(term)
    PROVE  like(text, pattern(term)) <=> HasText(text, term)
<1>0. PICK n, L, p : n = Len(term) /\ L = Len(text) /\ p = pattern(term)
  OBVIOUS
<1> DEFINE G == [j \in 0..n + 2 |->
                    IF j = 0 THEN {0}
                    ELSE IF j = n + 2 THEN {i \in 0..L : \E e \in 0..i : EndsAt(text, term, n, e)}
                    ELSE {i \in 0..L : EndsAt(text, term, j - 1, i)}]
<1>1. n \in Nat /\ L \in Nat /\ DOMAIN term = 1..n
  BY <1>0, LenProperties DEF Text
<1>2. /\ Len(p) = n + 2 /\ p[1] = AnyText /\ p[n + 2] = AnyText
      /\ \A h \in 1..n : p[h + 1] = term[h]
  <2> DEFINE S == DOMAIN Fold \cup {AnyText}
             o == <<AnyText>>
             q == o \o term
  <2>1. term \in Seq(S) /\ o \in Seq(S) /\ Len(o) = 1 /\ o[1] = AnyText
    <3>1. term \in Seq(S)
      BY SeqMonotonic DEF Text
    <3> QED BY <3>1 DEF o
  <2> HIDE DEF S, o
  <2>2. /\ q \in Seq(S) /\ Len(q) = 1 + n
        /\ \A i \in 1..1 + n : q[i] = IF i <= 1 THEN o[i] ELSE term[i - 1]
    <3>1. /\ q \in Seq(S) /\ Len(q) = Len(o) + Len(term)
          /\ \A i \in 1..Len(o) + Len(term) : q[i] = IF i <= Len(o) THEN o[i] ELSE term[i - Len(o)]
      BY <2>1, ConcatProperties
    <3> HIDE DEF q
    <3> QED BY <1>0, <2>1, <3>1
  <2> HIDE DEF q
  <2>3. /\ Len(q \o o) = 1 + n + 1
        /\ \A i \in 1..1 + n + 1 : (q \o o)[i] = IF i <= 1 + n THEN q[i] ELSE o[i - (1 + n)]
    <3>1. /\ Len(q \o o) = Len(q) + Len(o)
          /\ \A i \in 1..Len(q) + Len(o) : (q \o o)[i] = IF i <= Len(q) THEN q[i] ELSE o[i - Len(q)]
      <4>1. q \in Seq(S) /\ o \in Seq(S)
        BY <2>1, <2>2
      <4> QED BY <4>1, ConcatProperties
    <3> QED BY <2>1, <2>2, <3>1
  <2>4. p = q \o o
    BY <1>0 DEF pattern, q, o
  <2>5. p[1] = AnyText
    BY <1>1, <2>1, <2>2, <2>3, <2>4
  <2>6. p[n + 2] = AnyText
    <3>1. n + 2 \in 1..1 + n + 1 /\ ~(n + 2 <= 1 + n) /\ n + 2 - (1 + n) = 1
      BY <1>1
    <3>0. \A i \in 1..1 + n + 1 : ~(i <= 1 + n) => p[i] = o[i - (1 + n)]
      BY <2>3, <2>4
    <3>2. PICK d : d = n + 2
      OBVIOUS
    <3>3. d - (1 + n) = 1 /\ d \in 1..1 + n + 1 /\ ~(d <= 1 + n)
      BY <1>1, <3>2
    <3>4. p[d] = o[1]
      BY <3>0, <3>3
    <3> QED BY <2>1, <3>2, <3>4
  <2>7. ASSUME NEW h \in 1..n PROVE p[h + 1] = term[h]
    <3>1. h + 1 \in 1..1 + n + 1 /\ h + 1 \in 1..1 + n /\ h + 1 <= 1 + n /\ ~(h + 1 <= 1)
          /\ h + 1 - 1 = h
      BY <1>1
    <3>2. p[h + 1] = q[h + 1]
      BY <2>3, <2>4, <3>1
    <3>3. q[h + 1] = term[h + 1 - 1]
      BY <2>2, <3>1
    <3> QED BY <3>1, <3>2, <3>3
  <2>8. Len(p) = n + 2
    BY <1>1, <2>3, <2>4
  <2> QED BY <2>5, <2>6, <2>7, <2>8
<1>a. PICK g : g = G
  OBVIOUS
<1>b. \A j \in 0..n + 2 : g[j] =
         IF j = 0 THEN {0}
         ELSE IF j = n + 2 THEN {i \in 0..L : \E e \in 0..i : EndsAt(text, term, n, e)}
         ELSE {i \in 0..L : EndsAt(text, term, j - 1, i)}
  BY <1>a
<1> HIDE DEF G
<1>3. g = LikeTable(g, text, p)
  <2>1. ASSUME NEW j \in 0..n + 2
        PROVE  g[j] = LikeTable(g, text, p)[j]
    <3>1. LikeTable(g, text, p)[j] =
             IF j = 0 THEN {0}
             ELSE IF p[j] = AnyText THEN {i \in 0..L : \E e \in g[j - 1] : e <= i}
             ELSE {i \in 1..L : /\ i - 1 \in g[j - 1]
                                /\ p[j] = AnyCharacter \/ Fold[p[j]] = Fold[text[i]]}
      BY <1>0, <1>2 DEF LikeTable
    <3>2. CASE j = 0
      BY <1>b, <3>1, <3>2
    <3>3. CASE j = 1
      <4>1. g[j] = 0..L
        <5>1. j # 0 /\ j # n + 2 /\ j - 1 = 0
          BY <1>1, <3>3
        <5>2. \A i \in 0..L : EndsAt(text, term, 0, i)
          BY <1>1 DEF EndsAt
        <5> QED BY <1>b, <5>1, <5>2
      <4>2. g[j - 1] = {0}
        <5>1. j - 1 = 0 /\ 0 \in 0..n + 2
          BY <1>1, <3>3
        <5> QED BY <1>b, <5>1
      <4>3. {i \in 0..L : \E e \in {0} : e <= i} = 0..L
        BY <1>1
      <4> QED BY <1>2, <3>1, <3>3, <4>1, <4>2, <4>3
    <3>4. CASE j \in 2..n + 1
      <4>0. j # 0 /\ j # n + 2 /\ j - 1 # 0 /\ j - 1 # n + 2 /\ j - 1 \in 0..n + 2 /\ j - 1 \in 1..n
            /\ (j - 1) + 1 = j /\ j \in Nat
        BY <1>1, <3>4
      <4>1. p[j] = term[j - 1] /\ p[j] # AnyText /\ p[j] # AnyCharacter
        BY <1>1, <1>2, <4>0 DEF Literal
      <4>2. g[j] = {i \in 0..L : EndsAt(text, term, j - 1, i)}
        BY <1>b, <4>0
      <4>3. g[j - 1] = {i \in 0..L : EndsAt(text, term, (j - 1) - 1, i)}
        BY <1>b, <4>0
      <4>4. ASSUME NEW i \in 1..L
            PROVE  EndsAt(text, term, j - 1, i) <=>
                      EndsAt(text, term, (j - 1) - 1, i - 1) /\ Fold[term[j - 1]] = Fold[text[i]]
        <5>1. (j - 1 <= i) <=> ((j - 1) - 1 <= i - 1)
          BY <1>1, <4>0
        <5>2. \A h \in 1..j - 1 : i - (j - 1) + h = (i - 1) - ((j - 1) - 1) + h
          BY <1>1, <4>0
        <5>3. i - (j - 1) + (j - 1) = i
          BY <1>1, <4>0
        <5>4. \A h \in 1..j - 1 : h \in 1..(j - 1) - 1 \/ h = j - 1
          BY <1>1, <4>0
        <5>5. \A h \in 1..(j - 1) - 1 : h \in 1..j - 1
          BY <1>1, <4>0
        <5>6. ASSUME EndsAt(text, term, j - 1, i)
              PROVE  EndsAt(text, term, (j - 1) - 1, i - 1) /\ Fold[term[j - 1]] = Fold[text[i]]
          <6>1. \A h \in 1..j - 1 : Fold[text[i - (j - 1) + h]] = Fold[term[h]]
            BY <5>6 DEF EndsAt
          <6>2. \A h \in 1..(j - 1) - 1 : Fold[text[(i - 1) - ((j - 1) - 1) + h]] = Fold[term[h]]
            BY <5>2, <5>5, <6>1
          <6>3. Fold[text[i]] = Fold[term[j - 1]]
            BY <4>0, <5>3, <6>1
          <6>4. (j - 1) - 1 <= i - 1
            BY <5>1, <5>6 DEF EndsAt
          <6> QED BY <6>2, <6>3, <6>4 DEF EndsAt
        <5>7. ASSUME EndsAt(text, term, (j - 1) - 1, i - 1), Fold[term[j - 1]] = Fold[text[i]]
              PROVE  EndsAt(text, term, j - 1, i)
          <6>1. \A h \in 1..(j - 1) - 1 : Fold[text[(i - 1) - ((j - 1) - 1) + h]] = Fold[term[h]]
            BY <5>7 DEF EndsAt
          <6>2. ASSUME NEW h \in 1..j - 1 PROVE Fold[text[i - (j - 1) + h]] = Fold[term[h]]
            <7>1. CASE h = j - 1
              BY <5>3, <5>7, <7>1
            <7>2. CASE h \in 1..(j - 1) - 1
              BY <5>2, <6>1, <7>2
            <7> QED BY <5>4, <7>1, <7>2
          <6>3. j - 1 <= i
            BY <5>1, <5>7 DEF EndsAt
          <6> QED BY <6>2, <6>3 DEF EndsAt
        <5> QED BY <5>6, <5>7
      <4>5. ~EndsAt(text, term, j - 1, 0)
        BY <4>0 DEF EndsAt
      <4>6. \A i \in 1..L : i - 1 \in 0..L
        BY <1>1
      <4>7. 0..L = {0} \cup 1..L
        BY <1>1
      <4> QED BY <3>1, <4>0, <4>1, <4>2, <4>3, <4>4, <4>5, <4>6, <4>7
    <3>5. CASE j = n + 2 /\ j # 1
      <4>1. p[j] = AnyText /\ j # 0 /\ j - 1 = n + 1 /\ n + 1 \in 0..n + 2 /\ n + 1 # 0 /\ n + 1 # n + 2
            /\ (n + 1) - 1 = n
        BY <1>1, <1>2, <3>5
      <4>2. g[j] = {i \in 0..L : \E e \in 0..i : EndsAt(text, term, n, e)}
        BY <1>b, <3>5, <4>1
      <4>3. g[j - 1] = {i \in 0..L : EndsAt(text, term, n, i)}
        <5>1. g[n + 1] = {i \in 0..L : EndsAt(text, term, (n + 1) - 1, i)}
          BY <1>b, <4>1, Zenon
        <5> QED BY <4>1, <5>1
      <4>4. \A i \in 0..L : (\E e \in 0..i : EndsAt(text, term, n, e)) <=> (\E e \in g[j - 1] : e <= i)
        BY <1>1, <4>3
      <4> QED BY <3>1, <4>1, <4>2, <4>4
    <3> QED BY <1>1, <3>2, <3>3, <3>4, <3>5
  <2>2. LikeTable(g, text, p) = [j \in 0..n + 2 |-> LikeTable(g, text, p)[j]]
    BY <1>0, <1>2 DEF LikeTable
  <2>3. g = [j \in 0..n + 2 |-> g[j]]
    BY <1>a DEF G
  <2> QED BY <2>1, <2>2, <2>3
<1>4. like(text, p) <=> \E e \in 0..L : EndsAt(text, term, n, e)
  <2>1. like(text, p) <=> L \in g[n + 2]
    <3>1. Len(p) \in Nat
      BY <1>1, <1>2
    <3> QED BY <1>0, <1>2, <1>3, <3>1, LikeIsTable
  <2>2. g[n + 2] = {i \in 0..L : \E e \in 0..i : EndsAt(text, term, n, e)}
    <3>1. n + 2 \in 0..n + 2 /\ n + 2 # 0
      BY <1>1
    <3> QED BY <1>b, <3>1
  <2> QED BY <1>1, <2>1, <2>2
<1>5. (\E e \in 0..L : EndsAt(text, term, n, e)) <=> HasText(text, term)
  <2>1. ASSUME NEW e \in 0..L, EndsAt(text, term, n, e) PROVE HasText(text, term)
    <3>1. e - n \in 0..L - n
      BY <1>1, <2>1 DEF EndsAt
    <3> QED BY <1>0, <1>1, <2>1, <3>1 DEF EndsAt, HasText
  <2>2. ASSUME NEW k \in 0..L - n, \A i \in DOMAIN term : Fold[text[k + i]] = Fold[term[i]]
        PROVE  \E e \in 0..L : EndsAt(text, term, n, e)
    <3>1. k + n \in 0..L /\ n <= k + n /\ (k + n) - n = k
      BY <1>1
    <3>2. EndsAt(text, term, n, k + n)
      BY <1>1, <2>2, <3>1 DEF EndsAt
    <3> QED BY <3>1, <3>2
  <2> QED BY <1>0, <2>1, <2>2 DEF HasText
<1> QED BY <1>0, <1>4, <1>5

\* What a statement's filter lets through is what contains the term.
LEMMA MatchesTermIsHasText ==
    ASSUME NEW text \in Text, NEW term \in Text, Literal(term), term # NoTag
    PROVE  matchesTerm(text, term) <=> HasText(text, term)
  BY LikeIsContains DEF matchesTerm

LEMMA RowsHaveText ==
    ASSUME CatalogueIInv
    PROVE  /\ \A i \in DOMAIN db.artists : db.artists[i] \in Text
           /\ \A i \in DOMAIN db.albums : db.albums[i].title \in Text
           /\ \A i \in DOMAIN db.tracks : db.tracks[i].title \in Text
<1>1. Names \subseteq Text /\ AlbumTitles \subseteq Text /\ TrackTitles \subseteq Text
  BY ApiAssumption DEF Names, AlbumTitles, TrackTitles
<1>2. /\ db.artists \in Seq(Names) /\ db.albums \in Seq(AlbumRow) /\ db.tracks \in Seq(TrackRow)
  BY DEF CatalogueIInv, TablesSound, Tables
<1>3. /\ \A i \in DOMAIN db.artists : db.artists[i] \in Names
      /\ \A i \in DOMAIN db.albums : db.albums[i] \in AlbumRow
      /\ \A i \in DOMAIN db.tracks : db.tracks[i] \in TrackRow
  BY <1>2, ElementOfSeq, LenProperties
<1> QED BY <1>1, <1>3 DEF AlbumRow, TrackRow

LEMMA FilterIsSubstring == CatalogueIInv => SearchIsSubstring
<1> SUFFICES ASSUME CatalogueIInv, NEW term \in Terms \ {NoTag, <<>>}, Literal(term),
                    NEW q, q = [AllTracks EXCEPT !.search = term]
             PROVE  /\ trackIds(db, q) = {i \in DOMAIN db.tracks :
                           LET row == db.tracks[i] IN
                           /\ ~row.deleted
                           /\ \/ HasText(row.title, term)
                              \/ row.artist # 0 /\ HasText(db.artists[row.artist], term)
                              \/ row.album # 0 /\ HasText(db.albums[row.album].title, term)}
                    /\ artistIds(db, q) = {i \in DOMAIN db.artists : HasText(db.artists[i], term)}
  BY DEF SearchIsSubstring
<1>1. term \in Text /\ term # NoTag
  BY ApiAssumption
<1>2. q.search = term /\ q.artistId = NotGiven /\ q.albumId = NotGiven
  BY DEF AllTracks, Query
<1>3. \A text \in Text : matchesTerm(text, term) <=> HasText(text, term)
  BY <1>1, MatchesTermIsHasText
<1>4. ASSUME NEW i \in DOMAIN db.tracks
      PROVE  trackFilter(db, db.tracks[i], q) <=>
                 /\ ~db.tracks[i].deleted
                 /\ \/ HasText(db.tracks[i].title, term)
                    \/ /\ db.tracks[i].artist # 0
                       /\ HasText(db.artists[db.tracks[i].artist], term)
                    \/ /\ db.tracks[i].album # 0
                       /\ HasText(db.albums[db.tracks[i].album].title, term)
  <2> PICK row : row = db.tracks[i]
    OBVIOUS
  <2>1. /\ row.artist \in 0..Len(db.artists) /\ row.album \in 0..Len(db.albums)
        /\ DOMAIN db.artists = 1..Len(db.artists) /\ DOMAIN db.albums = 1..Len(db.albums)
    BY LenProperties DEF CatalogueIInv, TablesSound, Tables, TrackMatches
  <2>2. /\ row.artist # 0 => row.artist \in DOMAIN db.artists
        /\ row.album # 0 => row.album \in DOMAIN db.albums
    BY <2>1
  <2>3. matchesTerm(row.title, term) <=> HasText(row.title, term)
    BY <1>3, RowsHaveText
  <2>4. row.artist # 0 =>
           (matchesTerm(db.artists[row.artist], term) <=> HasText(db.artists[row.artist], term))
    BY <1>3, <2>2, RowsHaveText
  <2>5. row.album # 0 => (matchesTerm(db.albums[row.album].title, term)
                             <=> HasText(db.albums[row.album].title, term))
    BY <1>3, <2>2, RowsHaveText
  <2>6. matchesId(row.artist, q.artistId) /\ matchesId(row.album, q.albumId)
    BY <1>2 DEF matchesId
  <2> QED BY <1>2, <2>3, <2>4, <2>5, <2>6, Zenon DEF trackFilter
<1>5. trackIds(db, q) = {i \in DOMAIN db.tracks :
                           LET row == db.tracks[i] IN
                           /\ ~row.deleted
                           /\ \/ HasText(row.title, term)
                              \/ row.artist # 0 /\ HasText(db.artists[row.artist], term)
                              \/ row.album # 0 /\ HasText(db.albums[row.album].title, term)}
  BY <1>4 DEF trackIds
<1>6. artistIds(db, q) = {i \in DOMAIN db.artists : HasText(db.artists[i], term)}
  BY <1>2, <1>3, RowsHaveText DEF artistIds
<1> QED BY <1>5, <1>6

LEMMA ApiInvariant == Spec => []ApiIInv
  BY ApiInitIInv, ApiNextIInv, PTL DEF Spec

LEMMA AnswersSoundNow == ApiIInv => AnswersSound
  BY ApiIInvImplies, FilterIsSubstring DEF ApiIInv, AnswersSound

\* What an answer says of a track is what one version of its file said, and what
\* it says of an album is whole, although each element is put together from
\* several SELECTs with commits of any number of scans in between; and a search
\* finds exactly the tracks and artists whose texts contain the term
\* (JsonSerialization.cpp:44-60, 84-89; SqliteTrackRepository.cpp:107-118).
THEOREM AnswersAreSound == Spec => []AnswersSound
  BY ApiInvariant, AnswersSoundNow, PTL

\* A walk over all pages that nothing disturbs finds each track that was there at
\* its start once, for any page size (SqliteTrackRepository.cpp:132).
THEOREM WalksAreComplete == Spec => []WalkIsComplete
  BY ApiInvariant, ApiIInvImplies, PTL
=============================================================================
