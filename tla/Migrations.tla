----------------------------- MODULE Migrations ------------------------------
(***************************************************************************)
(* How processes open and migrate the database: SqliteConnection's         *)
(* constructor and SqliteTransaction (server/src/db/SqliteConnection.cpp), *)
(* applyMigrations() (server/src/db/MigrationRunner.cpp) and the           *)
(* repositories that runServer() and runScan() construct one after the     *)
(* other, each with a connection of its own (server/src/main.cpp).         *)
(*                                                                         *)
(* Processes of different builds start on a new or an old database, wait   *)
(* for each other's locks and may be killed anywhere; SQLite then rolls    *)
(* their transaction back.                                                 *)
(***************************************************************************)
EXTENDS Naturals, FiniteSets

CONSTANTS
    Process,      \* server and scan processes
    None,         \* nobody holds the lock
    Repos,        \* repositories a process constructs (5 for run, 2 for scan)
    MaxVersion,   \* migrations are numbered 1..MaxVersion
    Stmts,        \* SQL statements of a migration
    MaxStarts     \* bound: starts of one process

ASSUME MigrationAssumption ==
    /\ None \notin Process
    /\ Repos \in Nat \ {0} /\ MaxVersion \in Nat /\ Stmts \in Nat /\ MaxStarts \in Nat

Version == 1..MaxVersion
Change == Version \X (1..Stmts)

VARIABLES
    wal,        \* whether the database file is in WAL mode
    schema,     \* committed changes: <<version, statement>>
    recorded,   \* committed rows of schema_migrations
    writer,     \* the process that holds the write lock or the exclusive one
    proc,       \* Process -> its local state
    starts      \* Process -> how often it was started

vars == <<wal, schema, recorded, writer, proc, starts>>

\* build is the last migration the program knows, repo the repository it is
\* constructing, at the migration it looks at, tx what the open transaction
\* has changed so far.
Down == [phase |-> "down", build |-> 0, repo |-> 0, at |-> 0, tx |-> {}]

MigrateInit == /\ wal = FALSE /\ schema = {} /\ recorded = {} /\ writer = None
               /\ proc = [p \in Process |-> Down]
               /\ starts = [p \in Process |-> 0]

-----------------------------------------------------------------------------

Local(p, next) == proc' = [proc EXCEPT ![p] = next]
Goto(p, phase) == Local(p, [proc[p] EXCEPT !.phase = phase])

\* An exception leaves main(): the connection is closed, and with it ends the
\* transaction.
Fail(p, phase) == Local(p, [Down EXCEPT !.phase = phase])

\* runServer() or runScan() of a program that knows the migrations 1..build.
Start(p, build) ==
    /\ proc[p].phase \in {"down", "failed", "locked"} /\ starts[p] < MaxStarts
    /\ starts' = [starts EXCEPT ![p] = @ + 1]
    /\ Local(p, [Down EXCEPT !.phase = "open", !.build = build, !.repo = 1])
    /\ UNCHANGED <<wal, schema, recorded, writer>>

\* PRAGMA journal_mode=WAL on a database that is in WAL mode only reads it, and
\* changes nothing; otherwise it takes the database's exclusive lock.
OpenWal(p) == /\ proc[p].phase = "open" /\ wal
              /\ Local(p, [proc[p] EXCEPT !.phase = "begin", !.at = 1])
              /\ UNCHANGED <<wal, schema, recorded, writer, starts>>

TakeExclusive(p) == /\ proc[p].phase = "open" /\ ~wal /\ writer = None
                    /\ writer' = p /\ Goto(p, "switch")
                    /\ UNCHANGED <<wal, schema, recorded, starts>>

SwitchToWal(p) == /\ proc[p].phase = "switch"
                  /\ wal' = TRUE /\ writer' = None
                  /\ Local(p, [proc[p] EXCEPT !.phase = "begin", !.at = 1])
                  /\ UNCHANGED <<schema, recorded, starts>>

\* Somebody else holds the lock that p needs to open the database: the
\* exclusive one, to switch it to WAL; or, in WAL mode, the one under which the
\* first connection after a kill recovers the log and the last one to close
\* removes it.  A process that has ended may still be closing.
lockedFor(p) == IF wal THEN \E q \in Process \ {p} : starts[q] > 0 ELSE writer # None

\* The pragma finds the file locked.  busy_timeout is set two lines later, so
\* that it does not wait: SQLITE_BUSY, and the constructor throws.
OpenLocked(p) == /\ proc[p].phase = "open" /\ lockedFor(p)
                 /\ Fail(p, "locked")
                 /\ UNCHANGED <<wal, schema, recorded, writer, starts>>

\* loadMigrations(): the directory or a file in it is not as it should be.
LoadFails(p) == /\ proc[p].phase = "begin" /\ proc[p].at = 1
                /\ Fail(p, "failed")
                /\ UNCHANGED <<wal, schema, recorded, writer, starts>>

\* BEGIN IMMEDIATE: SqliteTransaction's constructor waits for the write lock.
BeginImmediate(p) ==
    /\ proc[p].phase = "begin" /\ proc[p].at <= proc[p].build /\ writer = None
    /\ writer' = p /\ Goto(p, "check")
    /\ UNCHANGED <<wal, schema, recorded, starts>>

\* The lock is not free for five seconds.
BusyTimeout(p) ==
    /\ proc[p].phase = "begin" /\ proc[p].at <= proc[p].build /\ writer \notin {None, p}
    /\ Fail(p, "failed")
    /\ UNCHANGED <<wal, schema, recorded, writer, starts>>

\* currentSchemaVersion(): the largest recorded version, 0 without a table.
currentSchemaVersion ==
    IF recorded = {} THEN 0 ELSE CHOOSE v \in recorded : \A w \in recorded : w <= v

\* continue: the next migration.
skip(p) == proc[p].at + 1

\* Mutant: the destructor does not roll back.
Check_KeepsLock(p) ==
    /\ proc[p].phase = "check"
    /\ IF proc[p].at <= currentSchemaVersion
       THEN Local(p, [proc[p] EXCEPT !.phase = "begin", !.at = skip(p)])
       ELSE Goto(p, "exec")
    /\ UNCHANGED <<wal, schema, recorded, writer, starts>>

\* The version is read again under the lock; a migration that is there is
\* skipped, and the transaction rolled back by its destructor.
Check(p) ==
    /\ proc[p].phase = "check"
    /\ IF proc[p].at <= currentSchemaVersion
       THEN writer' = None /\ Local(p, [proc[p] EXCEPT !.phase = "begin", !.at = skip(p)])
       ELSE Goto(p, "exec") /\ UNCHANGED writer
    /\ UNCHANGED <<wal, schema, recorded, starts>>

done(p) == Cardinality(proc[p].tx)

\* Mutant: the statements run outside the transaction.
Exec_AutoCommit(p) ==
    /\ proc[p].phase = "exec" /\ done(p) < Stmts
    /\ LET change == <<proc[p].at, done(p) + 1>>
       IN  /\ Local(p, [proc[p] EXCEPT !.tx = @ \cup {change}])
           /\ schema' = schema \cup {change}
    /\ UNCHANGED <<wal, recorded, writer, starts>>

\* The next statement of the migration; it fails if its change is there already.
Exec(p) ==
    /\ proc[p].phase = "exec" /\ done(p) < Stmts
    /\ LET change == <<proc[p].at, done(p) + 1>>
       IN  IF change \in schema
           THEN Fail(p, "failed") /\ writer' = None
           ELSE Local(p, [proc[p] EXCEPT !.tx = @ \cup {change}]) /\ UNCHANGED writer
    /\ UNCHANGED <<wal, schema, recorded, starts>>

\* The row of schema_migrations, and COMMIT.
CommitMigration(p) ==
    /\ proc[p].phase = "exec" /\ done(p) = Stmts
    /\ schema' = schema \cup proc[p].tx
    /\ recorded' = recorded \cup {proc[p].at}
    /\ writer' = None
    /\ Local(p, [proc[p] EXCEPT !.phase = "begin", !.at = @ + 1, !.tx = {}])
    /\ UNCHANGED <<wal, starts>>

\* migrate() returns: the repository is constructed, and the next one is next.
Constructed(p) ==
    /\ proc[p].phase = "begin" /\ proc[p].at > proc[p].build
    /\ Local(p, IF proc[p].repo < Repos
                THEN [proc[p] EXCEPT !.phase = "open", !.repo = @ + 1, !.at = 0]
                ELSE [proc[p] EXCEPT !.phase = "ready"])
    /\ UNCHANGED <<wal, schema, recorded, writer, starts>>

\* Killed, or stopped: the lock is released and the transaction rolled back.
Kill(p) == /\ proc[p].phase \notin {"down", "failed", "locked"}
           /\ Fail(p, "down")
           /\ writer' = IF writer = p THEN None ELSE writer
           /\ UNCHANGED <<wal, schema, recorded, starts>>

\* What a process does by itself once it is started.
Run(p) == \/ OpenWal(p) \/ TakeExclusive(p) \/ SwitchToWal(p) \/ OpenLocked(p)
          \/ BeginImmediate(p) \/ BusyTimeout(p) \/ Check(p) \/ Exec(p) \/ CommitMigration(p)
          \/ Constructed(p)

MigrateNext == \E p \in Process : \/ Run(p) \/ LoadFails(p) \/ Kill(p)
                                  \/ \E b \in Version : Start(p, b)

\* A process runs on: waiting for a lock ends with the lock or after five
\* seconds.  Nobody is sure to get it.
MigrateSpec == MigrateInit /\ [][MigrateNext]_vars /\ \A p \in Process : WF_vars(Run(p))

-----------------------------------------------------------------------------
(* Properties.                                                              *)

Phases == {"down", "failed", "locked", "open", "switch", "begin", "check", "exec", "ready"}

TypeOK ==
    /\ wal \in BOOLEAN /\ schema \subseteq Change /\ recorded \subseteq Version
    /\ writer \in Process \cup {None}
    /\ proc \in [Process -> [phase : Phases, build : 0..MaxVersion, repo : 0..Repos,
                             at : 0..MaxVersion + 1, tx : SUBSET Change]]
    /\ starts \in [Process -> 0..MaxStarts]

\* What is recorded is what was done, completely and no more
\* (MigrationRunner.cpp:113-121): also after a kill between two statements or
\* between the statements and the record.
SchemaMatchesRecord == schema = {c \in Change : c[1] \in recorded}

\* No migration runs on a database that has it (MigrationRunner.cpp:109),
\* whoever else is migrating at the same time.
NoDoubleApply ==
    \A p \in Process : proc[p].phase = "exec" => \A c \in schema : c[1] # proc[p].at

\* A process gets to work only on a database with every migration it knows,
\* although versions are compared with the largest one recorded
\* (MigrationRunner.cpp:60): none below that is missing.
ReadyIsMigrated ==
    \A p \in Process : proc[p].phase = "ready" => 1..proc[p].build \subseteq recorded

\* Whichever processes start together, and wherever one is killed, each
\* migration is applied once and entirely, before anybody relies on it.
SchemaSound == TypeOK /\ SchemaMatchesRecord /\ NoDoubleApply /\ ReadyIsMigrated

\* A process that is started gets to work, fails or is killed; nobody waits
\* for a lock for ever.
StartupEnds ==
    \A p \in Process : proc[p].phase = "open" ~> proc[p].phase \in {"ready", "failed", "locked", "down"}
=============================================================================
