----------------------------- MODULE LibraryScan -----------------------------
(***************************************************************************)
(* `musicbox-server scan`: runScan() and retireUnconfiguredRoots()         *)
(* (server/src/main.cpp), DefaultLibraryScanner                            *)
(* (server/src/library/LibraryScanner.cpp) and the track and library-root  *)
(* repositories it writes to.  Scan processes run while files are edited,  *)
(* removed and unmounted; they may be killed between any two statements,   *)
(* and nothing keeps a second one from being started.                      *)
(*                                                                         *)
(* Every repository call is one SQLite transaction and so one step.  A     *)
(* file is a version number (0: no file): each edit gives the path a new   *)
(* one, which stands for its size and modification time in milliseconds as *)
(* well as for its content.                                                *)
(***************************************************************************)
EXTENDS Naturals, Sequences, FiniteSets

CONSTANTS
    Scanner,      \* scan processes
    Root,         \* directories [library].paths can name
    Path,         \* relative paths of audio files
    NoRow,        \* there is no row in tracks for this path
    MaxVersion,   \* bound: edits of one path
    MaxCrashes,   \* bound: scan processes killed
    IoErrors      \* whether a directory that is there can fail to be walked

ASSUME ScanAssumption ==
    /\ Root # {} /\ Path # {}
    /\ MaxVersion \in Nat /\ MaxCrashes \in Nat /\ IoErrors \in BOOLEAN
    /\ NoRow \notin [stamp : Nat, hash : Nat, tags : Nat, deleted : BOOLEAN]

VARIABLES
    disk,      \* Root -> Path -> version, 0 if there is no file
    latest,    \* Root -> Path -> the last version ever made
    mounted,   \* Root -> whether the directory is there
    tracks,    \* Root -> Path -> row or NoRow; UNIQUE(library_root_id, relative_path)
    roots,     \* Root -> "absent", "active" or "retired"
    scan,      \* Scanner -> its local state
    crashes    \* how many scan processes have been killed

vars == <<disk, latest, mounted, tracks, roots, scan, crashes>>

\* Local state of a process that is not scanning.  gone and quiet are history:
\* the paths missing at some time since the walk of root began, and whether
\* nothing has changed or failed since the scan began.
Idle == [phase |-> "idle", config |-> {}, todoRoots |-> {}, root |-> CHOOSE r \in Root : TRUE,
         todo |-> {}, seen |-> {}, path |-> CHOOSE p \in Path : TRUE, stat |-> 0,
         reads |-> <<>>, hash |-> 0, tags |-> 0, victims |-> {},
         gone |-> {}, quiet |-> FALSE]

Init == /\ disk = [r \in Root |-> [p \in Path |-> 0]]
        /\ latest = disk
        /\ mounted = [r \in Root |-> TRUE]
        /\ tracks = [r \in Root |-> [p \in Path |-> NoRow]]
        /\ roots = [r \in Root |-> "absent"]
        /\ scan = [s \in Scanner |-> Idle]
        /\ crashes = 0

-----------------------------------------------------------------------------
(* The repositories.                                                        *)

Visible(r, p) == tracks[r][p] # NoRow /\ ~tracks[r][p].deleted

\* TrackRepository::upsert(): insert, or overwrite and clear deleted_at.
upsert(r, p, data) == tracks' = [tracks EXCEPT ![r][p] = data]

\* TrackRepository::softDelete().
softDelete(r, p) ==
    tracks' = IF Visible(r, p) THEN [tracks EXCEPT ![r][p].deleted = TRUE] ELSE tracks

\* LibraryRootRepository::list().
activeRoots == {r \in Root : roots[r] = "active"}

-----------------------------------------------------------------------------
(* The scan process.                                                        *)

env == <<disk, latest, mounted>>

Local(s, next) == scan' = [scan EXCEPT ![s] = next]

\* runScan() reads a configuration; without paths it does nothing.
BeginScan(s, paths) ==
    /\ scan[s].phase = "idle" /\ paths # {}
    /\ scan' = [t \in Scanner |->
          IF t = s THEN [Idle EXCEPT !.phase = "roots", !.config = paths, !.todoRoots = paths,
                                     !.quiet = \A u \in Scanner : scan[u].phase = "idle"]
          ELSE [scan[t] EXCEPT !.quiet = FALSE]]
    /\ UNCHANGED <<env, tracks, roots, crashes>>

\* The next configured root: skipped if its directory is not there, otherwise
\* created or revived, and its walk begins.
NextRoot(s, r) ==
    /\ scan[s].phase = "roots" /\ r \in scan[s].todoRoots
    /\ IF mounted[r]
       THEN /\ roots' = [roots EXCEPT ![r] = "active"]
            /\ Local(s, [scan[s] EXCEPT !.phase = "walk", !.root = r, !.todo = Path,
                            !.todoRoots = @ \ {r}, !.seen = {},
                            !.gone = {p \in Path : disk[r][p] = 0}])
       ELSE /\ Local(s, [scan[s] EXCEPT !.todoRoots = @ \ {r}])
            /\ UNCHANGED roots
    /\ UNCHANGED <<env, tracks, crashes>>

\* The directory iterator reaches p: the file, if there is one, is noted as
\* seen and its size and time are taken.
Visit(s, p) ==
    /\ scan[s].phase = "walk" /\ mounted[scan[s].root] /\ p \in scan[s].todo
    /\ Local(s, IF disk[scan[s].root][p] = 0
                THEN [scan[s] EXCEPT !.todo = @ \ {p}]
                ELSE [scan[s] EXCEPT !.todo = @ \ {p}, !.seen = @ \cup {p}, !.path = p,
                                     !.phase = "look", !.stat = disk[scan[s].root][p]])
    /\ UNCHANGED <<env, tracks, roots, crashes>>

\* Mutant: a file whose size and time cannot be taken does not count as seen.
StatFails_Unseen(s, p) ==
    /\ scan[s].phase = "walk" /\ mounted[scan[s].root] /\ p \in scan[s].todo
    /\ disk[scan[s].root][p] # 0
    /\ Local(s, [scan[s] EXCEPT !.todo = @ \ {p}, !.quiet = FALSE])
    /\ UNCHANGED <<env, tracks, roots, crashes>>

\* As Visit, but size or time cannot be taken: the file is skipped, but seen.
StatFails(s, p) ==
    /\ scan[s].phase = "walk" /\ mounted[scan[s].root] /\ p \in scan[s].todo
    /\ disk[scan[s].root][p] # 0
    /\ Local(s, [scan[s] EXCEPT !.todo = @ \ {p}, !.seen = @ \cup {p}, !.quiet = FALSE])
    /\ UNCHANGED <<env, tracks, roots, crashes>>

\* The iterator reaches p but cannot tell that it is a regular file: it is passed
\* over, and not even seen.
TypeFails(s, p) ==
    /\ IoErrors
    /\ scan[s].phase = "walk" /\ mounted[scan[s].root] /\ p \in scan[s].todo
    /\ disk[scan[s].root][p] # 0
    /\ Local(s, [scan[s] EXCEPT !.todo = @ \ {p}, !.quiet = FALSE])
    /\ UNCHANGED <<env, tracks, roots, crashes>>

\* Mutant: a deleted row counts as a baseline.
isNew_KnownIfDeleted(row) == row = NoRow

\* Whether a file is indexed from scratch: not known, or back after a deletion.
isNew(row) == row = NoRow \/ row.deleted

\* processFile(): findByPath() and the size-and-time pre-check.  A new file is
\* parsed, then hashed; a changed one is hashed, then parsed.
Look(s) ==
    LET row == tracks[scan[s].root][scan[s].path] IN
    /\ scan[s].phase = "look"
    /\ Local(s, CASE isNew(row) -> [scan[s] EXCEPT !.phase = "read", !.reads = <<"tags", "hash">>]
                  [] ~isNew(row) /\ row.stamp = scan[s].stat -> [scan[s] EXCEPT !.phase = "walk"]
                  [] ~isNew(row) /\ row.stamp # scan[s].stat ->
                        [scan[s] EXCEPT !.phase = "read", !.reads = <<"hash", "tags">>])
    /\ UNCHANGED <<env, tracks, roots, crashes>>

\* Mutant: a file that is gone is hashed as if it were empty.
canRead_Always(s) == TRUE

canRead(s) == mounted[scan[s].root] /\ disk[scan[s].root][scan[s].path] # 0

\* MetadataExtractor::extract() or sha256File() reads the file as it is now.
ReadFile(s) ==
    LET now == disk[scan[s].root][scan[s].path] IN
    /\ scan[s].phase = "read" /\ scan[s].reads # <<>> /\ canRead(s)
    /\ Local(s, IF Head(scan[s].reads) = "hash"
                THEN [scan[s] EXCEPT !.reads = Tail(@), !.hash = now]
                ELSE [scan[s] EXCEPT !.reads = Tail(@), !.tags = now])
    /\ UNCHANGED <<env, tracks, roots, crashes>>

\* One of them fails, for a file that is gone or for any other reason: the file
\* is skipped.
ReadFails(s) ==
    /\ scan[s].phase = "read" /\ scan[s].reads # <<>>
    /\ Local(s, [scan[s] EXCEPT !.phase = "walk", !.quiet = FALSE])
    /\ UNCHANGED <<env, tracks, roots, crashes>>

\* Mutant: the time is taken when the row is written, not before the file is read.
toUpsert_LateStamp(s) ==
    [stamp |-> disk[scan[s].root][scan[s].path], hash |-> scan[s].hash,
     tags |-> scan[s].tags, deleted |-> FALSE]

toUpsert(s) == [stamp |-> scan[s].stat, hash |-> scan[s].hash,
                tags |-> scan[s].tags, deleted |-> FALSE]

Write(s) ==
    /\ scan[s].phase = "read" /\ scan[s].reads = <<>>
    /\ upsert(scan[s].root, scan[s].path, toUpsert(s))
    /\ Local(s, [scan[s] EXCEPT !.phase = "walk"])
    /\ UNCHANGED <<env, roots, crashes>>

\* detectDeletions() lists the root's rows: those not seen are to go, whether or
\* not the walk got to its end.
detectDeletions(s, complete) ==
    Local(s, [scan[s] EXCEPT !.phase = "delete", !.todo = {}, !.quiet = @ /\ complete,
                 !.victims = {p \in Path : Visible(scan[s].root, p)} \ scan[s].seen])

EndWalk(s) ==
    /\ scan[s].phase = "walk" /\ scan[s].todo = {}
    /\ detectDeletions(s, TRUE)
    /\ UNCHANGED <<env, tracks, roots, crashes>>

\* The iterator reports an error, because the directory went away or by an I/O
\* error: the walk stops where it is, and deletions are detected all the same.
WalkFails(s) ==
    /\ scan[s].phase = "walk" /\ (IoErrors \/ ~mounted[scan[s].root])
    /\ detectDeletions(s, FALSE)
    /\ UNCHANGED <<env, tracks, roots, crashes>>

\* One softDelete(), of detectDeletions() or of retireUnconfiguredRoots().
SoftDelete(s, p) ==
    /\ scan[s].phase \in {"delete", "retireTracks"} /\ p \in scan[s].victims
    /\ softDelete(scan[s].root, p)
    /\ Local(s, [scan[s] EXCEPT !.victims = @ \ {p}])
    /\ UNCHANGED <<env, roots, crashes>>

\* The root is done: markScanned(), whose timestamp only the API reports.
EndRoot(s) ==
    /\ scan[s].phase = "delete" /\ scan[s].victims = {}
    /\ Local(s, [scan[s] EXCEPT !.phase = "roots"])
    /\ UNCHANGED <<env, tracks, roots, crashes>>

\* retireUnconfiguredRoots() lists the roots that are no longer configured.
BeginRetire(s) ==
    /\ scan[s].phase = "roots" /\ scan[s].todoRoots = {}
    /\ Local(s, [scan[s] EXCEPT !.phase = "retire", !.todoRoots = activeRoots \ scan[s].config])
    /\ UNCHANGED <<env, tracks, roots, crashes>>

RetireTracks(s, r) ==
    /\ scan[s].phase = "retire" /\ r \in scan[s].todoRoots
    /\ Local(s, [scan[s] EXCEPT !.phase = "retireTracks", !.todoRoots = @ \ {r}, !.root = r,
                                !.victims = {p \in Path : Visible(r, p)}])
    /\ UNCHANGED <<env, tracks, roots, crashes>>

\* Mutant: the root is retired before its tracks are deleted.
tracksRetired_NotAwaited(s) == TRUE

tracksRetired(s) == scan[s].victims = {}

\* The root's tracks are gone: LibraryRootRepository::retire().
RetireRoot(s) ==
    /\ scan[s].phase = "retireTracks" /\ tracksRetired(s)
    /\ roots' = [roots EXCEPT ![scan[s].root] = "retired"]
    /\ Local(s, [scan[s] EXCEPT !.phase = "retire"])
    /\ UNCHANGED <<env, tracks, crashes>>

EndScan(s) ==
    /\ scan[s].phase = "retire" /\ scan[s].todoRoots = {}
    /\ Local(s, Idle)
    /\ UNCHANGED <<env, tracks, roots, crashes>>

\* The process is killed, or something it calls throws.
Crash(s) ==
    /\ scan[s].phase # "idle" /\ crashes < MaxCrashes
    /\ crashes' = crashes + 1
    /\ Local(s, Idle)
    /\ UNCHANGED <<env, tracks, roots>>

ScanStep(s) ==
    \/ Look(s) \/ ReadFile(s) \/ ReadFails(s) \/ Write(s) \/ EndWalk(s) \/ WalkFails(s)
    \/ EndRoot(s) \/ BeginRetire(s) \/ RetireRoot(s) \/ EndScan(s)
    \/ \E r \in Root : NextRoot(s, r) \/ RetireTracks(s, r)
    \/ \E p \in Path : Visit(s, p) \/ StatFails(s, p) \/ TypeFails(s, p) \/ SoftDelete(s, p)

-----------------------------------------------------------------------------
(* The file system.                                                         *)

\* What a change of root r tells the histories of the scans: the paths in lost
\* were missing, and the scan is no longer undisturbed.
Notice(r, lost) ==
    scan' = [s \in Scanner |->
        [scan[s] EXCEPT !.quiet = FALSE,
                        !.gone = IF scan[s].root = r THEN @ \cup lost ELSE @]]

Edit(r, p) ==
    /\ mounted[r] /\ latest[r][p] < MaxVersion
    /\ latest' = [latest EXCEPT ![r][p] = @ + 1]
    /\ disk' = [disk EXCEPT ![r][p] = latest[r][p] + 1]
    /\ Notice(r, {})
    /\ UNCHANGED <<mounted, tracks, roots, crashes>>

Remove(r, p) ==
    /\ mounted[r] /\ disk[r][p] # 0
    /\ disk' = [disk EXCEPT ![r][p] = 0]
    /\ Notice(r, {p})
    /\ UNCHANGED <<latest, mounted, tracks, roots, crashes>>

Unmount(r) ==
    /\ mounted[r] /\ mounted' = [mounted EXCEPT ![r] = FALSE]
    /\ Notice(r, Path)
    /\ UNCHANGED <<disk, latest, tracks, roots, crashes>>

Mount(r) ==
    /\ ~mounted[r] /\ mounted' = [mounted EXCEPT ![r] = TRUE]
    /\ Notice(r, {})
    /\ UNCHANGED <<disk, latest, tracks, roots, crashes>>

FileStep == \E r \in Root : \/ Unmount(r) \/ Mount(r)
                            \/ \E p \in Path : Edit(r, p) \/ Remove(r, p)

Next == \/ FileStep
        \/ \E s \in Scanner : \/ ScanStep(s) \/ Crash(s)
                              \/ \E paths \in SUBSET Root : BeginScan(s, paths)

Spec == Init /\ [][Next]_vars

-----------------------------------------------------------------------------

Row == [stamp : 1 .. MaxVersion, hash : 1 .. MaxVersion, tags : 1 .. MaxVersion,
        deleted : BOOLEAN]

Phases == {"idle", "roots", "walk", "look", "read", "delete", "retire", "retireTracks"}

TypeOK ==
    /\ disk \in [Root -> [Path -> 0 .. MaxVersion]]
    /\ latest \in [Root -> [Path -> 0 .. MaxVersion]]
    /\ mounted \in [Root -> BOOLEAN]
    /\ tracks \in [Root -> [Path -> Row \cup {NoRow}]]
    /\ roots \in [Root -> {"absent", "active", "retired"}]
    /\ scan \in [Scanner -> [phase : Phases, config : SUBSET Root, todoRoots : SUBSET Root,
                    root : Root, todo : SUBSET Path, seen : SUBSET Path, path : Path,
                    stat : 0 .. MaxVersion,
                    reads : {<<>>, <<"hash">>, <<"tags">>, <<"tags", "hash">>, <<"hash", "tags">>},
                    hash : 0 .. MaxVersion, tags : 0 .. MaxVersion, victims : SUBSET Path,
                    gone : SUBSET Path, quiet : BOOLEAN]]
    /\ crashes \in 0 .. MaxCrashes

\* The pre-check never hides a change: a row whose stamp is that of the file on
\* disk describes that file, although stat, hash and tags are read one after
\* the other while the file changes, and scans overlap or die
\* (LibraryScanner.cpp:137-142).
StampSound ==
    \A r \in Root, p \in Path :
        tracks[r][p] # NoRow /\ tracks[r][p].stamp = disk[r][p] =>
            tracks[r][p].hash = disk[r][p] /\ tracks[r][p].tags = disk[r][p]

\* LibraryRoot.hpp: a retired root is no longer served and its tracks are
\* soft-deleted.  No later scan would look at them (list() leaves retired roots
\* out), so a crash must not leave any behind.
RetiredHidden == \A r \in Root, p \in Path : roots[r] = "retired" => ~Visible(r, p)

\* "Soft-delete marker: set when the file is no longer found on disk"
\* (Track.hpp:42): a track is deleted only if its file was missing at some time
\* while its root was walked, or its root was dropped from the configuration.
DeletedOnlyIfGone ==
    [][\A r \in Root, p \in Path :
          Visible(r, p) /\ ~Visible(r, p)' =>
              \E s \in Scanner : /\ scan[s].root = r
                                 /\ \/ scan[s].phase = "delete" /\ p \in scan[s].gone
                                    \/ scan[s].phase = "retireTracks" /\ r \notin scan[s].config]_vars

\* The library as a scan with this configuration should leave it.
InSync(config) ==
    \A r \in Root, p \in Path :
        /\ r \in config /\ mounted[r] =>
              IF disk[r][p] = 0 THEN ~Visible(r, p)
              ELSE /\ Visible(r, p) /\ tracks[r][p].stamp = disk[r][p]
                   /\ tracks[r][p].hash = disk[r][p] /\ tracks[r][p].tags = disk[r][p]
        /\ r \notin config => ~Visible(r, p)

\* A scan that nothing disturbs, and in which nothing fails, leaves the library
\* in step with the disk and the configuration, whatever earlier scans that were
\* killed or disturbed have left behind: new, changed, touched, removed and
\* reappeared files, dropped and re-added roots.
CleanScanSyncs ==
    \A s \in Scanner :
        scan[s].phase = "retire" /\ scan[s].todoRoots = {} /\ scan[s].quiet =>
            InSync(scan[s].config)
=============================================================================
