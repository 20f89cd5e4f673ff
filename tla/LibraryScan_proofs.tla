------------------------- MODULE LibraryScan_proofs -------------------------
(***************************************************************************)
(* Proofs about LibraryScan: types, StampSound and DeletedOnlyIfGone for   *)
(* any number of overlapping scan processes, roots, paths, edits and       *)
(* kills; RetiredHidden and CleanScanSyncs as long as scans do not overlap.*)
(***************************************************************************)
EXTENDS LibraryScan, TLAPS

Version == 0 .. MaxVersion

Reads == {<<>>, <<"hash">>, <<"tags">>, <<"tags", "hash">>, <<"hash", "tags">>}

Process == [phase : Phases, config : SUBSET Root, todoRoots : SUBSET Root,
            root : Root, todo : SUBSET Path, seen : SUBSET Path, path : Path,
            stat : Version, reads : Reads, hash : Version, tags : Version,
            victims : SUBSET Path, gone : SUBSET Path, quiet : BOOLEAN]

\* No path ever gets a version back: the file is not newer than the newest.
DiskNotNewer == \A r \in Root, p \in Path : disk[r][p] <= latest[r][p]

RowNotNewer == \A r \in Root, p \in Path :
    tracks[r][p] # NoRow => tracks[r][p].stamp <= latest[r][p]

\* What a value that has been read says: it is a version, and if the file still
\* is what it was at the stat, it is that one.
Fresh(v, stat, now) == v # 0 /\ (stat = now => v = now)

\* Of a process in the middle of a file: its stat is not newer than the newest
\* version, and what it has read since is fresh.
MidFile(x, now, newest) ==
    /\ x.phase \in {"look", "read"} => x.stat # 0 /\ x.stat <= newest
    /\ x.phase = "read" /\ x.reads \in {<<>>, <<"tags">>} => Fresh(x.hash, x.stat, now)
    /\ x.phase = "read" /\ x.reads \in {<<>>, <<"hash">>} => Fresh(x.tags, x.stat, now)

Reading == \A s \in Scanner :
    MidFile(scan[s], disk[scan[s].root][scan[s].path], latest[scan[s].root][scan[s].path])

IInv == TypeOK /\ DiskNotNewer /\ RowNotNewer /\ Reading /\ StampSound

-----------------------------------------------------------------------------

LEMMA IdleProcess == Idle \in Process /\ Idle.phase = "idle"
<1>1. (CHOOSE r \in Root : TRUE) \in Root
  BY ScanAssumption
<1>2. (CHOOSE p \in Path : TRUE) \in Path
  BY ScanAssumption
<1>3. 0 \in Version
  BY ScanAssumption DEF Version
<1> QED BY <1>1, <1>2, <1>3 DEF Idle, Process, Phases, Reads

\* The type invariant says of the processes that they are in Process.
LEMMA ProcessType == TypeOK => scan \in [Scanner -> Process]
  BY DEF TypeOK, Process, Version, Reads

LEMMA InitIInv == Init => IInv
<1> SUFFICES ASSUME Init PROVE IInv
  OBVIOUS
<1>1. 0 \in Version /\ 0 \in 0 .. MaxCrashes
  BY ScanAssumption DEF Version
<1>2. scan \in [Scanner -> Process]
  BY IdleProcess DEF Init
<1>3. TypeOK
  BY <1>1, <1>2 DEF Init, TypeOK, Process, Version, Reads
<1>4. DiskNotNewer /\ RowNotNewer /\ StampSound
  BY DEF Init, DiskNotNewer, RowNotNewer, StampSound
<1>5. Reading
  BY IdleProcess DEF Init, Reading, MidFile
<1> QED BY <1>3, <1>4, <1>5 DEF IInv

-----------------------------------------------------------------------------
(* Steps of a process.                                                      *)

\* A step in which one process moves on and neither files nor rows change.
LEMMA LocalStep ==
    ASSUME IInv, NEW s \in Scanner, NEW x \in Process, Local(s, x),
           MidFile(x, disk[x.root][x.path], latest[x.root][x.path]),
           UNCHANGED <<env, tracks>>,
           roots' \in [Root -> {"absent", "active", "retired"}],
           crashes' \in 0 .. MaxCrashes
    PROVE  IInv'
<1>1. scan \in [Scanner -> Process]
  BY ProcessType DEF IInv
<1>2. scan' \in [Scanner -> Process] /\ \A t \in Scanner : scan'[t] = IF t = s THEN x ELSE scan[t]
  BY <1>1 DEF Local
<1>3. UNCHANGED <<disk, latest, mounted, tracks>>
  BY DEF env
<1>4. TypeOK'
  BY <1>2, <1>3 DEF IInv, TypeOK, Process, Version, Reads
<1>5. (DiskNotNewer /\ RowNotNewer /\ StampSound)'
  BY <1>3 DEF IInv, DiskNotNewer, RowNotNewer, StampSound
<1>6. Reading'
  <2> SUFFICES ASSUME NEW t \in Scanner
               PROVE  MidFile(scan'[t], disk[scan'[t].root][scan'[t].path],
                              latest[scan'[t].root][scan'[t].path])
    BY <1>3 DEF Reading
  <2>1. CASE t = s
    BY <1>2, <2>1
  <2>2. CASE t # s
    BY <1>2, <2>2 DEF IInv, Reading
  <2> QED BY <2>1, <2>2
<1> QED BY <1>4, <1>5, <1>6 DEF IInv

\* A process that is not in the middle of a file.
LEMMA NotMidFile ==
    ASSUME NEW x, x.phase \notin {"look", "read"}, NEW now, NEW newest
    PROVE  MidFile(x, now, newest)
  BY DEF MidFile

\* The steps after which the process is not in the middle of a file.
LEMMA BetweenFiles ==
    ASSUME IInv, NEW s \in Scanner, NEW x \in Process, Local(s, x),
           x.phase \notin {"look", "read"},
           UNCHANGED <<env, tracks>>,
           roots' \in [Root -> {"absent", "active", "retired"}],
           crashes' \in 0 .. MaxCrashes
    PROVE  IInv'
<1>1. MidFile(x, disk[x.root][x.path], latest[x.root][x.path])
  BY NotMidFile
<1> QED BY <1>1, LocalStep

LEMMA VisitStep == ASSUME IInv, NEW s \in Scanner, NEW p \in Path, Visit(s, p) PROVE IInv'
<1> DEFINE y == scan[s]
           now == disk[y.root][p]
           skip == [y EXCEPT !.todo = @ \ {p}]
           look == [y EXCEPT !.todo = @ \ {p}, !.seen = @ \cup {p}, !.path = p,
                             !.phase = "look", !.stat = now]
<1>1. y \in Process
  BY ProcessType DEF IInv
<1>2. /\ roots' \in [Root -> {"absent", "active", "retired"}] /\ crashes' \in 0 .. MaxCrashes
      /\ now \in Version /\ latest[y.root][p] \in Version
  BY <1>1 DEF IInv, TypeOK, Visit, Version, Process
<1>3. CASE now = 0
  <2>1. skip \in Process /\ skip.phase = "walk"
    BY <1>1 DEF Visit, Process
  <2>2. Local(s, skip) /\ UNCHANGED <<env, tracks>>
    BY <1>3 DEF Visit
  <2> HIDE DEF skip
  <2> QED BY <1>2, <2>1, <2>2, BetweenFiles
<1>4. CASE now # 0
  <2>1. look \in Process /\ look.phase = "look" /\ look.stat = now
        /\ look.root = y.root /\ look.path = p
    BY <1>1, <1>2 DEF Process, Phases
  <2>2. Local(s, look) /\ UNCHANGED <<env, tracks>>
    BY <1>4 DEF Visit
  <2>3. now <= latest[y.root][p]
    BY <1>1 DEF IInv, DiskNotNewer, Process
  <2>4. MidFile(look, disk[look.root][look.path], latest[look.root][look.path])
    BY <1>4, <2>1, <2>3 DEF MidFile
  <2> HIDE DEF look
  <2> QED BY <1>2, <2>1, <2>2, <2>4, LocalStep
<1> QED BY <1>3, <1>4

LEMMA LookStep == ASSUME IInv, NEW s \in Scanner, Look(s) PROVE IInv'
<1> DEFINE y == scan[s]
           row == tracks[y.root][y.path]
           fresh == [y EXCEPT !.phase = "read", !.reads = <<"tags", "hash">>]
           changed == [y EXCEPT !.phase = "read", !.reads = <<"hash", "tags">>]
           same == [y EXCEPT !.phase = "walk"]
<1>1. y \in Process /\ MidFile(y, disk[y.root][y.path], latest[y.root][y.path])
  BY ProcessType DEF IInv, Reading
<1>2. /\ roots' \in [Root -> {"absent", "active", "retired"}] /\ crashes' \in 0 .. MaxCrashes
      /\ UNCHANGED <<env, tracks>>
  BY DEF IInv, TypeOK, Look
<1>3. y.phase = "look"
  BY DEF Look
<1>4. y.stat # 0 /\ y.stat <= latest[y.root][y.path]
  BY <1>1, <1>3 DEF MidFile
<1>5. Local(s, fresh) \/ Local(s, changed) \/ Local(s, same)
  <2>1. isNew(row) \/ (~isNew(row) /\ row.stamp = y.stat) \/ (~isNew(row) /\ row.stamp # y.stat)
    OBVIOUS
  <2>2. isNew(row) \in BOOLEAN
    BY DEF isNew
  <2> QED BY <2>1, <2>2 DEF Look
<1>6. /\ <<"tags", "hash">> \notin {<<>>, <<"tags">>, <<"hash">>}
      /\ <<"hash", "tags">> \notin {<<>>, <<"tags">>, <<"hash">>}
  OBVIOUS
<1>7. CASE Local(s, fresh)
  <2>1. fresh \in Process /\ fresh.phase = "read" /\ fresh.reads = <<"tags", "hash">>
        /\ fresh.stat = y.stat /\ fresh.root = y.root /\ fresh.path = y.path
    BY <1>1 DEF Process, Phases, Reads
  <2>2. MidFile(fresh, disk[fresh.root][fresh.path], latest[fresh.root][fresh.path])
    BY <1>4, <1>6, <2>1 DEF MidFile
  <2> HIDE DEF fresh
  <2> QED BY <1>2, <1>7, <2>1, <2>2, LocalStep
<1>8. CASE Local(s, changed)
  <2>1. changed \in Process /\ changed.phase = "read" /\ changed.reads = <<"hash", "tags">>
        /\ changed.stat = y.stat /\ changed.root = y.root /\ changed.path = y.path
    BY <1>1 DEF Process, Phases, Reads
  <2>2. MidFile(changed, disk[changed.root][changed.path], latest[changed.root][changed.path])
    BY <1>4, <1>6, <2>1 DEF MidFile
  <2> HIDE DEF changed
  <2> QED BY <1>2, <1>8, <2>1, <2>2, LocalStep
<1>9. CASE Local(s, same)
  <2>1. same \in Process /\ same.phase = "walk"
    BY <1>1 DEF Process, Phases
  <2> HIDE DEF same
  <2> QED BY <1>2, <1>9, <2>1, BetweenFiles
<1> QED BY <1>5, <1>7, <1>8, <1>9

LEMMA ReadFileStep == ASSUME IInv, NEW s \in Scanner, ReadFile(s) PROVE IInv'
<1> DEFINE y == scan[s]
           now == disk[y.root][y.path]
           hashed == [y EXCEPT !.reads = Tail(@), !.hash = now]
           tagged == [y EXCEPT !.reads = Tail(@), !.tags = now]
<1>1. y \in Process /\ MidFile(y, now, latest[y.root][y.path])
  BY ProcessType DEF IInv, Reading
<1>2. /\ roots' \in [Root -> {"absent", "active", "retired"}] /\ crashes' \in 0 .. MaxCrashes
      /\ UNCHANGED <<env, tracks>> /\ now \in Version
  BY <1>1 DEF IInv, TypeOK, ReadFile, Process, Version
<1>3. y.phase = "read" /\ y.reads # <<>> /\ now # 0
  BY DEF ReadFile, canRead
<1>4. y.reads \in {<<"hash">>, <<"tags">>, <<"tags", "hash">>, <<"hash", "tags">>}
  BY <1>1, <1>3 DEF Process, Reads
<1>5. /\ Head(<<"hash">>) = "hash" /\ Tail(<<"hash">>) = <<>>
      /\ Head(<<"tags">>) = "tags" /\ Tail(<<"tags">>) = <<>>
      /\ Head(<<"tags", "hash">>) = "tags" /\ Tail(<<"tags", "hash">>) = <<"hash">>
      /\ Head(<<"hash", "tags">>) = "hash" /\ Tail(<<"hash", "tags">>) = <<"tags">>
      /\ <<"hash">> # <<>> /\ <<"tags">> # <<>> /\ <<"hash">> # <<"tags">>
  OBVIOUS
<1>6. CASE Head(y.reads) = "hash"
  <2>1. (y.reads = <<"hash">> /\ Tail(y.reads) = <<>>)
        \/ (y.reads = <<"hash", "tags">> /\ Tail(y.reads) = <<"tags">>)
    BY <1>4, <1>5, <1>6
  <2>2. hashed \in Process /\ hashed.phase = "read" /\ hashed.reads = Tail(y.reads)
        /\ hashed.hash = now /\ hashed.tags = y.tags
        /\ hashed.stat = y.stat /\ hashed.root = y.root /\ hashed.path = y.path
    BY <1>1, <1>2, <1>3, <2>1 DEF Process, Reads
  <2>3. Fresh(now, y.stat, now)
    BY <1>3 DEF Fresh
  <2>4. y.stat # 0 /\ y.stat <= latest[y.root][y.path]
        /\ (y.reads = <<"hash">> => Fresh(y.tags, y.stat, now))
    BY <1>1, <1>3 DEF MidFile
  <2>5. MidFile(hashed, now, latest[y.root][y.path])
    BY <1>5, <2>1, <2>2, <2>3, <2>4 DEF MidFile
  <2>6. Local(s, hashed)
    BY <1>6 DEF ReadFile
  <2> HIDE DEF hashed
  <2> QED BY <1>2, <2>2, <2>5, <2>6, LocalStep
<1>7. CASE Head(y.reads) # "hash"
  <2>1. (y.reads = <<"tags">> /\ Tail(y.reads) = <<>>)
        \/ (y.reads = <<"tags", "hash">> /\ Tail(y.reads) = <<"hash">>)
    BY <1>4, <1>5, <1>7
  <2>2. tagged \in Process /\ tagged.phase = "read" /\ tagged.reads = Tail(y.reads)
        /\ tagged.tags = now /\ tagged.hash = y.hash
        /\ tagged.stat = y.stat /\ tagged.root = y.root /\ tagged.path = y.path
    BY <1>1, <1>2, <1>3, <2>1 DEF Process, Reads
  <2>3. Fresh(now, y.stat, now)
    BY <1>3 DEF Fresh
  <2>4. y.stat # 0 /\ y.stat <= latest[y.root][y.path]
        /\ (y.reads = <<"tags">> => Fresh(y.hash, y.stat, now))
    BY <1>1, <1>3 DEF MidFile
  <2>5. MidFile(tagged, now, latest[y.root][y.path])
    BY <1>5, <2>1, <2>2, <2>3, <2>4 DEF MidFile
  <2>6. Local(s, tagged)
    BY <1>7 DEF ReadFile
  <2> HIDE DEF tagged
  <2> QED BY <1>2, <2>2, <2>5, <2>6, LocalStep
<1> QED BY <1>6, <1>7

\* A step that writes one row and leaves the process between two files.
LEMMA RowStep ==
    ASSUME IInv, NEW s \in Scanner, NEW x \in Process, Local(s, x),
           x.phase \notin {"look", "read"}, UNCHANGED <<env, roots, crashes>>,
           NEW r \in Root, NEW p \in Path, NEW row \in Row,
           tracks' = [tracks EXCEPT ![r][p] = row],
           row.stamp <= latest[r][p],
           row.stamp = disk[r][p] => row.hash = disk[r][p] /\ row.tags = disk[r][p]
    PROVE  IInv'
<1>1. scan \in [Scanner -> Process]
  BY ProcessType DEF IInv
<1>2. scan' \in [Scanner -> Process] /\ \A t \in Scanner : scan'[t] = IF t = s THEN x ELSE scan[t]
  BY <1>1 DEF Local
<1>3. UNCHANGED <<disk, latest, mounted, roots, crashes>>
  BY DEF env
<1>4. tracks \in [Root -> [Path -> Row \cup {NoRow}]]
  BY DEF IInv, TypeOK
<1>5. \A q \in Root, f \in Path :
         tracks'[q][f] = IF q = r /\ f = p THEN row ELSE tracks[q][f]
  BY <1>4
<1>6. tracks' \in [Root -> [Path -> Row \cup {NoRow}]]
  BY <1>4
<1>7. TypeOK'
  BY <1>2, <1>3, <1>6 DEF IInv, TypeOK, Process, Version, Reads
<1>8. DiskNotNewer'
  BY <1>3 DEF IInv, DiskNotNewer
<1>9. RowNotNewer'
  BY <1>3, <1>5 DEF IInv, RowNotNewer
<1>10. StampSound'
  BY <1>3, <1>5 DEF IInv, StampSound
<1>11. Reading'
  <2> SUFFICES ASSUME NEW t \in Scanner
               PROVE  MidFile(scan'[t], disk[scan'[t].root][scan'[t].path],
                              latest[scan'[t].root][scan'[t].path])
    BY <1>3 DEF Reading
  <2>1. CASE t = s
    BY <1>2, <2>1, NotMidFile
  <2>2. CASE t # s
    BY <1>2, <2>2 DEF IInv, Reading
  <2> QED BY <2>1, <2>2
<1> QED BY <1>7, <1>8, <1>9, <1>10, <1>11 DEF IInv

\* The row written has the stat taken before the reads: if that still is the
\* file on disk, so is what was read.
LEMMA WriteStep == ASSUME IInv, NEW s \in Scanner, Write(s) PROVE IInv'
<1> DEFINE y == scan[s]
           now == disk[y.root][y.path]
           x == [y EXCEPT !.phase = "walk"]
           row == toUpsert(s)
<1>1. y \in Process /\ MidFile(y, now, latest[y.root][y.path])
  BY ProcessType DEF IInv, Reading
<1>2. y.root \in Root /\ y.path \in Path
      /\ y.stat \in Version /\ y.hash \in Version /\ y.tags \in Version
  BY <1>1 DEF Process
<1>3. x \in Process /\ x.phase = "walk"
  BY <1>1 DEF Process, Phases
<1>4. Local(s, x) /\ UNCHANGED <<env, roots, crashes>>
      /\ tracks' = [tracks EXCEPT ![y.root][y.path] = row]
  BY DEF Write, upsert
<1>5. y.stat # 0 /\ y.stat <= latest[y.root][y.path]
      /\ Fresh(y.hash, y.stat, now) /\ Fresh(y.tags, y.stat, now)
  BY <1>1 DEF Write, MidFile
<1>6. row.stamp = y.stat /\ row.hash = y.hash /\ row.tags = y.tags /\ row.deleted = FALSE
  BY DEF toUpsert
<1>7. row \in Row
  <2>1. \A v \in Version : v # 0 => v \in 1 .. MaxVersion
    BY ScanAssumption DEF Version
  <2> QED BY <1>2, <1>5, <2>1 DEF toUpsert, Row, Fresh
<1>8. row.stamp <= latest[y.root][y.path]
      /\ (row.stamp = now => row.hash = now /\ row.tags = now)
  BY <1>5, <1>6 DEF Fresh
<1> HIDE DEF x, row
<1> QED BY <1>2, <1>3, <1>4, <1>7, <1>8, RowStep

LEMMA SoftDeleteStep ==
    ASSUME IInv, NEW s \in Scanner, NEW p \in Path, SoftDelete(s, p) PROVE IInv'
<1> DEFINE y == scan[s]
           x == [y EXCEPT !.victims = @ \ {p}]
           row == [tracks[y.root][p] EXCEPT !.deleted = TRUE]
<1>1. y \in Process
  BY ProcessType DEF IInv
<1>2. y.root \in Root
  BY <1>1 DEF Process
<1>3. x \in Process /\ x.phase \in {"delete", "retireTracks"}
  BY <1>1 DEF Process, SoftDelete
<1>4. Local(s, x) /\ UNCHANGED <<env, roots, crashes>>
  BY DEF SoftDelete
<1>5. roots' \in [Root -> {"absent", "active", "retired"}] /\ crashes' \in 0 .. MaxCrashes
  BY <1>4 DEF IInv, TypeOK
<1>6. CASE Visible(y.root, p)
  <2>1. tracks \in [Root -> [Path -> Row \cup {NoRow}]]
    BY DEF IInv, TypeOK
  <2>2. tracks[y.root][p] \in Row
    BY <1>2, <1>6, <2>1 DEF Visible
  <2>3. row \in Row /\ row.stamp = tracks[y.root][p].stamp /\ row.hash = tracks[y.root][p].hash
        /\ row.tags = tracks[y.root][p].tags
    BY <2>2 DEF Row
  <2>4. tracks' = [tracks EXCEPT ![y.root][p].deleted = TRUE]
    BY <1>6 DEF SoftDelete, softDelete
  <2>5. tracks' = [tracks EXCEPT ![y.root][p] = row]
    BY <2>4
  <2>6. row.stamp <= latest[y.root][p]
        /\ (row.stamp = disk[y.root][p] =>
              row.hash = disk[y.root][p] /\ row.tags = disk[y.root][p])
    BY <1>2, <1>6, <2>3 DEF IInv, RowNotNewer, StampSound, Visible
  <2> HIDE DEF x, row
  <2> QED BY <1>2, <1>3, <1>4, <2>3, <2>5, <2>6, RowStep
<1>7. CASE ~Visible(y.root, p)
  <2>1. tracks' = tracks
    BY <1>7 DEF SoftDelete, softDelete
  <2> HIDE DEF x
  <2> QED BY <1>3, <1>4, <1>5, <2>1, BetweenFiles
<1> QED BY <1>6, <1>7

\* NextRoot, StatFails, TypeFails, ReadFails, the end of a walk, EndRoot and the
\* steps of retireUnconfiguredRoots() but SoftDelete, EndScan and Crash.
LEMMA OtherSteps ==
    ASSUME IInv, NEW s \in Scanner,
           \/ \E r \in Root : NextRoot(s, r) \/ RetireTracks(s, r)
           \/ \E p \in Path : StatFails(s, p) \/ TypeFails(s, p)
           \/ ReadFails(s) \/ EndWalk(s) \/ WalkFails(s) \/ EndRoot(s)
           \/ BeginRetire(s) \/ RetireRoot(s) \/ EndScan(s) \/ Crash(s)
    PROVE  IInv'
<1> DEFINE y == scan[s]
<1>1. y \in Process
  BY ProcessType DEF IInv
<1>2. roots \in [Root -> {"absent", "active", "retired"}] /\ crashes \in 0 .. MaxCrashes
  BY DEF IInv, TypeOK
<1>3. ASSUME NEW r \in Root, NextRoot(s, r) PROVE IInv'
  <2> DEFINE walk == [y EXCEPT !.phase = "walk", !.root = r, !.todo = Path,
                         !.todoRoots = @ \ {r}, !.seen = {},
                         !.gone = {p \in Path : disk[r][p] = 0}]
             skip == [y EXCEPT !.todoRoots = @ \ {r}]
  <2>1. walk \in Process /\ walk.phase = "walk"
    BY <1>1 DEF Process, Phases
  <2>2. skip \in Process /\ skip.phase = "roots"
    BY <1>1, <1>3 DEF Process, NextRoot
  <2>3. /\ Local(s, walk) \/ Local(s, skip)
        /\ UNCHANGED <<env, tracks, crashes>>
    BY <1>3 DEF NextRoot
  <2>4. roots' \in [Root -> {"absent", "active", "retired"}]
    BY <1>2, <1>3 DEF NextRoot
  <2> HIDE DEF walk, skip
  <2> QED BY <1>2, <2>1, <2>2, <2>3, <2>4, BetweenFiles
<1>4. ASSUME NEW r \in Root, RetireTracks(s, r) PROVE IInv'
  <2> DEFINE x == [y EXCEPT !.phase = "retireTracks", !.todoRoots = @ \ {r}, !.root = r,
                            !.victims = {p \in Path : Visible(r, p)}]
  <2>1. x \in Process /\ x.phase = "retireTracks"
    BY <1>1 DEF Process, Phases
  <2>2. Local(s, x) /\ UNCHANGED <<env, tracks, roots, crashes>>
    BY <1>4 DEF RetireTracks
  <2> HIDE DEF x
  <2> QED BY <1>2, <2>1, <2>2, BetweenFiles
<1>5. ASSUME NEW p \in Path, StatFails(s, p) PROVE IInv'
  <2> DEFINE x == [y EXCEPT !.todo = @ \ {p}, !.seen = @ \cup {p}, !.quiet = FALSE]
  <2>1. x \in Process /\ x.phase = "walk"
    BY <1>1, <1>5 DEF Process, StatFails
  <2>2. Local(s, x) /\ UNCHANGED <<env, tracks, roots, crashes>>
    BY <1>5 DEF StatFails
  <2> HIDE DEF x
  <2> QED BY <1>2, <2>1, <2>2, BetweenFiles
<1>6. ASSUME NEW p \in Path, TypeFails(s, p) PROVE IInv'
  <2> DEFINE x == [y EXCEPT !.todo = @ \ {p}, !.quiet = FALSE]
  <2>1. x \in Process /\ x.phase = "walk"
    BY <1>1, <1>6 DEF Process, TypeFails
  <2>2. Local(s, x) /\ UNCHANGED <<env, tracks, roots, crashes>>
    BY <1>6 DEF TypeFails
  <2> HIDE DEF x
  <2> QED BY <1>2, <2>1, <2>2, BetweenFiles
<1>7. CASE ReadFails(s)
  <2> DEFINE x == [y EXCEPT !.phase = "walk", !.quiet = FALSE]
  <2>1. x \in Process /\ x.phase = "walk"
    BY <1>1 DEF Process, Phases
  <2>2. Local(s, x) /\ UNCHANGED <<env, tracks, roots, crashes>>
    BY <1>7 DEF ReadFails
  <2> HIDE DEF x
  <2> QED BY <1>2, <2>1, <2>2, BetweenFiles
<1>8. CASE EndWalk(s) \/ WalkFails(s)
  <2>1. PICK complete \in BOOLEAN : detectDeletions(s, complete)
    BY <1>8 DEF EndWalk, WalkFails
  <2> DEFINE x == [y EXCEPT !.phase = "delete", !.todo = {}, !.quiet = @ /\ complete,
                      !.victims = {p \in Path : Visible(y.root, p)} \ y.seen]
  <2>2. x \in Process /\ x.phase = "delete"
    BY <1>1 DEF Process, Phases
  <2>3. Local(s, x) /\ UNCHANGED <<env, tracks, roots, crashes>>
    BY <1>8, <2>1 DEF EndWalk, WalkFails, detectDeletions
  <2> HIDE DEF x
  <2> QED BY <1>2, <2>2, <2>3, BetweenFiles
<1>9. CASE EndRoot(s)
  <2> DEFINE x == [y EXCEPT !.phase = "roots"]
  <2>1. x \in Process /\ x.phase = "roots"
    BY <1>1 DEF Process, Phases
  <2>2. Local(s, x) /\ UNCHANGED <<env, tracks, roots, crashes>>
    BY <1>9 DEF EndRoot
  <2> HIDE DEF x
  <2> QED BY <1>2, <2>1, <2>2, BetweenFiles
<1>10. CASE BeginRetire(s)
  <2> DEFINE x == [y EXCEPT !.phase = "retire", !.todoRoots = activeRoots \ y.config]
  <2>1. x \in Process /\ x.phase = "retire"
    BY <1>1 DEF Process, Phases, activeRoots
  <2>2. Local(s, x) /\ UNCHANGED <<env, tracks, roots, crashes>>
    BY <1>10 DEF BeginRetire
  <2> HIDE DEF x
  <2> QED BY <1>2, <2>1, <2>2, BetweenFiles
<1>11. CASE RetireRoot(s)
  <2> DEFINE x == [y EXCEPT !.phase = "retire"]
  <2>1. x \in Process /\ x.phase = "retire"
    BY <1>1 DEF Process, Phases
  <2>2. Local(s, x) /\ UNCHANGED <<env, tracks, crashes>>
    BY <1>11 DEF RetireRoot
  <2>3. roots' \in [Root -> {"absent", "active", "retired"}]
    BY <1>2, <1>11 DEF RetireRoot
  <2> HIDE DEF x
  <2> QED BY <1>2, <2>1, <2>2, <2>3, BetweenFiles
<1>12. CASE EndScan(s)
  <2>1. Local(s, Idle) /\ UNCHANGED <<env, tracks, roots, crashes>>
    BY <1>12 DEF EndScan
  <2> QED BY <1>2, <2>1, IdleProcess, BetweenFiles
<1>13. CASE Crash(s)
  <2>1. Local(s, Idle) /\ UNCHANGED <<env, tracks, roots>>
    BY <1>13 DEF Crash
  <2>2. crashes' \in 0 .. MaxCrashes
    BY <1>2, <1>13, ScanAssumption DEF Crash
  <2> QED BY <1>2, <2>1, <2>2, IdleProcess, BetweenFiles
<1> QED BY <1>3, <1>4, <1>5, <1>6, <1>7, <1>8, <1>9, <1>10, <1>11, <1>12, <1>13

-----------------------------------------------------------------------------
(* Steps that change what every process records.                            *)

\* Files change, rows do not, and no process moves on.  A path that is written
\* gets a version that nobody has seen; one that is removed gets 0, which
\* nobody records.
LEMMA FileLemma ==
    ASSUME IInv, UNCHANGED <<tracks, roots, crashes>>,
           disk' \in [Root -> [Path -> Version]], latest' \in [Root -> [Path -> Version]],
           mounted' \in [Root -> BOOLEAN],
           scan' \in [Scanner -> Process],
           \A s \in Scanner : scan'[s].phase \in {"look", "read"} =>
               \A f \in {"phase", "root", "path", "stat", "reads", "hash", "tags"} :
                   scan'[s][f] = scan[s][f],
           \A r \in Root, p \in Path :
               /\ latest[r][p] <= latest'[r][p] /\ disk'[r][p] <= latest'[r][p]
               /\ disk'[r][p] \in {0, disk[r][p]} \/ disk'[r][p] > latest[r][p]
    PROVE  IInv'
<1>1. /\ disk \in [Root -> [Path -> Version]] /\ latest \in [Root -> [Path -> Version]]
      /\ tracks \in [Root -> [Path -> Row \cup {NoRow}]] /\ scan \in [Scanner -> Process]
  BY ProcessType DEF IInv, TypeOK, Version
<1>2. TypeOK'
  BY DEF IInv, TypeOK, Process, Version, Reads
<1>3. DiskNotNewer'
  BY DEF DiskNotNewer
<1>4. \A r \in Root, p \in Path : /\ disk[r][p] \in Nat /\ disk'[r][p] \in Nat
                                  /\ latest[r][p] \in Nat /\ latest'[r][p] \in Nat
  BY <1>1, ScanAssumption DEF Version
<1>5. \A r \in Root, p \in Path : tracks[r][p] # NoRow =>
         tracks[r][p].stamp \in Nat /\ tracks[r][p].stamp # 0
  BY <1>1, ScanAssumption DEF Row
<1>6. RowNotNewer'
  <2> SUFFICES ASSUME NEW r \in Root, NEW p \in Path, tracks[r][p] # NoRow
               PROVE  tracks[r][p].stamp <= latest'[r][p]
    BY DEF RowNotNewer
  <2>1. tracks[r][p].stamp <= latest[r][p]
    BY DEF IInv, RowNotNewer
  <2>2. latest[r][p] <= latest'[r][p]
    OBVIOUS
  <2> QED BY <1>4, <1>5, <2>1, <2>2
<1>7. StampSound'
  <2> SUFFICES ASSUME NEW r \in Root, NEW p \in Path, tracks[r][p] # NoRow,
                      tracks[r][p].stamp = disk'[r][p]
               PROVE  tracks[r][p].hash = disk'[r][p] /\ tracks[r][p].tags = disk'[r][p]
    BY DEF StampSound
  <2>1. tracks[r][p].stamp <= latest[r][p]
    BY DEF IInv, RowNotNewer
  <2>2. disk'[r][p] \in {0, disk[r][p]} \/ disk'[r][p] > latest[r][p]
    OBVIOUS
  <2>3. disk'[r][p] = disk[r][p]
    BY <1>4, <1>5, <2>1, <2>2
  <2> QED BY <2>3 DEF IInv, StampSound
<1>8. Reading'
  <2> SUFFICES ASSUME NEW s \in Scanner
               PROVE  MidFile(scan'[s], disk'[scan'[s].root][scan'[s].path],
                              latest'[scan'[s].root][scan'[s].path])
    BY DEF Reading
  <2>1. CASE scan'[s].phase \notin {"look", "read"}
    BY <2>1, NotMidFile
  <2>2. CASE scan'[s].phase \in {"look", "read"}
    <3> DEFINE x == scan[s]
               z == scan'[s]
               old == disk[x.root][x.path]
               new == disk'[x.root][x.path]
               top == latest[x.root][x.path]
               top2 == latest'[x.root][x.path]
    <3>1. /\ z.phase = x.phase /\ z.root = x.root /\ z.path = x.path /\ z.stat = x.stat
          /\ z.reads = x.reads /\ z.hash = x.hash /\ z.tags = x.tags
      BY <2>2
    <3>2. x.root \in Root /\ x.path \in Path /\ x.stat \in Nat
      BY <1>1, ScanAssumption DEF Process, Version
    <3>3. /\ top <= top2 /\ (new \in {0, old} \/ new > top)
          /\ old \in Nat /\ new \in Nat /\ top \in Nat /\ top2 \in Nat
      BY <1>4, <3>2
    <3>4. MidFile(x, old, top)
      BY DEF IInv, Reading
    <3>5. x.stat # 0 /\ x.stat <= top
      BY <2>2, <3>1, <3>4 DEF MidFile
    <3>6. x.stat <= top2 /\ (x.stat = new => new = old)
      <4> HIDE DEF x, old, new, top, top2
      <4> QED BY <3>2, <3>3, <3>5
    <3>7. \A v : Fresh(v, x.stat, old) => Fresh(v, x.stat, new)
      BY <3>6 DEF Fresh
    <3>8. MidFile(z, new, top2)
      BY <3>1, <3>4, <3>5, <3>6, <3>7 DEF MidFile
    <3> QED BY <3>1, <3>8
  <2> QED BY <2>1, <2>2
<1> QED BY <1>2, <1>3, <1>6, <1>7, <1>8 DEF IInv

LEMMA NoticeFacts ==
    ASSUME IInv, NEW r \in Root, NEW lost \in SUBSET Path, Notice(r, lost)
    PROVE  /\ scan' \in [Scanner -> Process]
           /\ \A s \in Scanner, f \in {"phase", "root", "path", "stat", "reads", "hash", "tags"} :
                 scan'[s][f] = scan[s][f]
<1>1. scan \in [Scanner -> Process]
  BY ProcessType DEF IInv
<1>2. ASSUME NEW s \in Scanner
      PROVE  /\ scan'[s] \in Process
             /\ \A f \in {"phase", "root", "path", "stat", "reads", "hash", "tags"} :
                   scan'[s][f] = scan[s][f]
  <2> DEFINE y == scan[s]
             x == [y EXCEPT !.quiet = FALSE, !.gone = IF y.root = r THEN @ \cup lost ELSE @]
  <2>1. scan'[s] = x
    BY DEF Notice
  <2>2. y \in Process
    BY <1>1
  <2>3. x \in Process
    BY <2>2 DEF Process
  <2>4. \A f \in {"phase", "root", "path", "stat", "reads", "hash", "tags"} : x[f] = y[f]
    BY <2>2 DEF Process
  <2> HIDE DEF x
  <2> QED BY <2>1, <2>3, <2>4
<1>3. scan' = [s \in Scanner |-> scan'[s]]
  BY DEF Notice
<1> QED BY <1>2, <1>3

LEMMA FileSteps == ASSUME IInv, FileStep PROVE IInv'
<1>1. /\ disk \in [Root -> [Path -> Version]] /\ latest \in [Root -> [Path -> Version]]
      /\ mounted \in [Root -> BOOLEAN]
  BY DEF IInv, TypeOK, Version
<1>2. /\ 0 \in Version
      /\ \A v \in Version : v \in Nat /\ 0 <= v /\ v <= v
      /\ \A v \in Version : v < MaxVersion => v + 1 \in Version /\ v <= v + 1 /\ v + 1 > v
  BY ScanAssumption DEF Version
<1>3. \A r \in Root, p \in Path : disk[r][p] <= latest[r][p]
  BY DEF IInv, DiskNotNewer
<1>4. ASSUME NEW r \in Root, NEW p \in Path, Edit(r, p) PROVE IInv'
  <2> DEFINE v == latest[r][p]
  <2>1. v \in Version /\ v + 1 \in Version /\ v <= v + 1 /\ v + 1 > v /\ v + 1 <= v + 1
    BY <1>1, <1>2, <1>4 DEF Edit
  <2>2. /\ latest' = [latest EXCEPT ![r][p] = v + 1] /\ disk' = [disk EXCEPT ![r][p] = v + 1]
        /\ UNCHANGED <<mounted, tracks, roots, crashes>> /\ Notice(r, {})
    BY <1>4 DEF Edit
  <2>3. disk' \in [Root -> [Path -> Version]] /\ latest' \in [Root -> [Path -> Version]]
    BY <1>1, <2>1, <2>2
  <2>4. ASSUME NEW q \in Root, NEW f \in Path
        PROVE  /\ latest[q][f] <= latest'[q][f] /\ disk'[q][f] <= latest'[q][f]
               /\ disk'[q][f] \in {0, disk[q][f]} \/ disk'[q][f] > latest[q][f]
    <3>1. CASE q = r /\ f = p
      <4>1. latest'[q][f] = v + 1 /\ disk'[q][f] = v + 1 /\ latest[q][f] = v
        BY <1>1, <2>2, <3>1
      <4> QED BY <2>1, <4>1
    <3>2. CASE ~(q = r /\ f = p)
      <4>1. latest'[q][f] = latest[q][f] /\ disk'[q][f] = disk[q][f]
        BY <1>1, <2>2, <3>2
      <4> QED BY <1>1, <1>2, <1>3, <4>1
    <3> QED BY <3>1, <3>2
  <2> QED BY <1>1, <2>2, <2>3, <2>4, NoticeFacts, FileLemma
<1>5. ASSUME NEW r \in Root, NEW p \in Path, Remove(r, p) PROVE IInv'
  <2>1. /\ disk' = [disk EXCEPT ![r][p] = 0] /\ Notice(r, {p})
        /\ UNCHANGED <<latest, mounted, tracks, roots, crashes>>
    BY <1>5 DEF Remove
  <2>2. disk' \in [Root -> [Path -> Version]]
    BY <1>1, <1>2, <2>1
  <2>3. ASSUME NEW q \in Root, NEW f \in Path
        PROVE  /\ latest[q][f] <= latest'[q][f] /\ disk'[q][f] <= latest'[q][f]
               /\ disk'[q][f] \in {0, disk[q][f]} \/ disk'[q][f] > latest[q][f]
    <3>1. disk'[q][f] \in {0, disk[q][f]}
      BY <1>1, <2>1
    <3> QED BY <1>1, <1>2, <1>3, <2>1, <3>1
  <2> QED BY <1>1, <2>1, <2>2, <2>3, NoticeFacts, FileLemma
<1>6. ASSUME NEW r \in Root, Unmount(r) \/ Mount(r) PROVE IInv'
  <2>1. UNCHANGED <<disk, latest, tracks, roots, crashes>> /\ mounted' \in [Root -> BOOLEAN]
    BY <1>1, <1>6 DEF Unmount, Mount
  <2>2. PICK lost \in SUBSET Path : Notice(r, lost)
    BY <1>6 DEF Unmount, Mount
  <2>3. ASSUME NEW q \in Root, NEW f \in Path
        PROVE  /\ latest[q][f] <= latest'[q][f] /\ disk'[q][f] <= latest'[q][f]
               /\ disk'[q][f] \in {0, disk[q][f]} \/ disk'[q][f] > latest[q][f]
    BY <1>1, <1>2, <1>3, <2>1
  <2> QED BY <1>1, <2>1, <2>2, <2>3, NoticeFacts, FileLemma
<1> QED BY <1>4, <1>5, <1>6 DEF FileStep

LEMMA BeginScanStep ==
    ASSUME IInv, NEW s \in Scanner, NEW paths \in SUBSET Root, BeginScan(s, paths) PROVE IInv'
<1> DEFINE begun == [Idle EXCEPT !.phase = "roots", !.config = paths, !.todoRoots = paths,
                                 !.quiet = \A u \in Scanner : scan[u].phase = "idle"]
           seen(t) == [scan[t] EXCEPT !.quiet = FALSE]
<1>1. /\ scan \in [Scanner -> Process] /\ disk \in [Root -> [Path -> Version]]
      /\ latest \in [Root -> [Path -> Version]] /\ mounted \in [Root -> BOOLEAN]
  BY ProcessType DEF IInv, TypeOK, Version
<1>2. scan' = [t \in Scanner |-> IF t = s THEN begun ELSE seen(t)]
      /\ UNCHANGED <<env, tracks, roots, crashes>>
  BY DEF BeginScan
<1>3. begun \in Process /\ begun.phase = "roots"
  BY IdleProcess DEF Process, Phases
<1>4. ASSUME NEW t \in Scanner
      PROVE  /\ seen(t) \in Process
             /\ \A f \in {"phase", "root", "path", "stat", "reads", "hash", "tags"} :
                   seen(t)[f] = scan[t][f]
  <2>1. scan[t] \in Process
    BY <1>1
  <2>2. seen(t) \in Process
    BY <2>1 DEF Process
  <2>3. /\ seen(t).phase = scan[t].phase /\ seen(t).root = scan[t].root
        /\ seen(t).path = scan[t].path /\ seen(t).stat = scan[t].stat
        /\ seen(t).reads = scan[t].reads /\ seen(t).hash = scan[t].hash
        /\ seen(t).tags = scan[t].tags
    BY <2>1 DEF Process
  <2> HIDE DEF seen
  <2> QED BY <2>2, <2>3
<1> HIDE DEF begun, seen
<1>5. scan' \in [Scanner -> Process]
  BY <1>2, <1>3, <1>4
<1>6. \A t \in Scanner : scan'[t].phase \in {"look", "read"} =>
         \A f \in {"phase", "root", "path", "stat", "reads", "hash", "tags"} :
             scan'[t][f] = scan[t][f]
  BY <1>2, <1>3, <1>4
<1>7. UNCHANGED <<disk, latest, mounted, tracks, roots, crashes>>
  BY <1>2 DEF env
<1>8. \A r \in Root, p \in Path :
         /\ latest[r][p] <= latest'[r][p] /\ disk'[r][p] <= latest'[r][p]
         /\ disk'[r][p] \in {0, disk[r][p]} \/ disk'[r][p] > latest[r][p]
  BY <1>1, <1>7, ScanAssumption DEF IInv, DiskNotNewer, Version
<1> QED BY <1>1, <1>5, <1>6, <1>7, <1>8, FileLemma

-----------------------------------------------------------------------------

LEMMA IInvInductive == IInv /\ [Next]_vars => IInv'
<1> SUFFICES ASSUME IInv, [Next]_vars PROVE IInv'
  OBVIOUS
<1>1. CASE FileStep
  BY <1>1, FileSteps
<1>2. ASSUME NEW s \in Scanner, ScanStep(s) PROVE IInv'
  BY <1>2, LookStep, ReadFileStep, WriteStep, VisitStep, SoftDeleteStep, OtherSteps DEF ScanStep
<1>3. ASSUME NEW s \in Scanner, Crash(s) PROVE IInv'
  BY <1>3, OtherSteps
<1>4. ASSUME NEW s \in Scanner, NEW paths \in SUBSET Root, BeginScan(s, paths) PROVE IInv'
  BY <1>4, BeginScanStep
<1>5. CASE UNCHANGED vars
  BY <1>5 DEF vars, IInv, TypeOK, DiskNotNewer, RowNotNewer, Reading, MidFile, StampSound
<1> QED BY <1>1, <1>2, <1>3, <1>4, <1>5 DEF Next

\* The tables and the processes' local state are well formed, for any number of
\* processes, roots, paths, edits and kills; in particular no row holds a hash
\* or tags of a file that was not there.
THEOREM ScanTypes == Spec => []TypeOK
<1>1. IInv => TypeOK
  BY DEF IInv
<1> QED BY <1>1, InitIInv, IInvInductive, PTL DEF Spec

\* The size-and-time pre-check of processFile() never hides a change.
THEOREM ScanStampSound == Spec => []StampSound
<1>1. IInv => StampSound
  BY DEF IInv
<1> QED BY <1>1, InitIInv, IInvInductive, PTL DEF Spec

-----------------------------------------------------------------------------
(* What a deletion says: the file was gone, or the root was dropped.         *)

Walking == {"walk", "look", "read"}

\* The roots being retired are not configured.
Retiring(x) ==
    x.phase \in {"retire", "retireTracks"} =>
        /\ x.todoRoots \cap x.config = {}
        /\ x.phase = "retireTracks" => x.root \notin x.config

\* While root is walked, whose files are now: what is not there is in gone, and
\* a path the walk has passed was seen or is in gone.  All victims are in gone.
Missing(x, now, there) ==
    /\ x.phase \in Walking =>
          \A p \in Path : /\ now[p] = 0 \/ ~there => p \in x.gone
                          /\ p \notin x.todo => p \in x.seen \/ p \in x.gone
    /\ x.phase = "delete" => x.victims \subseteq x.gone

\* A file whose type cannot be told is passed over without being seen, and a walk
\* that an I/O error ends has not seen the rest: Missing does not survive IoErrors.
Excused ==
    \A s \in Scanner :
        /\ Retiring(scan[s])
        /\ ~IoErrors => Missing(scan[s], disk[scan[s].root], mounted[scan[s].root])

\* The invariant of a root that is not served: none of its tracks is visible.  A
\* process that walks a root has made it active; one that retires a root still has
\* its visible tracks to delete.
RootsHidden == \A r \in Root, p \in Path : roots[r] # "active" => ~Visible(r, p)

Serving(x, rs, rows) ==
    /\ x.phase \in Walking \cup {"delete"} => rs[x.root] = "active"
    /\ x.phase = "retireTracks" =>
          \A p \in Path : rows[x.root][p] # NoRow /\ ~rows[x.root][p].deleted => p \in x.victims

\* Scan processes do not overlap.
Alone == \A s, t \in Scanner : scan[s].phase # "idle" /\ scan[t].phase # "idle" => s = t

HInv == RootsHidden /\ \A s \in Scanner : Serving(scan[s], roots, tracks)

\* A row in step with version v of its file.
Accurate(row, v) ==
    row # NoRow /\ ~row.deleted /\ row.stamp = v /\ row.hash = v /\ row.tags = v

InStep(row, v) == IF v = 0 THEN row = NoRow \/ row.deleted ELSE Accurate(row, v)

\* What an undisturbed scan has achieved so far.  The walk of root: the paths seen
\* are files, with accurate rows but for the one being processed; the paths passed
\* and not seen are no files.
Walked(x, now, rows) ==
    /\ \A p \in Path :
          /\ p \in x.seen => now[p] # 0 /\ (Accurate(rows[p], now[p])
                                              \/ (x.phase \in {"look", "read"} /\ p = x.path))
          /\ p \notin x.todo /\ p \notin x.seen => now[p] = 0
    /\ x.phase \in {"look", "read"} => x.stat = now[x.path]

\* Deleting the tracks of root whose files are gone.
Cleared(x, now, rows) ==
    \A p \in Path : \/ InStep(rows[p], now[p]) /\ (p \in x.victims => now[p] = 0)
                    \/ now[p] = 0 /\ p \in x.victims

\* The configured roots the scan is done with are in step; once it retires roots,
\* those it is done with have no visible track.
Achieved(x, files, there, rows) ==
    x.quiet /\ x.phase # "idle" =>
        /\ x.phase \in Walking => Walked(x, files[x.root], rows[x.root])
        /\ x.phase = "delete" => Cleared(x, files[x.root], rows[x.root])
        /\ \A r \in x.config, p \in Path :
              r \notin x.todoRoots /\ there[r]
                /\ (x.phase \in Walking \cup {"delete"} => r # x.root) =>
                  InStep(rows[r][p], files[r][p])
        /\ x.phase \in {"retire", "retireTracks"} =>
              \A r \in Root \ (x.config \cup x.todoRoots), p \in Path :
                  \/ rows[r][p] = NoRow \/ rows[r][p].deleted
                  \/ x.phase = "retireTracks" /\ r = x.root /\ p \in x.victims

CInv == \A s \in Scanner : Achieved(scan[s], disk, mounted, tracks)
ScanInv == Excused /\ HInv /\ CInv

-----------------------------------------------------------------------------
(* Where the steps within one file lead.                                     *)

\* All that is the same while one file is processed.
SameWalk(x, y) ==
    /\ x.config = y.config /\ x.todoRoots = y.todoRoots /\ x.root = y.root
    /\ x.todo = y.todo /\ x.seen = y.seen /\ x.path = y.path /\ x.stat = y.stat
    /\ x.victims = y.victims /\ x.gone = y.gone

LEMMA LookLeads ==
    ASSUME IInv, NEW s \in Scanner, NEW y \in Process, y = scan[s], Look(s)
    PROVE  /\ y.phase = "look" /\ UNCHANGED <<env, tracks, roots, crashes>>
           /\ \E x \in Process :
                 /\ Local(s, x) /\ SameWalk(x, y) /\ x.quiet = y.quiet
                 /\ \/ x.phase = "read"
                    \/ /\ x.phase = "walk" /\ ~isNew(tracks[y.root][y.path])
                       /\ tracks[y.root][y.path].stamp = y.stat
<1> DEFINE row == tracks[y.root][y.path]
           read(rs) == [y EXCEPT !.phase = "read", !.reads = rs]
           same == [y EXCEPT !.phase = "walk"]
<1>1. y.phase = "look" /\ UNCHANGED <<env, tracks, roots, crashes>>
  BY DEF Look
<1>2. \/ Local(s, read(<<"tags", "hash">>)) \/ Local(s, read(<<"hash", "tags">>))
      \/ (Local(s, same) /\ ~isNew(row) /\ row.stamp = y.stat)
  <2>1. isNew(row) \in BOOLEAN
    BY DEF isNew
  <2> QED BY <2>1 DEF Look
<1>3. ASSUME NEW rs \in Reads
      PROVE  read(rs) \in Process /\ read(rs).phase = "read" /\ SameWalk(read(rs), y)
             /\ read(rs).quiet = y.quiet
  BY DEF Process, Phases, SameWalk
<1>4. same \in Process /\ same.phase = "walk" /\ SameWalk(same, y) /\ same.quiet = y.quiet
  BY DEF Process, Phases, SameWalk
<1>5. <<"tags", "hash">> \in Reads /\ <<"hash", "tags">> \in Reads
  BY DEF Reads
<1> HIDE DEF read, same
<1> QED BY <1>1, <1>2, <1>3, <1>4, <1>5

LEMMA ReadLeads ==
    ASSUME IInv, NEW s \in Scanner, NEW y \in Process, y = scan[s], ReadFile(s) \/ ReadFails(s)
    PROVE  /\ y.phase = "read" /\ UNCHANGED <<env, tracks, roots, crashes>>
           /\ \E x \in Process :
                 /\ Local(s, x) /\ SameWalk(x, y) /\ x.phase \in {"read", "walk"}
                 /\ x.quiet => y.quiet /\ x.phase = "read"
<1> DEFINE now == disk[y.root][y.path]
           hashed == [y EXCEPT !.reads = Tail(@), !.hash = now]
           tagged == [y EXCEPT !.reads = Tail(@), !.tags = now]
           failed == [y EXCEPT !.phase = "walk", !.quiet = FALSE]
<1>1. y.phase = "read" /\ y.reads # <<>> /\ UNCHANGED <<env, tracks, roots, crashes>>
  BY DEF ReadFile, ReadFails
<1>2. Local(s, hashed) \/ Local(s, tagged) \/ Local(s, failed)
  BY DEF ReadFile, ReadFails
<1>3. Tail(y.reads) \in Reads /\ now \in Version
  <2>1. y.reads \in {<<"hash">>, <<"tags">>, <<"tags", "hash">>, <<"hash", "tags">>}
    BY <1>1 DEF Process, Reads
  <2>2. /\ Tail(<<"hash">>) = <<>> /\ Tail(<<"tags">>) = <<>>
        /\ Tail(<<"tags", "hash">>) = <<"hash">> /\ Tail(<<"hash", "tags">>) = <<"tags">>
    OBVIOUS
  <2>3. Tail(y.reads) \in Reads
    BY <2>1, <2>2 DEF Reads
  <2>4. y.root \in Root /\ y.path \in Path /\ disk \in [Root -> [Path -> Version]]
    BY DEF IInv, TypeOK, Process, Version
  <2> QED BY <2>3, <2>4
<1>4. hashed \in Process /\ tagged \in Process
  <2> HIDE DEF now
  <2> QED BY <1>3 DEF Process
<1>5. /\ SameWalk(hashed, y) /\ hashed.phase = "read" /\ hashed.quiet = y.quiet
      /\ SameWalk(tagged, y) /\ tagged.phase = "read" /\ tagged.quiet = y.quiet
  BY <1>1 DEF Process, SameWalk
<1>6. failed \in Process /\ SameWalk(failed, y) /\ failed.phase = "walk" /\ ~failed.quiet
  BY DEF Process, Phases, SameWalk
<1> HIDE DEF hashed, tagged, failed
<1> QED BY <1>1, <1>2, <1>4, <1>5, <1>6

LEMMA WriteLeads ==
    ASSUME IInv, NEW s \in Scanner, NEW y \in Process, y = scan[s], Write(s)
    PROVE  /\ y.phase = "read" /\ y.reads = <<>> /\ UNCHANGED <<env, roots, crashes>>
           /\ tracks' = [tracks EXCEPT ![y.root][y.path] = toUpsert(s)]
           /\ \E x \in Process :
                 Local(s, x) /\ SameWalk(x, y) /\ x.phase = "walk" /\ x.quiet = y.quiet
<1> DEFINE x == [y EXCEPT !.phase = "walk"]
<1>1. x \in Process /\ SameWalk(x, y) /\ x.phase = "walk" /\ x.quiet = y.quiet
  BY DEF Process, Phases, SameWalk
<1>2. Local(s, x)
  BY DEF Write
<1> HIDE DEF x
<1> QED BY <1>1, <1>2 DEF Write, upsert

-----------------------------------------------------------------------------
(* DeletedOnlyIfGone.                                                        *)

\* A step of one process that leaves the files alone.
LEMMA ExcusedLocal ==
    ASSUME IInv, Excused, NEW s \in Scanner, NEW x \in Process, Local(s, x), UNCHANGED env,
           Retiring(x), ~IoErrors => Missing(x, disk[x.root], mounted[x.root])
    PROVE  Excused'
<1>1. scan' = [scan EXCEPT ![s] = x] /\ scan \in [Scanner -> Process]
  BY ProcessType DEF IInv, Local
<1>2. \A t \in Scanner : scan'[t] = IF t = s THEN x ELSE scan[t]
  BY <1>1
<1>3. disk' = disk /\ mounted' = mounted
  BY DEF env
<1> SUFFICES ASSUME NEW t \in Scanner
             PROVE  /\ Retiring(scan'[t])
                    /\ ~IoErrors => Missing(scan'[t], disk[scan'[t].root], mounted[scan'[t].root])
  BY <1>3 DEF Excused
<1>4. CASE t = s
  BY <1>2, <1>4
<1>5. CASE t # s
  BY <1>2, <1>5 DEF Excused
<1> QED BY <1>4, <1>5

\* A process that neither walks nor deletes nor retires roots has nothing to say.
LEMMA ExcusedIdle ==
    ASSUME NEW x, x.phase \in {"idle", "roots"}, NEW now, NEW there
    PROVE  Retiring(x) /\ Missing(x, now, there)
  BY DEF Retiring, Missing, Walking

\* The steps of a walk that leave root, todo and gone alone, and forget nothing.
LEMMA ExcusedWalk ==
    ASSUME NEW x \in Process, NEW y \in Process, NEW now, NEW there,
           y.phase \in Walking, x.phase \in Walking, x.gone = y.gone, y.seen \subseteq x.seen,
           \A p \in Path : p \in x.todo \/ p \in x.seen \/ now[p] = 0 \/ p \in y.gone
                              \/ p \notin y.todo,
           Missing(y, now, there)
    PROVE  Retiring(x) /\ Missing(x, now, there)
<1>1. x.phase \notin {"retire", "retireTracks"} /\ x.phase # "delete"
  BY DEF Walking
<1> QED BY <1>1 DEF Retiring, Missing

LEMMA ExcusedWalking ==
    ASSUME IInv, Excused, NEW s \in Scanner, Look(s) \/ ReadFile(s) \/ ReadFails(s) \/ Write(s)
    PROVE  Excused'
<1>1. PICK y \in Process : y = scan[s]
  BY ProcessType DEF IInv
<1>2. Retiring(y) /\ (~IoErrors => Missing(y, disk[y.root], mounted[y.root]))
  BY <1>1 DEF Excused
<1>3. /\ y.phase \in Walking /\ UNCHANGED env
      /\ \E x \in Process : Local(s, x) /\ SameWalk(x, y) /\ x.phase \in Walking
  <2>1. CASE Look(s)
    BY <1>1, <2>1, LookLeads DEF Walking
  <2>2. CASE ReadFile(s) \/ ReadFails(s)
    BY <1>1, <2>2, ReadLeads DEF Walking
  <2>3. CASE Write(s)
    BY <1>1, <2>3, WriteLeads DEF Walking
  <2> QED BY <2>1, <2>2, <2>3
<1>4. PICK x \in Process : Local(s, x) /\ SameWalk(x, y) /\ x.phase \in Walking
  BY <1>3
<1>5. x.root = y.root /\ x.todo = y.todo /\ x.seen = y.seen /\ x.gone = y.gone
  BY <1>4 DEF SameWalk
<1>6. Retiring(x)
  BY <1>4 DEF Retiring, Walking
<1>7. ASSUME ~IoErrors PROVE Missing(x, disk[x.root], mounted[x.root])
  <2>1. \A p \in Path : p \in x.todo \/ p \notin y.todo
    BY <1>5
  <2> QED BY <1>2, <1>3, <1>4, <1>5, <1>7, <2>1, ExcusedWalk
<1> QED BY <1>3, <1>4, <1>6, <1>7, ExcusedLocal

\* The iterator passes one path.
LEMMA ExcusedPath ==
    ASSUME IInv, Excused, NEW s \in Scanner, NEW p \in Path,
           Visit(s, p) \/ StatFails(s, p) \/ TypeFails(s, p)
    PROVE  Excused'
<1>1. PICK y \in Process : y = scan[s]
  BY ProcessType DEF IInv
<1>2. Retiring(y) /\ (~IoErrors => Missing(y, disk[y.root], mounted[y.root]))
  BY <1>1 DEF Excused
<1> DEFINE now == disk[y.root]
           skip == [y EXCEPT !.todo = @ \ {p}]
           look == [y EXCEPT !.todo = @ \ {p}, !.seen = @ \cup {p}, !.path = p,
                             !.phase = "look", !.stat = now[p]]
           unread == [y EXCEPT !.todo = @ \ {p}, !.seen = @ \cup {p}, !.quiet = FALSE]
           passed == [y EXCEPT !.todo = @ \ {p}, !.quiet = FALSE]
           Good(x) == /\ x \in Process /\ x.phase \in Walking /\ x.root = y.root
                      /\ x.gone = y.gone /\ y.seen \subseteq x.seen
                      /\ ~IoErrors => \A q \in Path :
                            q \in x.todo \/ q \in x.seen \/ now[q] = 0 \/ q \in y.gone
                              \/ q \notin y.todo
<1>3. y.phase = "walk" /\ UNCHANGED env /\ now[p] \in Version
  BY <1>1 DEF Visit, StatFails, TypeFails, IInv, TypeOK, Process, Version
<1>4. \/ Local(s, skip) /\ now[p] = 0
      \/ Local(s, look)
      \/ Local(s, unread)
      \/ Local(s, passed) /\ IoErrors
  BY <1>1 DEF Visit, StatFails, TypeFails
<1>5. now[p] = 0 => Good(skip)
  BY <1>3 DEF Process, Walking
<1>6. Good(look)
  <2> HIDE DEF now
  <2>1. look \in Process /\ look.phase = "look" /\ look.root = y.root /\ look.gone = y.gone
        /\ look.seen = y.seen \cup {p} /\ look.todo = y.todo \ {p}
    BY <1>3 DEF Process, Phases
  <2> HIDE DEF look
  <2> QED BY <2>1 DEF Walking
<1>7. Good(unread)
  BY <1>3 DEF Process, Walking
<1>8. IoErrors => Good(passed)
  BY <1>3 DEF Process, Walking
<1>9. PICK x : Local(s, x) /\ Good(x)
  <2> HIDE DEF skip, look, unread, passed, Good
  <2> QED BY <1>4, <1>5, <1>6, <1>7, <1>8
<1>10. Retiring(x)
  BY <1>9 DEF Retiring, Walking
<1>11. ~IoErrors => Missing(x, disk[x.root], mounted[x.root])
  BY <1>2, <1>3, <1>9, ExcusedWalk DEF Walking
<1> QED BY <1>3, <1>9, <1>10, <1>11, ExcusedLocal

\* The steps that begin and end walks, delete tracks and retire roots.
LEMMA ExcusedRoots ==
    ASSUME IInv, Excused, NEW s \in Scanner,
           \/ EndWalk(s) \/ WalkFails(s) \/ EndRoot(s) \/ BeginRetire(s) \/ RetireRoot(s)
           \/ EndScan(s) \/ Crash(s)
           \/ \E r \in Root : NextRoot(s, r) \/ RetireTracks(s, r)
           \/ \E p \in Path : SoftDelete(s, p)
    PROVE  Excused'
<1>1. PICK y \in Process : y = scan[s]
  BY ProcessType DEF IInv
<1>2. Retiring(y) /\ (~IoErrors => Missing(y, disk[y.root], mounted[y.root]))
  BY <1>1 DEF Excused
<1>3. y.root \in Root /\ y.todoRoots \subseteq Root /\ y.config \subseteq Root /\ y.victims \subseteq Path
  BY DEF Process
<1>4. CASE EndWalk(s) \/ WalkFails(s)
  <2> DEFINE lost == {p \in Path : Visible(y.root, p)} \ y.seen
             x(whole) == [y EXCEPT !.phase = "delete", !.todo = {}, !.quiet = @ /\ whole,
                                   !.victims = lost]
  <2>1. y.phase = "walk" /\ UNCHANGED env /\ (y.todo = {} \/ IoErrors \/ ~mounted[y.root])
    BY <1>1, <1>4 DEF EndWalk, WalkFails
  <2>2. Local(s, x(TRUE)) \/ Local(s, x(FALSE))
    BY <1>1, <1>4 DEF EndWalk, WalkFails, detectDeletions
  <2>3. ASSUME NEW whole \in BOOLEAN
        PROVE  /\ x(whole) \in Process /\ x(whole).phase = "delete" /\ x(whole).victims = lost
               /\ x(whole).gone = y.gone /\ x(whole).root = y.root
    <3>1. lost \subseteq Path
      OBVIOUS
    <3> HIDE DEF lost
    <3> QED BY <3>1 DEF Process, Phases
  <2>4. ~IoErrors => lost \subseteq y.gone
    <3>1. ~IoErrors => \A p \in Path : p \in y.seen \/ p \in y.gone
      BY <1>2, <2>1 DEF Missing, Walking
    <3> QED BY <3>1
  <2> HIDE DEF x, lost
  <2>5. PICK z : z \in {x(TRUE), x(FALSE)} /\ Local(s, z)
    BY <2>2
  <2>6. z \in Process /\ z.phase = "delete" /\ z.victims = lost /\ z.gone = y.gone
        /\ z.root = y.root
    BY <2>3, <2>5
  <2>7. Retiring(z) /\ (~IoErrors => Missing(z, disk[z.root], mounted[z.root]))
    BY <2>4, <2>6 DEF Retiring, Missing, Walking
  <2> QED BY <2>1, <2>5, <2>6, <2>7, ExcusedLocal
<1>5. CASE EndRoot(s)
  <2> DEFINE x == [y EXCEPT !.phase = "roots"]
  <2>1. x \in Process /\ x.phase = "roots"
    BY DEF Process, Phases
  <2>2. Local(s, x) /\ UNCHANGED env
    BY <1>1, <1>5 DEF EndRoot
  <2> HIDE DEF x
  <2> QED BY <2>1, <2>2, ExcusedIdle, ExcusedLocal
<1>6. CASE EndScan(s) \/ Crash(s)
  <2>1. Local(s, Idle) /\ UNCHANGED env
    BY <1>6 DEF EndScan, Crash
  <2> QED BY <2>1, IdleProcess, ExcusedIdle, ExcusedLocal
<1>7. CASE BeginRetire(s)
  <2> DEFINE x == [y EXCEPT !.phase = "retire", !.todoRoots = activeRoots \ y.config]
  <2>1. x \in Process /\ x.phase = "retire" /\ x.todoRoots = activeRoots \ y.config
        /\ x.config = y.config
    <3>1. activeRoots \ y.config \subseteq Root
      BY DEF activeRoots
    <3> QED BY <3>1 DEF Process, Phases
  <2>2. Local(s, x) /\ UNCHANGED env
    BY <1>1, <1>7 DEF BeginRetire
  <2> HIDE DEF x
  <2>3. Retiring(x) /\ Missing(x, disk[x.root], mounted[x.root])
    BY <2>1 DEF Retiring, Missing, Walking
  <2> QED BY <2>1, <2>2, <2>3, ExcusedLocal
<1>8. CASE RetireRoot(s)
  <2> DEFINE x == [y EXCEPT !.phase = "retire"]
  <2>1. x \in Process /\ x.phase = "retire" /\ x.todoRoots = y.todoRoots /\ x.config = y.config
    BY DEF Process, Phases
  <2>2. Local(s, x) /\ UNCHANGED env /\ y.phase = "retireTracks"
    BY <1>1, <1>8 DEF RetireRoot
  <2> HIDE DEF x
  <2>3. Retiring(x) /\ Missing(x, disk[x.root], mounted[x.root])
    BY <1>2, <2>1, <2>2 DEF Retiring, Missing, Walking
  <2> QED BY <2>1, <2>2, <2>3, ExcusedLocal
<1>9. ASSUME NEW r \in Root, NextRoot(s, r) PROVE Excused'
  <2> DEFINE absent == {p \in Path : disk[r][p] = 0}
             walk == [y EXCEPT !.phase = "walk", !.root = r, !.todo = Path,
                               !.todoRoots = @ \ {r}, !.seen = {}, !.gone = absent]
             skip == [y EXCEPT !.todoRoots = @ \ {r}]
  <2>1. y.phase = "roots" /\ UNCHANGED env
    BY <1>1, <1>9, Zenon DEF NextRoot
  <2>2. (mounted[r] /\ Local(s, walk)) \/ Local(s, skip)
    BY <1>1, <1>9, Zenon DEF NextRoot
  <2>3. CASE mounted[r] /\ Local(s, walk)
    <3>1. absent \subseteq Path /\ \A p \in Path : disk[r][p] = 0 => p \in absent
      OBVIOUS
    <3> HIDE DEF absent
    <3>2. walk \in Process /\ walk.phase = "walk" /\ walk.todo = Path /\ walk.gone = absent
          /\ walk.root = r
      BY <3>1 DEF Process, Phases
    <3> HIDE DEF walk
    <3>3. Retiring(walk) /\ Missing(walk, disk[r], mounted[r])
      BY <2>3, <3>1, <3>2 DEF Retiring, Missing
    <3> QED BY <2>1, <2>3, <3>2, <3>3, ExcusedLocal
  <2>4. CASE Local(s, skip)
    <3>1. skip \in Process /\ skip.phase = "roots"
      BY <2>1 DEF Process
    <3> HIDE DEF skip
    <3> QED BY <2>1, <2>4, <3>1, ExcusedIdle, ExcusedLocal
  <2> QED BY <2>2, <2>3, <2>4
<1>10. ASSUME NEW r \in Root, RetireTracks(s, r) PROVE Excused'
  <2> DEFINE lost == {p \in Path : Visible(r, p)}
             x == [y EXCEPT !.phase = "retireTracks", !.todoRoots = @ \ {r}, !.root = r,
                            !.victims = lost]
  <2>1. x \in Process /\ x.phase = "retireTracks" /\ x.todoRoots = y.todoRoots \ {r}
        /\ x.config = y.config /\ x.root = r
    <3> HIDE DEF lost
    <3>1. lost \subseteq Path
      BY DEF lost
    <3> QED BY <3>1 DEF Process, Phases
  <2>2. UNCHANGED env /\ y.phase = "retire" /\ r \in y.todoRoots
    BY <1>1, <1>10, Zenon DEF RetireTracks
  <2>3. Local(s, x)
    BY <1>1, <1>10, Zenon DEF RetireTracks
  <2> HIDE DEF x
  <2>4. Retiring(x) /\ Missing(x, disk[x.root], mounted[x.root])
    BY <1>2, <2>1, <2>2 DEF Retiring, Missing, Walking
  <2> QED BY <2>1, <2>2, <2>3, <2>4, ExcusedLocal
<1>11. ASSUME NEW p \in Path, SoftDelete(s, p) PROVE Excused'
  <2> DEFINE x == [y EXCEPT !.victims = @ \ {p}]
  <2>1. x \in Process /\ x.phase = y.phase /\ x.todoRoots = y.todoRoots /\ x.root = y.root
        /\ x.config = y.config /\ x.victims = y.victims \ {p} /\ x.gone = y.gone
    BY DEF Process
  <2>2. Local(s, x) /\ UNCHANGED env /\ y.phase \in {"delete", "retireTracks"}
    BY <1>1, <1>11 DEF SoftDelete
  <2> HIDE DEF x
  <2>3. Retiring(x)
    BY <1>2, <2>1, <2>2 DEF Retiring
  <2>4. ~IoErrors => Missing(x, disk[x.root], mounted[x.root])
    BY <1>2, <2>1, <2>2 DEF Missing, Walking
  <2> QED BY <2>1, <2>2, <2>3, <2>4, ExcusedLocal
<1> QED BY <1>4, <1>5, <1>6, <1>7, <1>8, <1>9, <1>10, <1>11

LEMMA ExcusedNotice ==
    ASSUME IInv, Excused, NEW r \in Root, NEW lost \in SUBSET Path, Notice(r, lost),
           \A q \in Root, p \in Path : disk'[q][p] = 0 \/ ~mounted'[q] =>
               disk[q][p] = 0 \/ ~mounted[q] \/ (q = r /\ p \in lost)
    PROVE  Excused'
<1> SUFFICES ASSUME NEW s \in Scanner
             PROVE  /\ Retiring(scan'[s])
                    /\ ~IoErrors => Missing(scan'[s], disk'[scan'[s].root], mounted'[scan'[s].root])
  BY DEF Excused
<1> DEFINE y == scan[s]
<1>1. y \in Process
  BY ProcessType DEF IInv
<1>2. Retiring(y) /\ (~IoErrors => Missing(y, disk[y.root], mounted[y.root])) /\ y.root \in Root
  BY <1>1 DEF Excused, Process
<1> DEFINE x == [y EXCEPT !.quiet = FALSE, !.gone = IF y.root = r THEN @ \cup lost ELSE @]
<1>3. scan'[s] = x
  BY Zenon DEF Notice
<1>4. /\ x.phase = y.phase /\ x.config = y.config /\ x.todoRoots = y.todoRoots
      /\ x.root = y.root /\ x.todo = y.todo /\ x.seen = y.seen /\ x.victims = y.victims
      /\ y.gone \subseteq x.gone /\ (y.root = r => lost \subseteq x.gone)
  BY <1>1 DEF Process
<1> HIDE DEF x, y
<1>5. Retiring(x)
  BY <1>2, <1>4 DEF Retiring
<1>6. ASSUME ~IoErrors PROVE Missing(x, disk'[x.root], mounted'[x.root])
  <2>1. Missing(y, disk[y.root], mounted[y.root])
    BY <1>2, <1>6
  <2>2. \A p \in Path : disk'[y.root][p] = 0 \/ ~mounted'[y.root] =>
           disk[y.root][p] = 0 \/ ~mounted[y.root] \/ p \in x.gone
    BY <1>2, <1>4
  <2> QED BY <1>4, <2>1, <2>2 DEF Missing
<1> QED BY <1>3, <1>5, <1>6

LEMMA ExcusedFiles == ASSUME IInv, Excused, FileStep PROVE Excused'
<1>1. disk \in [Root -> [Path -> Version]] /\ mounted \in [Root -> BOOLEAN]
  BY DEF IInv, TypeOK, Version
<1>2. ASSUME NEW r \in Root, NEW p \in Path, Edit(r, p) PROVE Excused'
  <2>1. latest[r][p] + 1 # 0
    BY ScanAssumption DEF IInv, TypeOK
  <2>2. Notice(r, {}) /\ mounted' = mounted /\ disk' = [disk EXCEPT ![r][p] = latest[r][p] + 1]
    BY <1>2, Zenon DEF Edit
  <2>3. \A q \in Root, f \in Path : disk'[q][f] = 0 => disk[q][f] = 0
    BY <1>1, <2>1, <2>2
  <2> QED BY <2>2, <2>3, ExcusedNotice
<1>3. ASSUME NEW r \in Root, NEW p \in Path, Remove(r, p) PROVE Excused'
  <2>1. Notice(r, {p}) /\ mounted' = mounted /\ disk' = [disk EXCEPT ![r][p] = 0]
    BY <1>3, Zenon DEF Remove
  <2>2. \A q \in Root, f \in Path : disk'[q][f] = 0 => disk[q][f] = 0 \/ (q = r /\ f = p)
    BY <1>1, <2>1
  <2> QED BY <2>1, <2>2, ExcusedNotice
<1>4. ASSUME NEW r \in Root, Unmount(r) PROVE Excused'
  <2>1. Notice(r, Path) /\ disk' = disk /\ mounted' = [mounted EXCEPT ![r] = FALSE]
    BY <1>4, Zenon DEF Unmount
  <2>2. \A q \in Root : q # r => mounted'[q] = mounted[q]
    BY <1>1, <2>1
  <2> QED BY <2>1, <2>2, ExcusedNotice
<1>5. ASSUME NEW r \in Root, Mount(r) PROVE Excused'
  <2>1. Notice(r, {}) /\ disk' = disk /\ mounted' = [mounted EXCEPT ![r] = TRUE]
    BY <1>5, Zenon DEF Mount
  <2>2. \A q \in Root : ~mounted'[q] => ~mounted[q]
    BY <1>1, <2>1
  <2> QED BY <2>1, <2>2, ExcusedNotice
<1> QED BY <1>2, <1>3, <1>4, <1>5 DEF FileStep

LEMMA ExcusedBegin ==
    ASSUME IInv, Excused, NEW s \in Scanner, NEW paths \in SUBSET Root, BeginScan(s, paths)
    PROVE  Excused'
<1> DEFINE begun == [Idle EXCEPT !.phase = "roots", !.config = paths, !.todoRoots = paths,
                                 !.quiet = \A u \in Scanner : scan[u].phase = "idle"]
<1>1. /\ disk' = disk /\ mounted' = mounted
      /\ scan' = [t \in Scanner |-> IF t = s THEN begun ELSE [scan[t] EXCEPT !.quiet = FALSE]]
  <2>1. UNCHANGED env
    BY Zenon DEF BeginScan
  <2>2. scan' = [t \in Scanner |-> IF t = s THEN begun ELSE [scan[t] EXCEPT !.quiet = FALSE]]
    BY Zenon DEF BeginScan
  <2> HIDE DEF begun
  <2>3. disk' = disk /\ mounted' = mounted
    BY <2>1 DEF env
  <2> QED BY <2>2, <2>3, Zenon
<1> SUFFICES ASSUME NEW t \in Scanner
             PROVE  /\ Retiring(scan'[t])
                    /\ ~IoErrors => Missing(scan'[t], disk[scan'[t].root], mounted[scan'[t].root])
  <2> HIDE DEF begun
  <2> QED BY <1>1 DEF Excused
<1> DEFINE y == scan[t]
<1>2. y \in Process
  BY ProcessType DEF IInv
<1>3. CASE t = s
  <2>1. begun.phase = "roots"
    BY IdleProcess DEF Process
  <2> HIDE DEF begun
  <2>2. scan'[t] = begun
    BY <1>1, <1>3
  <2> QED BY <2>1, <2>2, ExcusedIdle
<1>4. CASE t # s
  <2> DEFINE x == [y EXCEPT !.quiet = FALSE]
  <2>1. scan'[t] = x
    BY <1>1, <1>4, Zenon
  <2>2. /\ x.phase = y.phase /\ x.config = y.config /\ x.todoRoots = y.todoRoots
        /\ x.root = y.root /\ x.todo = y.todo /\ x.seen = y.seen /\ x.victims = y.victims
        /\ x.gone = y.gone
    BY <1>2 DEF Process
  <2>3. Retiring(y) /\ (~IoErrors => Missing(y, disk[y.root], mounted[y.root]))
    BY DEF Excused
  <2> HIDE DEF x, y
  <2>4. Retiring(x) /\ (~IoErrors => Missing(x, disk[x.root], mounted[x.root]))
    BY <2>2, <2>3 DEF Retiring, Missing
  <2> QED BY <2>1, <2>4
<1> QED BY <1>3, <1>4

LEMMA ExcusedInductive == IInv /\ Excused /\ [Next]_vars => Excused'
<1> SUFFICES ASSUME IInv, Excused, [Next]_vars PROVE Excused'
  OBVIOUS
<1>1. CASE FileStep
  BY <1>1, ExcusedFiles
<1>2. ASSUME NEW s \in Scanner, ScanStep(s) PROVE Excused'
  BY <1>2, ExcusedWalking, ExcusedPath, ExcusedRoots DEF ScanStep
<1>3. ASSUME NEW s \in Scanner, Crash(s) PROVE Excused'
  BY <1>3, ExcusedRoots
<1>4. ASSUME NEW s \in Scanner, NEW paths \in SUBSET Root, BeginScan(s, paths) PROVE Excused'
  BY <1>4, ExcusedBegin
<1>5. CASE UNCHANGED vars
  BY <1>5 DEF vars, Excused
<1> QED BY <1>1, <1>2, <1>3, <1>4, <1>5 DEF Next

LEMMA InitExcused == Init => Excused
<1> SUFFICES ASSUME Init, NEW s \in Scanner
             PROVE  Retiring(scan[s]) /\ Missing(scan[s], disk[scan[s].root], mounted[scan[s].root])
  BY DEF Excused
<1>1. scan[s].phase = "idle"
  BY IdleProcess DEF Init
<1> QED BY <1>1, ExcusedIdle

\* A step that hides a visible track is a deletion, of a victim.
LEMMA HidesVictim ==
    ASSUME IInv, [Next]_vars, NEW r \in Root, NEW p \in Path, Visible(r, p), ~Visible(r, p)'
    PROVE  \E s \in Scanner : /\ scan[s].root = r /\ p \in scan[s].victims
                              /\ scan[s].phase \in {"delete", "retireTracks"}
<1>1. tracks' # tracks
  BY DEF Visible
<1>2. ~FileStep /\ ~UNCHANGED vars /\ \A s \in Scanner, paths \in SUBSET Root : ~BeginScan(s, paths)
  <2>1. \A q \in Root, f \in Path : ~Edit(q, f) /\ ~Remove(q, f)
    BY <1>1 DEF Edit, Remove
  <2>2. \A q \in Root : ~Unmount(q) /\ ~Mount(q)
    BY <1>1 DEF Unmount, Mount
  <2>3. \A s \in Scanner, paths \in SUBSET Root : ~BeginScan(s, paths)
    <3> SUFFICES ASSUME NEW s \in Scanner, NEW paths \in SUBSET Root, BeginScan(s, paths)
                 PROVE  tracks' = tracks
      BY <1>1
    <3>1. UNCHANGED <<env, tracks, roots, crashes>>
      BY Zenon DEF BeginScan
    <3> QED BY <3>1
  <2> QED BY <1>1, <2>1, <2>2, <2>3 DEF FileStep, vars
<1>3. PICK s \in Scanner : Write(s) \/ \E f \in Path : SoftDelete(s, f)
  <2>1. \A s \in Scanner : ~Crash(s) /\ ~Look(s) /\ ~ReadFile(s) /\ ~ReadFails(s) /\ ~EndWalk(s)
           /\ ~WalkFails(s) /\ ~EndRoot(s) /\ ~BeginRetire(s) /\ ~RetireRoot(s) /\ ~EndScan(s)
    BY <1>1 DEF Crash, Look, ReadFile, ReadFails, EndWalk, WalkFails, EndRoot, BeginRetire,
                RetireRoot, EndScan
  <2>2. \A s \in Scanner, q \in Root : ~NextRoot(s, q) /\ ~RetireTracks(s, q)
    BY <1>1 DEF NextRoot, RetireTracks
  <2>3. \A s \in Scanner, f \in Path : ~Visit(s, f) /\ ~StatFails(s, f) /\ ~TypeFails(s, f)
    BY <1>1 DEF Visit, StatFails, TypeFails
  <2> QED BY <1>2, <2>1, <2>2, <2>3 DEF Next, ScanStep
<1>4. scan[s] \in Process /\ tracks \in [Root -> [Path -> Row \cup {NoRow}]]
  BY ProcessType DEF IInv, TypeOK
<1>5. scan[s].root \in Root /\ scan[s].path \in Path
  BY <1>4 DEF Process
<1>6. ~Write(s)
  <2> SUFFICES ASSUME Write(s) PROVE FALSE
    OBVIOUS
  <2> DEFINE row == toUpsert(s)
  <2>1. tracks' = [tracks EXCEPT ![scan[s].root][scan[s].path] = row]
    BY Zenon DEF Write, upsert
  <2>2. row.deleted = FALSE /\ row \in [stamp : Version, hash : Version, tags : Version, deleted : BOOLEAN]
    BY <1>4 DEF toUpsert, Process
  <2>3. row # NoRow
    BY <2>2, ScanAssumption DEF Version
  <2> HIDE DEF row
  <2>4. tracks'[r][p] = tracks[r][p] \/ tracks'[r][p] = row
    BY <1>4, <1>5, <2>1
  <2> QED BY <2>2, <2>3, <2>4 DEF Visible
<1>7. PICK f \in Path : SoftDelete(s, f)
  BY <1>3, <1>6
<1>8. scan[s].phase \in {"delete", "retireTracks"} /\ f \in scan[s].victims
      /\ softDelete(scan[s].root, f)
  BY <1>7 DEF SoftDelete
<1>9. tracks' = [tracks EXCEPT ![scan[s].root][f].deleted = TRUE]
  BY <1>1, <1>8 DEF softDelete
<1>10. r = scan[s].root /\ p = f
  <2>1. tracks'[r][p] # tracks[r][p]
    BY DEF Visible
  <2> QED BY <1>4, <1>5, <1>9, <2>1
<1> QED BY <1>8, <1>10

\* As long as directories that are there can be walked, a track is deleted only if
\* its file was gone at some time while its root was walked, or its root was
\* dropped from the configuration: for any number of scans that overlap, are
\* killed, and run while files are removed and directories unmounted
\* (detectDeletions() and retireUnconfiguredRoots()).
THEOREM ScanDeletesOnlyIfGone == ~IoErrors /\ Spec => DeletedOnlyIfGone
<1> DEFINE Step == \A r \in Root, p \in Path :
               Visible(r, p) /\ ~Visible(r, p)' =>
                   \E s \in Scanner :
                      /\ scan[s].root = r
                      /\ \/ scan[s].phase = "delete" /\ p \in scan[s].gone
                         \/ scan[s].phase = "retireTracks" /\ r \notin scan[s].config
<1> SUFFICES ASSUME ~IoErrors PROVE Spec => DeletedOnlyIfGone
  OBVIOUS
<1>1. ASSUME IInv, Excused, [Next]_vars PROVE Step
  <2> SUFFICES ASSUME NEW r \in Root, NEW p \in Path, Visible(r, p), ~Visible(r, p)'
               PROVE  \E s \in Scanner :
                         /\ scan[s].root = r
                         /\ \/ scan[s].phase = "delete" /\ p \in scan[s].gone
                            \/ scan[s].phase = "retireTracks" /\ r \notin scan[s].config
    OBVIOUS
  <2>1. PICK s \in Scanner : /\ scan[s].root = r /\ p \in scan[s].victims
                             /\ scan[s].phase \in {"delete", "retireTracks"}
    BY <1>1, HidesVictim
  <2>2. Retiring(scan[s]) /\ Missing(scan[s], disk[scan[s].root], mounted[scan[s].root])
    BY <1>1, <2>1 DEF Excused
  <2> QED BY <2>1, <2>2 DEF Retiring, Missing
<1> HIDE DEF Step
<1>2. Spec => [][Step]_vars
  BY <1>1, InitIInv, IInvInductive, InitExcused, ExcusedInductive, PTL DEF Spec
<1> QED BY <1>2 DEF Step, DeletedOnlyIfGone

-----------------------------------------------------------------------------
(* RetiredHidden and CleanScanSyncs, as long as scans do not overlap.        *)

\* A step of a process while no other one scans.
LEMMA SoleStep ==
    ASSUME IInv, Alone, NEW s \in Scanner, scan[s].phase # "idle",
           NEW x \in Process, Local(s, x), UNCHANGED env,
           RootsHidden', Serving(x, roots', tracks'), Achieved(x, disk, mounted, tracks')
    PROVE  HInv' /\ CInv'
<1>1. scan' = [scan EXCEPT ![s] = x] /\ scan \in [Scanner -> Process]
  BY ProcessType DEF IInv, Local
<1>2. \A t \in Scanner : t # s => scan'[t] = scan[t] /\ scan[t].phase = "idle"
  BY <1>1 DEF Alone
<1>3. scan'[s] = x
  BY <1>1
<1>4. \A t \in Scanner : t # s => /\ Serving(scan'[t], roots', tracks')
                                  /\ Achieved(scan'[t], disk, mounted, tracks')
  BY <1>2 DEF Serving, Achieved, Walking
<1>5. disk' = disk /\ mounted' = mounted
  BY DEF env
<1> QED BY <1>3, <1>4, <1>5 DEF HInv, CInv

\* Processing one file.
LEMMA SoleLook ==
    ASSUME IInv, HInv, CInv, Alone, NEW s \in Scanner, Look(s)
    PROVE  HInv' /\ CInv'
<1>1. PICK y \in Process : y = scan[s]
  BY ProcessType DEF IInv
<1>2. /\ y.phase = "look" /\ UNCHANGED <<env, tracks, roots, crashes>>
      /\ \E x \in Process :
            /\ Local(s, x) /\ SameWalk(x, y) /\ x.quiet = y.quiet
            /\ \/ x.phase = "read"
               \/ /\ x.phase = "walk" /\ ~isNew(tracks[y.root][y.path])
                  /\ tracks[y.root][y.path].stamp = y.stat
  BY <1>1, LookLeads
<1>3. PICK x \in Process :
         /\ Local(s, x) /\ SameWalk(x, y) /\ x.quiet = y.quiet
         /\ \/ x.phase = "read"
            \/ /\ x.phase = "walk" /\ ~isNew(tracks[y.root][y.path])
               /\ tracks[y.root][y.path].stamp = y.stat
  BY <1>2
<1>4. UNCHANGED env /\ tracks' = tracks /\ roots' = roots
  BY <1>2
<1>5. RootsHidden'
  BY <1>4 DEF HInv, RootsHidden, Visible
<1>6. /\ x.phase \in Walking /\ y.phase \in Walking /\ y.root \in Root /\ y.path \in Path
      /\ x.config = y.config /\ x.todoRoots = y.todoRoots /\ x.root = y.root
      /\ x.todo = y.todo /\ x.seen = y.seen /\ x.path = y.path /\ x.stat = y.stat
  BY <1>2, <1>3 DEF Walking, SameWalk, Process
<1>7. Serving(x, roots, tracks)
  BY <1>1, <1>6 DEF HInv, Serving, Walking
<1>8. ASSUME x.quiet PROVE Walked(x, disk[x.root], tracks[x.root])
  <2>1. Walked(y, disk[y.root], tracks[y.root])
    BY <1>1, <1>3, <1>6, <1>8 DEF CInv, Achieved, Walking
  <2>2. CASE x.phase = "read"
    BY <1>2, <1>6, <2>1, <2>2 DEF Walked
  <2>3. CASE x.phase = "walk" /\ ~isNew(tracks[y.root][y.path]) /\ tracks[y.root][y.path].stamp = y.stat
    <3>1. y.stat = disk[y.root][y.path]
      BY <1>2, <2>1 DEF Walked
    <3>2. Accurate(tracks[y.root][y.path], disk[y.root][y.path])
      BY <1>6, <2>3, <3>1 DEF IInv, StampSound, isNew, Accurate
    <3> QED BY <1>6, <2>1, <2>3, <3>2 DEF Walked
  <2> QED BY <1>3, <2>2, <2>3
<1>9. Achieved(x, disk, mounted, tracks)
  BY <1>1, <1>3, <1>6, <1>8 DEF CInv, Achieved, Walking
<1> QED BY <1>1, <1>2, <1>3, <1>4, <1>5, <1>7, <1>9, SoleStep

LEMMA SoleRead ==
    ASSUME IInv, HInv, CInv, Alone, NEW s \in Scanner, ReadFile(s) \/ ReadFails(s)
    PROVE  HInv' /\ CInv'
<1>1. PICK y \in Process : y = scan[s]
  BY ProcessType DEF IInv
<1>2. /\ y.phase = "read" /\ UNCHANGED <<env, tracks, roots, crashes>>
      /\ \E x \in Process :
            /\ Local(s, x) /\ SameWalk(x, y) /\ x.phase \in {"read", "walk"}
            /\ x.quiet => y.quiet /\ x.phase = "read"
  BY <1>1, ReadLeads
<1>3. PICK x \in Process :
         /\ Local(s, x) /\ SameWalk(x, y) /\ x.phase \in {"read", "walk"}
         /\ x.quiet => y.quiet /\ x.phase = "read"
  BY <1>2
<1>4. UNCHANGED env /\ tracks' = tracks /\ roots' = roots
  BY <1>2
<1>5. RootsHidden'
  BY <1>4 DEF HInv, RootsHidden, Visible
<1>6. /\ x.phase \in Walking /\ y.phase \in Walking
      /\ x.config = y.config /\ x.todoRoots = y.todoRoots /\ x.root = y.root
      /\ x.todo = y.todo /\ x.seen = y.seen /\ x.path = y.path /\ x.stat = y.stat
  BY <1>2, <1>3 DEF Walking, SameWalk
<1>7. Serving(x, roots, tracks)
  BY <1>1, <1>6 DEF HInv, Serving, Walking
<1>8. ASSUME x.quiet PROVE Walked(x, disk[x.root], tracks[x.root])
  <2>1. Walked(y, disk[y.root], tracks[y.root]) /\ x.phase = "read"
    BY <1>1, <1>3, <1>6, <1>8 DEF CInv, Achieved, Walking
  <2> QED BY <1>2, <1>6, <2>1 DEF Walked
<1>9. Achieved(x, disk, mounted, tracks)
  BY <1>1, <1>3, <1>6, <1>8 DEF CInv, Achieved, Walking
<1> QED BY <1>1, <1>2, <1>3, <1>4, <1>5, <1>7, <1>9, SoleStep

LEMMA SoleWrite ==
    ASSUME IInv, HInv, CInv, Alone, NEW s \in Scanner, Write(s)
    PROVE  HInv' /\ CInv'
<1>1. PICK y \in Process : y = scan[s]
  BY ProcessType DEF IInv
<1>2. PICK row : row = toUpsert(s)
  OBVIOUS
<1>3. /\ y.phase = "read" /\ y.reads = <<>> /\ UNCHANGED <<env, roots, crashes>>
      /\ tracks' = [tracks EXCEPT ![y.root][y.path] = row]
      /\ \E x \in Process :
            Local(s, x) /\ SameWalk(x, y) /\ x.phase = "walk" /\ x.quiet = y.quiet
  BY <1>1, <1>2, WriteLeads
<1>4. PICK x \in Process :
         Local(s, x) /\ SameWalk(x, y) /\ x.phase = "walk" /\ x.quiet = y.quiet
  BY <1>3
<1>5. /\ x.phase \in Walking /\ y.phase \in Walking /\ y.root \in Root /\ y.path \in Path
      /\ x.config = y.config /\ x.todoRoots = y.todoRoots /\ x.root = y.root
      /\ x.todo = y.todo /\ x.seen = y.seen /\ x.path = y.path /\ x.stat = y.stat
      /\ x.config \subseteq Root
  BY <1>3, <1>4 DEF Walking, SameWalk, Process
<1>6. tracks \in [Root -> [Path -> Row \cup {NoRow}]]
  BY DEF IInv, TypeOK
<1>7. /\ \A p \in Path : tracks'[y.root][p] = IF p = y.path THEN row ELSE tracks[y.root][p]
      /\ \A r \in Root : r # y.root => tracks'[r] = tracks[r]
  BY <1>3, <1>5, <1>6
<1>8. UNCHANGED env /\ roots' = roots
  BY <1>3
<1>9. roots[y.root] = "active"
  BY <1>1, <1>5 DEF HInv, Serving
<1>10. RootsHidden'
  BY <1>7, <1>8, <1>9 DEF HInv, RootsHidden, Visible
<1>11. Serving(x, roots', tracks')
  BY <1>4, <1>5, <1>8, <1>9 DEF Serving, Walking
<1>12. ASSUME x.quiet PROVE Walked(x, disk[x.root], tracks'[x.root])
  <2>1. Walked(y, disk[y.root], tracks[y.root])
    BY <1>1, <1>4, <1>5, <1>12 DEF CInv, Achieved, Walking
  <2>2. y.stat = disk[y.root][y.path]
    BY <1>3, <2>1 DEF Walked
  <2>3. Fresh(y.hash, y.stat, disk[y.root][y.path]) /\ Fresh(y.tags, y.stat, disk[y.root][y.path])
    BY <1>1, <1>3 DEF IInv, Reading, MidFile
  <2>4. row # NoRow /\ row.stamp = y.stat /\ row.hash = y.hash /\ row.tags = y.tags /\ ~row.deleted
    <3>1. row \in [stamp : Version, hash : Version, tags : Version, deleted : BOOLEAN]
      BY <1>1, <1>2 DEF toUpsert, Process
    <3>2. row # NoRow
      BY <3>1, ScanAssumption DEF Version
    <3> QED BY <1>1, <1>2, <3>2 DEF toUpsert
  <2>5. Accurate(row, disk[y.root][y.path])
    BY <2>2, <2>3, <2>4 DEF Accurate, Fresh
  <2> QED BY <1>4, <1>5, <1>7, <2>1, <2>5 DEF Walked
<1>13. ASSUME x.quiet, NEW r \in x.config, NEW p \in Path, r \notin x.todoRoots, mounted[r], r # x.root
       PROVE  InStep(tracks'[r][p], disk[r][p])
  <2>1. InStep(tracks[r][p], disk[r][p])
    BY <1>1, <1>3, <1>4, <1>5, <1>13 DEF CInv, Achieved, Walking
  <2> QED BY <1>5, <1>7, <1>13, <2>1
<1>14. Achieved(x, disk, mounted, tracks')
  BY <1>4, <1>5, <1>12, <1>13 DEF Achieved, Walking
<1> QED BY <1>1, <1>3, <1>4, <1>8, <1>10, <1>11, <1>14, SoleStep

\* The iterator passes one path.
LEMMA SolePath ==
    ASSUME IInv, HInv, CInv, Alone, NEW s \in Scanner, NEW p \in Path,
           Visit(s, p) \/ StatFails(s, p) \/ TypeFails(s, p)
    PROVE  HInv' /\ CInv'
<1>1. PICK y \in Process : y = scan[s]
  BY ProcessType DEF IInv
<1>2. PICK v : v = disk[y.root][p]
  OBVIOUS
<1> DEFINE skip == [y EXCEPT !.todo = @ \ {p}]
           look == [y EXCEPT !.todo = @ \ {p}, !.seen = @ \cup {p}, !.path = p,
                             !.phase = "look", !.stat = v]
           unread == [y EXCEPT !.todo = @ \ {p}, !.seen = @ \cup {p}, !.quiet = FALSE]
           passed == [y EXCEPT !.todo = @ \ {p}, !.quiet = FALSE]
           Same(x) == x \in Process /\ x.root = y.root /\ x.config = y.config
                      /\ x.todoRoots = y.todoRoots /\ x.todo = y.todo \ {p}
           Good(x) == /\ Same(x) /\ (x.quiet => y.quiet)
                      /\ \/ x.phase = "walk" /\ (~x.quiet \/ (v = 0 /\ x.seen = y.seen))
                         \/ x.phase = "look" /\ v # 0 /\ x.seen = y.seen \cup {p} /\ x.path = p
                            /\ x.stat = v
<1>3. y.phase = "walk" /\ UNCHANGED <<env, tracks, roots, crashes>> /\ v \in Version
      /\ y.root \in Root
  BY <1>1, <1>2 DEF Visit, StatFails, TypeFails, IInv, TypeOK, Process, Version
<1>4. \/ Local(s, skip) /\ v = 0
      \/ Local(s, look) /\ v # 0
      \/ Local(s, unread) \/ Local(s, passed)
  BY <1>1, <1>2 DEF Visit, StatFails, TypeFails
<1>5. v = 0 => Good(skip)
  BY <1>3 DEF Process
<1>6. v # 0 => Good(look)
  <2>1. look \in Process /\ Same(look)
    BY <1>3 DEF Process, Phases
  <2>2. look.phase = "look" /\ look.seen = y.seen \cup {p} /\ look.path = p /\ look.stat = v
        /\ look.quiet = y.quiet
    BY DEF Process
  <2> HIDE DEF look, Same
  <2> QED BY <2>1, <2>2
<1>7. Good(unread) /\ Good(passed)
  BY <1>3 DEF Process
<1>8. PICK x : Local(s, x) /\ Good(x)
  <2> HIDE DEF skip, look, unread, passed, Good
  <2> QED BY <1>4, <1>5, <1>6, <1>7
<1> HIDE DEF skip, look, unread, passed
<1>9. UNCHANGED env /\ tracks' = tracks /\ roots' = roots
  BY <1>3
<1>10. RootsHidden'
  BY <1>9 DEF HInv, RootsHidden, Visible
<1>11. Serving(x, roots, tracks)
  BY <1>1, <1>3, <1>8 DEF HInv, Serving, Walking
<1>12. ASSUME x.quiet PROVE Walked(x, disk[x.root], tracks[x.root])
  <2>1. Walked(y, disk[y.root], tracks[y.root])
    BY <1>1, <1>3, <1>8, <1>12 DEF CInv, Achieved, Walking
  <2>2. CASE x.phase = "walk" /\ v = 0 /\ x.seen = y.seen
    BY <1>2, <1>3, <1>8, <2>1, <2>2 DEF Walked
  <2>3. CASE x.phase = "look" /\ v # 0 /\ x.seen = y.seen \cup {p} /\ x.path = p /\ x.stat = v
    BY <1>2, <1>3, <1>8, <2>1, <2>3 DEF Walked
  <2> QED BY <1>8, <1>12, <2>2, <2>3
<1>13. Achieved(x, disk, mounted, tracks)
  BY <1>1, <1>3, <1>8, <1>12 DEF CInv, Achieved, Walking
<1> QED BY <1>1, <1>3, <1>8, <1>9, <1>10, <1>11, <1>13, SoleStep

\* The walk of a root begins, or the root is skipped.
LEMMA SoleNextRoot ==
    ASSUME IInv, HInv, CInv, Alone, NEW s \in Scanner, NEW r \in Root, NextRoot(s, r)
    PROVE  HInv' /\ CInv'
<1>1. PICK y \in Process : y = scan[s]
  BY ProcessType DEF IInv
<1>2. PICK absent \in SUBSET Path : absent = {p \in Path : disk[r][p] = 0}
  OBVIOUS
<1> DEFINE walk == [y EXCEPT !.phase = "walk", !.root = r, !.todo = Path,
                             !.todoRoots = @ \ {r}, !.seen = {}, !.gone = absent]
           skip == [y EXCEPT !.todoRoots = @ \ {r}]
<1>3. y.phase = "roots" /\ UNCHANGED <<env, tracks, crashes>>
  BY <1>1, Zenon DEF NextRoot
<1>4. \/ mounted[r] /\ Local(s, walk) /\ roots' = [roots EXCEPT ![r] = "active"]
      \/ ~mounted[r] /\ Local(s, skip) /\ roots' = roots
  BY <1>1, <1>2, Zenon DEF NextRoot
<1>5. UNCHANGED env /\ tracks' = tracks /\ roots \in [Root -> {"absent", "active", "retired"}]
  BY <1>3 DEF IInv, TypeOK
<1>6. RootsHidden'
  BY <1>4, <1>5 DEF HInv, RootsHidden, Visible
<1>7. CASE mounted[r] /\ Local(s, walk) /\ roots' = [roots EXCEPT ![r] = "active"]
  <2>1. walk \in Process /\ walk.phase = "walk" /\ walk.root = r /\ walk.todo = Path
        /\ walk.seen = {} /\ walk.todoRoots = y.todoRoots \ {r} /\ walk.config = y.config
        /\ walk.quiet = y.quiet
    BY DEF Process, Phases
  <2> HIDE DEF walk
  <2>2. Serving(walk, roots', tracks)
    BY <1>5, <1>7, <2>1 DEF Serving
  <2>3. Achieved(walk, disk, mounted, tracks)
    BY <1>1, <1>3, <2>1 DEF CInv, Achieved, Walked, Walking
  <2> QED BY <1>1, <1>3, <1>5, <1>6, <1>7, <2>1, <2>2, <2>3, SoleStep
<1>8. CASE ~mounted[r] /\ Local(s, skip) /\ roots' = roots
  <2>1. skip \in Process /\ skip.phase = "roots"
        /\ skip.todoRoots = y.todoRoots \ {r} /\ skip.config = y.config /\ skip.quiet = y.quiet
    BY <1>3 DEF Process, Phases
  <2> HIDE DEF skip
  <2>2. Serving(skip, roots', tracks)
    BY <2>1 DEF Serving, Walking
  <2>3. Achieved(skip, disk, mounted, tracks)
    BY <1>1, <1>3, <1>8, <2>1 DEF CInv, Achieved, Walking
  <2> QED BY <1>1, <1>3, <1>5, <1>6, <1>8, <2>1, <2>2, <2>3, SoleStep
<1> QED BY <1>4, <1>7, <1>8

\* A walk ends: the tracks whose files it has not seen are to go.
LEMMA SoleEndWalk ==
    ASSUME IInv, HInv, CInv, Alone, NEW s \in Scanner, EndWalk(s) \/ WalkFails(s)
    PROVE  HInv' /\ CInv'
<1>1. PICK y \in Process : y = scan[s]
  BY ProcessType DEF IInv
<1>2. PICK lost \in SUBSET Path : lost = {p \in Path : Visible(y.root, p)} \ y.seen
  OBVIOUS
<1> DEFINE x(whole) == [y EXCEPT !.phase = "delete", !.todo = {}, !.quiet = @ /\ whole,
                                 !.victims = lost]
<1>3. y.phase = "walk" /\ UNCHANGED <<env, tracks, roots, crashes>>
  BY <1>1 DEF EndWalk, WalkFails
<1>4. (Local(s, x(TRUE)) /\ y.todo = {}) \/ Local(s, x(FALSE))
  BY <1>1, <1>2 DEF EndWalk, WalkFails, detectDeletions
<1>5. ASSUME NEW whole \in BOOLEAN
      PROVE  /\ x(whole) \in Process /\ x(whole).phase = "delete" /\ x(whole).victims = lost
             /\ x(whole).root = y.root /\ x(whole).config = y.config
             /\ x(whole).todoRoots = y.todoRoots /\ (x(whole).quiet => y.quiet /\ whole)
  BY DEF Process, Phases
<1> HIDE DEF x
<1>6. PICK z \in Process : 
         /\ Local(s, z) /\ z.phase = "delete" /\ z.victims = lost /\ z.root = y.root
         /\ z.config = y.config /\ z.todoRoots = y.todoRoots
         /\ z.quiet => y.quiet /\ y.todo = {}
  BY <1>4, <1>5
<1>7. UNCHANGED env /\ tracks' = tracks /\ roots' = roots
  BY <1>3
<1>8. RootsHidden'
  BY <1>7 DEF HInv, RootsHidden, Visible
<1>9. Serving(z, roots, tracks)
  BY <1>1, <1>3, <1>6 DEF HInv, Serving, Walking
<1>10. ASSUME z.quiet PROVE Cleared(z, disk[z.root], tracks[z.root])
  <2>1. Walked(y, disk[y.root], tracks[y.root]) /\ y.todo = {}
    BY <1>1, <1>3, <1>6, <1>10 DEF CInv, Achieved, Walking
  <2> SUFFICES ASSUME NEW p \in Path
               PROVE  \/ /\ InStep(tracks[y.root][p], disk[y.root][p])
                         /\ p \in lost => disk[y.root][p] = 0
                      \/ disk[y.root][p] = 0 /\ p \in lost
    BY <1>6 DEF Cleared
  <2>2. CASE p \in y.seen
    <3>1. disk[y.root][p] # 0 /\ Accurate(tracks[y.root][p], disk[y.root][p])
      BY <1>3, <2>1, <2>2 DEF Walked
    <3>2. p \notin lost
      BY <1>2, <2>2
    <3> QED BY <3>1, <3>2 DEF InStep
  <2>3. CASE p \notin y.seen
    BY <1>2, <2>1, <2>3 DEF Walked, InStep, Visible
  <2> QED BY <2>2, <2>3
<1>11. Achieved(z, disk, mounted, tracks)
  BY <1>1, <1>3, <1>6, <1>10 DEF CInv, Achieved, Walking
<1> QED BY <1>1, <1>3, <1>6, <1>7, <1>8, <1>9, <1>11, SoleStep

\* One track is deleted.
LEMMA SoleSoftDelete ==
    ASSUME IInv, Excused, HInv, CInv, Alone, NEW s \in Scanner, NEW p \in Path, SoftDelete(s, p)
    PROVE  HInv' /\ CInv'
<1>1. PICK y \in Process : y = scan[s]
  BY ProcessType DEF IInv
<1> DEFINE x == [y EXCEPT !.victims = @ \ {p}]
<1>2. /\ x \in Process /\ x.phase = y.phase /\ x.root = y.root /\ x.config = y.config
      /\ x.todoRoots = y.todoRoots /\ x.victims = y.victims \ {p} /\ x.quiet = y.quiet
      /\ y.root \in Root /\ y.config \subseteq Root
  BY DEF Process
<1>3. /\ y.phase \in {"delete", "retireTracks"} /\ p \in y.victims
      /\ softDelete(y.root, p) /\ Local(s, x) /\ UNCHANGED <<env, roots, crashes>>
  BY <1>1 DEF SoftDelete
<1> HIDE DEF x
<1>4. tracks \in [Root -> [Path -> Row \cup {NoRow}]]
  BY DEF IInv, TypeOK
<1>5. /\ \A r \in Root, q \in Path : r # y.root \/ q # p => tracks'[r][q] = tracks[r][q]
      /\ tracks'[y.root][p] = NoRow \/ tracks'[y.root][p].deleted
  <2>1. CASE Visible(y.root, p)
    <3>1. tracks' = [tracks EXCEPT ![y.root][p].deleted = TRUE]
      BY <1>3, <2>1 DEF softDelete
    <3>2. tracks[y.root][p] \in Row
      BY <1>2, <1>4, <2>1 DEF Visible
    <3>3. tracks'[y.root][p] = [tracks[y.root][p] EXCEPT !.deleted = TRUE]
      BY <1>2, <1>4, <3>1
    <3>4. tracks'[y.root][p].deleted
      BY <3>2, <3>3 DEF Row
    <3> QED BY <1>2, <1>4, <3>1, <3>4
  <2>2. CASE ~Visible(y.root, p)
    <3>1. tracks' = tracks
      BY <1>3, <2>2 DEF softDelete
    <3> QED BY <2>2, <3>1 DEF Visible
  <2> QED BY <2>1, <2>2
<1>6. roots' = roots /\ UNCHANGED env
  BY <1>3
<1>7. RootsHidden'
  BY <1>5, <1>6 DEF HInv, RootsHidden, Visible
<1>8. Serving(x, roots', tracks')
  <2>1. Serving(y, roots, tracks)
    BY <1>1 DEF HInv
  <2>2. ASSUME x.phase = "retireTracks", NEW q \in Path,
               tracks'[x.root][q] # NoRow, ~tracks'[x.root][q].deleted
        PROVE  q \in x.victims
    <3>1. q # p
      BY <1>2, <1>5, <2>2
    <3>2. tracks[y.root][q] # NoRow /\ ~tracks[y.root][q].deleted
      BY <1>2, <1>5, <2>2, <3>1
    <3> QED BY <1>2, <2>1, <2>2, <3>1, <3>2 DEF Serving
  <2> QED BY <1>2, <1>6, <2>1, <2>2 DEF Serving
<1>9. y.phase # "idle" /\ y.phase \notin Walking
  BY <1>3 DEF Walking
<1>10. ASSUME x.quiet, x.phase = "delete" PROVE Cleared(x, disk[x.root], tracks'[x.root])
  <2>1. Cleared(y, disk[y.root], tracks[y.root])
    BY <1>1, <1>2, <1>10 DEF CInv, Achieved
  <2> SUFFICES ASSUME NEW q \in Path
               PROVE  \/ /\ InStep(tracks'[y.root][q], disk[y.root][q])
                         /\ q \in x.victims => disk[y.root][q] = 0
                      \/ disk[y.root][q] = 0 /\ q \in x.victims
    BY <1>2 DEF Cleared
  <2>2. CASE q = p
    BY <1>2, <1>3, <1>5, <2>1, <2>2 DEF Cleared, InStep
  <2>3. CASE q # p
    BY <1>2, <1>5, <2>1, <2>3 DEF Cleared
  <2> QED BY <2>2, <2>3
<1>11. ASSUME x.quiet, NEW r \in x.config, NEW q \in Path, r \notin x.todoRoots, mounted[r],
              x.phase \in Walking \cup {"delete"} => r # x.root
       PROVE  InStep(tracks'[r][q], disk[r][q])
  <2>1. InStep(tracks[r][q], disk[r][q])
    BY <1>1, <1>2, <1>9, <1>11 DEF CInv, Achieved
  <2>2. r # y.root
    BY <1>1, <1>2, <1>3, <1>11 DEF Excused, Retiring
  <2> QED BY <1>2, <1>5, <1>11, <2>1, <2>2
<1>12. ASSUME x.quiet, x.phase \in {"retire", "retireTracks"},
              NEW r \in Root \ (x.config \cup x.todoRoots), NEW q \in Path
       PROVE  \/ tracks'[r][q] = NoRow \/ tracks'[r][q].deleted
              \/ x.phase = "retireTracks" /\ r = x.root /\ q \in x.victims
  <2>1. \/ tracks[r][q] = NoRow \/ tracks[r][q].deleted
        \/ x.phase = "retireTracks" /\ r = x.root /\ q \in y.victims
    <3>1. Achieved(y, disk, mounted, tracks)
      BY <1>1 DEF CInv
    <3>2. y.quiet /\ y.phase \in {"retire", "retireTracks"}
          /\ r \in Root \ (y.config \cup y.todoRoots)
      BY <1>2, <1>12
    <3>3. \/ tracks[r][q] = NoRow \/ tracks[r][q].deleted
          \/ y.phase = "retireTracks" /\ r = y.root /\ q \in y.victims
      BY <1>9, <3>1, <3>2 DEF Achieved
    <3> QED BY <1>2, <3>3
  <2>2. CASE r = y.root /\ q = p
    BY <1>5, <2>2
  <2>3. CASE ~(r = y.root /\ q = p)
    BY <1>2, <1>5, <2>1, <2>3
  <2> QED BY <2>2, <2>3
<1>13. Achieved(x, disk, mounted, tracks')
  BY <1>2, <1>9, <1>10, <1>11, <1>12 DEF Achieved
<1> QED BY <1>1, <1>2, <1>3, <1>6, <1>7, <1>8, <1>9, <1>13, SoleStep

\* All other steps of a process.
LEMMA SoleRoots ==
    ASSUME IInv, Excused, HInv, CInv, Alone, NEW s \in Scanner,
           \/ EndRoot(s) \/ BeginRetire(s) \/ RetireRoot(s) \/ EndScan(s) \/ Crash(s)
           \/ \E r \in Root : RetireTracks(s, r)
    PROVE  HInv' /\ CInv'
<1>1. PICK y \in Process : y = scan[s]
  BY ProcessType DEF IInv
<1>2. /\ Retiring(y) /\ Serving(y, roots, tracks) /\ Achieved(y, disk, mounted, tracks)
      /\ RootsHidden
  BY <1>1 DEF Excused, HInv, CInv
<1>3. y.root \in Root /\ y.config \subseteq Root
  BY DEF Process
<1>4. CASE EndRoot(s)
  <2> DEFINE x == [y EXCEPT !.phase = "roots"]
  <2>1. x \in Process /\ x.phase = "roots" /\ x.config = y.config /\ x.todoRoots = y.todoRoots
        /\ x.quiet = y.quiet
    BY DEF Process, Phases
  <2>2. Local(s, x) /\ y.phase = "delete" /\ y.victims = {} /\ UNCHANGED <<env, tracks, roots>>
    BY <1>1, <1>4 DEF EndRoot
  <2> HIDE DEF x
  <2>3. RootsHidden' /\ Serving(x, roots', tracks')
    BY <1>2, <2>1, <2>2 DEF RootsHidden, Visible, Serving, Walking
  <2>4. y.quiet => \A p \in Path : InStep(tracks[y.root][p], disk[y.root][p])
    BY <1>2, <2>2 DEF Achieved, Cleared
  <2>5. Achieved(x, disk, mounted, tracks)
    BY <1>2, <2>1, <2>2, <2>4 DEF Achieved, Walking
  <2> QED BY <1>1, <2>1, <2>2, <2>3, <2>5, SoleStep
<1>5. CASE BeginRetire(s)
  <2> DEFINE x == [y EXCEPT !.phase = "retire", !.todoRoots = activeRoots \ y.config]
  <2>1. x \in Process /\ x.phase = "retire" /\ x.config = y.config
        /\ x.todoRoots = activeRoots \ y.config /\ x.quiet = y.quiet
    <3>1. activeRoots \ y.config \subseteq Root
      BY DEF activeRoots
    <3> QED BY <3>1 DEF Process, Phases
  <2>2. Local(s, x) /\ y.phase = "roots" /\ y.todoRoots = {} /\ UNCHANGED <<env, tracks, roots>>
    BY <1>1, <1>5 DEF BeginRetire
  <2> HIDE DEF x
  <2>3. RootsHidden' /\ Serving(x, roots', tracks')
    BY <1>2, <2>1, <2>2 DEF RootsHidden, Visible, Serving, Walking
  <2>4. \A r \in Root \ (x.config \cup x.todoRoots), p \in Path :
           tracks[r][p] = NoRow \/ tracks[r][p].deleted
    BY <1>2, <2>1 DEF RootsHidden, Visible, activeRoots
  <2>5. Achieved(x, disk, mounted, tracks)
    BY <1>2, <2>1, <2>2, <2>4 DEF Achieved, Walking
  <2> QED BY <1>1, <2>1, <2>2, <2>3, <2>5, SoleStep
<1>6. CASE RetireRoot(s)
  <2> DEFINE x == [y EXCEPT !.phase = "retire"]
  <2>1. x \in Process /\ x.phase = "retire" /\ x.config = y.config
        /\ x.todoRoots = y.todoRoots /\ x.quiet = y.quiet
    BY DEF Process, Phases
  <2>2. Local(s, x) /\ y.phase = "retireTracks" /\ y.victims = {} /\ UNCHANGED <<env, tracks>>
        /\ roots' = [roots EXCEPT ![y.root] = "retired"]
    BY <1>1, <1>6 DEF RetireRoot, tracksRetired
  <2> HIDE DEF x
  <2>3. \A p \in Path : tracks[y.root][p] = NoRow \/ tracks[y.root][p].deleted
    BY <1>2, <2>2 DEF Serving
  <2>4. roots \in [Root -> {"absent", "active", "retired"}]
    BY DEF IInv, TypeOK
  <2>5. RootsHidden' /\ Serving(x, roots', tracks')
    BY <1>2, <2>1, <2>2, <2>3, <2>4 DEF RootsHidden, Visible, Serving, Walking
  <2>6. Achieved(x, disk, mounted, tracks)
    BY <1>2, <2>1, <2>2 DEF Achieved, Walking
  <2> QED BY <1>1, <2>1, <2>2, <2>5, <2>6, SoleStep
<1>7. CASE EndScan(s) \/ Crash(s)
  <2>1. Local(s, Idle) /\ y.phase # "idle" /\ UNCHANGED <<env, tracks, roots>>
    BY <1>1, <1>7 DEF EndScan, Crash
  <2>2. RootsHidden' /\ Serving(Idle, roots', tracks') /\ Achieved(Idle, disk, mounted, tracks')
    BY <1>2, <2>1, IdleProcess DEF RootsHidden, Visible, Serving, Walking, Achieved
  <2> QED BY <1>1, <2>1, <2>2, IdleProcess, SoleStep
<1>8. ASSUME NEW r \in Root, RetireTracks(s, r) PROVE HInv' /\ CInv'
  <2>1. PICK lost \in SUBSET Path : lost = {p \in Path : Visible(r, p)}
    OBVIOUS
  <2> DEFINE x == [y EXCEPT !.phase = "retireTracks", !.todoRoots = @ \ {r}, !.root = r,
                            !.victims = lost]
  <2>2. x \in Process /\ x.phase = "retireTracks" /\ x.todoRoots = y.todoRoots \ {r}
        /\ x.config = y.config /\ x.root = r /\ x.victims = lost /\ x.quiet = y.quiet
    BY DEF Process, Phases
  <2>3. y.phase = "retire" /\ r \in y.todoRoots /\ UNCHANGED <<env, tracks, roots>>
    <3>1. UNCHANGED <<env, tracks, roots, crashes>>
      BY <1>8, Zenon DEF RetireTracks
    <3>2. scan[s].phase = "retire" /\ r \in scan[s].todoRoots
      BY <1>8, Zenon DEF RetireTracks
    <3> QED BY <1>1, <3>1, <3>2
  <2>4. Local(s, x)
    BY <1>1, <1>8, <2>1, Zenon DEF RetireTracks
  <2> HIDE DEF x
  <2>5. \A p \in Path : tracks[r][p] # NoRow /\ ~tracks[r][p].deleted => p \in lost
    BY <2>1 DEF Visible
  <2>6. RootsHidden' /\ Serving(x, roots', tracks')
    BY <1>2, <2>2, <2>3, <2>5 DEF RootsHidden, Visible, Serving, Walking
  <2>7. y.todoRoots \cap y.config = {}
    BY <1>2, <2>3 DEF Retiring
  <2>8. Achieved(x, disk, mounted, tracks)
    BY <1>2, <2>2, <2>3, <2>5, <2>7 DEF Achieved, Walking
  <2> QED BY <1>1, <2>2, <2>3, <2>4, <2>6, <2>8, SoleStep
<1> QED BY <1>4, <1>5, <1>6, <1>7, <1>8

\* A change of a root disturbs every scan, and says nothing of roots and tracks.
LEMMA SoleNotice ==
    ASSUME IInv, HInv, NEW r \in Root, NEW lost \in SUBSET Path, Notice(r, lost),
           UNCHANGED <<tracks, roots>>
    PROVE  HInv' /\ CInv'
<1>1. RootsHidden'
  BY DEF HInv, RootsHidden, Visible
<1>2. ASSUME NEW s \in Scanner
      PROVE  Serving(scan'[s], roots, tracks) /\ ~scan'[s].quiet
  <2> DEFINE y == scan[s]
             x == [y EXCEPT !.quiet = FALSE, !.gone = IF y.root = r THEN @ \cup lost ELSE @]
  <2>1. y \in Process
    BY ProcessType DEF IInv
  <2>2. scan'[s] = x
    BY Zenon DEF Notice
  <2>3. x.phase = y.phase /\ x.root = y.root /\ x.victims = y.victims /\ ~x.quiet
    BY <2>1 DEF Process
  <2>4. Serving(y, roots, tracks)
    BY DEF HInv
  <2> HIDE DEF x, y
  <2> QED BY <2>2, <2>3, <2>4 DEF Serving
<1> QED BY <1>1, <1>2 DEF HInv, CInv, Achieved

LEMMA SoleFiles == ASSUME IInv, HInv, FileStep PROVE HInv' /\ CInv'
<1>1. PICK r \in Root : Unmount(r) \/ Mount(r) \/ \E p \in Path : Edit(r, p) \/ Remove(r, p)
  BY DEF FileStep
<1>2. UNCHANGED <<tracks, roots>> /\ \E lost \in SUBSET Path : Notice(r, lost)
  <2>1. CASE Unmount(r) \/ Mount(r)
    BY <2>1 DEF Unmount, Mount
  <2>2. ASSUME NEW p \in Path, Edit(r, p) \/ Remove(r, p)
        PROVE  UNCHANGED <<tracks, roots>> /\ \E lost \in SUBSET Path : Notice(r, lost)
    BY <2>2 DEF Edit, Remove
  <2> QED BY <1>1, <2>1, <2>2
<1> QED BY <1>2, SoleNotice

\* A scan begins.
LEMMA SoleBegin ==
    ASSUME IInv, HInv, NEW s \in Scanner, NEW paths \in SUBSET Root,
           BeginScan(s, paths)
    PROVE  HInv' /\ CInv'
<1> DEFINE begun == [Idle EXCEPT !.phase = "roots", !.config = paths, !.todoRoots = paths,
                                 !.quiet = \A u \in Scanner : scan[u].phase = "idle"]
           seen(t) == [scan[t] EXCEPT !.quiet = FALSE]
<1>1. /\ UNCHANGED <<env, tracks, roots, crashes>>
      /\ scan' = [t \in Scanner |-> IF t = s THEN begun ELSE seen(t)]
  BY Zenon DEF BeginScan
<1>2. begun.phase = "roots" /\ begun.config = paths /\ begun.todoRoots = paths
  BY IdleProcess DEF Process
<1>3. \A t \in Scanner : seen(t).phase = scan[t].phase /\ ~seen(t).quiet
                         /\ seen(t).root = scan[t].root /\ seen(t).victims = scan[t].victims
  <2> SUFFICES ASSUME NEW t \in Scanner
               PROVE  seen(t).phase = scan[t].phase /\ ~seen(t).quiet
                      /\ seen(t).root = scan[t].root /\ seen(t).victims = scan[t].victims
    OBVIOUS
  <2>1. scan[t] \in Process
    BY ProcessType DEF IInv
  <2> QED BY <2>1 DEF Process
<1> HIDE DEF begun, seen
<1>4. UNCHANGED <<disk, mounted, tracks, roots>>
  BY <1>1 DEF env
<1>5. RootsHidden'
  BY <1>4 DEF HInv, RootsHidden, Visible
<1>6. Serving(begun, roots, tracks) /\ Achieved(begun, disk, mounted, tracks)
  BY <1>2 DEF Serving, Achieved, Walking
<1>7. \A t \in Scanner : Serving(seen(t), roots, tracks) /\ Achieved(seen(t), disk, mounted, tracks)
  BY <1>3 DEF HInv, Serving, Achieved
<1> QED BY <1>1, <1>4, <1>5, <1>6, <1>7 DEF HInv, CInv

LEMMA SoleInductive ==
    IInv /\ Excused /\ HInv /\ CInv /\ Alone /\ [Next]_vars => HInv' /\ CInv'
<1> SUFFICES ASSUME IInv, Excused, HInv, CInv, Alone, [Next]_vars PROVE HInv' /\ CInv'
  OBVIOUS
<1>1. CASE FileStep
  BY <1>1, SoleFiles
<1>2. ASSUME NEW s \in Scanner, ScanStep(s) PROVE HInv' /\ CInv'
  BY <1>2, SoleLook, SoleRead, SoleWrite, SolePath, SoleNextRoot, SoleEndWalk, SoleSoftDelete,
     SoleRoots DEF ScanStep
<1>3. ASSUME NEW s \in Scanner, Crash(s) PROVE HInv' /\ CInv'
  BY <1>3, SoleRoots
<1>4. ASSUME NEW s \in Scanner, NEW paths \in SUBSET Root, BeginScan(s, paths)
      PROVE  HInv' /\ CInv'
  BY <1>4, SoleBegin
<1>5. CASE UNCHANGED vars
  BY <1>5 DEF vars, HInv, CInv, RootsHidden, Visible
<1> QED BY <1>1, <1>2, <1>3, <1>4, <1>5 DEF Next

LEMMA InitSole == Init => HInv /\ CInv
<1> SUFFICES ASSUME Init PROVE HInv /\ CInv
  OBVIOUS
<1>1. \A s \in Scanner : scan[s].phase = "idle"
  BY IdleProcess DEF Init
<1>2. RootsHidden
  BY DEF Init, RootsHidden, Visible
<1> QED BY <1>1, <1>2 DEF HInv, CInv, Serving, Achieved, Walking

\* As long as scans do not overlap, none of the tracks of a root that was retired
\* is visible: whatever else happens, in particular when retireUnconfiguredRoots()
\* is killed between two of its statements.
THEOREM ScanRetiredHidden == Spec /\ []Alone => []RetiredHidden
<1>1. HInv => RetiredHidden
  BY DEF HInv, RootsHidden, RetiredHidden
<1> QED BY <1>1, InitIInv, IInvInductive, InitExcused, ExcusedInductive, InitSole, SoleInductive,
           PTL DEF Spec

\* As long as scans do not overlap, one that nothing disturbs and in which nothing
\* fails leaves the library in step with the disk and the configuration, whatever
\* the scans before it have left behind.
THEOREM ScanSyncs == Spec /\ []Alone => []CleanScanSyncs
<1>1. CInv => CleanScanSyncs
  <2> SUFFICES ASSUME CInv, NEW s \in Scanner, scan[s].phase = "retire",
                      scan[s].todoRoots = {}, scan[s].quiet
               PROVE  InSync(scan[s].config)
    BY DEF CleanScanSyncs
  <2>1. Achieved(scan[s], disk, mounted, tracks)
    BY DEF CInv
  <2>2. /\ \A r \in scan[s].config, p \in Path : mounted[r] => InStep(tracks[r][p], disk[r][p])
        /\ \A r \in Root \ scan[s].config, p \in Path :
              tracks[r][p] = NoRow \/ tracks[r][p].deleted
    BY <2>1 DEF Achieved, Walking
  <2> QED BY <2>2 DEF InSync, InStep, Accurate, Visible
<1> QED BY <1>1, InitIInv, IInvInductive, InitExcused, ExcusedInductive, InitSole, SoleInductive,
           PTL DEF Spec
=============================================================================
