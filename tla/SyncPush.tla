------------------------------ MODULE SyncPush -------------------------------
(***************************************************************************)
(* The sync client's commands push, verify, status and list: main.cpp,     *)
(* SyncEngine.cpp, LocalScanner.cpp and ManifestDiffer.cpp in              *)
(* sync-client/src/.  A command looks at one file at a time while files    *)
(* are edited, touched and removed; requests to the server fail, or        *)
(* succeed with the answer lost (HttpClient.tla); the process may be       *)
(* killed and the command given again.                                     *)
(*                                                                         *)
(* The server side is a proposal (docs/api.md): an uploaded file is stored *)
(* with the time of its upload, since the request carries no other.        *)
(***************************************************************************)
EXTENDS Naturals, FiniteSets

CONSTANTS
    Path,        \* relative paths of audio files
    NoFile,      \* there is no file, or no manifest entry
    Sizes,       \* how many sizes there are: versions that agree modulo Sizes
                 \* have the same size
    MaxVersion,  \* bound: edits of one file
    MaxTime,     \* bound: seconds
    IoErrors     \* whether stat or the directory walk can fail

ASSUME PushAssumption ==
    /\ Path # {} /\ Sizes \in Nat \ {0} /\ MaxVersion \in Nat /\ MaxTime \in Nat
    /\ IoErrors \in BOOLEAN /\ NoFile \notin [content : Nat, mtime : Nat]

VARIABLES
    now,       \* the clock, in seconds
    disk,      \* Path -> [content, mtime] or NoFile; content is a version number
    latest,    \* the last version number given out
    server,    \* Path -> [content, mtime] or NoFile
    cmd        \* the command that is running, or the result of the last one

syncVars == <<now, disk, latest, server, cmd>>

\* A file's size is a function of its content.
sizeBytes(f) == f.content % Sizes

\* local and manifest are what was scanned and fetched; quiet and skipped are
\* history: whether no file changed since the command began, and the paths it
\* failed to look at.
NoCmd == [op |-> "none", phase |-> "idle", todo |-> {}, local |-> [p \in Path |-> NoFile],
          manifest |-> [p \in Path |-> NoFile], new |-> {}, modified |-> {}, unchanged |-> {},
          failed |-> 0, quiet |-> FALSE, skipped |-> {}]

SyncInit == /\ now = 0 /\ latest = 0
        /\ disk = [p \in Path |-> NoFile] /\ server = disk
        /\ cmd = NoCmd

-----------------------------------------------------------------------------
(* The command.                                                             *)

Step(next) == cmd' = next /\ UNCHANGED <<now, disk, latest, server>>

\* main(): list scans, status fetches, push and verify do both.
BeginCommand(op) ==
    /\ cmd.phase = "idle" \/ cmd.phase = "exit"
    /\ Step([NoCmd EXCEPT !.op = op, !.quiet = TRUE, !.todo = Path,
                          !.phase = IF op = "status" THEN "fetch" ELSE "scan"])

\* A command that throws prints the error and exits with 1.
Throw == Step([cmd EXCEPT !.phase = "exit", !.failed = 1])

\* scan(): the root directory is not there.
RootMissing == cmd.phase = "scan" /\ cmd.todo = Path /\ Throw

\* The walk gets to p; entries come in any order.  The code asks for the size
\* first and for the time next.  The two are of one moment here: they differ
\* only if p changes in between, after which the command is not quiet, and the
\* properties say nothing about it.
Visit(p) ==
    /\ cmd.phase = "scan" /\ p \in cmd.todo
    /\ Step([cmd EXCEPT !.todo = @ \ {p}, !.local[p] = disk[p]])

\* Type, size or time of p cannot be read: the entry is left out.
StatFails(p) ==
    /\ IoErrors /\ cmd.phase = "scan" /\ p \in cmd.todo
    /\ Step([cmd EXCEPT !.todo = @ \ {p}, !.skipped = @ \cup {p}])

\* increment() fails.  That makes the iterator equal to the end, so that the
\* loop is over before its body can look at the error.
WalkFails ==
    /\ IoErrors /\ cmd.phase = "scan" /\ cmd.todo # {}
    /\ Step([cmd EXCEPT !.todo = {}, !.skipped = @ \cup cmd.todo])

EndScan ==
    /\ cmd.phase = "scan" /\ cmd.todo = {}
    /\ Step([cmd EXCEPT !.phase = IF cmd.op = "list" THEN "exit" ELSE "fetch"])

\* fetchManifest(): a 200 with a well-formed array.
Fetch ==
    /\ cmd.phase = "fetch"
    /\ Step([cmd EXCEPT !.phase = IF cmd.op = "status" THEN "exit" ELSE "diff",
                        !.manifest = server,
                        !.todo = {p \in Path : cmd.local[p] # NoFile}])

\* Unreachable, another status, or a malformed body.
FetchFails == cmd.phase = "fetch" /\ Throw

\* diff(): size and time in whole seconds agree, and verify does not ask for a hash.
metadataMatches(p) ==
    /\ cmd.op = "push"
    /\ sizeBytes(cmd.local[p]) = sizeBytes(cmd.manifest[p])
    /\ cmd.local[p].mtime = cmd.manifest[p].mtime

\* Mutant: a file whose size or time differ is uploaded without a look at it.
sameContent_Never(p) == FALSE

\* hashFile(): the file as it is now.
sameContent(p) == disk[p].content = cmd.manifest[p].content

\* diff() of one local file; hashFile() throws if it is gone.
Diff(p) ==
    /\ cmd.phase = "diff" /\ p \in cmd.todo
    /\ LET put(class) == CASE class = "new" -> [cmd EXCEPT !.todo = @ \ {p}, !.new = @ \cup {p}]
                           [] class = "modified" ->
                                [cmd EXCEPT !.todo = @ \ {p}, !.modified = @ \cup {p}]
                           [] class = "unchanged" ->
                                [cmd EXCEPT !.todo = @ \ {p}, !.unchanged = @ \cup {p}]
       IN  IF cmd.manifest[p] = NoFile THEN Step(put("new"))
           ELSE IF metadataMatches(p) THEN Step(put("unchanged"))
           ELSE IF disk[p] = NoFile THEN Throw
           ELSE Step(put(IF sameContent(p) THEN "unchanged" ELSE "modified"))

\* deletedFiles: only counted.
deleted == {p \in Path : cmd.manifest[p] # NoFile /\ cmd.local[p] = NoFile}

\* verify is done; push goes on to upload the new files.
EndDiff ==
    /\ cmd.phase = "diff" /\ cmd.todo = {}
    /\ Step(IF cmd.op = "verify" THEN [cmd EXCEPT !.phase = "exit"]
            ELSE [cmd EXCEPT !.phase = "uploadNew", !.todo = cmd.new])

\* After the new files, the modified ones.
EndNew == /\ cmd.phase = "uploadNew" /\ cmd.todo = {}
          /\ Step([cmd EXCEPT !.phase = "uploadModified", !.todo = cmd.modified])

EndPush == /\ cmd.phase = "uploadModified" /\ cmd.todo = {}
           /\ Step([cmd EXCEPT !.phase = "exit"])

uploading(p) == cmd.phase \in {"uploadNew", "uploadModified"} /\ p \in cmd.todo

\* Mutant: a failed upload is not counted.
counted_Never(answered) == cmd.failed

\* summary.uploadFailed.
counted(answered) == IF answered THEN cmd.failed ELSE 1

\* uploadFile(): the server stores the file as it is now; its answer may be lost.
Upload(p, answered) ==
    /\ uploading(p) /\ disk[p] # NoFile
    /\ server' = [server EXCEPT ![p] = [content |-> disk[p].content, mtime |-> now]]
    /\ cmd' = [cmd EXCEPT !.todo = @ \ {p}, !.failed = counted(answered)]
    /\ UNCHANGED <<now, disk, latest>>

\* uploadFile() fails before the server has stored anything.
UploadFails(p) ==
    /\ uploading(p)
    /\ Step([cmd EXCEPT !.todo = @ \ {p}, !.failed = counted(FALSE)])

\* The process is interrupted.
Killed == cmd.phase \notin {"idle", "exit"} /\ Step(NoCmd)

-----------------------------------------------------------------------------
(* The user's files.                                                        *)

Disturb == cmd' = [cmd EXCEPT !.quiet = FALSE]

EditFile(p) == /\ latest < MaxVersion
               /\ latest' = latest + 1
               /\ disk' = [disk EXCEPT ![p] = [content |-> latest', mtime |-> now]]
               /\ Disturb /\ UNCHANGED <<now, server>>

\* New time, same content.
Touch(p) == /\ disk[p] # NoFile /\ disk[p].mtime # now
            /\ disk' = [disk EXCEPT ![p].mtime = now]
            /\ Disturb /\ UNCHANGED <<now, latest, server>>

Delete(p) == /\ disk[p] # NoFile
             /\ disk' = [disk EXCEPT ![p] = NoFile]
             /\ Disturb /\ UNCHANGED <<now, latest, server>>

Tick == now < MaxTime /\ now' = now + 1 /\ UNCHANGED <<disk, latest, server, cmd>>

SyncNext == \/ \E op \in {"push", "verify", "status", "list"} : BeginCommand(op)
            \/ RootMissing \/ WalkFails \/ EndScan \/ Fetch \/ FetchFails
            \/ EndDiff \/ EndNew \/ EndPush \/ Killed \/ Tick
            \/ \E p \in Path : \/ Visit(p) \/ StatFails(p) \/ Diff(p)
                               \/ UploadFails(p) \/ \E a \in BOOLEAN : Upload(p, a)
                               \/ EditFile(p) \/ Touch(p) \/ Delete(p)

SyncSpec == SyncInit /\ [][SyncNext]_syncVars

-----------------------------------------------------------------------------
(* Properties.                                                              *)

Entry == [content : 1..MaxVersion, mtime : 0..MaxTime] \cup {NoFile}

SyncTypeOK ==
    /\ now \in 0..MaxTime /\ latest \in 0..MaxVersion
    /\ disk \in [Path -> Entry] /\ server \in [Path -> Entry]
    /\ cmd.local \in [Path -> Entry] /\ cmd.manifest \in [Path -> Entry]
    /\ cmd.phase \in {"idle", "scan", "fetch", "diff", "uploadNew", "uploadModified", "exit"}
    /\ cmd.failed \in {0, 1}

done(op) == cmd.op = op /\ cmd.phase = "exit" /\ cmd.failed = 0 /\ cmd.quiet

synced(p) == disk[p] # NoFile => server[p] # NoFile /\ server[p].content = disk[p].content

\* Size and second agree although the content does not.
blind(p) == /\ cmd.local[p] # NoFile /\ cmd.manifest[p] # NoFile
            /\ sizeBytes(cmd.local[p]) = sizeBytes(cmd.manifest[p])
            /\ cmd.local[p].mtime = cmd.manifest[p].mtime

\* A push during which no file changed and that exits with 0 (main.cpp:54)
\* leaves every file it could look at on the server with its content, whatever
\* earlier pushes left undone when they were killed, failed or lost an answer;
\* only files that size and second cannot tell apart may be left behind.
PushSyncs == done("push") => \A p \in Path \ cmd.skipped : synced(p) \/ blind(p)

\* verify with forceHash (main.cpp:81) reports exactly how the files and the
\* server differ, with no blind spot.
VerifyExact ==
    done("verify") => \A p \in Path \ cmd.skipped :
        /\ p \in cmd.new <=> disk[p] # NoFile /\ cmd.manifest[p] = NoFile
        /\ p \in deleted <=> disk[p] = NoFile /\ cmd.manifest[p] # NoFile
        /\ p \in cmd.unchanged <=> /\ disk[p] # NoFile /\ cmd.manifest[p] # NoFile
                                   /\ disk[p].content = cmd.manifest[p].content

\* What push and verify claim at their end is so (SyncEngine.cpp:16-80).
SyncSafe == SyncTypeOK /\ PushSyncs /\ VerifyExact

\* Nothing is sent that the server already has (ManifestDiffer.cpp:71-74):
\* not a file that was only touched, and not one whose upload succeeded before
\* although its answer was lost.
NoNeedlessUpload ==
    [][\A p \in Path : server'[p] # server[p] /\ cmd.quiet =>
          server[p] = NoFile \/ server[p].content # disk[p].content]_syncVars
=============================================================================
