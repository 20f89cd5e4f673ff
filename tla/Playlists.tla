------------------------------ MODULE Playlists ------------------------------
(***************************************************************************)
(* The playlist endpoints (registerPlaylistRoutes() in                     *)
(* server/src/api/Api.cpp) over SqlitePlaylistRepository                   *)
(* (server/src/db/SqlitePlaylistRepository.cpp), while a scan process      *)
(* inserts, soft-deletes and revives tracks in the same database.          *)
(*                                                                         *)
(* The server runs one handler at a time.  A handler is one step per       *)
(* repository call, each call being one SQLite transaction; the scanner    *)
(* takes steps in between, and the server may be killed in between (a      *)
(* repository call that throws, on a database locked for too long, also    *)
(* ends the process: nothing catches it).  Clients retry at will.          *)
(* Timestamps are left out.                                                *)
(***************************************************************************)
EXTENDS Integers, Sequences, SequencesExt, FiniteSets, Paging

CONSTANTS
    Track,         \* ids of tracks
    Name,          \* playlist names
    Empty,         \* a body without a usable name or trackId
    NoRow,         \* there is no row in playlists for this id
    RawLimit,      \* limit and offset parameters clients send
    MaxId,         \* bound: playlists at a time
    MaxPosition    \* bound: largest position

ASSUME PlaylistAssumption ==
    /\ MaxId \in Nat \ {0} /\ MaxPosition \in Nat
    /\ Empty \notin Name \cup Track
    /\ NoRow \notin Name \cup Seq(Track)
    /\ RawLimit \subseteq Int \cup {NotGiven, Unparsable}

Id == 1..MaxId

VARIABLES
    playlists,   \* Id -> name, or NoRow
    entries,     \* Id -> (a set of tracks -> position): rows of playlist_tracks
    tracks,      \* Track -> "none", "live" or "deleted" (deleted_at set)
    job,         \* the request being handled and the repository call that is next
    answer       \* the answer to the last request, until the next one arrives

vars == <<playlists, entries, tracks, job, answer>>

Idle == [op |-> "none", id |-> 0, name |-> Empty, track |-> Empty,
         limit |-> NotGiven, offset |-> NotGiven, call |-> "none"]

NoAnswer == [status |-> "none", id |-> 0, list |-> <<>>, page |-> <<>>]

Init == /\ playlists = [i \in Id |-> NoRow]
        /\ entries = [i \in Id |-> <<>>]
        /\ tracks = [t \in Track |-> "none"]
        /\ job = Idle
        /\ answer = NoAnswer

-----------------------------------------------------------------------------
(* SqlitePlaylistRepository.                                                *)

\* A row of entries with no tracks is the empty function <<>>.
rowExists(i) == i \in Id /\ playlists[i] # NoRow

ids == {i \in Id : playlists[i] # NoRow}

\* INTEGER PRIMARY KEY without AUTOINCREMENT: one more than the largest rowid.
newRowId == IF ids = {} THEN 1 ELSE Max(ids) + 1

\* Mutant: the next position is the number of entries.
nextPosition_Count(e) == Cardinality(DOMAIN e)

\* COALESCE(MAX(position) + 1, 0).
nextPosition(e) == IF DOMAIN e = {} THEN 0 ELSE Max({e[t] : t \in DOMAIN e}) + 1

\* How many entries stand up to t.
rank(e, t) == Cardinality({u \in DOMAIN e : e[u] <= e[t]})

\* ORDER BY position.
ordered(e) == [k \in 1..Cardinality(DOMAIN e) |-> CHOOSE t \in DOMAIN e : rank(e, t) = k]

\* tracks(): whatever deleted_at says.
tracksOf(i) == ordered(entries[i])

insert(e, t, position) == [u \in DOMAIN e \cup {t} |-> IF u = t THEN position ELSE e[u]]

Without(e, t) == [u \in DOMAIN e \ {t} |-> e[u]]

-----------------------------------------------------------------------------
(* The handlers.                                                            *)

Reply(status) == answer' = [NoAnswer EXCEPT !.status = status] /\ job' = Idle

\* playlistDetailJson(): the playlist i with the tracks in list.
Render(status, i, list) ==
    /\ answer' = [NoAnswer EXCEPT !.status = status, !.id = i, !.list = list]
    /\ job' = Idle

Continue(call) == job' = [job EXCEPT !.call = call] /\ UNCHANGED answer

\* Ids clients can put in the path; 0 stands for one that parseId() refuses,
\* MaxId + 1 for one that no playlist has.
Requests ==
    [op : {"list"}, id : {0}, name : {Empty}, track : {Empty}, limit : RawLimit, offset : RawLimit]
    \cup [op : {"get", "delete"}, id : 0..MaxId + 1, name : {Empty}, track : {Empty},
          limit : {NotGiven}, offset : {NotGiven}]
    \cup [op : {"create", "rename"}, id : 0..MaxId, name : Name \cup {Empty}, track : {Empty},
          limit : {NotGiven}, offset : {NotGiven}]
    \cup [op : {"add", "remove"}, id : 0..MaxId + 1, name : {Empty}, track : Track \cup {Empty},
          limit : {NotGiven}, offset : {NotGiven}]

\* parseId(), parseJsonBody() and the checks of parameters and bodies.
badRequest(r) ==
    \/ r.op = "list" /\ (invalid(r.limit) \/ invalid(r.offset))
    \/ r.op \in {"get", "rename", "delete", "add", "remove"} /\ r.id = 0
    \/ r.op \in {"create", "rename"} /\ r.name = Empty
    \/ r.op \in {"add", "remove"} /\ r.track = Empty

\* The first repository call of each handler.
firstCall(op) == CASE op \in {"get", "add", "remove"} -> "findById"
                   [] OTHER -> op

\* A request reaches its handler.
Handle(r) ==
    /\ job = Idle
    /\ IF badRequest(r)
       THEN Reply("badRequest")
       ELSE /\ job' = [op |-> r.op, id |-> r.id, name |-> r.name, track |-> r.track,
                       limit |-> r.limit, offset |-> r.offset, call |-> firstCall(r.op)]
            /\ answer' = NoAnswer
    /\ UNCHANGED <<playlists, entries, tracks>>

\* list(): ORDER BY id, one page.
List == /\ job.call = "list"
        /\ LET page == pageOf(SetToSortSeq(ids, <), parsePagination(job.limit, job.offset))
           IN  job' = Idle /\ answer' = [NoAnswer EXCEPT !.status = "ok", !.page = page]
        /\ UNCHANGED <<playlists, entries, tracks>>

\* Mutant: adding and removing do not look for the playlist first.
FindById_Unchecked ==
    /\ job.call = "findById"
    /\ IF ~rowExists(job.id) /\ job.op = "get"
       THEN Reply("noPlaylist")
       ELSE Continue(IF job.op \in {"get", "rename"} THEN "tracks" ELSE job.op)
    /\ UNCHANGED <<playlists, entries, tracks>>

\* findById(): get, add and remove check its result; rename does not, since
\* the row it has just updated is there.
FindById ==
    /\ job.call = "findById"
    /\ IF ~rowExists(job.id) /\ job.op # "rename"
       THEN Reply("noPlaylist")
       ELSE Continue(IF job.op \in {"get", "rename"} THEN "tracks" ELSE job.op)
    /\ UNCHANGED <<playlists, entries, tracks>>

\* tracks() and playlistDetailJson(): the end of get and rename.
Tracks ==
    /\ job.call = "tracks" /\ rowExists(job.id)
    /\ Render("ok", job.id, tracksOf(job.id))
    /\ UNCHANGED <<playlists, entries, tracks>>

\* create(), rendered without tracks.
Create ==
    /\ job.call = "create" /\ newRowId \in Id
    /\ playlists' = [playlists EXCEPT ![newRowId] = job.name]
    /\ Render("created", newRowId, <<>>)
    /\ UNCHANGED <<entries, tracks>>

\* rename(): false if no row was changed.
Rename ==
    /\ job.call = "rename"
    /\ IF rowExists(job.id)
       THEN /\ playlists' = [playlists EXCEPT ![job.id] = job.name]
            /\ Continue("findById")
       ELSE Reply("noPlaylist") /\ UNCHANGED playlists
    /\ UNCHANGED <<entries, tracks>>

\* remove(), with the entries it takes along by ON DELETE CASCADE.
Delete ==
    /\ job.call = "delete"
    /\ IF rowExists(job.id)
       THEN /\ playlists' = [playlists EXCEPT ![job.id] = NoRow]
            /\ entries' = [entries EXCEPT ![job.id] = <<>>]
            /\ Reply("noContent")
       ELSE Reply("noPlaylist") /\ UNCHANGED <<playlists, entries>>
    /\ UNCHANGED <<tracks>>

\* Mutant: a track that is already there is inserted again, at the end.
AddTrack_Replace ==
    /\ job.call = "add"
    /\ IF ~rowExists(job.id) \/ tracks[job.track] = "none"
       THEN Reply("noTrack") /\ UNCHANGED entries
       ELSE /\ nextPosition(entries[job.id]) <= MaxPosition
            /\ entries' = [entries EXCEPT ![job.id] = insert(@, job.track, nextPosition(@))]
            /\ Reply("noContent")
    /\ UNCHANGED <<playlists, tracks>>

\* addTrack(): a soft-deleted track exists; a member stays where it is.
AddTrack ==
    /\ job.call = "add"
    /\ IF ~rowExists(job.id) \/ tracks[job.track] = "none"
       THEN Reply("noTrack") /\ UNCHANGED entries
       ELSE /\ IF job.track \in DOMAIN entries[job.id]
               THEN UNCHANGED entries
               ELSE /\ nextPosition(entries[job.id]) <= MaxPosition
                    /\ entries' = [entries EXCEPT ![job.id] = insert(@, job.track, nextPosition(@))]
            /\ Reply("noContent")
    /\ UNCHANGED <<playlists, tracks>>

\* removeTrack(): the other positions stay as they are.
RemoveTrack ==
    /\ job.call = "remove"
    /\ IF rowExists(job.id) /\ job.track \in DOMAIN entries[job.id]
       THEN /\ entries' = [entries EXCEPT ![job.id] = Without(@, job.track)]
            /\ Reply("noContent")
       ELSE Reply("noTrack") /\ UNCHANGED entries
    /\ UNCHANGED <<playlists, tracks>>

\* The server is killed and started again; SQLite keeps what was committed.
Crash == /\ job # Idle /\ job' = Idle
         /\ UNCHANGED <<playlists, entries, tracks, answer>>

-----------------------------------------------------------------------------
(* The scan process, as far as it concerns playlists.                       *)

\* upsert(): the row is inserted, or revived with its id.
Upsert(t) == /\ tracks[t] # "live"
             /\ tracks' = [tracks EXCEPT ![t] = "live"]
             /\ UNCHANGED <<playlists, entries, job, answer>>

\* softDelete(): deleted_at is set.
SoftDelete(t) ==
    /\ tracks[t] = "live"
    /\ tracks' = [tracks EXCEPT ![t] = "deleted"]
    /\ UNCHANGED <<playlists, entries, job, answer>>

Next == \/ \E r \in Requests : Handle(r)
        \/ List \/ FindById \/ Tracks \/ Create \/ Rename \/ Delete
        \/ AddTrack \/ RemoveTrack \/ Crash
        \/ \E t \in Track : Upsert(t) \/ SoftDelete(t)

Spec == Init /\ [][Next]_vars

-----------------------------------------------------------------------------
(* Properties.                                                              *)

TypeOK ==
    /\ playlists \in [Id -> Name \cup {NoRow}]
    /\ \A i \in Id : /\ DOMAIN entries[i] \subseteq Track
                     /\ \A t \in DOMAIN entries[i] : entries[i][t] \in 0..MaxPosition
    /\ tracks \in [Track -> {"none", "live", "deleted"}]
    /\ job.call \in {"none", "list", "findById", "tracks", "create", "rename", "delete",
                     "add", "remove"}
    /\ job.op \in {"get", "rename", "delete", "add", "remove"} => job.id \in 1..MaxId + 1

\* addTrack() takes a position above all others although removeTrack() leaves
\* gaps (SqlitePlaylistRepository.cpp:135, 170): no two entries of a playlist
\* share one, so ORDER BY position (:101) has one result.
PositionsDistinct ==
    \A i \in Id : \A s, t \in DOMAIN entries[i] : s # t => entries[i][s] # entries[i][t]

\* Every entry belongs to a playlist that exists and refers to a track row
\* that exists (0001_init.sql:62).  Ids of deleted playlists are given out
\* again, so an entry left behind would turn up in somebody else's playlist.
EntriesRefer ==
    \A i \in Id : \A t \in DOMAIN entries[i] : playlists[i] # NoRow /\ tracks[t] # "none"

\* When the rename handler dereferences what findById() returned
\* (Api.cpp:491-495), the playlist is there.
RenderedExists == job.call = "tracks" => rowExists(job.id)

\* The two playlist tables agree with each other, with tracks and with what
\* the handler at work has already looked up, between any two statements of
\* the server and the scanner.
PlaylistsSound == TypeOK /\ PositionsDistinct /\ EntriesRefer /\ RenderedExists

\* 404 names what is missing (Api.cpp:524-533, 545-556): PLAYLIST_NOT_FOUND
\* only if there is no such playlist, TRACK_NOT_FOUND only if the playlist is
\* there and the track cannot be added to it or is not in it.
NotFoundIsTrue ==
    [][answer' # answer =>
          /\ answer'.status = "noPlaylist" => ~rowExists(job.id)
          /\ answer'.status = "noTrack" =>
                rowExists(job.id) /\ job.track \notin DOMAIN entries[job.id]]_vars

Lists == INSTANCE PlaylistLists WITH
            NoList <- NoRow,
            lists <- [i \in Id |-> IF playlists[i] = NoRow THEN NoRow ELSE tracksOf(i)],
            shown <- [id |-> answer.id, list |-> answer.list]

\* Positions with gaps, cascades and reused ids implement plain lists in
\* insertion order, and a rendered playlist shows its list.
ImplementsLists == Lists!Spec
=============================================================================
