----------------------------- MODULE Catalogue -------------------------------
(***************************************************************************)
(* The tables artists, albums and tracks, and who writes them: scans call  *)
(* TagLibMetadataExtractor::extract() (server/src/library/                 *)
(* MetadataExtractor.cpp) and SqliteTrackRepository::upsert() and          *)
(* softDelete() (server/src/db/SqliteTrackRepository.cpp).                 *)
(*                                                                         *)
(* Several scan processes may run.  upsert() is one write transaction, one *)
(* step per statement, and its process may be killed, or a statement may   *)
(* throw, between any two of them.  No row of these tables is ever         *)
(* removed, so an id is an index and the next id is the next index; 0      *)
(* stands for NULL.  A text is a sequence of characters.  Columns that no  *)
(* query looks at are left out.                                            *)
(***************************************************************************)
EXTENDS Integers, Sequences, FiniteSets

CONSTANTS
    Scanner,     \* scan processes
    Path,        \* (library_root_id, relative_path) of the files
    Stem,        \* path -> the file's name without its extension
    RawTags,     \* what files may have in their tags: TagLib's view, see extract
    NoTag,       \* std::nullopt
    MaxWrites    \* bound: transactions ever begun

\* Of the texts only the album artist may be missing.
ASSUME CatalogueAssumption ==
    /\ \A p \in Path : Stem[p] # <<>>
    /\ MaxWrites \in Nat /\ NoTag \notin Scanner
    /\ \A raw \in RawTags : raw.artist # NoTag /\ raw.album # NoTag

VARIABLES
    db,          \* the committed tables
    job,         \* scanner -> where it is in upsert()
    lock,        \* the scanner that has the write lock, or NoTag
    writes       \* transactions begun so far

wvars == <<db, job, lock, writes>>

EmptyDb == [artists |-> <<>>, albums |-> <<>>, tracks |-> <<>>]

Idle == [step |-> "idle"]

WInit == /\ db = EmptyDb /\ job = [s \in Scanner |-> Idle]
         /\ lock = NoTag /\ writes = 0

-----------------------------------------------------------------------------
(* extract().  TagLib gives an absent title, artist or album as an empty    *)
(* text; the property map has no ALBUMARTIST, or has one, possibly empty.   *)

nonEmpty(text) == IF text = <<>> THEN NoTag ELSE text

\* firstStringProperty(): an empty property is none.
firstStringProperty(value) == IF value = NoTag THEN NoTag ELSE nonEmpty(value)

extract(p, raw) ==
    [title       |-> IF raw.title = <<>> THEN Stem[p] ELSE raw.title,
     artist      |-> nonEmpty(raw.artist),
     album       |-> nonEmpty(raw.album),
     albumArtist |-> firstStringProperty(raw.albumArtist)]

-----------------------------------------------------------------------------
(* The statements of upsert(), on the transaction's view of the tables.     *)

IdOf(table, row) == IF \E i \in DOMAIN table : table[i] = row
                    THEN CHOOSE i \in DOMAIN table : table[i] = row ELSE 0

\* Find or create: the table with the row in it.
WithRow(table, row) == IF IdOf(table, row) # 0 THEN table ELSE Append(table, row)

noName(text) == text = NoTag \/ text = <<>>

\* resolveArtist(): the table, and the id.
resolveArtist(artists, name) ==
    IF noName(name) THEN [table |-> artists, id |-> 0]
    ELSE [table |-> WithRow(artists, name), id |-> IdOf(WithRow(artists, name), name)]

\* Mutant: album_artist_id = NULL, which no row satisfies.
resolveAlbum_EqualsNull(albums, title, artist) ==
    LET row == [title |-> title, artist |-> artist]
        grown == IF artist = 0 THEN Append(albums, row) ELSE WithRow(albums, row)
    IN  IF noName(title) THEN [table |-> albums, id |-> 0]
        ELSE [table |-> grown, id |-> IF artist = 0 THEN Len(grown) ELSE IdOf(grown, row)]

\* resolveAlbum(): a missing album artist (IS NULL) is an identity of its own.
resolveAlbum(albums, title, artist) ==
    LET row == [title |-> title, artist |-> artist]
    IN  IF noName(title) THEN [table |-> albums, id |-> 0]
        ELSE [table |-> WithRow(albums, row), id |-> IdOf(WithRow(albums, row), row)]

\* Mutant: the update forgets artist_id.
updated_KeepsArtist(old, new) == [new EXCEPT !.artist = old.artist]

\* ON CONFLICT DO UPDATE: every column is overwritten, deleted_at becomes NULL.
updated(old, new) == new

\* INSERT INTO tracks ... ON CONFLICT(library_root_id, relative_path).
writeTrack(tracks, row) ==
    IF \E i \in DOMAIN tracks : tracks[i].path = row.path
    THEN [i \in DOMAIN tracks |->
             IF tracks[i].path = row.path THEN updated(tracks[i], row) ELSE tracks[i]]
    ELSE Append(tracks, row)

-----------------------------------------------------------------------------

\* BEGIN IMMEDIATE: whoever else wants to write waits.
Begin(s, p, raw) ==
    /\ job[s] = Idle /\ lock = NoTag /\ writes < MaxWrites
    /\ lock' = s /\ writes' = writes + 1
    /\ job' = [job EXCEPT ![s] = [step |-> "artist", path |-> p, raw |-> raw,
                                  data |-> extract(p, raw), tx |-> db,
                                  artist |-> 0, albumArtist |-> 0, album |-> 0]]
    /\ UNCHANGED db

\* resolveArtist(data.artistName).
Artist(s) ==
    /\ job[s].step = "artist"
    /\ LET r == resolveArtist(job[s].tx.artists, job[s].data.artist)
       IN  job' = [job EXCEPT ![s].tx.artists = r.table, ![s].artist = r.id,
                              ![s].step = "albumArtist"]
    /\ UNCHANGED <<db, lock, writes>>

\* The album's artist: its tag if there is one, otherwise the track's artist.
AlbumArtist(s) ==
    /\ job[s].step = "albumArtist"
    /\ LET r == IF job[s].data.albumArtist = NoTag
                THEN [table |-> job[s].tx.artists, id |-> job[s].artist]
                ELSE resolveArtist(job[s].tx.artists, job[s].data.albumArtist)
       IN  job' = [job EXCEPT ![s].tx.artists = r.table, ![s].albumArtist = r.id,
                              ![s].step = "album"]
    /\ UNCHANGED <<db, lock, writes>>

Album(s) ==
    /\ job[s].step = "album"
    /\ LET r == resolveAlbum(job[s].tx.albums, job[s].data.album, job[s].albumArtist)
       IN  job' = [job EXCEPT ![s].tx.albums = r.table, ![s].album = r.id,
                              ![s].step = "track"]
    /\ UNCHANGED <<db, lock, writes>>

\* The row; raw is history: the tags of the file it was written from.
Track(s) ==
    /\ job[s].step = "track"
    /\ LET row == [path |-> job[s].path, title |-> job[s].data.title,
                   artist |-> job[s].artist, album |-> job[s].album,
                   deleted |-> FALSE, raw |-> job[s].raw]
       IN  job' = [job EXCEPT ![s].tx.tracks = writeTrack(@, row), ![s].step = "commit"]
    /\ UNCHANGED <<db, lock, writes>>

\* COMMIT.
Commit(s) ==
    /\ job[s].step = "commit"
    /\ db' = job[s].tx /\ lock' = NoTag /\ job' = [job EXCEPT ![s] = Idle]
    /\ UNCHANGED writes

\* The process is killed, or a statement throws: the transaction is rolled back.
Rollback(s) ==
    /\ job[s] # Idle
    /\ lock' = NoTag /\ job' = [job EXCEPT ![s] = Idle]
    /\ UNCHANGED <<db, writes>>

\* softDelete(): one statement.
softDelete(s, id) ==
    /\ job[s] = Idle /\ lock = NoTag /\ writes < MaxWrites
    /\ ~db.tracks[id].deleted
    /\ db' = [db EXCEPT !.tracks[id].deleted = TRUE] /\ writes' = writes + 1
    /\ UNCHANGED <<job, lock>>

upsert(s) == \/ \E p \in Path, raw \in RawTags : Begin(s, p, raw)
             \/ Artist(s) \/ AlbumArtist(s) \/ Album(s) \/ Track(s) \/ Commit(s)
             \/ Rollback(s)

WNext == \E s \in Scanner :
            \/ upsert(s)
            \/ \E id \in DOMAIN db.tracks : softDelete(s, id)

-----------------------------------------------------------------------------

\* What a file's tags say of its artist, its album and the album's artist.
ArtistOf(raw) == nonEmpty(raw.artist)
AlbumArtistOf(raw) == IF raw.albumArtist \in {NoTag, <<>>} THEN ArtistOf(raw)
                      ELSE raw.albumArtist

\* Types; every reference is to a row that exists (the foreign keys).
WTypeOK ==
    /\ lock \in Scanner \cup {NoTag} /\ writes \in 0..MaxWrites
    /\ \A s \in Scanner : job[s] # Idle => lock = s
    /\ \A i \in DOMAIN db.albums : db.albums[i].artist \in 0..Len(db.artists)
    /\ \A i \in DOMAIN db.tracks : /\ db.tracks[i].path \in Path
                                   /\ db.tracks[i].deleted \in BOOLEAN
                                   /\ db.tracks[i].artist \in 0..Len(db.artists)
                                   /\ db.tracks[i].album \in 0..Len(db.albums)

\* An artist has one row, and so has an album of an artist or of none, whatever
\* files mention it and whichever scans wrote it
\* (SqliteTrackRepository.cpp:44-48: the schema's UNIQUE does not see to it).
OneRowEach ==
    /\ \A i, j \in DOMAIN db.artists : db.artists[i] = db.artists[j] => i = j
    /\ \A i, j \in DOMAIN db.albums : db.albums[i] = db.albums[j] => i = j
    /\ \A i, j \in DOMAIN db.tracks : db.tracks[i].path = db.tracks[j].path => i = j

\* A track's row leads, over its ids, to the artist, the album and the album
\* artist of the file's tags, also after the tags were changed: an empty album
\* artist counts as none, and an album without one belongs to the track's artist
\* (SqliteTrackRepository.cpp:203-209, MetadataExtractor.cpp:42-49).
RowsMatchTags ==
    LET name(id) == IF id = 0 THEN NoTag ELSE db.artists[id]
    IN  \A i \in DOMAIN db.tracks :
            LET row == db.tracks[i] IN
            /\ name(row.artist) = ArtistOf(row.raw)
            /\ (row.album = 0) <=> (row.raw.album = <<>>)
            /\ row.album # 0 => /\ db.albums[row.album].title = row.raw.album
                                /\ name(db.albums[row.album].artist) = AlbumArtistOf(row.raw)
            /\ row.title = IF row.raw.title = <<>> THEN Stem[row.path] ELSE row.raw.title

\* Between any two statements of any scans, killed ones included, the three
\* tables lead to what the files' tags say, without dangling or double rows.
RowsSound == WTypeOK /\ OneRowEach /\ RowsMatchTags
=============================================================================
