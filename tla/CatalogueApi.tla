---------------------------- MODULE CatalogueApi -----------------------------
(***************************************************************************)
(* The read endpoints for artists, albums, tracks, search and status       *)
(* (server/src/api/Api.cpp, JsonSerialization.cpp) over the artist, album  *)
(* and track repositories, while a scan writes the same database.          *)
(*                                                                         *)
(* The server handles one request at a time.  Each repository call is one  *)
(* SELECT on a connection of its own and sees what is committed when it    *)
(* runs; the scan commits in between.  One step is one SELECT.             *)
(***************************************************************************)
EXTENDS Catalogue, Paging

CONSTANTS
    Terms,        \* search terms clients send; NoTag: the parameter is not there
    RawId,        \* ids clients send in paths: integers, or Unparsable
    RawFilter,    \* artistId and albumId parameters
    RawLimit,     \* limit and offset parameters
    Rank,         \* text -> its place in the order of COLLATE NOCASE
    Fold,         \* character -> its lower case
    SearchLimit,  \* kSearchLimit, 20 in the code
    PageSize,     \* the limit a client uses that walks through all tracks
    MaxPages      \* bound: pages it asks for

Text == Seq(DOMAIN Fold)

\* A client that walks asks for no more than a page may have.
ASSUME ApiAssumption ==
    /\ \A p \in Path : Stem[p] \in Text
    /\ \A raw \in RawTags : /\ {raw.title, raw.artist, raw.album} \subseteq Text
                             /\ raw.albumArtist \in Text \cup {NoTag}
    /\ Terms \subseteq Text \cup {NoTag}
    /\ RawLimit \subseteq Int \cup {NotGiven, Unparsable} /\ RawId \subseteq Int \cup {Unparsable}
    /\ SearchLimit \in Nat /\ PageSize \in 1..MaxLimit /\ MaxPages \in Nat

VARIABLES
    rd,           \* the request being handled
    resp,         \* the response just sent, until anything else happens
    walk          \* a client that asks for all tracks, page by page

avars == <<db, job, lock, writes, rd, resp, walk>>

NoRequest == [kind |-> "none"]
NoResponse == [status |-> "none", out |-> <<>>]
NoWalk == [on |-> FALSE, offset |-> 0, got |-> <<>>, from |-> 0, disturbed |-> FALSE]

Init == WInit /\ rd = NoRequest /\ resp = NoResponse /\ walk = NoWalk

-----------------------------------------------------------------------------
(* The SELECTs.                                                             *)

AnyText == "%"
AnyCharacter == "_"

\* text LIKE pattern, case being folded: where the text may end that the first j
\* characters of the pattern match.
like(text, pattern) ==
    LET ends[j \in 0..Len(pattern)] ==
            IF j = 0 THEN {0}
            ELSE IF pattern[j] = AnyText THEN {i \in 0..Len(text) : \E e \in ends[j - 1] : e <= i}
            ELSE {i \in 1..Len(text) :
                     /\ i - 1 \in ends[j - 1]
                     /\ pattern[j] = AnyCharacter \/ Fold[pattern[j]] = Fold[text[i]]}
    IN  Len(text) \in ends[Len(pattern)]

\* "%" + search + "%".
pattern(term) == <<AnyText>> \o term \o <<AnyText>>

\* (? IS NULL OR text LIKE ?): without a term everything matches.
matchesTerm(text, term) == term = NoTag \/ like(text, pattern(term))

\* (? IS NULL OR id = ?): NULL is equal to nothing.
matchesId(id, wanted) == wanted = NotGiven \/ (id # 0 /\ id = wanted)

\* kTrackFilterWhere, with the LEFT JOINs: a NULL name matches no term.
trackFilter(d, row, q) ==
    /\ ~row.deleted
    /\ matchesId(row.artist, q.artistId) /\ matchesId(row.album, q.albumId)
    /\ \/ matchesTerm(row.title, q.search)
       \/ row.artist # 0 /\ matchesTerm(d.artists[row.artist], q.search)
       \/ row.album # 0 /\ matchesTerm(d.albums[row.album].title, q.search)

trackIds(d, q) == {i \in DOMAIN d.tracks : trackFilter(d, d.tracks[i], q)}
albumIds(d, q) == {i \in DOMAIN d.albums : /\ matchesId(d.albums[i].artist, q.artistId)
                                           /\ matchesTerm(d.albums[i].title, q.search)}
artistIds(d, q) == {i \in DOMAIN d.artists : matchesTerm(d.artists[i], q.search)}

\* ORDER BY: rows with equal keys come in any order.
sequences(ids, key) ==
    {s \in [1..Cardinality(ids) -> ids] :
        /\ \A i, j \in DOMAIN s : s[i] = s[j] => i = j
        /\ \A i, j \in DOMAIN s : i < j => key[s[i]] <= key[s[j]]}

\* Mutant: ORDER BY t.id DESC, the newest first.
listTracks_ByNewest(d, q) ==
    LET newest == [i \in DOMAIN d.tracks |-> -i]
    IN  {[k \in DOMAIN s |-> [kind |-> "track", id |-> s[k], row |-> d.tracks[s[k]]]] :
            s \in {pageOf(t, q.page) : t \in sequences(trackIds(d, q), newest)}}

\* The rows list() may return: ids and what stands in them, ORDER BY t.id or by name.
listTracks(d, q) ==
    LET itself == [i \in DOMAIN d.tracks |-> i]
    IN  {[k \in DOMAIN s |-> [kind |-> "track", id |-> s[k], row |-> d.tracks[s[k]]]] :
            s \in {pageOf(t, q.page) : t \in sequences(trackIds(d, q), itself)}}
listAlbums(d, q) ==
    LET title == [i \in DOMAIN d.albums |-> Rank[d.albums[i].title]]
    IN  {[k \in DOMAIN s |-> [kind |-> "album", id |-> s[k], row |-> d.albums[s[k]]]] :
            s \in {pageOf(t, q.page) : t \in sequences(albumIds(d, q), title)}}
listArtists(d, q) ==
    LET name == [i \in DOMAIN d.artists |-> Rank[d.artists[i]]]
    IN  {[k \in DOMAIN s |-> [kind |-> "artist", id |-> s[k], name |-> d.artists[s[k]]]] :
            s \in {pageOf(t, q.page) : t \in sequences(artistIds(d, q), name)}}

\* count(): the same filter, without a page.
countTracks(d, q) == Cardinality(trackIds(d, q))

-----------------------------------------------------------------------------
(* Receiving a request.                                                     *)

Query(page, term, artistId, albumId) ==
    [page |-> page, search |-> term, artistId |-> artistId, albumId |-> albumId]

AllTracks == Query(parsePagination(NotGiven, NotGiven), NoTag, NotGiven, NotGiven)

\* A handler starts: the repository calls it makes, in order.
Handle(kind, calls, q, id) ==
    /\ rd' = [kind |-> kind, calls |-> calls, q |-> q, id |-> id, items |-> <<>>,
              artist |-> NoTag, out |-> <<>>]
    /\ resp' = NoResponse

\* A handler returns without having started.
Answer(status, out) == rd' = NoRequest /\ resp' = [status |-> status, out |-> out]

\* GET .../{id}: parseId() refuses what is not a positive integer.
getById(kind, raw) ==
    /\ rd = NoRequest
    /\ IF raw = Unparsable \/ raw <= 0 THEN Answer(400, <<>>)
       ELSE Handle(kind, <<kind>>, AllTracks, raw)
    /\ UNCHANGED <<wvars, walk>>

\* An empty search parameter is none.
searchOf(term) == IF term = <<>> THEN NoTag ELSE term

\* GET of a list: parsePagination(), queryInt() and the search parameter.
getList(kind, limit, offset, term, artistId, albumId) ==
    /\ rd = NoRequest
    /\ IF \E raw \in {limit, offset, artistId, albumId} : invalid(raw)
       THEN Answer(400, <<>>)
       ELSE Handle(kind, <<kind>>,
                   Query(parsePagination(limit, offset), searchOf(term), artistId, albumId), 0)
    /\ UNCHANGED <<wvars, walk>>

\* GET /search: nothing is asked of the repositories for an empty term.
getSearch(term) ==
    /\ rd = NoRequest
    /\ IF term \in {NoTag, <<>>} THEN Answer(200, <<>>)
       ELSE Handle("search", <<"artists", "albums", "tracks">>,
                   Query([limit |-> SearchLimit, offset |-> 0], term, NotGiven, NotGiven), 0)
    /\ UNCHANGED <<wvars, walk>>

\* GET /status; the number of library roots is left out.
getStatus ==
    /\ rd = NoRequest /\ Handle("status", <<"count">>, AllTracks, 0)
    /\ UNCHANGED <<wvars, walk>>

\* A client asks for the next page of all tracks.
getPage ==
    /\ rd = NoRequest /\ (walk.on \/ walk = NoWalk)
    /\ walk.offset < MaxPages * PageSize
    /\ Handle("page", <<"tracks">>,
              Query(parsePagination(PageSize, walk.offset), NoTag, NotGiven, NotGiven), 0)
    /\ walk' = IF walk.on THEN walk ELSE [NoWalk EXCEPT !.on = TRUE, !.from = Len(db.tracks)]
    /\ UNCHANGED wvars

-----------------------------------------------------------------------------
(* Handling it.                                                             *)

NextCall == rd # NoRequest /\ rd.items = <<>> /\ rd.calls # <<>>

Found(items) == rd' = [rd EXCEPT !.calls = Tail(@), !.items = items] /\ resp' = resp

\* findById() of a track: a row with deleted_at set is not found either.
findTrack ==
    /\ NextCall /\ Head(rd.calls) \in {"track", "artwork"}
    /\ IF rd.id \in DOMAIN db.tracks /\ ~db.tracks[rd.id].deleted /\ Head(rd.calls) = "track"
       THEN Found(<<[kind |-> "track", id |-> rd.id, row |-> db.tracks[rd.id]]>>)
       ELSE Answer(404, <<>>)
    /\ UNCHANGED <<wvars, walk>>

\* findById() of an album or an artist.
findOther ==
    /\ NextCall
    /\ \/ /\ Head(rd.calls) = "album"
          /\ IF rd.id \in DOMAIN db.albums
             THEN Found(<<[kind |-> "album", id |-> rd.id, row |-> db.albums[rd.id]]>>)
             ELSE Answer(404, <<>>)
       \/ /\ Head(rd.calls) = "artist"
          /\ IF rd.id \in DOMAIN db.artists
             THEN Answer(200, <<[kind |-> "artist", id |-> rd.id, name |-> db.artists[rd.id]]>>)
             ELSE Answer(404, <<>>)
    /\ UNCHANGED <<wvars, walk>>

\* list() of tracks or albums, whose rows need more calls, or of artists.
listRows ==
    /\ NextCall
    /\ \/ Head(rd.calls) = "tracks" /\ \E rows \in listTracks(db, rd.q) : Found(rows)
       \/ Head(rd.calls) = "albums" /\ \E rows \in listAlbums(db, rd.q) : Found(rows)
       \/ /\ Head(rd.calls) = "artists"
          /\ \E rows \in listArtists(db, rd.q) :
                rd' = [rd EXCEPT !.calls = Tail(@), !.out = @ \o rows]
          /\ resp' = resp
    /\ UNCHANGED <<wvars, walk>>

countRows ==
    /\ NextCall /\ Head(rd.calls) = "count"
    /\ Answer(200, <<[kind |-> "count", count |-> countTracks(db, rd.q)]>>)
    /\ UNCHANGED <<wvars, walk>>

\* The name behind an artist id of a row read earlier; NoTag if it is not there.
artistName(id) == IF id \in DOMAIN db.artists THEN db.artists[id] ELSE NoTag

\* trackJson() and albumJson(), first call: artistRepo.findById().
renderArtist ==
    /\ rd # NoRequest /\ rd.items # <<>> /\ rd.artist = NoTag
    /\ rd' = [rd EXCEPT !.artist = <<artistName(Head(rd.items).row.artist)>>]
    /\ UNCHANGED <<wvars, resp, walk>>

Rendered(item, json) == rd' = [rd EXCEPT !.items = Tail(@), !.artist = NoTag,
                                         !.out = Append(@, json)]

\* trackJson(), second call: albumRepo.findById().
trackJson ==
    /\ rd # NoRequest /\ rd.items # <<>> /\ rd.artist # NoTag
    /\ LET item == Head(rd.items)
       IN  /\ item.kind = "track"
           /\ Rendered(item,
                [kind |-> "track", id |-> item.id, title |-> item.row.title,
                 artist |-> rd.artist[1],
                 album |-> IF item.row.album \in DOMAIN db.albums
                           THEN db.albums[item.row.album].title ELSE NoTag,
                 raw |-> item.row.raw])
    /\ UNCHANGED <<wvars, resp, walk>>

\* albumJson(), second call: trackRepo.count().
albumJson ==
    /\ rd # NoRequest /\ rd.items # <<>> /\ rd.artist # NoTag
    /\ LET item == Head(rd.items)
       IN  /\ item.kind = "album"
           /\ Rendered(item,
                [kind |-> "album", id |-> item.id, title |-> item.row.title,
                 artist |-> rd.artist[1],
                 trackCount |-> countTracks(db, [AllTracks EXCEPT !.albumId = item.id])])
    /\ UNCHANGED <<wvars, resp, walk>>

\* The handler returns; the client of the walk goes on until a page is short.
Return ==
    /\ rd # NoRequest /\ rd.items = <<>> /\ rd.calls = <<>>
    /\ Answer(200, rd.out)
    /\ walk' = IF rd.kind # "page" THEN walk
               ELSE [walk EXCEPT !.got = @ \o [k \in DOMAIN rd.out |-> rd.out[k].id],
                                 !.offset = @ + PageSize,
                                 !.on = Len(rd.out) = PageSize]
    /\ UNCHANGED wvars

\* A walk that is over is looked at and forgotten.
WalkEnds == /\ rd = NoRequest /\ ~walk.on /\ walk # NoWalk
            /\ walk' = NoWalk /\ UNCHANGED <<wvars, rd, resp>>

\* The scan writes; a walk is disturbed when a track vanishes or comes back.
Scan ==
    /\ WNext /\ rd' = rd /\ resp' = NoResponse
    /\ walk' = [walk EXCEPT !.disturbed = @ \/ \E i \in DOMAIN db.tracks :
                                  db'.tracks[i].deleted # db.tracks[i].deleted]

\* The server keeps nothing from one request to the next, so what others ask
\* during a walk is left out.
Receive ==
    \/ /\ walk = NoWalk
       /\ \/ \E kind \in {"track", "artwork", "album", "artist"}, raw \in RawId : getById(kind, raw)
          \/ \E kind \in {"tracks", "albums", "artists"}, limit, offset \in RawLimit,
                term \in Terms, artistId, albumId \in RawFilter :
                   /\ kind = "artists" => artistId = NotGiven
                   /\ kind # "tracks" => albumId = NotGiven
                   /\ getList(kind, limit, offset, term, artistId, albumId)
          \/ \E term \in Terms : getSearch(term)
          \/ getStatus
    \/ getPage

Next == \/ Receive
        \/ findTrack \/ findOther \/ listRows \/ countRows
        \/ renderArtist \/ trackJson \/ albumJson \/ Return
        \/ WalkEnds \/ Scan

Spec == Init /\ [][Next]_avars

-----------------------------------------------------------------------------

\* Case-insensitive substring.
HasText(text, term) ==
    \E k \in 0..Len(text) - Len(term) :
        \A i \in DOMAIN term : Fold[text[k + i]] = Fold[term[i]]

\* What trackJson() says of a track is what one version of its file said,
\* although its row, its artist and its album are read at three moments between
\* which the scan may commit; "Unknown Artist" (here NoTag) is only ever said
\* of a file without one, and an album is never shown without the artist it has
\* (JsonSerialization.cpp:44-60, 84-89).
NoTornAnswer ==
    \A k \in DOMAIN resp.out :
        LET j == resp.out[k] IN
        /\ j.kind = "track" => j.artist = ArtistOf(j.raw) /\ j.album = nonEmpty(j.raw.album)
        /\ j.kind = "album" =>
               LET row == db.albums[j.id]
               IN  IF row.artist = 0 THEN j.artist = NoTag
                   ELSE j.artist = db.artists[row.artist]

\* A term is put into the pattern as it is: of its characters two mean more.
Literal(term) == \A i \in DOMAIN term : term[i] \notin {AnyText, AnyCharacter}

\* A search finds exactly what contains the term in its title, its artist's
\* name or its album's title, letters being compared without case, unless the
\* term has a character that LIKE gives a meaning
\* (SqliteTrackRepository.cpp:107-118, SqliteArtistRepository.cpp:34-51).
SearchIsSubstring ==
    \A term \in {t \in Terms \ {NoTag, <<>>} : Literal(t)} :
        LET q == [AllTracks EXCEPT !.search = term]
        IN  /\ trackIds(db, q) = {i \in DOMAIN db.tracks :
                   LET row == db.tracks[i] IN
                   /\ ~row.deleted
                   /\ \/ HasText(row.title, term)
                      \/ row.artist # 0 /\ HasText(db.artists[row.artist], term)
                      \/ row.album # 0 /\ HasText(db.albums[row.album].title, term)}
            /\ artistIds(db, q) = {i \in DOMAIN db.artists : HasText(db.artists[i], term)}

\* Answers put together from several statements are right and whole.
AnswersSound == NoTornAnswer /\ SearchIsSubstring

\* A client that walks through all tracks while the scan adds some gets each
\* track that was there at the start exactly once, as long as none is deleted
\* or comes back meanwhile: new rows come last (SqliteTrackRepository.cpp:132).
WalkIsComplete ==
    walk # NoWalk /\ ~walk.on /\ ~walk.disturbed =>
        /\ \A i, j \in DOMAIN walk.got : walk.got[i] = walk.got[j] => i = j
        /\ \A i \in 1..walk.from : ~db.tracks[i].deleted => \E k \in DOMAIN walk.got : walk.got[k] = i
=============================================================================
