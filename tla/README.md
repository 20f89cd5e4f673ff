# MusicBox: a TLA+ verification project

MusicBox is a self-hosted music server written in C++ (`server/`), with a sync
client (`sync-client/`), a shared model library (`shared/`), an iOS client
(`client-ios/`) and deployment scripts (`deployment/`, `scripts/`). This
directory holds TLA+ models of its core, the TLC runs that check them on small
instances, and TLAPS proofs for every size. All paths below are relative to
the repository root.

## 1. Inventory

| part | state | operations | interacts with |
|---|---|---|---|
| `net/Buffer` | `storage_`, `readOffset_` | `append`, `consume`, `readableView` | `TcpConnection`'s two directions |
| `net/TcpConnection` | outbound buffer, streaming body, `closeAfterFlush_`, `error_` | `readInto`, `queueWrite`, `setStreamingBody`, `flushOutbound` | socket; pulls from a `ResponseBody` |
| `net/EventLoop` | `connections_` by descriptor, `running_` | `listen`, `run`, `stop` | poller, connections, two callbacks |
| pollers (`epoll`, `kqueue`, `select`) | interest per descriptor | `add`, `modify`, `remove`, `wait` | kernel |
| `runServer` (`main.cpp`) | `parsers`, keyed by the connection's address | `onReadable`, `onClosed`, `writeHttpResponse` | loop, parser, router |
| `http/HttpRequestParser` | buffer, state, header and body counters | `feed`, `next` | `onReadable` |
| `http/Router`, `api/` | route table | `dispatch`, the handlers | repositories |
| `http/Range`, `streaming/FileStreamSource` | window `cursor_`, `remaining_` | `parseRange`, `openRange`, `read` | stream handler; pulled by the connection |
| `library/LibraryScanner`, `runScan` | paths seen, configured roots | `scan`, `processFile`, `detectDeletions`, `retireUnconfiguredRoots` | file system, repositories |
| repositories (`db/`) | SQLite tables `tracks`, `library_roots`, `artists`, `albums`, `playlists` | `upsert`, `softDelete`, `retire`, queries | scan process and server process share the file |
| migrations | `schema_migrations` | `applyMigrations` | every repository on construction |
| `net/ThreadPool` | queue, workers, stop flag | `enqueue`, destructor | tests only |
| sync client | local and server manifests | scan, diff, upload; `push`, `verify`, `status`, `list` | HTTP (server side not implemented) |
| iOS client | playback queue, search text, settings | `PlaybackController`, view models | HTTP |
| scripts | files, units, a boot-mode file | installation, boot mode | systemd |

What is hard, and not reached by unit tests:

* the loop thread handles a batch of events that describe the past: sockets may
  have been reset, closed or reused meanwhile; sends are partial; three kernel
  interfaces report the same thing differently; any uncaught exception ends the
  process and systemd starts it again;
* a file is truncated, extended or replaced between the `fstat()` that decided
  the `Content-Length` and the last `pread()`;
* a scan reads a file three times (stat, hash, tags) while it changes, can be
  killed between any two SQLite transactions, and two scans can overlap;
* 64-bit arithmetic on what a client writes in a `Range` header;
* `recv()` cuts requests anywhere, and limits are applied to unfinished lines;
* the server reads an answer together from several SQLite connections while a
  scan writes, processes migrate one database at the same time, and playlist
  ids and positions outlive the rows they were computed from;
* the clients meet servers that answer early, die or never answer, files that
  change while they are sent, and Tasks that run after the user has moved on.

`PROJECT.json` lists these at the lines where they bite, with the properties
that would catch them.

## 2. Modules

| module | models |
|---|---|
| `BufferOps` | the buffer's operations on a record `[storage, readOffset]` |
| `Buffer` | a buffer used in any order; `ByteQueue` is its abstract specification |
| `ThreadPool` | submission, workers, condition variable, destructor |
| `Reactor` | event loop, pollers, connections, callbacks, with clients and kernel as environment; uses `BufferOps` for the outbound buffers |
| `ReactorProperties` | types and properties of `Reactor`; the mapping to `HttpExchange` |
| `HttpExchange` | abstract specification: a client sends one request and receives one response, front to back |
| `HttpParser` | `HttpRequestParser`: states, limits, errors, input in pieces; and the reference, a parser that has the whole stream |
| `Router` | route registration and dispatch, with the server's own table |
| `TrackStream` | the stream handler, `parseRange`, the file window, a file that changes |
| `LibraryScan` | the scan process, the track and root repositories, the file system |
| `Catalogue` | `extract()`, `upsert()` and `softDelete()`, statement by statement, on artists, albums and tracks |
| `CatalogueApi` | the read endpoints over those tables; extends `Catalogue`, so both interleave |
| `Paging` | `limit`, `offset` and integer parameters, shared by the list endpoints |
| `Playlists` | the playlist endpoints and repository, beside a scanner; `PlaylistLists` is the abstract specification |
| `Migrations` | opening the database, WAL, write transactions, `applyMigrations()` in several processes |
| `HttpClient` | one HTTP exchange of the sync client, system call by system call |
| `SyncPush` | the sync client's commands, differ and uploads |
| `Playback`, `SearchView` | `PlaybackController` and `SearchViewModel` of the iOS client |
| `MCNet`, `MCHttpParser`, `MCRouter`, `MCHttp`, `MCReactor`, `MCTrackStream`, `MCLibraryScan`, `MCPlaylists`, `MCCatalogueApi`, `MCClients` | instances for TLC |
| `BufferLemmas`, `Net_proofs`, `Http_proofs`, `Reactor_proofs`, `LibraryScan_proofs`, `Playlists_proofs`, `Database_proofs`, `Clients_proofs` | proofs: `Net_proofs` of `Buffer` and `ThreadPool`, `Http_proofs` of `TrackStream`, `HttpParser` and `Router`, `Database_proofs` of `Migrations`, `Catalogue` and `CatalogueApi`, `Clients_proofs` of `HttpClient`, `SyncPush`, `Playback` and `SearchView`, the others of the module they are named after |

Definitions named `X_Y`, each marked "Mutant", are plausible bugs of `X`: with
one of them in the place of `X` a property fails, which shows that the property
is about that piece of code. They are not part of any specification.

`MCNet` (`Buffer`, `ThreadPool`), `MCHttp` (`HttpParser`, `Router`) and
`MCClients` (`HttpClient`, `SyncPush`, `Playback`, `SearchView`) check
components that share no state side by side. A variable `part` says which one a
behaviour is about; the others stay as they were constructed. No property
relates two of them, so this checks each component exactly as a run of its own
would.

### Reactor

One action is one iteration of the `for (event : events)` body of
`EventLoop::run()`, with everything it calls: `Accept` (the whole `accept()`
loop), `CloseEvent` (the event makes the loop close, or is stale),
`ReadEvent` (`readInto`, `onReadable` with `feed`, `next`, dispatch and
`writeHttpResponse`, the opportunistic flush, the flush for a writable event,
the tail), `WriteEvent`. `Wait` is `Poller::wait()`: it returns all ready
events, or any 256 of them (`MaxEvents`). Between any two of these, clients
connect, send, read, half-close and reset.

* A request is a sequence of tokens: a part that leaves the request incomplete,
  the part that completes a `stream`, `json` or `head` request, or a part that
  makes the parser fail. `next` returns what `HttpRequestParser::next()` tells
  the callback and what it leaves in its buffer; its inner states are left out.
* A response is a sequence of units `<<n, i>>`, the i-th unit of the n-th
  response on its connection, so that bytes of different responses, and of the
  same response at different places, are told apart.
* The kernel's side of a socket is a record: input not yet read, whether the
  peer has finished or reset, how much is sent and not yet read (at most
  `SendRoom`), and whether the peer may have lost the tail because the server
  closed with unread input. `EventFor` gives what each back end reports.
* Descriptors and heap addresses are reused as soon as they are free.
* `Terminate` is an exception nobody catches (accept out of descriptors,
  `epoll_ctl`, a repository, `pread`): every socket closes; `Start` is the
  restart. `Stop` and `Return` are an orderly `stop()`.
* The streamed file has a fixed length here; what happens when it changes is
  the subject of `TrackStream`.

### TrackStream

`Respond` is the handler from `openFileStreamSource` to the returned response,
`Refuse` its early returns, `Pull` one `FileRangeResponseBody::read()` with
short reads, `PullFails` a failing `pread()`, which ends the process.
`FileChanges` may happen at any time. A header is what `parseRange` can tell
apart; numbers are compared with the 64-bit limit, which `Uint64Max` scales.
`Selected` is the reference: the set of bytes RFC 7233 assigns to a header.

### LibraryScan

Every repository call is one SQLite transaction, hence one action; every read
of the file system is one too. A file is a version number: an edit gives a
path a version it never had before, which stands for size, modification time
in milliseconds and content. (So an edit that keeps the size and falls in the
same millisecond is outside the model; the pre-check cannot see it, as its
comment says.) The fields `gone` and `quiet` of a process are history, read by
properties only. `EndRoot` includes `markScanned()`, whose timestamp only the
API reports. Artist and album rows are written in the same transaction as the
track and are not represented.

### ThreadPool

What happens under the mutex is one step; `wait()` gives the mutex up and starts
waiting in one step; notifications are steps of their own, after the unlock.
Workers may wake for no reason, a task may submit more tasks, also after
`stopping_` was set. The destructor is `Stop`, `notify_all`, `Joined`. The pool
is used by its tests only; its contract is what is checked here.

### HttpParser

A byte is a symbol, and the first symbol of a line says what the line is. Each
turn of `next()`'s loop is a step (`RequestLine`, `HeaderLine`, `EndOfHeaders`,
`Body`), and `feed()` brings any number of the bytes that are left. The
reference, `parseWhole`, has the whole stream and knows no buffer: each `turn`
of it takes a line at an offset, or the blank line and the body, and it looks
up in the list of header lines what the parser keeps in counters. A
`Content-Length` that is no number has no symbol of its own: like one above the
limit it is refused at the blank line, and only if it is the last. What a line
with a good or bad syntax looks like in characters is left out; where it ends
and how long it is, is not.

### Router

A path is what stands between its slashes. `addRoute()` is a step for each
route, since it may throw; `dispatch()` is the loop over the routes with its two
passes for `HEAD`. The table is the one `registerApiRoutes()` builds. The
reference counts the words of a path off its slashes (`WordsOf`) and asks which
patterns can spell them (`spells`), in no order.

### Catalogue, CatalogueApi, Paging

One step is one statement of SQLite. `upsert()` holds the write lock from
`BEGIN IMMEDIATE` to `COMMIT` and may be killed in between; readers see what is
committed. A response that lists tracks reads the row, the artist and the album
of each in separate statements, on separate connections. A client may walk
through all pages of `/tracks` while scans write. A text is a sequence of
characters, since `LIKE` and the collation look into it; no row is ever
removed, so an id is an index. `ORDER BY` is stated by what it gives: the
sequence of the rows in which each stands behind those that come before it.

### Playlists

The server handles one request at a time; each repository call of a handler is
a transaction and a step, between which the scanner inserts, soft-deletes and
revives tracks and the server may be killed. Ids are what SQLite gives: the
largest plus one, so the id of a deleted last playlist is given out again.
`PlaylistLists` knows no positions, no ids of rows and no cascades: only lists
that clients create, append to, take from, delete and look at.

### Migrations

A process opens its connections one after the other, each of which switches the
database to WAL, reads the version, and for each migration takes the write
lock, looks at the version again, executes, records and commits. Processes of
older and newer builds start together; a kill rolls the open transaction back.
Opening fails at once if another process holds the lock it takes, also on a
database that is in WAL mode, where SQLite has one for recovering and for
removing the log (`lockedFor`).

### HttpClient, SyncPush

`HttpClient` counts bytes in units and has a step for each system call; the peer
reads, answers at any time, closes with unread input (a reset) or dies, and the
file grows or shrinks while it is sent. `SyncPush` takes from it what a request
can come to: done, refused, or done with the answer lost. A command looks at a
file at a time while files are edited; time is in seconds, as in the manifest.
Size and time of a file are read in one step, where the code makes two calls
(`LocalScanner.cpp:92`, `:98`); an edit between them would make a command that
is not `quiet`, about which the properties say nothing.
The server's side of sync does not exist yet; it is modelled as `docs/api.md`
proposes it and marked external.

### Playback, SearchView

Both run on the main actor, so a step is a method, or what lies between two
awaits. The Task that an end-of-item notification starts runs any time later.
A cancelled search may still be answered.

## 3. Runs

| run | result | checks |
|---|---|---|
| `net` | pass | `BufferSound`, `RefinesFifo`, `PoolSafe`, `EveryTaskRuns`, `DestructorReturns` |
| `reactor` | pass | `TypeOK`, `Bookkeeping`, `ImplementsExchange` |
| `reactor_live` | pass | `ResponseIntact`, `StreamMemoryBounded`, `EveryRequestServed`, `LeaversReleased` |
| `reactor_one_response` | violation | `OneResponse` |
| `track_stream` | pass | `WindowSound`, `ShortOnlyIfTruncated`, `ResponseEnds` |
| `scan_solo` | pass | `TypeOK`, `RetiredHidden`, `CleanScanSyncs`, `DeletedOnlyIfGone` |
| `scan_overlap` | pass | `StampSound` |
| `playlists` | pass | `PlaylistsSound`, `NotFoundIsTrue`, `ImplementsLists` |
| `catalogue` | pass | `RowsSound`, `AnswersSound`, `WalkIsComplete` |
| `migrations` | pass | `SchemaSound`, `StartupEnds` |
| `http` | pass | `ParsesLikeWhole`, `NothingMissed`, `BufferBounded`, `DispatchesByTable` |
| `clients` | pass | `CallSafe`, `CallEnds`, `SyncSafe`, `NoNeedlessUpload`, `PlaybackSafe`, `EndIsHandled`, `SearchSafe`, `LoadingEnds` |

Properties that end in `Sound` or `Safe`, and `Bookkeeping`,
`ParsesLikeWhole` and `DispatchesByTable`, are conjunctions of named parts, each
with its own comment in the module.

What they show:

* `net`: a `Buffer` is a byte FIFO however appends and consumes follow each
  other, and slack never makes it much larger than twice its contents. In a
  pool no wakeup is lost, each task runs once, and the destructor returns with
  nothing undone although tasks submit tasks while it waits.
* `reactor`: three clients share two descriptors and two addresses, so both are
  reused; one sends its request in parts, one a second request, one something
  malformed. What a client
  that waits for its answer receives is a prefix of exactly its response,
  whatever the others do, and the loop's maps stay consistent throughout.
* `reactor_live`: a longer response, in more refills and partial sends, is
  neither lost, repeated nor reordered, and at most three chunks of it are in
  memory. No wakeup is lost: a client that sends its request and keeps
  reading gets all of the response; a client that leaves is released.
* `track_stream`: all headers over numbers on both sides of the limit, all file
  sizes from 0 up, with the file changing at every point.
* `scan_solo`: every history of configurations, edits, removals, unmounts and
  kills of one scan at a time. A killed scan leaves nothing visible under a
  retired root, and the next undisturbed scan repairs whatever was left.
* `scan_overlap`: a row whose stamp matches the file describes the file, also
  with two scans at once, kills and I/O errors.
* `playlists`: positions with gaps, cascades and reused ids amount to plain
  lists; a 404 names what is missing although the handler looked before the
  scan's last transaction.
* `catalogue`: two scans that meet the same artist or album make one row of it,
  also without an album artist, where the schema's `UNIQUE` does not apply; no
  answer mixes two versions of a file's tags; a walk through the pages misses
  no track as long as none is deleted.
* `migrations`: each migration is applied once and wholly, whoever starts
  together and is killed; everybody gets to work, with every migration it knows
  recorded, or gives up with an error. A build older than the schema does get
  to work: nothing in the code asks for versions it does not know.
* `http`: requests mean the same however they are cut, apart from the case
  listed below; the router's order of registration decides nothing.
* `clients`: an upload that reports success has been read to its end by the
  server, provided that the server says ok to nothing less, which the peer of
  `HttpClient` never does: on the client's side this comes down to the test for
  2xx (`UploadTransport.cpp:24`). An exchange ends unless the file shrank under
  it. `verify` is exact, and a push leaves behind only what size and second
  cannot tell apart. Whatever is edited and however late the Task of an item's
  end runs, the player holds the track of the current row, and an end while the
  app shows playing is followed by sound or by the app showing that it stopped.
  The last search typed is the one shown.

### Where the code and its documentation differ

`OneResponse` is the one that a run shows. A comment in `server/src/main.cpp:177`
(and ADR 0009) says that a pipelined request is never read. Read interest stays
on while a response drains, so a second request that arrives then is parsed and
answered: its bytes are queued in the middle of the first one's streamed body,
and if it is a stream too its body replaces what is left of the first.
`ResponseIntact` and `ImplementsExchange` are therefore stated for clients that
wait for their answer.

The models follow the code in the following cases too; the properties are
stated so that they hold, with the exception visible in their text or in the
instance.

* `TcpConnection.hpp:43` promises at most one chunk of a file in memory; the
  refill loop can hold two chunks less one byte (`StreamMemoryBounded`).
* `docs/database.md:140`: tracks are soft-deleted when the file is gone. A walk
  that fails (`LibraryScanner.cpp:90`) is logged, and deletions are computed
  from what it saw (`scan_solo` runs without I/O errors for this reason).
* A playlist shows soft-deleted tracks (`SqlitePlaylistRepository.cpp:96`),
  which are a 404 elsewhere (`Api.cpp:259`).
* Playlist ids are reused (`0001_init.sql:56` has no `AUTOINCREMENT`, which
  `Ids.hpp:22` mentions).
* The sync client sends without `MSG_NOSIGNAL` (`HttpClient.cpp:43`), so a
  server that closes early can end it by `SIGPIPE`, where
  `UploadTransport.cpp:21` speaks of an ordinary failure.
* An error of the directory iterator ends the walk (`LocalScanner.cpp:57`)
  where the comment two lines below says "keep scanning".
* A file edited to the same size in the second of its upload counts as
  unchanged (`ManifestDiffer.cpp:56`, `blind` in `SyncPush`).
* `PRAGMA journal_mode=WAL` comes before `busy_timeout`
  (`SqliteConnection.cpp:38`), so a process that starts beside another may end
  instead of waiting (`MigrationRunner.cpp:107`): on a new database when the
  other switches it to WAL, later when the other recovers or removes the log
  (`OpenLocked`).
* A request line of exactly the limit, cut between CR and LF, is refused
  (`HttpRequestParser.cpp:136`, `AtTheLimit`); whole it is accepted.
* `%` and `_` in a search term are wildcards (`SqliteTrackRepository.cpp:107`);
  `SearchIsSubstring` is about terms that have none (`Literal`), and the instance
  has a term with `_` as well.
* With a header limit of 0 a blank line would be refused if it is cut between CR
  and LF, and accepted if not; `ParserAssumption` leaves that limit out, which
  no program sets.
* Removing the playing row goes on with another row of the same track
  (`PlaybackController.swift:209`), where the comment says that it stops.
* The current row is found again by its track. With a track queued twice a move
  of any row, too, can make the other one current
  (`PlaybackController.swift:198`): what sounds is the same, what comes next is
  not. `PlayerHasCurrent` compares tracks and sees neither case.
* A Task of an item's end that runs after the user has skipped skips once more;
  with repeat one it restarts the player although the user has paused
  meanwhile, and there is sound while `isPlaying` is false
  (`PlaybackController.swift:281-288`). Both happen in the model, and no
  property forbids them.

### Bounds

* `net`: pieces of up to 3 bytes, up to 3 + 3 readable; compaction, reset,
  and append at every cursor position occur. Three workers, two clients, five
  tasks of which one submits two: more than one worker sleeps, and more than one
  notification is on its way.
* `reactor*`: a chunk is 2 units, a file 3 to 5 (several pulls, the last one
  short), the send buffer smaller than a response (every response needs several
  sends). Three clients on two descriptors, so at least one is reused and
  `accept()` can run out. At most one exit of the process (`MaxExits`): a
  second one meets the same states. Descriptors and addresses are symmetric;
  clients are not, their scripts differ. The liveness run uses no symmetry.
* `track_stream`: the limit is 7, sizes 0..5, numbers 0..9, a chunk 2.
* `scan_solo`: two roots with one path, two versions, one kill.
  `scan_overlap`: two scans, one root, one path, three versions, one kill: the
  two reads of one scan, and the write of the other, can see different ones.
* `playlists`: three tracks and positions up to 3, so that gaps arise in front,
  inside and at the end; two ids, so that one is reused while the other lives.
* `catalogue`: two scans, two files, three tag sets that share an artist and an
  album, one without album artist, three transactions; pages of one row.
* `migrations`: three processes, three migrations of two statements, builds of
  every version.
* `http`: limits of 2, 7, 2 and 2 (request line, header bytes, headers, body),
  streams at and over each of them, of up to two requests; paths of up to four
  segments under six methods.
* `clients`: files up to 5 units against a limit of 4, a window of 2 and chunks
  of 2; two files, three versions and two seconds; queues of three rows from
  two tracks, so that a track is queued twice; four edits of the search field.

`CHECK_DEADLOCK FALSE` stands where the system may come to rest: all clients
served, the pool destroyed, all processes at work, a bound on edits reached.

### Fairness

* `Reactor!FairSpec`: the loop thread keeps running (`WF(Loop)`: the loop calls
  `wait()` again after every batch, and handles every event of a batch), and a
  client connects, sends what it has and reads. Nothing is assumed about
  clients that leave. `TrackStream!FairSpec`: the handler runs and the loop
  keeps pulling; `reactor_live` is the reason.
* `ThreadPool`: threads are scheduled and tasks end. Nobody has to submit, to
  destroy the pool or to wake for no reason.
* `Migrations`: a process runs; waiting for a lock ends with the lock or with
  the busy timeout, both part of `Run`. Nobody has to start or be killed.
* `HttpClient`: both programs run. Neither has a timeout, which is why
  `CallEnds` excepts a file that shrank: client and server then wait for each
  other.
* `Playback`, `SearchView`: the main actor runs its Tasks, sleeps end and a
  request is answered, fails or times out (URLSession does).

## 4. Proofs

Every safety property and action property of the runs, except those named at the
end of this section, is a theorem for every value of the constants. The
assumptions are the named ones in the modules; TLC evaluates each of them in a
run:

* sizes, limits and bounds are natural numbers, and a chunk, a window, a send
  buffer or a page is not empty (`SizesAssumption`, `HighWaterAssumption`,
  `PiecesAssumption`, `BoundsAssumption`, `ClientAssumption`, `PushAssumption`,
  `PagingAssumption`, `ApiAssumption`, `MigrationAssumption`,
  `ParserAssumption`);
* a value that stands for "none" is not one of the values it stands beside
  (`NoneAssumption`, `ClientsAssumption`, `ScanAssumption`,
  `CatalogueAssumption`, `PlaylistAssumption`, `PlaybackAssumption`,
  `SearchAssumption`, `ParserAssumption`), as null pointers, empty optionals and NULL are not;
* the streams fed to the parser are sequences (`ParserAssumption`), and so are
  scripts, lists, tables of tasks, the texts and terms of a search over
  characters that fold to a character (`ApiAssumption`), and tables of routes, of
  which no pattern names two parameters alike (`RouterAssumption`);
* a pool has a worker (`PoolAssumption`; its constructor also takes 0, and such
  a pool runs nothing), and a task is named after the call of `enqueue()` that
  makes it, so that no two calls make the same one (`OneCallPerTask`).

Every proof has the same shape: an inductive invariant (which TLC checked
first, where it can evaluate it), one lemma for each action (and for each conjunct of the invariant where
the action is long), the theorem from those. What the invariants add to the
properties, and why, is the interesting part:

* `Net_proofs`. `BufferSafe` (`BufferSound`): the cursor is inside the storage,
  and the storage within `2 * HighWater + PieceMax`. `BufferIsFifo`: `Buffer`
  implements `ByteQueue`; each operation maps to the queue's, with
  `readableView` as the mapping. `BufferLemmas` states what `append` and
  `consume` do to the view, once, for this and for `Reactor_proofs`.
  `ThreadPoolSafe` (`PoolSafe`): `PoolIInv` places every task: not yet
  submitted, queued once, or run by one worker, and when the last worker leaves
  the queue is empty. No wakeup is lost because a thread between its unlock and
  its `notify_one()` counts like a worker that is awake.
* `Reactor_proofs`. `ReactorTypes` and `ReactorBookkeeping` (`Bookkeeping`).
  The inductive invariant adds to its five parts that every outbound cursor is
  inside its storage (else `append` and `consume` have no meaning), that a send
  buffer is never overfull (else the room is negative), and that a batch has at
  most one event per descriptor: this is why a stale event can only find an
  empty descriptor or the connection it was about. That last fact rests on
  `accept()` being one event of the batch like the others, and on merged
  readiness. `ReactorDelivers` (`ResponseIntact`) and `ReactorBounded`
  (`StreamMemoryBounded`) add `Intact`: sent units, outbound buffer and what
  the body will still give make up the first response, in the middle of a flush
  too. `ReactorImplementsExchange` (`ImplementsExchange`) adds `Quiet`: a
  client that waits sends nothing after its request, the parser of such a
  connection has decided nothing before the request is whole, and an event
  tells the truth about it. Each iteration of the loop then is one step of
  `HttpExchange` (`Serves`, `Drops`, `Leaves`) or none. This proof found a flaw
  in the mapping: the arms of a `CASE` in `Stage` were not exclusive, so TLC saw
  one of the values it may have. `Stage` is a nested `IF` now.
* `Http_proofs`. `StreamSafe` (`WindowSound`) and `StreamWhole`
  (`ShortOnlyIfTruncated`). The invariant adds that sent and remaining make up
  the declared length while the body is not at its end. `StreamSafe` includes
  that `parseRange` agrees with the reference `Selected` for every header and
  file size, and that `length()` never wraps. `ParserBuffersLittle`
  (`BufferBounded`) adds that the length a body is waited for has passed
  `finishHeaders()`. `ParserReadsInOrder` says that what the parser holds is
  always the end of what it was fed, however the stream is cut.
  `ParsesAnyCut` (`ParsesLikeWhole`) and `NothingIsMissed` (`NothingMissed`):
  `ParsedIInv` says that the parser always stands where the reference stands
  after some turn k (`Matches`): at the same offset of the stream, with the same
  requests, and with counters that say what the header lines so far say; only
  in the body it is two bytes ahead. The lemmas behind it: a line that is
  complete in the buffer is the stream's next line (`LineOfBeginning`), and one
  that is not ends behind the buffer or with its last CR (`NoLineInBeginning`,
  the reason for `AtTheLimit`); each turn of the reference takes something
  (`TurnsTyped`), so that it has stopped when `parseWhole` reads its result.
  `RequestsAreDispatched` (`DispatchesByTable`), for any table and any request:
  `splitPath` gives the words of a path (`SplitPathIsWordsOf`, by induction over
  the path), a route that matches spells the path with what it captured, and
  the server's 17 routes differ pairwise where they could compete
  (`ApiRoutesDiffer`), so that the order of registration decides nothing.
* `LibraryScan_proofs`. `ScanTypes`, and `ScanStampSound` (`StampSound`), for
  any number of overlapping scans, roots, paths, edits and kills. It is not inductive: one
  has to say of a scan in the middle of a file that what it has read since the
  stat is the file, if the file still is what it was, and that no path ever
  gets a version back. `ScanDeletesOnlyIfGone` (`DeletedOnlyIfGone`), also for
  overlapping scans: what a scan has walked and not seen is excused
  (`Excused`) by the history of the file or of the root. It assumes
  `~IoErrors`, and needs it: a file whose type cannot be told is passed without
  being seen, and an error of the iterator ends the walk early, after which the
  code computes deletions all the same. `ScanRetiredHidden` (`RetiredHidden`)
  and `ScanSyncs` (`CleanScanSyncs`) hold under `[]Alone`, that is, without
  overlapping scans: two that overlap can write a row under a root the other
  has just retired. The invariants say what each phase of a scan has achieved
  (`Walked`, `Cleared`, `Achieved`) whatever earlier, killed scans left.
* `Playlists_proofs`. `PlaylistsAreSound` (`PlaylistsSound`) adds what a
  handler remembers of the tables between two repository calls (`JobSound`):
  the scanner's transactions leave it true. `NotFoundAlwaysTrue`
  (`NotFoundIsTrue`) follows. `PlaylistsAreLists` (`ImplementsLists`): the
  lemmas on `rank` and `ordered` say that a row put at the largest position plus
  one is appended to the list, that a row taken out leaves the others in their
  order, and that gaps are not seen.
* `Database_proofs`, on the three uses of SQLite. `MigrationsSound`
  (`SchemaSound`): `MigrationIInv` says that versions are recorded without a
  gap, that one process holds the write lock, and that its open transaction is
  a prefix of exactly the next migration. `RowsAreSound` (`RowsSound`):
  `CatalogueIInv` says that the tables as an open transaction sees them are
  sound as well, and that the ids `upsert()` has found so far still are those of
  its artists and albums when it writes the track. `AnswersAreSound`
  (`AnswersSound`) and `WalksAreComplete` (`WalkIsComplete`): `ApiIInv` adds that
  the tables of a transaction only extend the committed ones and leave the rows
  of artists and albums as they
  are, which is why an answer read in several `SELECT`s is not torn. That a search
  finds what contains the term is a lemma on `LIKE` (`LikeIsContains`), by
  induction over the pattern: between two `%`, a pattern without wildcards can
  only end where the term does. For the
  walk it adds that the k-th track got is the k-th one shown, and that a place
  is kept as long as nothing is deleted or comes back, since new rows have the
  largest ids.
* `Clients_proofs`. `CallIsSafe` (`CallSafe`): what has arrived and what is
  under way is not more than was sent, and the server says ok only to a request
  it has read to the end. `SyncIsSafe` (`SyncSafe`) and `UploadsAreNeeded` (`NoNeedlessUpload`) say what the manifest, the difference
  and the list of uploads know about each path in each phase of a command.
  `PlaybackIsSafe` (`PlaybackSafe`, inductive as it stands, with lemmas on
  inserting into and removing from a permutation) and `SearchIsSafe`
  (`SearchSafe`: every Task but the last is cancelled).

Induction. The library's induction theorems cannot be used, since they take an
operator as a parameter. Where a proof needs an induction it says
which numbers have the property and shows that this set has 0 and with n also
n + 1 (`SetInduction`, from the well-foundedness of `<`). A recursive function
is shown to exist first, as a table that is extended by one entry at a time
(`TurnsExist`, `LikeIsTable`), and then satisfies its equation.

Only model-checked:

* liveness (`EveryRequestServed`, `LeaversReleased`, `ResponseEnds`,
  `EveryTaskRuns`, `DestructorReturns`, `StartupEnds`, `CallEnds`,
  `EndIsHandled`, `LoadingEnds`), which is out of the prover's reach;
* `OneResponse`, which is violated.

## 5. Not modelled, and the plan

Next, in this order:

1. `HttpParser` in the place of `next` in `Reactor`. The composition is
   sequential and its interface is narrow (`ParsesLikeWhole` says what `next`
   assumes), but its state space is the product of the two.
2. The boot-mode script.

Left out: reading configuration files, SHA-256, percent-decoding and the
characters of JSON (pure functions with unit tests and no state); the iOS views
and the view models that load one list each; the installation scripts; the
bodies of TagLib and SQLite calls, which appear as what they return.
