------------------------------- MODULE Reactor -------------------------------
(***************************************************************************)
(* The running server: EventLoop::run() (server/src/net/EventLoop.cpp) over *)
(* a Poller, the TcpConnections it owns, and the two callbacks runServer()  *)
(* registers (server/src/main.cpp), with the clients and the kernel's       *)
(* sockets as their environment.                                            *)
(*                                                                          *)
(* One action is one iteration of the event loop's for (event : events)     *)
(* body, with every call it makes.  Clients act between any two of them, so *)
(* the state an event describes may be gone when the event is handled.      *)
(***************************************************************************)
EXTENDS BufferOps, FiniteSets

CONSTANTS
    Client,      \* TCP connections ever made; each client connects once
    Fd,          \* descriptors accept() can return
    Addr,        \* heap addresses a TcpConnection can live at
    Listener,    \* the listening descriptor
    None,        \* no connection, no parser, no streaming body
    Chunk,       \* kReadChunkSize, in units of the response
    HeadLen,     \* length of a response head
    JsonLen,     \* length of a buffered (JSON) body
    FileLen,     \* length of a streamed body
    SendRoom,    \* capacity of a kernel send buffer
    RecvMax,     \* most tokens one recv() returns
    MaxEvents,   \* most events one Poller::wait() returns (256)
    MaxExits,    \* bound: how often the process may exit and be restarted
    Script,      \* what each client sends
    Quits        \* clients that may shut down or reset their connection

\* What a client sends, cut into the pieces the parser tells apart: a piece of
\* a request that leaves it incomplete, the piece that completes a request of
\* the given kind, or a piece that makes the parser fail.
Requests == {"stream", "json", "head"}
Tokens   == Requests \cup {"part", "bad"}
Answers  == Requests \cup {"bad"}

Min2(a, b) == IF a <= b THEN a ELSE b
Max2(a, b) == IF a >= b THEN a ELSE b

ASSUME SizesAssumption ==
    /\ Chunk \in Nat \ {0} /\ HeadLen \in Nat \ {0}
    /\ JsonLen \in Nat /\ FileLen \in Nat
    /\ SendRoom \in Nat \ {0} /\ RecvMax \in Nat \ {0}
    /\ MaxEvents \in Nat \ {0} /\ MaxExits \in Nat

ASSUME ClientsAssumption ==
    /\ Script \in [Client -> Seq(Tokens)]
    /\ Quits \subseteq Client
    /\ Listener \notin Fd
    /\ None \notin Client

VARIABLES
    backend,      \* the Poller compiled in: epoll, kqueue or select
    up,           \* the process is inside EventLoop::run()
    running,      \* EventLoop::running_
    exits,        \* how often the process has exited
    connections,  \* EventLoop::connections_: Fd -> TcpConnection or None
    interest,     \* what the Poller watches for each Fd
    batch,        \* events of the last wait() not yet handled
    parsers,      \* runServer()'s map: Addr -> HttpRequestParser or None
    link,         \* the kernel's view of each client's socket
    script,       \* what each client has still to send
    sent,         \* history: the bytes send() accepted, per client
    answered      \* history: the requests answered, per client

serverVars == <<backend, up, running, exits, connections, interest, batch, parsers>>
vars == <<backend, up, running, exits, connections, interest, batch, parsers,
          link, script, sent, answered>>

-----------------------------------------------------------------------------
(* Responses.  The n-th response on a connection is a sequence of units     *)
(* <<n, 1>>, <<n, 2>>, ...: HeadLen of head, then the body.                 *)

BodyLen(r) == CASE r = "stream" -> FileLen
                [] r = "json"   -> JsonLen
                [] r = "bad"    -> JsonLen
                [] r = "head"   -> 0

\* Units from + 1 .. from + count of response n.
Units(n, from, count) == [i \in 1 .. count |-> <<n, from + i>>]

\* All of response n to a request of kind r.
Wire(n, r) == Units(n, 0, HeadLen + BodyLen(r))

-----------------------------------------------------------------------------
(* TcpConnection.  peer is the client at the other end, addr the address    *)
(* the object lives at; inbound_ is empty between events, because onReadable *)
(* consumes all of it, and error_ is not kept, because every handler that   *)
(* sets it closes the connection.                                           *)

NewConnection(c, a) ==
    [peer |-> c, addr |-> a, outbound |-> EmptyBuffer,
     streamingBody |-> None, closeAfterFlush |-> FALSE]

queueWrite(conn, data) == [conn EXCEPT !.outbound = append(@, data)]

setStreamingBody(conn, body) == [conn EXCEPT !.streamingBody = body]

\* Mutant: a streaming body does not count as pending.
hasPendingWrites_BufferOnly(conn) == readableBytes(conn.outbound) > 0

hasPendingWrites(conn) ==
    readableBytes(conn.outbound) > 0 \/ conn.streamingBody # None

\* Mutant: remaining_ is reduced by a whole chunk, whatever was read.
refill_WholeChunks(conn) ==
    IF conn.streamingBody = None \/ readableBytes(conn.outbound) >= Chunk THEN conn
    ELSE LET body   == conn.streamingBody
             n      == Min2(Chunk, body.remaining)
             filled == append(conn.outbound, Units(body.response, body.cursor, n))
         IN  [conn EXCEPT
                !.outbound = filled,
                !.streamingBody =
                    IF readableBytes(filled) < Chunk THEN None
                    ELSE [body EXCEPT !.cursor = @ + Chunk, !.remaining = @ - Chunk]]

\* The refill loop of flushOutbound().  A pull returns a whole chunk, or what
\* is left of the file; in the second case, and if there is still room, the
\* loop goes round once more, pulls nothing and drops the body.
refill(conn) ==
    IF conn.streamingBody = None \/ readableBytes(conn.outbound) >= Chunk THEN conn
    ELSE LET body   == conn.streamingBody
             n      == Min2(Chunk, body.remaining)
             filled == append(conn.outbound, Units(body.response, body.cursor, n))
         IN  [conn EXCEPT
                !.outbound = filled,
                !.streamingBody =
                    IF readableBytes(filled) < Chunk THEN None
                    ELSE [body EXCEPT !.cursor = @ + n, !.remaining = @ - n]]

\* Mutant: one send() is taken to drain the buffer.
flushOutbound_AssumesDrained(conn, room) ==
    LET full == refill(conn)
        n    == Min2(readableBytes(full.outbound), room)
    IN  [conn |-> [full EXCEPT !.outbound = EmptyBuffer],
         sent |-> SubSeq(readableView(full.outbound), 1, n)]

\* flushOutbound() on a socket that accepts room more units.
flushOutbound(conn, room) ==
    LET full == refill(conn)
        n    == Min2(readableBytes(full.outbound), room)
    IN  [conn |-> [full EXCEPT !.outbound = consume(@, n)],
         sent |-> SubSeq(readableView(full.outbound), 1, n)]

flushIf(needed, conn, room) ==
    IF needed /\ hasPendingWrites(conn) THEN flushOutbound(conn, room)
                                        ELSE [conn |-> conn, sent |-> <<>>]

-----------------------------------------------------------------------------
(* The HTTP layer above the loop.                                           *)

\* HttpRequestParser::next() on the buffered tokens.  A malformed request is
\* normally left in the buffer; only a bad header section is dropped.
Decisive(buf) == {i \in 1 .. Len(buf) : buf[i] \in Answers}

First(buf) == {i \in Decisive(buf) : \A k \in Decisive(buf) : i <= k}

next(buf) ==
    IF Decisive(buf) = {}
    THEN {[status |-> "NeedMoreData", request |-> "bad", rest |-> buf]}
    ELSE UNION {LET rest == SubSeq(buf, i + 1, Len(buf)) IN
                IF buf[i] = "bad"
                THEN {[status |-> "Error", request |-> "bad", rest |-> buf],
                      [status |-> "Error", request |-> "bad", rest |-> rest]}
                ELSE {[status |-> "Complete", request |-> buf[i], rest |-> rest]} :
                i \in First(buf)}

\* writeHttpResponse() for the n-th response: head, then nothing (HEAD), a
\* streaming body or a buffered one; then closeAfterFlush().
writeHttpResponse(conn, n, r) ==
    LET headed == queueWrite(conn, Units(n, 0, HeadLen))
        bodied == CASE r = "head"   -> headed
                    [] r = "stream" -> setStreamingBody(headed,
                           [response |-> n, cursor |-> HeadLen, remaining |-> FileLen])
                    [] OTHER        -> queueWrite(headed, Units(n, HeadLen, BodyLen(r)))
    IN  [bodied EXCEPT !.closeAfterFlush = TRUE]

-----------------------------------------------------------------------------
(* The kernel.                                                              *)

NewLink == [state |-> "idle", rx |-> <<>>, fin |-> FALSE, rst |-> FALSE,
            unread |-> 0, lost |-> FALSE]

\* close() on the server's side.  Closing with unread input resets the
\* connection, and the client may lose what it has not read yet.
Closed(l, lost) == [l EXCEPT !.state = "closed", !.rx = <<>>,
                             !.lost = lost, !.unread = IF lost THEN 0 ELSE @]

Losses(l) == IF l.rx = <<>> THEN {FALSE} ELSE BOOLEAN

\* What a Poller reports of one connection.  Read interest is always on.
\* epoll reports a reset as an error and a hangup; kqueue reports end of file
\* as a hangup; select reports neither.
EventFor(f) ==
    LET l == link[connections[f].peer] IN
    [fd |-> f, peer |-> connections[f].peer,
     readable |-> l.rx # <<>> \/ l.fin \/ l.rst,
     writable |-> interest[f] = "readwrite" /\ (l.unread < SendRoom \/ l.rst),
     error    |-> backend = "epoll" /\ l.rst,
     hangup   |-> \/ backend = "epoll" /\ l.rst
                  \/ backend = "kqueue" /\ (l.fin \/ l.rst)]

ListenerEvent == [fd |-> Listener, peer |-> None, readable |-> TRUE,
                  writable |-> FALSE, error |-> FALSE, hangup |-> FALSE]

Backlog == {c \in Client : link[c].state = "backlog"}

Watched == {f \in Fd : interest[f] # "none" /\ connections[f] # None}

\* One event per ready descriptor, read and write readiness merged.
Ready == {e \in {EventFor(f) : f \in Watched} : e.readable \/ e.writable}
         \cup (IF Backlog = {} THEN {} ELSE {ListenerEvent})

-----------------------------------------------------------------------------
(* EventLoop.                                                               *)

\* Mutant: onClosed_ does not erase the parser.
closeConnection_KeepsParser(f) ==
    /\ interest' = [interest EXCEPT ![f] = "none"]
    /\ parsers' = parsers
    /\ connections' = [connections EXCEPT ![f] = None]

\* EventLoop's part of closing the connection at f: poller remove, onClosed_
\* (which erases the parser), erase (whose destructor closes the socket).
closeConnection(f) ==
    LET conn == connections[f] IN
    /\ interest' = [interest EXCEPT ![f] = "none"]
    /\ parsers' = [parsers EXCEPT ![conn.addr] = None]
    /\ connections' = [connections EXCEPT ![f] = None]

\* Poller::wait() returns some ready events, all of them unless there are more
\* than it has room for.
Wait == /\ up /\ running /\ batch = {} /\ Ready # {}
        /\ \E events \in SUBSET Ready :
              /\ Cardinality(events) = Min2(MaxEvents, Cardinality(Ready))
              /\ batch' = events
        /\ UNCHANGED <<backend, up, running, exits, connections, interest, parsers,
                       link, script, sent, answered>>

\* acceptNewConnections(): accept() until it would block.  Descriptors and
\* addresses of closed connections are reused.
Accept(e) ==
    /\ up /\ e \in batch /\ e.fd = Listener
    /\ batch' = batch \ {e}
    /\ \E place \in [Backlog -> {f \in Fd : connections[f] = None} \X
                                {a \in Addr : \A f \in Fd : connections[f] # None =>
                                                   connections[f].addr # a}] :
          /\ \A c, d \in Backlog : c # d => /\ place[c][1] # place[d][1]
                                            /\ place[c][2] # place[d][2]
          /\ connections' = [f \in Fd |->
                IF \E c \in Backlog : place[c][1] = f
                THEN LET c == CHOOSE d \in Backlog : place[d][1] = f
                     IN  NewConnection(c, place[c][2])
                ELSE connections[f]]
          /\ interest' = [f \in Fd |-> IF \E c \in Backlog : place[c][1] = f
                                       THEN "read" ELSE interest[f]]
    /\ link' = [c \in Client |-> IF c \in Backlog THEN [link[c] EXCEPT !.state = "open"]
                                                  ELSE link[c]]
    /\ UNCHANGED <<backend, up, running, exits, parsers, script, sent, answered>>

\* What one recv() would return.
Recv(l) == IF l.rst THEN "error" ELSE IF l.rx # <<>> THEN "data"
           ELSE IF l.fin THEN "eof" ELSE "again"

\* Mutant: end of file is taken for "nothing to read now".
mustClose_IgnoresEof(e, l) ==
    \/ e.error
    \/ (e.readable \/ e.hangup) /\ Recv(l) = "error"

\* The loop's shouldClose before anything is written: an error event, end of
\* file, a failed recv(), or nothing to read on a hung-up socket.
mustClose(e, l) ==
    \/ e.error
    \/ /\ e.readable \/ e.hangup
       /\ \/ Recv(l) \in {"eof", "error"}
          \/ Recv(l) = "again" /\ e.hangup

\* Everything is flushed and the connection was to close then.
isDone(conn) == conn.closeAfterFlush /\ ~hasPendingWrites(conn)

\* Mutant: write interest is never asked for.
interestFor_ReadOnly(conn) == "read"

\* The interest the loop registers after an event.
interestFor(conn) == IF hasPendingWrites(conn) THEN "readwrite" ELSE "read"

\* The tail of the loop body: conn is what became of the connection at f,
\* parser of its parser, bytes was sent and rx is left to read.
Settle(f, conn, parser, bytes, rx) ==
    LET c == conn.peer
        l == [link[c] EXCEPT !.rx = rx, !.unread = @ + Len(bytes)]
    IN  /\ sent' = [sent EXCEPT ![c] = @ \o bytes]
        /\ IF isDone(conn)
           THEN /\ closeConnection(f)
                /\ \E lost \in Losses(l) : link' = [link EXCEPT ![c] = Closed(l, lost)]
           ELSE /\ connections' = [connections EXCEPT ![f] = conn]
                /\ interest' = [interest EXCEPT ![f] = interestFor(conn)]
                /\ parsers' = [parsers EXCEPT ![conn.addr] = parser]
                /\ link' = [link EXCEPT ![c] = l]

\* An event that makes the loop close the connection without serving it, or
\* that finds no connection at its descriptor and is skipped.
CloseEvent(e) ==
    /\ up /\ e \in batch /\ e.fd # Listener
    /\ IF connections[e.fd] = None
       THEN UNCHANGED <<connections, interest, parsers, link>>
       ELSE LET c == connections[e.fd].peer IN
            /\ mustClose(e, link[c])
            /\ closeConnection(e.fd)
            /\ \E lost \in Losses(link[c]) :
                  link' = [link EXCEPT ![c] = Closed(link[c], lost)]
    /\ batch' = batch \ {e}
    /\ UNCHANGED <<backend, up, running, exits, script, sent, answered>>

\* An event with input: readInto(), the onReadable callback (feed, one next(),
\* at most one response), an opportunistic flush, a second one if the event
\* also says writable, and the tail.
ReadEvent(e) ==
    /\ up /\ e \in batch /\ e.fd # Listener /\ connections[e.fd] # None
    /\ LET conn == connections[e.fd]
           c    == conn.peer
           l    == link[c]
           n    == Min2(RecvMax, Len(l.rx))
           old  == IF parsers[conn.addr] = None THEN [owner |-> c, buf |-> <<>>]
                                                ELSE parsers[conn.addr]
           room == SendRoom - l.unread
       IN  /\ ~mustClose(e, l)
           /\ (e.readable \/ e.hangup) /\ Recv(l) = "data"
           /\ \E result \in next(old.buf \o SubSeq(l.rx, 1, n)) :
                LET more  == result.status # "NeedMoreData"
                    wrote == IF more
                             THEN writeHttpResponse(conn, Len(answered[c]) + 1, result.request)
                             ELSE conn
                IN
                \E first \in {flushIf(TRUE, wrote, room)} :
                \E again \in {flushIf(e.writable, first.conn, room - Len(first.sent))} :
                    /\ answered' = IF more
                                   THEN [answered EXCEPT ![c] = Append(@, result.request)]
                                   ELSE answered
                    /\ Settle(e.fd, again.conn, [old EXCEPT !.buf = result.rest],
                              first.sent \o again.sent,
                              SubSeq(l.rx, n + 1, Len(l.rx)))
    /\ batch' = batch \ {e}
    /\ UNCHANGED <<backend, up, running, exits, script>>

\* An event with nothing to read: flush if it says writable.  send() on a reset
\* connection fails, and the loop closes it.
WriteEvent(e) ==
    /\ up /\ e \in batch /\ e.fd # Listener /\ connections[e.fd] # None
    /\ LET conn  == connections[e.fd]
           c     == conn.peer
           l     == link[c]
       IN  /\ ~mustClose(e, l)
           /\ ~((e.readable \/ e.hangup) /\ Recv(l) = "data")
           /\ IF l.rst /\ e.writable /\ hasPendingWrites(conn)
              THEN /\ closeConnection(e.fd)
                   /\ link' = [link EXCEPT ![c] = Closed(l, TRUE)]
                   /\ UNCHANGED sent
              ELSE \E flush \in {flushIf(e.writable, conn, SendRoom - l.unread)} :
                      Settle(e.fd, flush.conn, parsers[conn.addr], flush.sent, l.rx)
    /\ batch' = batch \ {e}
    /\ UNCHANGED <<backend, up, running, exits, script, answered>>

HandleEvent == \E e \in batch : \/ Accept(e) \/ CloseEvent(e)
                                \/ ReadEvent(e) \/ WriteEvent(e)

\* The process is gone: the kernel closes every socket, memory is lost.
ProcessEnds ==
    /\ up' = FALSE /\ running' = FALSE /\ exits' = exits + 1
    /\ batch' = {}
    /\ connections' = [f \in Fd |-> None]
    /\ interest' = [f \in Fd |-> "none"]
    /\ parsers' = [a \in Addr |-> None]
    /\ link' = [c \in Client |->
          CASE link[c].state = "open"    -> Closed(link[c], link[c].rx # <<>>)
            [] link[c].state = "backlog" -> Closed(link[c], TRUE)
            [] OTHER                     -> link[c]]
    /\ UNCHANGED <<backend, script, sent, answered>>

\* A callback calls EventLoop::stop(); run() returns after the batch.
Stop == /\ up /\ running /\ batch # {} /\ exits < MaxExits
        /\ running' = FALSE
        /\ UNCHANGED <<backend, up, exits, connections, interest, batch, parsers,
                       link, script, sent, answered>>

Return == up /\ ~running /\ batch = {} /\ ProcessEnds

\* Something the loop calls throws (accept() out of descriptors, a repository,
\* pread(), epoll_ctl): nothing catches it and the process terminates.
Terminate == up /\ batch # {} /\ exits < MaxExits /\ ProcessEnds

\* runServer(): callbacks registered, listen(), run().  systemd restarts it.
Start == /\ ~up
         /\ up' = TRUE /\ running' = TRUE
         /\ UNCHANGED <<backend, exits, connections, interest, batch, parsers,
                        link, script, sent, answered>>

-----------------------------------------------------------------------------
(* Clients.                                                                 *)

Connect(c) ==
    /\ up /\ link[c].state = "idle"
    /\ link' = [link EXCEPT ![c].state = "backlog"]
    /\ UNCHANGED <<serverVars, script, sent, answered>>

Alive(l) == l.state \in {"backlog", "open"} /\ ~l.rst

Send(c) ==
    /\ Alive(link[c]) /\ ~link[c].fin /\ script[c] # <<>>
    /\ link' = [link EXCEPT ![c].rx = Append(@, Head(script[c]))]
    /\ script' = [script EXCEPT ![c] = Tail(@)]
    /\ UNCHANGED <<serverVars, sent, answered>>

\* The client reads one unit of what has been sent to it.
Receive(c) ==
    /\ link[c].unread > 0
    /\ link' = [link EXCEPT ![c].unread = @ - 1]
    /\ UNCHANGED <<serverVars, script, sent, answered>>

\* The client sends nothing more but still reads.
HalfClose(c) ==
    /\ c \in Quits /\ Alive(link[c]) /\ ~link[c].fin
    /\ link' = [link EXCEPT ![c].fin = TRUE]
    /\ UNCHANGED <<serverVars, script, sent, answered>>

Reset(c) ==
    /\ c \in Quits /\ Alive(link[c])
    /\ link' = [link EXCEPT ![c].rst = TRUE, ![c].rx = <<>>, ![c].unread = 0]
    /\ UNCHANGED <<serverVars, script, sent, answered>>

-----------------------------------------------------------------------------

Init == /\ backend \in {"epoll", "kqueue", "select"}
        /\ up = FALSE /\ running = FALSE /\ exits = 0
        /\ connections = [f \in Fd |-> None]
        /\ interest = [f \in Fd |-> "none"]
        /\ batch = {}
        /\ parsers = [a \in Addr |-> None]
        /\ link = [c \in Client |-> NewLink]
        /\ script = Script
        /\ sent = [c \in Client |-> <<>>]
        /\ answered = [c \in Client |-> <<>>]

Loop == Start \/ Wait \/ HandleEvent \/ Return

Next == \/ Loop \/ Stop \/ Terminate
        \/ \E c \in Client : \/ Connect(c) \/ Send(c) \/ Receive(c)
                             \/ HalfClose(c) \/ Reset(c)

Spec == Init /\ [][Next]_vars

\* The loop thread keeps running; clients connect, send their script and read.
FairSpec == /\ Spec
            /\ WF_vars(Loop)
            /\ \A c \in Client : /\ WF_vars(Connect(c)) /\ WF_vars(Send(c))
                                 /\ WF_vars(Receive(c))
=============================================================================
